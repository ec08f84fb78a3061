------------------------ MODULE ControlBuffer_proofs ------------------------
(***************************************************************************)
(* What the buffer of commands does, for a buffer of any length: a pushed  *)
(* command takes the top exactly when no command there is of a higher      *)
(* order, and otherwise the top stays.                                     *)
(***************************************************************************)
EXTENDS ControlBuffer, Integers, TLAPS, WellFoundedInduction

\* A set of positive numbers that holds the parents of its members but the root
\* holds the root: its least member cannot have a parent.
LEMMA LeastMember ==
  ASSUME NEW S \in SUBSET Nat, S # {}
  PROVE  \E x \in S : \A y \in S : x <= y
<1>1. IsWellFoundedOn(OpToRel(<, Nat), Nat)
  BY NatLessThanWellFounded
<1>2. PICK x \in S : \A y \in S : ~ (<<y, x>> \in OpToRel(<, Nat))
  BY <1>1, WFMin
<1>3. OpToRel(<, Nat) = {ss \in Nat \X Nat : ss[1] < ss[2]}
  BY DEF OpToRel
<1>4. ASSUME NEW y \in S
      PROVE  x <= y
  <2>1. ~ (<<y, x>> \in {ss \in Nat \X Nat : ss[1] < ss[2]})
    BY <1>2, <1>3
  <2> QED
    BY <2>1
<1> QED
  BY <1>4

LEMMA ParentType ==
  ASSUME NEW k \in Nat, k > 1
  PROVE  Parent(k) \in Nat /\ 1 <= Parent(k) /\ Parent(k) < k
BY DEF Parent

\* The path up holds the last place and the parent of each of its places, and it
\* ends at the root: a place other than the last has come from a child.
LEMMA PathUpFacts ==
  ASSUME NEW last \in Nat, last >= 1
  PROVE  /\ PathUp(last) \subseteq 1 .. last
         /\ last \in PathUp(last)
         /\ \A k \in PathUp(last) : k > 1 => Parent(k) \in PathUp(last)
         /\ 1 \in PathUp(last)
         /\ last > 1 => \E k \in PathUp(last) : k > 1 /\ Parent(k) = 1
<1> DEFINE path == PathUp(last)
<1>1. path \subseteq 1 .. last /\ last \in path
  BY DEF PathUp
<1>2. ASSUME NEW k \in path, k > 1
      PROVE  Parent(k) \in path
  <2>1. k \in 1 .. last /\ Parent(k) \in 1 .. last
    BY <1>1, <1>2, ParentType
  <2>2. ASSUME NEW S \in SUBSET (1 .. last),
               last \in S, \A j \in S \ {1} : Parent(j) \in S
        PROVE  Parent(k) \in S
    <3>1. k \in S
      BY <2>2 DEF PathUp
    <3> QED
      BY <2>2, <3>1, <1>2
  <2> QED
    BY <2>1, <2>2 DEF PathUp
<1>3. 1 \in path
  <2>1. PICK m \in path : \A y \in path : m <= y
    BY <1>1, LeastMember
  <2>2. CASE m > 1
    BY <2>1, <2>2, <1>1, <1>2, ParentType
  <2>3. CASE m = 1
    BY <2>3
  <2> QED
    BY <2>1, <2>2, <2>3, <1>1
<1>4. ASSUME last > 1
      PROVE  \E k \in path : k > 1 /\ Parent(k) = 1
  <2> DEFINE above == {k \in path : k > 1}
  <2>1. PICK m \in above : \A y \in above : m <= y
    <3>1. above \in SUBSET Nat /\ above # {}
      BY <1>1, <1>4
    <3> HIDE DEF above
    <3> QED
      BY <3>1, LeastMember
  <2>2. m \in Nat /\ m > 1 /\ Parent(m) \in path
    BY <1>1, <1>2
  <2>3. Parent(m) = 1
    BY <2>1, <2>2, ParentType
  <2> QED
    BY <2>2, <2>3
<1> QED
  BY <1>1, <1>2, <1>3, <1>4

\* The places a command rises to are some of the path, the last one among them.
LEMMA RisesFacts ==
  ASSUME NEW S, NEW heap \in Seq(S), NEW cmd
  PROVE  /\ Rises(heap, cmd) \subseteq 1 .. Len(heap) + 1
         /\ Len(heap) + 1 \in Rises(heap, cmd)
BY PathUpFacts DEF Rises

\* push adds one command and keeps the others.
LEMMA PushType ==
  ASSUME NEW S, NEW heap \in Seq(S), NEW cmd \in S
  PROVE  /\ Push(heap, cmd) \in Seq(S)
         /\ Len(Push(heap, cmd)) = Len(heap) + 1
<1> DEFINE risen == Rises(heap, cmd)
<1> DEFINE last == Len(heap) + 1
<1>1. risen \subseteq 1 .. last /\ last \in risen /\ last \in Nat
  BY RisesFacts
<1>2. ASSUME NEW k \in 1 .. last
      PROVE  Push(heap, cmd)[k] \in S
  <2>1. CASE k \notin risen
    BY <1>1, <2>1 DEF Push
  <2>2. CASE k \in risen /\ \A j \in risen : k <= j
    BY <2>2 DEF Push
  <2>3. CASE k \in risen /\ ~ \A j \in risen : k <= j
    <3>1. k > 1
      BY <1>1, <2>3
    <3>2. Parent(k) \in 1 .. Len(heap)
      BY <3>1, ParentType
    <3> QED
      BY <2>3, <3>2 DEF Push
  <2> QED
    BY <2>1, <2>2, <2>3
<1>3. Push(heap, cmd) \in [1 .. last -> S]
  BY <1>2 DEF Push
<1> QED
  BY <1>1, <1>3

\* What stands in the buffer after a push is the command or was there before.
LEMMA PushKeeps ==
  ASSUME NEW S, NEW heap \in Seq(S), NEW cmd \in S,
         NEW k \in 1 .. Len(heap) + 1
  PROVE  \/ Push(heap, cmd)[k] = cmd
         \/ \E j \in 1 .. Len(heap) : Push(heap, cmd)[k] = heap[j]
<1> DEFINE risen == Rises(heap, cmd)
<1>1. risen \subseteq 1 .. Len(heap) + 1 /\ Len(heap) + 1 \in risen
  BY RisesFacts
<1>2. CASE k \notin risen
  <2>1. k \in 1 .. Len(heap)
    BY <1>1, <1>2
  <2> QED
    BY <1>2, <2>1 DEF Push
<1>3. CASE k \in risen /\ \A j \in risen : k <= j
  BY <1>3 DEF Push
<1>4. CASE k \in risen /\ ~ \A j \in risen : k <= j
  <2>1. k > 1
    BY <1>1, <1>4
  <2>2. Parent(k) \in 1 .. Len(heap)
    BY <2>1, ParentType
  <2> QED
    BY <1>4, <2>2 DEF Push
<1> QED
  BY <1>2, <1>3, <1>4

\* A buffer whose top is of the highest order.
TopIsHighest(heap) == \A k \in DOMAIN heap : heap[k].order <= Top(heap).order

\* The top after a push is the command, when nothing there is of a higher order,
\* and what it was otherwise; and it is of the highest order again.
THEOREM PushTop ==
  ASSUME NEW S, \A c \in S : c.order \in Nat,
         NEW heap \in Seq(S), NEW cmd \in S, TopIsHighest(heap)
  PROVE  /\ TopIsHighest(Push(heap, cmd))
         /\ Top(Push(heap, cmd)) =
              IF heap # <<>> /\ Top(heap).order > cmd.order THEN Top(heap) ELSE cmd
<1> DEFINE path == PathUp(Len(heap) + 1)
<1> DEFINE risen == Rises(heap, cmd)
<1> DEFINE after == Push(heap, cmd)
<1>1. /\ path \subseteq 1 .. Len(heap) + 1
      /\ 1 \in path
      /\ Len(heap) + 1 > 1 => \E k \in path : k > 1 /\ Parent(k) = 1
  BY PathUpFacts
<1>2. after \in Seq(S) /\ Len(after) = Len(heap) + 1
  BY PushType
<1>3. risen \subseteq 1 .. Len(heap) + 1 /\ Len(heap) + 1 \in risen
  BY RisesFacts
<1>4. DOMAIN heap = 1 .. Len(heap) /\ DOMAIN after = 1 .. Len(heap) + 1
  BY <1>2
<1>5. CASE heap # <<>> /\ Top(heap).order > cmd.order
  <2>1. 1 \notin risen
    <3>1. Len(heap) >= 1 /\ Top(heap) = heap[1] /\ heap[1] \in S
      BY <1>5 DEF Top
    <3>2. PICK k \in path : k > 1 /\ Parent(k) = 1
      BY <1>1, <3>1
    <3>3. ~ Precedes(heap[Parent(k)], cmd)
      BY <1>5, <3>1, <3>2 DEF Precedes
    <3> QED
      BY <3>2, <3>3 DEF Rises
  <2>2. Top(after) = Top(heap)
    BY <2>1 DEF Push, Top
  <2>3. ASSUME NEW k \in DOMAIN after
        PROVE  after[k].order <= Top(heap).order
    <3>1. Top(heap).order \in Nat /\ cmd.order \in Nat
      BY <1>5 DEF Top
    <3>2. \/ after[k] = cmd
          \/ \E j \in 1 .. Len(heap) : after[k] = heap[j]
      BY <1>4, <2>3, PushKeeps
    <3>3. \A j \in 1 .. Len(heap) : heap[j].order <= Top(heap).order
      BY <1>4 DEF TopIsHighest
    <3>4. cmd.order <= Top(heap).order
      BY <1>5, <3>1
    <3> QED
      BY <3>2, <3>3, <3>4
  <2> QED
    BY <1>5, <2>2, <2>3 DEF TopIsHighest
<1>6. CASE heap = <<>> \/ ~ (Top(heap).order > cmd.order)
  <2>1. ASSUME NEW k \in 1 .. Len(heap)
        PROVE  heap[k].order <= cmd.order
    <3>1. heap[k].order \in Nat /\ Top(heap).order \in Nat /\ cmd.order \in Nat
      BY DEF Top
    <3>2. heap # <<>>
      OBVIOUS
    <3> QED
      BY <1>4, <1>6, <3>1, <3>2 DEF TopIsHighest
  <2>2. 1 \in risen
    <3>1. ASSUME NEW j \in path, j > 1
          PROVE  Precedes(heap[Parent(j)], cmd)
      <4>1. Parent(j) \in 1 .. Len(heap)
        BY <1>1, <3>1, ParentType
      <4> QED
        BY <2>1, <4>1 DEF Precedes
    <3> QED
      BY <1>1, <3>1 DEF Rises
  <2>3. \A j \in risen : 1 <= j
    BY <1>3
  <2>4. Top(after) = cmd
    BY <2>2, <2>3 DEF Push, Top
  <2>5. ASSUME NEW k \in DOMAIN after
        PROVE  after[k].order <= cmd.order
    <3>1. \/ after[k] = cmd
          \/ \E j \in 1 .. Len(heap) : after[k] = heap[j]
      BY <1>4, <2>5, PushKeeps
    <3> QED
      BY <2>1, <3>1
  <2> QED
    BY <1>6, <2>4, <2>5 DEF TopIsHighest
<1> QED
  BY <1>5, <1>6
=============================================================================
