---------------------------- MODULE ControlBuffer ----------------------------
(***************************************************************************)
(* The buffer of control commands of the ControlSafetyLayerNode: a         *)
(* std::priority_queue of commands, ordered by ControlCommandCompare.  It  *)
(* is only ever pushed to, read at the top and emptied.                    *)
(*                                                                         *)
(* The comparison is <=, which is true of equal orders: the standard asks  *)
(* for a strict order.  What the libstdc++ heap does with it is modelled:  *)
(* a pushed command rises over its ancestors for as long as they precede   *)
(* it.                                                                     *)
(***************************************************************************)
EXTENDS Naturals, Sequences

\* Mutant: a strict order, as std::priority_queue asks for.
PrecedesStrict(a, b) == a.order < b.order

\* ControlCommandCompare: a is served after b.
Precedes(a, b) == a.order <= b.order

Parent(k) == k \div 2

\* The places from the last one up to the root: the least set that holds last
\* and, with a place, its parent.
PathUp(last) ==
  {k \in 1 .. last : \A S \in SUBSET (1 .. last) :
     last \in S /\ (\A j \in S \ {1} : Parent(j) \in S) => k \in S}

\* The places on that path that cmd rises to: all the ones it passes precede it.
Rises(heap, cmd) ==
  LET path == PathUp(Len(heap) + 1) IN
    {k \in path : \A j \in path : j > k => Precedes(heap[Parent(j)], cmd)}

\* priority_queue::push on a heap kept in an array (push_back and push_heap).
Push(heap, cmd) ==
  LET risen == Rises(heap, cmd) IN
    [k \in 1 .. Len(heap) + 1 |->
       IF k \notin risen THEN heap[k]
       ELSE IF \A j \in risen : k <= j THEN cmd
       ELSE heap[Parent(k)]]

Top(heap) == heap[1]

\* What the top is meant to be: of the commands in order of arrival, the last
\* one among those of the highest order.
BestOf(arrivals) ==
  arrivals[CHOOSE i \in DOMAIN arrivals :
             \A j \in DOMAIN arrivals :
               \/ arrivals[j].order < arrivals[i].order
               \/ arrivals[j].order = arrivals[i].order /\ j <= i]
=============================================================================
