----------------------------- MODULE MpscQueue -----------------------------
(***************************************************************************)
(* What mpsc.Queue (src/mpsc/mpsc.go) promises to its producers and to its *)
(* one consumer, without its nodes.                                        *)
(*                                                                         *)
(* A Push is three visible steps: its place in the queue is fixed by       *)
(* tail.Swap (Reserve), the value becomes reachable when prev.next is      *)
(* stored (Link), and only then is it counted (Count).  A slot that is     *)
(* reserved and not linked hides every later slot from the consumer.  A    *)
(* PopBatch takes the longest linked prefix it may take (Take) and lowers  *)
(* the counter afterwards (Settle), so qlen, which Len() returns, can lag  *)
(* behind the queue in both directions and can even be negative.           *)
(***************************************************************************)
EXTENDS Integers, Sequences

CONSTANTS Producers,   \* goroutines that call Push
          Values,      \* what is pushed (an Envelope in the actor package)
          BatchSize    \* the largest n given to PopBatch

ASSUME BatchAssumption == BatchSize \in Nat \ {0}

VARIABLES queue,    \* the slots, in the order of the tail swaps
          qlen,     \* the atomic counter behind Len()
          pushing,  \* how far each producer is inside Push
          owed      \* items taken and not yet subtracted from qlen

queueVars == <<queue, qlen, pushing, owed>>

Slot == [from: Producers, val: Values, linked: BOOLEAN]

QueueTypeOK ==
  /\ queue \in Seq(Slot)
  /\ qlen \in Int
  /\ pushing \in [Producers -> {"no", "link", "count"}]
  /\ owed \in Nat

QueueInit ==
  /\ queue = <<>>
  /\ qlen = 0
  /\ pushing = [p \in Producers |-> "no"]
  /\ owed = 0

----------------------------------------------------------------------------
(* Push: prev := q.tail.Swap(n) *)
Reserve(p, v) ==
  /\ pushing[p] = "no"
  /\ queue' = Append(queue, [from |-> p, val |-> v, linked |-> FALSE])
  /\ pushing' = [pushing EXCEPT ![p] = "link"]
  /\ UNCHANGED <<qlen, owed>>

(* Push: prev.next.Store(n).  A producer has at most one unlinked slot. *)
Link(p) ==
  /\ pushing[p] = "link"
  /\ queue' = [i \in 1..Len(queue) |->
                 IF queue[i].from = p THEN [queue[i] EXCEPT !.linked = TRUE]
                                      ELSE queue[i]]
  /\ pushing' = [pushing EXCEPT ![p] = "count"]
  /\ UNCHANGED <<qlen, owed>>

(* Push: q.len.Add(1) *)
Count(p) ==
  /\ pushing[p] = "count"
  /\ qlen' = qlen + 1
  /\ pushing' = [pushing EXCEPT ![p] = "no"]
  /\ UNCHANGED <<queue, owed>>

----------------------------------------------------------------------------
(* The scan of PopBatch(dst, n) stops after k items: it has n of them, or  *)
(* the next slot is missing or not linked yet.                             *)
StopsAt(n, k) ==
  /\ k \in 0..Len(queue)
  /\ k <= n
  /\ \A i \in 1..k : queue[i].linked
  /\ k < n /\ k < Len(queue) => ~queue[k + 1].linked

(* PopBatch: the k values the scan found leave the queue *)
Take(n, k) ==
  /\ owed = 0
  /\ k > 0
  /\ StopsAt(n, k)
  /\ queue' = SubSeq(queue, k + 1, Len(queue))
  /\ owed' = k
  /\ UNCHANGED <<qlen, pushing>>

(* PopBatch: q.len.Add(-consumed) *)
Settle ==
  /\ owed > 0
  /\ qlen' = qlen - owed
  /\ owed' = 0
  /\ UNCHANGED <<queue, pushing>>

QueueNext ==
  \/ \E p \in Producers :
       \/ \E v \in Values : Reserve(p, v)
       \/ Link(p)
       \/ Count(p)
  \/ \E n \in 1..BatchSize, k \in 1..BatchSize : Take(n, k)
  \/ Settle

QueueSpec == QueueInit /\ [][QueueNext]_queueVars
=============================================================================
