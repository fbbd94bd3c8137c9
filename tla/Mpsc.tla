-------------------------------- MODULE Mpsc --------------------------------
(***************************************************************************)
(* src/mpsc/mpsc.go: the Vyukov multi-producer single-consumer queue with  *)
(* its linked nodes, its sentinel and the sync.Pool that recycles nodes.   *)
(* Every atomic access that another goroutine can observe is a step.       *)
(***************************************************************************)
EXTENDS Integers, Sequences

CONSTANTS Producers, Values, BatchSize,
          Nodes,   \* every node the pool can ever hand out
          Zero,    \* the zero value of V
          Nil      \* the nil pointer

ASSUME MpscAssumption == /\ BatchSize \in Nat \ {0}
                         /\ Nil \notin Nodes
                         /\ Zero \notin Values

VARIABLES
  head, tail,  \* q.head and q.tail
  next, val,   \* the fields of each node
  len,         \* q.len
  pool,        \* nodes in q.pool, and nodes its New has not allocated yet
  ppc,         \* producer: next statement of Push
  pnode, pprev,\* producer: n and prev of Push
  cpc,         \* consumer: next statement of PopBatch / Pop
  want,        \* consumer: the argument n of PopBatch
  first, cur,  \* consumer: the locals head (then c) and cur
  got,         \* consumer: dst[:consumed]
  (* History, read by no action: *)
  chain,       \* sentinel and live nodes in the order of the tail swaps
  from         \* the producer that filled each node

vars == <<head, tail, next, val, len, pool, ppc, pnode, pprev, cpc, want,
          first, cur, got, chain, from>>
producerVars == <<ppc, pnode, pprev>>
consumerVars == <<cpc, want, first, cur, got>>

TypeOK ==
  /\ head \in Nodes /\ tail \in Nodes
  /\ next \in [Nodes -> Nodes \cup {Nil}]
  /\ val \in [Nodes -> Values \cup {Zero}]
  /\ len \in Int
  /\ pool \subseteq Nodes
  /\ ppc \in [Producers -> {"get", "swap", "link", "count"}]
  /\ pnode \in [Producers -> Nodes \cup {Nil}]
  /\ pprev \in [Producers -> Nodes \cup {Nil}]
  /\ cpc \in {"idle", "scan", "store", "sub", "recycle"}
  /\ want \in 1..BatchSize
  /\ first \in Nodes /\ cur \in Nodes
  /\ got \in Seq(Values)
  /\ chain \in Seq(Nodes)
  /\ from \in [Nodes -> Producers \cup {Nil}]

(* New: one node is the stub that head and tail point to. *)
Init ==
  \E stub \in Nodes :
    /\ head = stub /\ tail = stub
    /\ next = [n \in Nodes |-> Nil]
    /\ val = [n \in Nodes |-> Zero]
    /\ len = 0
    /\ pool = Nodes \ {stub}
    /\ ppc = [p \in Producers |-> "get"]
    /\ pnode = [p \in Producers |-> Nil]
    /\ pprev = [p \in Producers |-> Nil]
    /\ cpc = "idle" /\ want = 1
    /\ first = stub /\ cur = stub
    /\ got = <<>>
    /\ chain = <<stub>>
    /\ from = [n \in Nodes |-> Nil]

----------------------------------------------------------------------------
(* pool.Get: sync.Pool gives any node it holds, or a new one. *)
PoolGet(n) == n \in pool /\ pool' = pool \ {n}

(* Push: n := pool.Get(); n.val = v; n.next = nil.  Nobody else holds n. *)
PushGet(p, v) ==
  \E n \in Nodes :
    /\ ppc[p] = "get"
    /\ PoolGet(n)
    /\ val' = [val EXCEPT ![n] = v]
    /\ next' = [next EXCEPT ![n] = Nil]
    /\ pnode' = [pnode EXCEPT ![p] = n]
    /\ ppc' = [ppc EXCEPT ![p] = "swap"]
    /\ from' = [from EXCEPT ![n] = p]
    /\ UNCHANGED <<head, tail, len, pprev, consumerVars, chain>>

(* Push: prev := q.tail.Swap(n) *)
PushSwap(p) ==
  /\ ppc[p] = "swap"
  /\ pprev' = [pprev EXCEPT ![p] = tail]
  /\ tail' = pnode[p]
  /\ chain' = Append(chain, pnode[p])
  /\ ppc' = [ppc EXCEPT ![p] = "link"]
  /\ UNCHANGED <<head, next, val, len, pool, pnode, consumerVars, from>>

(* Faulty PushLink: the store is skipped on the consumer's sentinel. *)
PushLinkLost(p) ==
  /\ ppc[p] = "link"
  /\ next' = IF pprev[p] = head THEN next ELSE [next EXCEPT ![pprev[p]] = pnode[p]]
  /\ ppc' = [ppc EXCEPT ![p] = "count"]
  /\ UNCHANGED <<head, tail, val, len, pool, pnode, pprev, consumerVars, chain, from>>

(* Push: prev.next.Store(n) *)
PushLink(p) ==
  /\ ppc[p] = "link"
  /\ next' = [next EXCEPT ![pprev[p]] = pnode[p]]
  /\ ppc' = [ppc EXCEPT ![p] = "count"]
  /\ UNCHANGED <<head, tail, val, len, pool, pnode, pprev, consumerVars, chain, from>>

(* Push: q.len.Add(1) *)
PushCount(p) ==
  /\ ppc[p] = "count"
  /\ len' = len + 1
  /\ ppc' = [ppc EXCEPT ![p] = "get"]
  /\ pnode' = [pnode EXCEPT ![p] = Nil]
  /\ pprev' = [pprev EXCEPT ![p] = Nil]
  /\ UNCHANGED <<head, tail, next, val, pool, consumerVars, chain, from>>

----------------------------------------------------------------------------
(* PopBatch(dst, n): head := q.head.Load().  Pop() is the case n = 1: its  *)
(* statements are those of PopBatch in the same order.                     *)
PopBegin(n) ==
  /\ cpc = "idle"
  /\ want' = n
  /\ first' = head /\ cur' = head
  /\ got' = <<>>
  /\ cpc' = "scan"
  /\ UNCHANGED <<head, tail, next, val, len, pool, producerVars, chain, from>>

(* PopBatch: one turn of the scan takes the value of cur.next. *)
PopScan ==
  /\ cpc = "scan"
  /\ Len(got) < want
  /\ next[cur] # Nil
  /\ got' = Append(got, val[next[cur]])
  /\ val' = [val EXCEPT ![next[cur]] = Zero]
  /\ cur' = next[cur]
  /\ UNCHANGED <<head, tail, next, len, pool, producerVars, cpc, want, first, chain, from>>

(* PopBatch: the scan ends; with nothing consumed it returns false. *)
PopStop ==
  /\ cpc = "scan"
  /\ Len(got) = want \/ next[cur] = Nil
  /\ cpc' = IF got = <<>> THEN "idle" ELSE "store"
  /\ chain' = SubSeq(chain, Len(got) + 1, Len(chain))
  /\ UNCHANGED <<head, tail, next, val, len, pool, producerVars, want, first, cur, got, from>>

(* PopBatch: q.head.Store(cur) *)
PopStore ==
  /\ cpc = "store"
  /\ head' = cur
  /\ cpc' = "sub"
  /\ UNCHANGED <<tail, next, val, len, pool, producerVars, want, first, cur, got, chain, from>>

(* PopBatch: q.len.Add(-consumed) *)
PopSub ==
  /\ cpc = "sub"
  /\ len' = len - Len(got)
  /\ cpc' = "recycle"
  /\ UNCHANGED <<head, tail, next, val, pool, producerVars, want, first, cur, got, chain, from>>

(* Faulty PopRecycle: the last consumed node, the new sentinel, is         *)
(* recycled as well.                                                       *)
PopRecycleAll ==
  /\ cpc = "recycle"
  /\ IF first # cur
       THEN /\ first' = next[first]
            /\ pool' = pool \cup {first}
            /\ UNCHANGED <<cpc, got>>
       ELSE /\ cpc' = "idle"
            /\ got' = <<>>
            /\ pool' = pool \cup {first}
            /\ UNCHANGED first
  /\ UNCHANGED <<head, tail, next, val, len, producerVars, want, cur, chain, from>>

(* PopBatch: one turn of the recycling loop, "everything strictly before   *)
(* cur"; when first reaches cur the call returns.                          *)
PopRecycle ==
  /\ cpc = "recycle"
  /\ IF first # cur
       THEN /\ first' = next[first]
            /\ pool' = pool \cup {first}
            /\ UNCHANGED <<cpc, got>>
       ELSE /\ cpc' = "idle"
            /\ got' = <<>>
            /\ UNCHANGED <<first, pool>>
  /\ UNCHANGED <<head, tail, next, val, len, producerVars, want, cur, chain, from>>

----------------------------------------------------------------------------
Producer(p) ==
  (\E v \in Values : PushGet(p, v)) \/ PushSwap(p) \/ PushLink(p) \/ PushCount(p)

Consumer ==
  (\E n \in 1..BatchSize : PopBegin(n))
    \/ PopScan \/ PopStop \/ PopStore \/ PopSub \/ PopRecycle

Next == (\E p \in Producers : Producer(p)) \/ Consumer

Spec == Init /\ [][Next]_vars

(* The Go scheduler runs every runnable goroutine: a producer inside Push  *)
(* takes its next step, a consumer that polls keeps polling.  Whether a    *)
(* producer starts another Push is its own choice.                         *)
FairSpec ==
  /\ Spec
  /\ \A p \in Producers : WF_vars(PushSwap(p) \/ PushLink(p) \/ PushCount(p))
  /\ WF_vars(Consumer)
----------------------------------------------------------------------------
(* The slots of MpscQueue: the node at chain[i + 1] is linked once its     *)
(* predecessor points to it; a value the scan has cleared is in got.       *)
Slots ==
  [i \in 1..(Len(chain) - 1) |->
     [from   |-> from[chain[i + 1]],
      val    |-> IF cpc = "scan" /\ i <= Len(got) THEN got[i] ELSE val[chain[i + 1]],
      linked |-> next[chain[i]] # Nil]]

Owed == IF cpc \in {"store", "sub"} THEN Len(got) ELSE 0

Queue == INSTANCE MpscQueue WITH
  queue   <- Slots,
  qlen    <- len,
  pushing <- [p \in Producers |-> IF ppc[p] \in {"link", "count"} THEN ppc[p] ELSE "no"],
  owed    <- Owed

(* mpsc.go implements MpscQueue: first in first out in the order of the    *)
(* tail swaps, nothing lost, duplicated or altered, an unlinked slot hides *)
(* the ones behind it, and len is adjusted after the fact.                 *)
RefinesQueue == Queue!QueueSpec

(* Recycling is safe (PopBatch, "Only the consumer touches these"): a node *)
(* in the pool is not on the list from the consumer's position, is not     *)
(* one a producer still stores into, and keeps no pushed value alive.      *)
RecycleSafe ==
  \A n \in pool :
    /\ n # tail /\ n # head
    /\ \A i \in 1..Len(chain) : chain[i] # n
    /\ \A p \in Producers :
         /\ ppc[p] \in {"swap", "link"} => pnode[p] # n
         /\ ppc[p] = "link" => pprev[p] # n
    /\ val[n] = Zero

(* A polling consumer receives every value whose place is fixed: a         *)
(* producer stopped between Swap and Store delays the values behind it     *)
(* and never loses them.                                                   *)
Consumed ==
  \A n \in Nodes : (\E i \in 2..Len(chain) : chain[i] = n)
                      ~> ~(\E i \in 2..Len(chain) : chain[i] = n)
=============================================================================
