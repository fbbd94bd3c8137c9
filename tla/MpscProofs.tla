----------------------------- MODULE MpscProofs -----------------------------
(***************************************************************************)
(* Proofs about Mpsc for any set of producers, nodes and values and any    *)
(* batch size.                                                             *)
(***************************************************************************)
EXTENDS Mpsc, SequenceTheorems, TLAPS

(* The list from the sentinel to the tail: no node comes twice, and a link *)
(* that is missing is the one a producer between Swap and Store owes.      *)
ChainOK ==
  /\ Len(chain) >= 1
  /\ \A i, j \in 1..Len(chain) : chain[i] = chain[j] => i = j
  /\ tail = chain[Len(chain)] /\ next[tail] = Nil
  /\ \A i \in 1..(Len(chain) - 1) :
       \/ next[chain[i]] = chain[i + 1]
       \/ /\ next[chain[i]] = Nil
          /\ \E p \in Producers : ppc[p] = "link" /\ pprev[p] = chain[i] /\ pnode[p] = chain[i + 1]
  /\ \A i \in 2..Len(chain) : from[chain[i]] \in Producers

(* A node between pool.Get and Swap is its producer's alone; one between   *)
(* Swap and Store is on the list, behind a node whose link is missing.     *)
Owned(p) ==
  /\ pnode[p] \in Nodes \ pool /\ next[pnode[p]] = Nil
  /\ val[pnode[p]] \in Values /\ from[pnode[p]] = p
  /\ \A i \in 1..Len(chain) : chain[i] # pnode[p]
Unlinked(p) ==
  /\ from[pnode[p]] = p
  /\ \E i \in 1..(Len(chain) - 1) :
       pprev[p] = chain[i] /\ pnode[p] = chain[i + 1] /\ next[chain[i]] = Nil
PushOK ==
  \A p \in Producers : (ppc[p] = "swap" => Owned(p)) /\ (ppc[p] = "link" => Unlinked(p))

PoolOK == \A n \in pool : val[n] = Zero /\ \A i \in 1..Len(chain) : chain[i] # n

(* The sentinel, and what a scan has taken, is cleared; the rest of the    *)
(* list has its values.                                                    *)
Cleared(i) == i = 1 \/ (cpc = "scan" /\ i <= Len(got) + 1)
ValueOK ==
  \A i \in 1..Len(chain) :
    (Cleared(i) => val[chain[i]] = Zero) /\ (~Cleared(i) => val[chain[i]] \in Values)

(* Where the consumer is on the list *)
ConsumerOK ==
  /\ cpc = "idle" => head = chain[1]
  /\ cpc = "scan" =>
       /\ head = chain[1] /\ first = chain[1]
       /\ Len(got) < Len(chain) /\ cur = chain[Len(got) + 1] /\ Len(got) <= want
       /\ \A i \in 1..Len(got) : next[chain[i]] # Nil
  /\ cpc \in {"store", "sub", "recycle"} =>
       /\ cur = chain[1] /\ got # <<>>
       /\ IF cpc = "store" THEN head = first /\ first # cur ELSE head = cur

(* The nodes z[1] .. z[k] are consumed and not yet recycled: linked up to  *)
(* the new sentinel, cleared, and nobody else's.                           *)
Trail(k, z) ==
  /\ z[1] = first /\ z[k + 1] = cur
  /\ \A i \in 1..k :
       /\ next[z[i]] = z[i + 1] /\ z[i] \notin pool /\ val[z[i]] = Zero
       /\ \A j \in 1..(k + 1) : z[i] = z[j] => i = j
       /\ \A j \in 1..Len(chain) : chain[j] # z[i]
       /\ \A p \in Producers : ppc[p] = "swap" => pnode[p] # z[i]
TrailOK ==
  cpc \in {"store", "sub", "recycle"} =>
    \E k \in 0..Len(got) : \E z \in [1..(k + 1) -> Nodes] : Trail(k, z)

(* The inductive invariant *)
MpscInv == TypeOK /\ ChainOK /\ PushOK /\ PoolOK /\ ValueOK /\ ConsumerOK /\ TrailOK
----------------------------------------------------------------------------
(* The list and the batch are sequences. *)
LEMMA SeqFacts ==
  ASSUME TypeOK
  PROVE  /\ Len(chain) \in Nat /\ \A i \in 1..Len(chain) : chain[i] \in Nodes
         /\ Len(got) \in Nat /\ \A i \in 1..Len(got) : got[i] \in Values
         /\ got # <<>> => Len(got) > 0
<1>1. chain \in Seq(Nodes) /\ got \in Seq(Values)
  BY Zenon DEF TypeOK
<1>. QED  BY <1>1, ElementOfSeq, LenProperties, EmptySeq

(* New: the queue is its stub. *)
LEMMA MpscInit == Init => MpscInv
<1>. SUFFICES ASSUME Init PROVE MpscInv
  BY Zenon
<1>0. PICK stub \in Nodes :
       /\ head = stub /\ tail = stub
       /\ next = [n \in Nodes |-> Nil] /\ val = [n \in Nodes |-> Zero]
       /\ len = 0 /\ pool = Nodes \ {stub}
       /\ ppc = [p \in Producers |-> "get"]
       /\ pnode = [p \in Producers |-> Nil] /\ pprev = [p \in Producers |-> Nil]
       /\ cpc = "idle" /\ want = 1 /\ first = stub /\ cur = stub
       /\ got = <<>> /\ chain = <<stub>> /\ from = [n \in Nodes |-> Nil]
  BY Zenon DEF Init
<1>. USE <1>0
<1>1. chain = <<stub>> /\ Len(chain) = 1 /\ chain[1] = stub /\ chain \in Seq(Nodes)
  OBVIOUS
<1>2. got = <<>> /\ got \in Seq(Values) /\ Len(got) = 0
  BY Zenon, EmptySeq
<1>3. TypeOK
  BY <1>1, <1>2, MpscAssumption DEF TypeOK
<1>. QED
  BY <1>1, <1>2, <1>3, MpscAssumption
  DEF MpscInv, ChainOK, PushOK, PoolOK, ValueOK, Cleared, ConsumerOK, TrailOK

(* Push takes a node that nobody else has. *)
LEMMA PushGetStep ==
  ASSUME MpscInv, NEW p \in Producers, NEW v \in Values, PushGet(p, v)
  PROVE  MpscInv'
<1>. USE DEF MpscInv
<1>1. PICK n \in Nodes :
       /\ ppc[p] = "get" /\ PoolGet(n)
       /\ val' = [val EXCEPT ![n] = v] /\ next' = [next EXCEPT ![n] = Nil]
       /\ pnode' = [pnode EXCEPT ![p] = n] /\ ppc' = [ppc EXCEPT ![p] = "swap"]
       /\ from' = [from EXCEPT ![n] = p]
       /\ UNCHANGED <<head, tail, len, pprev, consumerVars, chain>>
  BY Zenon DEF PushGet
<1>. USE <1>1, SeqFacts DEF PoolGet, consumerVars
<1>2. TypeOK'
  BY Zenon DEF TypeOK
<1>3. /\ n \in pool /\ \A i \in 1..Len(chain) : chain[i] # n
      /\ \A m \in Nodes \ {n} : next'[m] = next[m] /\ val'[m] = val[m] /\ from'[m] = from[m]
      /\ next'[n] = Nil /\ val'[n] = v /\ from'[n] = p
      /\ \A q \in Producers \ {p} : ppc'[q] = ppc[q] /\ pnode'[q] = pnode[q]
      /\ ppc'[p] = "swap" /\ pnode'[p] = n /\ ppc[p] = "get"
  BY Zenon DEF TypeOK, PoolOK
<1>4. ChainOK'
  BY <1>3 DEF TypeOK, ChainOK
<1>5. PushOK'
  BY SMTT(30), <1>3 DEF TypeOK, PushOK, Owned, Unlinked
<1>6. PoolOK' /\ ValueOK'
  BY <1>3 DEF TypeOK, PoolOK, ValueOK, Cleared
<1>7. ConsumerOK'
  BY <1>3 DEF TypeOK, ConsumerOK
<1>8. TrailOK'
  <2>. SUFFICES ASSUME cpc \in {"store", "sub", "recycle"}
                PROVE  \E k \in 0..Len(got) : \E z \in [1..(k + 1) -> Nodes] : Trail(k, z)'
    BY Zenon DEF TrailOK
  <2>1. PICK k \in 0..Len(got) : \E z \in [1..(k + 1) -> Nodes] : Trail(k, z)
    BY Zenon DEF TrailOK
  <2>2. PICK z \in [1..(k + 1) -> Nodes] : Trail(k, z)
    BY Zenon, <2>1
  <2>3. Trail(k, z)'
    BY <2>2, <1>3 DEF Trail, TypeOK
  <2>. QED  BY Zenon, <2>3
<1>. QED  BY Zenon, <1>2, <1>4, <1>5, <1>6, <1>7, <1>8

(* Swap puts it at the end of the list. *)
LEMMA PushSwapStep ==
  ASSUME MpscInv, NEW p \in Producers, PushSwap(p)
  PROVE  MpscInv'
<1>. USE SeqFacts DEF MpscInv, PushSwap, consumerVars
<1>1. pnode[p] \in Nodes /\ chain \in Seq(Nodes)
  BY Zenon DEF PushOK, Owned, TypeOK
<1>2. /\ chain' \in Seq(Nodes) /\ Len(chain') = Len(chain) + 1
      /\ \A i \in 1..Len(chain) : chain'[i] = chain[i]
      /\ chain'[Len(chain) + 1] = pnode[p]
  BY <1>1, AppendProperties
<1>3. TypeOK'
  BY Zenon, <1>1, <1>2 DEF TypeOK
<1>4. /\ \A q \in Producers \ {p} : ppc'[q] = ppc[q] /\ pprev'[q] = pprev[q]
      /\ ppc'[p] = "link" /\ pprev'[p] = tail /\ ppc[p] = "swap" /\ pnode' = pnode
      /\ UNCHANGED <<next, val, from, pool, cpc, got, want, first, cur, head>>
  BY Zenon DEF TypeOK
<1>5. \A i \in 1..Len(chain') : i \in 1..Len(chain) \/ i = Len(chain) + 1
  BY <1>2
<1>6. /\ \A i \in 1..Len(chain) : chain[i] # pnode[p]
      /\ next[pnode[p]] = Nil /\ from[pnode[p]] = p /\ val[pnode[p]] \in Values
      /\ pnode[p] \notin pool
      /\ \A q \in Producers \ {p} : ppc[q] = "swap" => pnode[q] # pnode[p]
  BY <1>4 DEF PushOK, Owned
<1>7. ChainOK'
  <2>1. Len(chain') >= 1 /\ tail' = chain'[Len(chain')] /\ next'[tail'] = Nil
    BY <1>2, <1>4, <1>6
  <2>2. \A i, j \in 1..Len(chain') : chain'[i] = chain'[j] => i = j
    BY <1>2, <1>5, <1>6 DEF ChainOK
  <2>3. \A i \in 1..(Len(chain') - 1) :
          \/ next'[chain'[i]] = chain'[i + 1]
          \/ /\ next'[chain'[i]] = Nil
             /\ \E q \in Producers : ppc'[q] = "link" /\ pprev'[q] = chain'[i]
                                       /\ pnode'[q] = chain'[i + 1]
    <3>. TAKE i \in 1..(Len(chain') - 1)
    <3>1. CASE i = Len(chain)
      BY <3>1, <1>2, <1>4 DEF ChainOK
    <3>2. CASE i \in 1..(Len(chain) - 1)
      BY SMTT(30), <3>2, <1>2, <1>4 DEF ChainOK
    <3>. QED  BY <3>1, <3>2, <1>2
  <2>4. \A i \in 2..Len(chain') : from'[chain'[i]] \in Producers
    BY <1>2, <1>4, <1>5, <1>6 DEF ChainOK
  <2>. QED  BY Zenon, <2>1, <2>2, <2>3, <2>4 DEF ChainOK
<1>8. PushOK'
  <2>1. Unlinked(p)'
    <3>1. /\ Len(chain) \in 1..(Len(chain') - 1)
          /\ pprev'[p] = chain'[Len(chain)] /\ pnode'[p] = chain'[Len(chain) + 1]
          /\ next'[chain'[Len(chain)]] = Nil
      BY <1>2, <1>4 DEF ChainOK
    <3>. QED  BY Zenon, <3>1, <1>4, <1>6 DEF Unlinked
  <2>2. ASSUME NEW q \in Producers \ {p}, ppc[q] = "swap" PROVE Owned(q)'
    BY <2>2, <1>2, <1>4, <1>5, <1>6 DEF PushOK, Owned
  <2>3. ASSUME NEW q \in Producers \ {p}, ppc[q] = "link" PROVE Unlinked(q)'
    <3>1. PICK i \in 1..(Len(chain) - 1) :
            pprev[q] = chain[i] /\ pnode[q] = chain[i + 1] /\ next[chain[i]] = Nil
      BY Zenon, <2>3 DEF PushOK, Unlinked
    <3>2. i \in 1..(Len(chain') - 1) /\ chain'[i] = chain[i] /\ chain'[i + 1] = chain[i + 1]
      BY <1>2
    <3>. QED  BY ZenonT(30), <2>3, <3>1, <3>2, <1>4 DEF PushOK, Unlinked
  <2>. QED  BY Zenon, <2>1, <2>2, <2>3, <1>4 DEF PushOK
<1>9. PoolOK'
  BY <1>2, <1>4, <1>5, <1>6 DEF PoolOK
<1>10. ValueOK'
  <2>1. ~Cleared(Len(chain) + 1)
    BY DEF Cleared, ChainOK, ConsumerOK
  <2>. QED  BY <2>1, <1>2, <1>4, <1>5, <1>6 DEF ValueOK, Cleared
<1>11. ConsumerOK'
  BY <1>2, <1>4 DEF ConsumerOK, ChainOK
<1>12. TrailOK'
  <2>. SUFFICES ASSUME cpc \in {"store", "sub", "recycle"}
                PROVE  \E k \in 0..Len(got) : \E z \in [1..(k + 1) -> Nodes] : Trail(k, z)'
    BY Zenon DEF TrailOK
  <2>1. PICK k \in 0..Len(got) : \E z \in [1..(k + 1) -> Nodes] : Trail(k, z)
    BY Zenon DEF TrailOK
  <2>2. PICK z \in [1..(k + 1) -> Nodes] : Trail(k, z)
    BY Zenon, <2>1
  <2>3. Trail(k, z)'
    BY <2>2, <1>2, <1>4, <1>5 DEF Trail
  <2>. QED  BY Zenon, <2>3
<1>. QED  BY Zenon, <1>3, <1>7, <1>8, <1>9, <1>10, <1>11, <1>12

(* Store links it; the node before it is still on the list. *)
LEMMA PushLinkStep ==
  ASSUME MpscInv, NEW p \in Producers, PushLink(p)
  PROVE  MpscInv'
<1>. USE SeqFacts DEF MpscInv, PushLink, consumerVars
<1>1. PICK l \in 1..(Len(chain) - 1) :
        pprev[p] = chain[l] /\ pnode[p] = chain[l + 1] /\ next[chain[l]] = Nil
  BY Zenon DEF PushOK, Unlinked
<1>2. l \in 1..Len(chain) /\ l + 1 \in 1..Len(chain)
  BY <1>1
<1>3. TypeOK'
  BY Zenon, <1>1, <1>2 DEF TypeOK
<1>4. /\ next'[chain[l]] = chain[l + 1]
      /\ \A n \in Nodes : n # chain[l] => next'[n] = next[n]
      /\ \A i \in 1..Len(chain) : i # l => chain[i] # chain[l] /\ next'[chain[i]] = next[chain[i]]
      /\ \A q \in Producers : q # p => ppc'[q] = ppc[q]
      /\ ppc'[p] = "count" /\ ppc[p] = "link"
      /\ UNCHANGED <<head, tail, val, pool, pnode, pprev, cpc, want, first, cur, got, chain, from>>
  BY SMTT(30), <1>1, <1>2 DEF TypeOK, ChainOK
<1>5. \A q \in Producers : ppc[q] = "link" /\ q # p => pnode[q] # pnode[p]
  BY SMTT(30), <1>4 DEF PushOK, Unlinked
<1>6. ChainOK'
  <2>1. next'[tail'] = Nil
    BY <1>4 DEF ChainOK
  <2>2. ASSUME NEW i \in 1..(Len(chain) - 1)
        PROVE  \/ next'[chain[i]] = chain[i + 1]
               \/ /\ next'[chain[i]] = Nil
                  /\ \E q \in Producers : ppc'[q] = "link" /\ pprev[q] = chain[i]
                                            /\ pnode[q] = chain[i + 1]
    <3>1. CASE i = l
      BY Zenon, <3>1, <1>4
    <3>2. CASE i # l
      <4>1. pnode[p] # chain[i + 1]
        BY <3>2, <1>1 DEF ChainOK
      <4>2. next'[chain[i]] = next[chain[i]]
        BY SMTT(30), <3>2, <1>4
      <4>3. CASE next[chain[i]] = chain[i + 1]
        BY Zenon, <4>2, <4>3
      <4>4. CASE next[chain[i]] # chain[i + 1]
        <5>1. PICK q \in Producers : ppc[q] = "link" /\ pprev[q] = chain[i] /\ pnode[q] = chain[i + 1]
          BY Zenon, <4>4 DEF ChainOK
        <5>2. q # p /\ ppc'[q] = "link"
          BY Zenon, <4>1, <5>1, <1>4
        <5>3. next[chain[i]] = Nil
          BY Zenon, <4>4 DEF ChainOK
        <5>. QED  BY Zenon, <4>2, <5>1, <5>2, <5>3
      <4>. QED  BY Zenon, <4>3, <4>4
    <3>. QED  BY Zenon, <3>1, <3>2
  <2>. QED  BY <2>1, <2>2, <1>4 DEF ChainOK
<1>7. PushOK'
  <2>1. ASSUME NEW q \in Producers, q # p, ppc[q] = "swap" PROVE Owned(q)'
    <3>1. pnode[q] # chain[l]
      BY ZenonT(30), <2>1, <1>2 DEF PushOK, Owned
    <3>. QED  BY <2>1, <3>1, <1>4 DEF PushOK, Owned
  <2>2. ASSUME NEW q \in Producers, q # p, ppc[q] = "link" PROVE Unlinked(q)'
    <3>1. PICK i \in 1..(Len(chain) - 1) :
            pprev[q] = chain[i] /\ pnode[q] = chain[i + 1] /\ next[chain[i]] = Nil
      BY Zenon, <2>2 DEF PushOK, Unlinked
    <3>2. i # l /\ i \in 1..Len(chain)
      BY <3>1, <2>2, <1>1, <1>5
    <3>3. next'[chain[i]] = Nil /\ from[pnode[q]] = q
      BY Zenon, <2>2, <3>1, <3>2, <1>4 DEF PushOK, Unlinked
    <3>. QED  BY ZenonT(30), <3>1, <3>3, <1>4 DEF Unlinked
  <2>. QED  BY Zenon, <2>1, <2>2, <1>4 DEF PushOK
<1>8. PoolOK' /\ ValueOK'
  BY <1>4 DEF PoolOK, ValueOK, Cleared
<1>9. ConsumerOK'
  <2>1. ASSUME cpc = "scan", NEW i \in 1..Len(got) PROVE next'[chain[i]] # Nil
    <3>1. i \in 1..Len(chain) /\ next[chain[i]] # Nil /\ chain[l + 1] # Nil
      BY <2>1, <1>2, MpscAssumption DEF ConsumerOK
    <3>. QED  BY Zenon, <3>1, <1>4
  <2>. QED  BY <2>1, <1>4 DEF ConsumerOK
<1>10. TrailOK'
  <2>. SUFFICES ASSUME cpc \in {"store", "sub", "recycle"}
                PROVE  \E k \in 0..Len(got) : \E z \in [1..(k + 1) -> Nodes] : Trail(k, z)'
    BY Zenon, <1>4 DEF TrailOK
  <2>1. PICK k \in 0..Len(got) : \E z \in [1..(k + 1) -> Nodes] : Trail(k, z)
    BY Zenon DEF TrailOK
  <2>2. PICK z \in [1..(k + 1) -> Nodes] : Trail(k, z)
    BY Zenon, <2>1
  <2>3. Trail(k, z)'
    BY SMTT(30), <2>2, <1>2, <1>4 DEF Trail
  <2>. QED  BY Zenon, <2>3
<1>. QED  BY Zenon, <1>3, <1>6, <1>7, <1>8, <1>9, <1>10

(* Count and the consumer's Store and Add leave list and pool alone. *)
LEMMA CountStoreSubStep ==
  ASSUME MpscInv, (\E p \in Producers : PushCount(p)) \/ PopStore \/ PopSub
  PROVE  MpscInv'
<1>. USE SeqFacts DEF MpscInv
<1>1. TypeOK'
  <2>1. ASSUME NEW p \in Producers, PushCount(p) PROVE TypeOK'
    BY <2>1 DEF PushCount, consumerVars, TypeOK
  <2>2. CASE PopStore
    BY Zenon, <2>2 DEF PopStore, producerVars, TypeOK
  <2>3. CASE PopSub
    BY <2>3 DEF PopSub, producerVars, TypeOK
  <2>. QED  BY Zenon, <2>1, <2>2, <2>3
<1>2. /\ UNCHANGED <<tail, next, val, pool, want, first, cur, got, chain, from>>
      /\ \A p \in Producers :
           \/ ppc'[p] = ppc[p] /\ pnode'[p] = pnode[p] /\ pprev'[p] = pprev[p]
           \/ ppc[p] = "count" /\ ppc'[p] = "get"
  BY ZenonT(30) DEF PushCount, PopStore, PopSub, producerVars, consumerVars, TypeOK
<1>3. \/ cpc' = cpc /\ head' = head
      \/ cpc = "store" /\ cpc' = "sub" /\ head' = cur
      \/ cpc = "sub" /\ cpc' = "recycle" /\ head' = head
  BY Zenon DEF PushCount, PopStore, PopSub, consumerVars
<1>4. ChainOK' /\ PushOK' /\ PoolOK'
  BY SMTT(30), <1>2 DEF ChainOK, PushOK, Owned, Unlinked, PoolOK
<1>5. ValueOK' /\ ConsumerOK'
  BY Zenon, <1>2, <1>3 DEF ValueOK, Cleared, ConsumerOK
<1>6. \A k : \A z : Trail(k, z) => Trail(k, z)'
  BY <1>2 DEF Trail
<1>7. TrailOK'
  BY Zenon, <1>2, <1>3, <1>6 DEF TrailOK
<1>. QED  BY Zenon, <1>1, <1>4, <1>5, <1>7

(* PopBatch begins at the sentinel. *)
LEMMA PopBeginStep ==
  ASSUME MpscInv, NEW n \in 1..BatchSize, PopBegin(n)
  PROVE  MpscInv'
<1>. USE SeqFacts, EmptySeq DEF MpscInv, PopBegin, producerVars
<1>1. TypeOK'
  BY Zenon DEF TypeOK
<1>2. Len(got') = 0
  BY Zenon
<1>3. ChainOK' /\ PushOK' /\ PoolOK'
  <2>1. ChainOK'
    BY ZenonT(30) DEF ChainOK
  <2>2. PushOK'
    BY DEF PushOK, Owned, Unlinked
  <2>. QED  BY Zenon, <2>1, <2>2 DEF PoolOK
<1>4. ValueOK'
  BY <1>2 DEF ValueOK, Cleared
<1>5. ConsumerOK'
  BY <1>2 DEF ConsumerOK, ChainOK
<1>6. TrailOK'
  BY Zenon DEF TrailOK
<1>. QED  BY Zenon, <1>1, <1>3, <1>4, <1>5, <1>6

(* What a turn of the scan finds is the next node of the list. *)
LEMMA ScanFinds ==
  ASSUME MpscInv, PopScan
  PROVE  /\ Len(got) + 2 \in 1..Len(chain) /\ next[cur] = chain[Len(got) + 2]
         /\ val[next[cur]] \in Values
         /\ got' \in Seq(Values) /\ Len(got') = Len(got) + 1
         /\ \A i \in 1..Len(got) : got'[i] = got[i]
         /\ got'[Len(got) + 1] = val[next[cur]]
<1>. USE SeqFacts DEF MpscInv, PopScan
<1>1. Len(got) < Len(chain) /\ cur = chain[Len(got) + 1] /\ next[cur] # Nil
  BY Zenon DEF ConsumerOK
<1>2. Len(got) + 1 # Len(chain)
  BY Zenon, <1>1 DEF ChainOK
<1>3. Len(got) + 1 \in 1..(Len(chain) - 1)
  BY <1>1, <1>2
<1>4. next[cur] = chain[(Len(got) + 1) + 1]
  BY Zenon, <1>1, <1>3 DEF ChainOK
<1>5. ~Cleared(Len(got) + 2) /\ Len(got) + 2 \in 1..Len(chain)
  BY <1>3 DEF Cleared
<1>6. next[cur] = chain[Len(got) + 2]
  BY <1>4
<1>7. val[next[cur]] \in Values
  BY Zenon, <1>5, <1>6 DEF ValueOK
<1>8. got \in Seq(Values) /\ got' = Append(got, val[next[cur]])
  BY Zenon DEF TypeOK
<1>. QED  BY <1>5, <1>6, <1>7, <1>8, AppendProperties

(* A turn of the scan clears one node and moves on to it. *)
LEMMA PopScanStep == ASSUME MpscInv, PopScan PROVE MpscInv'
<1>. USE SeqFacts DEF MpscInv
<1>. DEFINE n == Len(got) + 2
<1>1. /\ n \in 1..Len(chain) /\ cur' = chain[n] /\ Len(got') = Len(got) + 1
      /\ got' \in Seq(Values)
      /\ val' = [val EXCEPT ![chain[n]] = Zero]
      /\ cpc = "scan" /\ cpc' = "scan" /\ Len(got) < want /\ next[cur] # Nil
      /\ UNCHANGED <<head, tail, next, len, pool, ppc, pnode, pprev, want, first, chain, from>>
  BY Zenon, ScanFinds DEF PopScan, producerVars
<1>2. TypeOK'
  BY Zenon, <1>1 DEF TypeOK
<1>3. /\ val'[chain[n]] = Zero
      /\ \A i \in 1..Len(chain) : i # n => val'[chain[i]] = val[chain[i]]
      /\ \A m \in Nodes : (\A i \in 1..Len(chain) : chain[i] # m) => val'[m] = val[m]
  BY ZenonT(30), <1>1 DEF TypeOK, ChainOK
<1>4. ChainOK'
  BY ZenonT(30), <1>1 DEF ChainOK
<1>5. PushOK'
  <2>1. ASSUME NEW p \in Producers, Owned(p) PROVE Owned(p)'
    BY Zenon, <2>1, <1>1, <1>3 DEF Owned
  <2>2. ASSUME NEW p \in Producers, Unlinked(p) PROVE Unlinked(p)'
    BY Zenon, <2>2, <1>1 DEF Unlinked
  <2>. QED  BY Zenon, <2>1, <2>2, <1>1 DEF PushOK
<1>6. PoolOK'
  BY Zenon, <1>1, <1>3 DEF PoolOK, TypeOK
<1>7. ValueOK'
  BY <1>1, <1>3 DEF ValueOK, Cleared
<1>8. ConsumerOK'
  <2>1. \A i \in 1..Len(got') : next[chain[i]] # Nil
    <3>. TAKE i \in 1..Len(got')
    <3>1. CASE i = Len(got) + 1
      BY Zenon, <3>1, <1>1 DEF ConsumerOK
    <3>2. CASE i \in 1..Len(got)
      BY Zenon, <3>2, <1>1 DEF ConsumerOK
    <3>. QED  BY <3>1, <3>2, <1>1
  <2>. QED  BY SMTT(30), <2>1, <1>1 DEF ConsumerOK, TypeOK
<1>9. TrailOK'
  BY ZenonT(30), <1>1 DEF TrailOK
<1>. QED  BY Zenon, <1>2, <1>4, <1>5, <1>6, <1>7, <1>8, <1>9

(* The scan ends: the list now begins with the node it ended at. *)
LEMMA ScanCuts ==
  ASSUME MpscInv, PopStop
  PROVE  /\ chain' \in Seq(Nodes) /\ Len(chain') = Len(chain) - Len(got)
         /\ \A i \in 1..Len(chain') : chain'[i] = chain[Len(got) + i]
         /\ Len(got) < Len(chain)
<1>. USE SeqFacts DEF MpscInv, PopStop
<1>1. Len(got) < Len(chain)
  BY Zenon DEF ConsumerOK
<1>2. \A i \in (Len(got) + 1)..Len(chain) : chain[i] \in Nodes
  OBVIOUS
<1>. DEFINE m == Len(got) + 1
            l == Len(chain)
            c == SubSeq(chain, m, l)
<1>3. m \in Int /\ l \in Int /\ m <= l
  BY <1>1
<1>4. c \in Seq(Nodes) /\ Len(c) = l - m + 1 /\ \A i \in 1..(l - m + 1) : c[i] = chain[m + i - 1]
  BY <1>2, <1>3, SubSeqProperties
<1>5. \A i \in 1..(l - m + 1) : m + i - 1 = Len(got) + i
  BY <1>3
<1>. QED  BY <1>1, <1>3, <1>4, <1>5

(* The consumed part of the list becomes the trail. *)
LEMMA PopStopStep == ASSUME MpscInv, PopStop PROVE MpscInv'
<1>. USE SeqFacts DEF MpscInv
<1>0. PICK k \in Nat : k = Len(got)
  BY Zenon
<1>1. /\ k \in Nat /\ k < Len(chain) /\ chain' \in Seq(Nodes) /\ Len(chain') = Len(chain) - k
      /\ \A i \in 1..Len(chain') : chain'[i] = chain[k + i] /\ k + i \in 1..Len(chain)
  BY <1>0, ScanCuts
<1>2. /\ cpc = "scan" /\ cpc' = (IF got = <<>> THEN "idle" ELSE "store")
      /\ cur = chain[k + 1] /\ head = chain[1] /\ first = chain[1]
      /\ UNCHANGED <<head, tail, next, val, len, pool, ppc, pnode, pprev, want, first, cur, got, from>>
  BY Zenon, <1>0 DEF PopStop, producerVars, ConsumerOK
<1>3. TypeOK'
  BY Zenon, <1>1, <1>2 DEF TypeOK
<1>4. ChainOK'
  <2>1. Len(chain') >= 1 /\ tail' = chain'[Len(chain')] /\ next'[tail'] = Nil
    BY <1>1, <1>2 DEF ChainOK
  <2>2. ASSUME NEW i \in 1..Len(chain'), NEW j \in 1..Len(chain'), chain'[i] = chain'[j]
        PROVE  i = j
    <3>1. k + i = k + j
      BY SMTT(30), <2>2, <1>1 DEF ChainOK
    <3>. QED  BY <3>1
  <2>3. ASSUME NEW i \in 1..(Len(chain') - 1)
        PROVE  /\ k + i \in 1..(Len(chain) - 1)
               /\ chain'[i] = chain[k + i] /\ chain'[i + 1] = chain[(k + i) + 1]
    BY SMTT(30), <1>1
  <2>4. \A i \in 1..(Len(chain') - 1) :
          \/ next'[chain'[i]] = chain'[i + 1]
          \/ /\ next'[chain'[i]] = Nil
             /\ \E p \in Producers : ppc'[p] = "link" /\ pprev'[p] = chain'[i]
                                       /\ pnode'[p] = chain'[i + 1]
    <3>. TAKE i \in 1..(Len(chain') - 1)
    <3>1. /\ k + i \in 1..(Len(chain) - 1)
          /\ chain'[i] = chain[k + i] /\ chain'[i + 1] = chain[(k + i) + 1]
      BY Zenon, <2>3
    <3>2. \/ next[chain[k + i]] = chain[(k + i) + 1]
          \/ /\ next[chain[k + i]] = Nil
             /\ \E p \in Producers : ppc[p] = "link" /\ pprev[p] = chain[k + i]
                                       /\ pnode[p] = chain[(k + i) + 1]
      BY Zenon, <3>1 DEF ChainOK
    <3>. QED  BY Zenon, <3>1, <3>2, <1>2
  <2>5. \A i \in 2..Len(chain') : from'[chain'[i]] \in Producers
    BY SMTT(30), <1>1, <1>2 DEF ChainOK
  <2>. QED  BY Zenon, <2>1, <2>2, <2>4, <2>5 DEF ChainOK
<1>5. PushOK'
  <2>1. ASSUME NEW p \in Producers, Owned(p) PROVE Owned(p)'
    BY Zenon, <2>1, <1>1, <1>2 DEF Owned
  <2>2. ASSUME NEW p \in Producers, Unlinked(p) PROVE Unlinked(p)'
    <3>1. PICK i \in 1..(Len(chain) - 1) :
            pprev[p] = chain[i] /\ pnode[p] = chain[i + 1] /\ next[chain[i]] = Nil
      BY Zenon, <2>2 DEF Unlinked
    <3>2. i > k
      BY <3>1, <1>0, <1>1, <1>2 DEF ConsumerOK
    <3>3. /\ i - k \in 1..(Len(chain') - 1)
          /\ chain'[i - k] = chain[i] /\ chain'[(i - k) + 1] = chain[i + 1]
      BY SMTT(30), <3>1, <3>2, <1>1
    <3>. QED  BY Zenon, <2>2, <3>1, <3>3, <1>2 DEF Unlinked
  <2>. QED  BY Zenon, <2>1, <2>2, <1>2 DEF PushOK
<1>6. PoolOK'
  BY ZenonT(30), <1>1, <1>2 DEF PoolOK
<1>7. ValueOK'
  <2>1. ASSUME NEW i \in 1..Len(chain') PROVE Cleared(i)' <=> Cleared(k + i)
    BY <1>0, <1>1, <1>2 DEF Cleared
  <2>. QED  BY ZenonT(30), <2>1, <1>1, <1>2 DEF ValueOK
<1>8. ConsumerOK'
  <2>1. chain'[1] = chain[k + 1] /\ (got = <<>> => k = 0)
    BY <1>0, <1>1
  <2>2. got # <<>> => chain[1] # chain[k + 1]
    BY <1>0, <1>1 DEF ChainOK
  <2>. QED  BY <2>1, <2>2, <1>2 DEF ConsumerOK
<1>9. TrailOK'
  <2>. SUFFICES ASSUME NEW z \in [1..(k + 1) -> Nodes], z = [i \in 1..(k + 1) |-> chain[i]]
                PROVE  Trail(k, z)'
    <3>1. k \in 0..Len(got')
      BY <1>0, <1>2
    <3>2. [i \in 1..(k + 1) |-> chain[i]] \in [1..(k + 1) -> Nodes]
      BY <1>1
    <3>. QED  BY Zenon, <3>1, <3>2 DEF TrailOK
  <2>2. z[1] = first' /\ z[k + 1] = cur'
    BY <1>1, <1>2
  <2>3. ASSUME NEW i \in 1..k
        PROVE  /\ next'[z[i]] = z[i + 1] /\ z[i] \notin pool' /\ val'[z[i]] = Zero
               /\ \A j \in 1..(k + 1) : z[i] = z[j] => i = j
               /\ \A j \in 1..Len(chain') : chain'[j] # z[i]
               /\ \A p \in Producers : ppc'[p] = "swap" => pnode'[p] # z[i]
    <3>1. i \in 1..(Len(chain) - 1) /\ i \in 1..Len(chain) /\ next[chain[i]] # Nil
      BY <1>0, <1>1, <1>2 DEF ConsumerOK
    <3>2. next[chain[i]] = chain[i + 1]
      BY Zenon, <3>1 DEF ChainOK
    <3>3. val[chain[i]] = Zero
      BY <3>1, <1>0, <1>2 DEF ValueOK, Cleared
    <3>4. chain[i] \notin pool
      BY Zenon, <3>1 DEF PoolOK
    <3>5. \A p \in Producers : ppc[p] = "swap" => pnode[p] # chain[i]
      BY Zenon, <3>1 DEF PushOK, Owned
    <3>6. ASSUME NEW j \in 1..Len(chain') PROVE chain'[j] # chain[i]
      <4>1. k + j \in 1..Len(chain) /\ k + j # i /\ chain'[j] = chain[k + j]
        BY <1>1
      <4>. QED  BY ZenonT(30), <3>1, <4>1 DEF ChainOK
    <3>7. \A j \in 1..(k + 1) : chain[i] = chain[j] => i = j
      BY <3>1, <1>1 DEF ChainOK
    <3>8. z[i] = chain[i] /\ z[i + 1] = chain[i + 1] /\ \A j \in 1..(k + 1) : z[j] = chain[j]
      OBVIOUS
    <3>. QED  BY <1>2, <3>2, <3>3, <3>4, <3>5, <3>6, <3>7, <3>8
  <2>. QED  BY Zenon, <2>2, <2>3 DEF Trail
<1>. QED  BY Zenon, <1>3, <1>4, <1>5, <1>6, <1>7, <1>8, <1>9

(* The recycling loop gives back one node of the trail, or is at its end. *)
LEMMA PopRecycleStep == ASSUME MpscInv, PopRecycle PROVE MpscInv'
<1>. USE SeqFacts DEF MpscInv
<1>1. PICK k \in 0..Len(got) : \E z \in [1..(k + 1) -> Nodes] : Trail(k, z)
  BY Zenon DEF PopRecycle, TrailOK
<1>2. PICK z \in [1..(k + 1) -> Nodes] : Trail(k, z)
  BY Zenon, <1>1
<1>3. UNCHANGED <<head, tail, next, val, len, ppc, pnode, pprev, want, cur, chain, from>>
  BY Zenon DEF PopRecycle, producerVars
<1>4. CASE first = cur
  <2>1. cpc' = "idle" /\ cpc = "recycle" /\ pool' = pool /\ first' = first /\ got' = <<>>
    BY Zenon, <1>4 DEF PopRecycle
  <2>2. TypeOK'
    BY Zenon, <1>3, <2>1, EmptySeq DEF TypeOK
  <2>3. ChainOK'
    BY ZenonT(30), <1>3 DEF ChainOK
  <2>4. PushOK'
    <3>1. ASSUME NEW p \in Producers, ppc[p] = "swap" PROVE Owned(p)'
      BY Zenon, <3>1, <1>3, <2>1 DEF PushOK, Owned
    <3>2. ASSUME NEW p \in Producers, ppc[p] = "link" PROVE Unlinked(p)'
      BY Zenon, <3>2, <1>3 DEF PushOK, Unlinked
    <3>. QED  BY Zenon, <3>1, <3>2, <1>3 DEF PushOK
  <2>5. PoolOK' /\ ValueOK' /\ ConsumerOK' /\ TrailOK'
    BY Zenon, <1>3, <2>1 DEF PoolOK, ValueOK, Cleared, ConsumerOK, TrailOK
  <2>. QED  BY Zenon, <2>2, <2>3, <2>4, <2>5
<1>5. CASE first # cur
  <2>1. cpc' = cpc /\ cpc = "recycle" /\ got' = got /\ pool' = pool \cup {first} /\ first' = next[first]
    BY Zenon, <1>5 DEF PopRecycle
  <2>2. k >= 1
    BY <1>2, <1>5 DEF Trail
  <2>3. /\ first = z[1] /\ next[first] = z[2] /\ z[2] \in Nodes /\ val[first] = Zero
        /\ \A j \in 1..Len(chain) : chain[j] # first
        /\ \A p \in Producers : ppc[p] = "swap" => pnode[p] # first
    BY <1>2, <2>2 DEF Trail
  <2>4. TypeOK'
    BY Zenon, <1>3, <2>1, <2>3 DEF TypeOK
  <2>5. ChainOK'
    BY Zenon, <1>3 DEF ChainOK
  <2>6. PushOK'
    <3>1. ASSUME NEW p \in Producers, ppc[p] = "swap" PROVE Owned(p)'
      BY Zenon, <3>1, <1>3, <2>1, <2>3 DEF PushOK, Owned
    <3>2. ASSUME NEW p \in Producers, ppc[p] = "link" PROVE Unlinked(p)'
      BY Zenon, <3>2, <1>3 DEF PushOK, Unlinked
    <3>. QED  BY Zenon, <3>1, <3>2, <1>3 DEF PushOK
  <2>7. PoolOK' /\ ValueOK' /\ ConsumerOK'
    BY ZenonT(30), <1>3, <2>1, <2>3 DEF PoolOK, ValueOK, Cleared, ConsumerOK
  <2>8. TrailOK'
    <3>. DEFINE y == [i \in 1..k |-> z[i + 1]]
    <3>1. y \in [1..((k - 1) + 1) -> Nodes] /\ k - 1 \in 0..Len(got)
      BY <2>2
    <3>2. y[1] = first' /\ y[(k - 1) + 1] = cur'
      BY <1>2, <1>3, <2>1, <2>2, <2>3 DEF Trail
    <3>3. ASSUME NEW i \in 1..(k - 1)
          PROVE  /\ next'[y[i]] = y[i + 1] /\ y[i] \notin pool' /\ val'[y[i]] = Zero
                 /\ \A j \in 1..((k - 1) + 1) : y[i] = y[j] => i = j
                 /\ \A j \in 1..Len(chain') : chain'[j] # y[i]
                 /\ \A p \in Producers : ppc'[p] = "swap" => pnode'[p] # y[i]
      <4>1. i + 1 \in 1..k /\ y[i] = z[i + 1] /\ y[i + 1] = z[(i + 1) + 1]
        BY <2>2
      <4>2. /\ next[z[i + 1]] = z[(i + 1) + 1] /\ z[i + 1] \notin pool /\ val[z[i + 1]] = Zero
            /\ \A j \in 1..(k + 1) : z[i + 1] = z[j] => i + 1 = j
            /\ \A j \in 1..Len(chain) : chain[j] # z[i + 1]
            /\ \A p \in Producers : ppc[p] = "swap" => pnode[p] # z[i + 1]
        BY Zenon, <4>1, <1>2 DEF Trail
      <4>3. z[i + 1] # z[1]
        BY <4>2, <2>2
      <4>4. \A j \in 1..((k - 1) + 1) : y[j] = z[j + 1] /\ j + 1 \in 1..(k + 1)
        BY <2>2
      <4>. HIDE DEF y
      <4>5. \A j \in 1..((k - 1) + 1) : y[i] = y[j] => i = j
        <5>. SUFFICES ASSUME NEW j \in 1..((k - 1) + 1), y[i] = y[j] PROVE i = j
          BY Zenon
        <5>1. i + 1 = j + 1
          BY Zenon, <4>1, <4>2, <4>4
        <5>. QED  BY <5>1
      <4>. QED  BY Zenon, <4>1, <4>2, <4>3, <4>5, <1>3, <2>1, <2>3
    <3>. HIDE DEF y
    <3>4. Trail(k - 1, y)'
      BY Zenon, <3>2, <3>3 DEF Trail
    <3>. QED  BY Zenon, <3>1, <3>4, <2>1 DEF TrailOK
  <2>. QED  BY Zenon, <2>4, <2>5, <2>6, <2>7, <2>8
<1>. QED  BY Zenon, <1>4, <1>5

(* MpscInv holds in every reachable state of the queue. *)
THEOREM MpscInvariant == Spec => []MpscInv
<1>1. MpscInv /\ [Next]_vars => MpscInv'
  <2>. SUFFICES ASSUME MpscInv, [Next]_vars PROVE MpscInv'
    BY Zenon
  <2>1. CASE UNCHANGED vars
    <3>. USE <2>1 DEF MpscInv, vars
    <3>1. TypeOK' /\ ChainOK' /\ PoolOK' /\ ValueOK' /\ ConsumerOK'
      BY SMTT(30) DEF TypeOK, ChainOK, PoolOK, ValueOK, Cleared, ConsumerOK
    <3>2. PushOK' /\ TrailOK'
      BY SMTT(30) DEF PushOK, Owned, Unlinked, TrailOK, Trail
    <3>. QED  BY ZenonT(30), <3>1, <3>2
  <2>. QED  BY Zenon, <2>1, PushGetStep, PushSwapStep, PushLinkStep, CountStoreSubStep, PopBeginStep,
               PopScanStep, PopStopStep, PopRecycleStep DEF Next, Producer, Consumer
<1>. QED  BY <1>1, MpscInit, PTL DEF Spec

(* The pool never holds a node that the list, a producer or the consumer   *)
(* still uses, nor one that keeps a value alive.                           *)
THEOREM RecyclingIsSafe == Spec => []RecycleSafe
<1>1. MpscInv => RecycleSafe
  <2>. SUFFICES ASSUME MpscInv, NEW n \in pool
                PROVE  /\ n # tail /\ n # head
                       /\ \A i \in 1..Len(chain) : chain[i] # n
                       /\ \A p \in Producers :
                            /\ ppc[p] \in {"swap", "link"} => pnode[p] # n
                            /\ ppc[p] = "link" => pprev[p] # n
                       /\ val[n] = Zero
    BY Zenon DEF RecycleSafe
  <2>. USE SeqFacts DEF MpscInv
  <2>1. val[n] = Zero /\ \A i \in 1..Len(chain) : chain[i] # n
    BY Zenon DEF PoolOK
  <2>2. n # tail /\ n # chain[1]
    BY <2>1 DEF ChainOK
  <2>3. n # head
    <3>1. CASE cpc = "store"
      <4>1. PICK k \in 0..Len(got) : \E z \in [1..(k + 1) -> Nodes] : Trail(k, z)
        BY Zenon, <3>1 DEF TrailOK
      <4>2. PICK z \in [1..(k + 1) -> Nodes] : Trail(k, z)
        BY Zenon, <4>1
      <4>3. z[1] = head /\ k >= 1
        BY <3>1, <4>2 DEF Trail, ConsumerOK
      <4>. QED  BY <4>2, <4>3 DEF Trail
    <3>2. CASE cpc # "store"
      BY Zenon, <2>2, <3>2 DEF ConsumerOK, TypeOK
    <3>. QED  BY Zenon, <3>1, <3>2
  <2>4. ASSUME NEW p \in Producers, ppc[p] = "link" PROVE pnode[p] # n /\ pprev[p] # n
    <3>1. PICK i \in 1..(Len(chain) - 1) : pprev[p] = chain[i] /\ pnode[p] = chain[i + 1]
      BY Zenon, <2>4 DEF PushOK, Unlinked
    <3>2. i \in 1..Len(chain) /\ i + 1 \in 1..Len(chain)
      BY <3>1
    <3>. QED  BY Zenon, <2>1, <3>1, <3>2
  <2>5. ASSUME NEW p \in Producers, ppc[p] = "swap" PROVE pnode[p] # n
    BY Zenon, <2>5 DEF PushOK, Owned
  <2>. QED  BY Zenon, <2>1, <2>2, <2>3, <2>4, <2>5
<1>. QED  BY <1>1, MpscInvariant, PTL

----------------------------------------------------------------------------
(* The refinement mapping, slot by slot *)
Pushing == [p \in Producers |-> IF ppc[p] \in {"link", "count"} THEN ppc[p] ELSE "no"]
SlotAt(i) ==
  [from   |-> from[chain[i + 1]],
   val    |-> IF cpc = "scan" /\ i <= Len(got) THEN got[i] ELSE val[chain[i + 1]],
   linked |-> next[chain[i]] # Nil]

SlotsOK ==
  /\ Slots \in Seq(Queue!Slot) /\ Len(Slots) = Len(chain) - 1
  /\ \A i \in 1..Len(Slots) : Slots[i] = SlotAt(i)

(* The list is a queue of MpscQueue's slots ... *)
LEMMA SlotsType == MpscInv => SlotsOK
<1>. SUFFICES ASSUME MpscInv PROVE SlotsOK
  BY Zenon
<1>. USE SeqFacts DEF MpscInv
<1>1. Len(chain) - 1 \in Nat
  BY DEF ChainOK
<1>2. \A i \in 1..(Len(chain) - 1) : SlotAt(i) \in Queue!Slot
  <2>. TAKE i \in 1..(Len(chain) - 1)
  <2>1. i + 1 \in 2..Len(chain) /\ i + 1 \in 1..Len(chain)
    BY <1>1
  <2>2. from[chain[i + 1]] \in Producers
    BY Zenon, <2>1 DEF ChainOK
  <2>3. (IF cpc = "scan" /\ i <= Len(got) THEN got[i] ELSE val[chain[i + 1]]) \in Values
    BY <2>1 DEF ValueOK, Cleared
  <2>. QED  BY Zenon, <2>2, <2>3 DEF SlotAt, Queue!Slot
<1>3. Slots = [i \in 1..(Len(chain) - 1) |-> SlotAt(i)]
  BY Zenon DEF Slots, SlotAt
<1>. HIDE DEF SlotAt, Slots
<1>4. Slots \in Seq(Queue!Slot) /\ Len(Slots) = Len(chain) - 1
  BY <1>1, <1>2, <1>3
<1>. QED  BY Zenon, <1>3, <1>4 DEF SlotsOK

(* ... and still is after a step. *)
LEMMA SlotsTypeNext == MpscInv' => SlotsOK'
BY SlotsType, PTL

(* A step that changes no slot, and neither counter nor Push, is a stutter.*)
LEMMA SlotsSame ==
  ASSUME Len(chain') = Len(chain), \A i \in 1..(Len(chain) - 1) : SlotAt(i)' = SlotAt(i)
  PROVE  Slots' = Slots
<1>1. Slots = [i \in 1..(Len(chain) - 1) |-> SlotAt(i)]
  BY Zenon DEF Slots, SlotAt
<1>2. Slots' = [i \in 1..(Len(chain') - 1) |-> SlotAt(i)']
  BY Zenon DEF Slots, SlotAt
<1>. QED  BY Zenon, <1>1, <1>2

(* pool.Get and the fields of the new node are not visible. *)
LEMMA PushGetRefines ==
  ASSUME MpscInv, NEW p \in Producers, NEW v \in Values, PushGet(p, v)
  PROVE  Slots' = Slots /\ Pushing' = Pushing
<1>. USE SeqFacts DEF MpscInv
<1>1. PICK n \in pool :
       /\ ppc[p] = "get"
       /\ val' = [val EXCEPT ![n] = v] /\ next' = [next EXCEPT ![n] = Nil]
       /\ ppc' = [ppc EXCEPT ![p] = "swap"]
       /\ from' = [from EXCEPT ![n] = p]
       /\ UNCHANGED <<consumerVars, chain>>
  BY Zenon DEF PushGet, PoolGet
<1>2. \A i \in 1..Len(chain) :
        val'[chain[i]] = val[chain[i]] /\ next'[chain[i]] = next[chain[i]]
          /\ from'[chain[i]] = from[chain[i]]
  BY ZenonT(30), <1>1 DEF PoolOK, TypeOK
<1>3. \A i \in 1..(Len(chain) - 1) : SlotAt(i)' = SlotAt(i)
  BY <1>1, <1>2 DEF SlotAt, consumerVars
<1>4. Pushing' = Pushing
  BY Zenon, <1>1 DEF Pushing, TypeOK
<1>. QED  BY Zenon, <1>1, <1>3, <1>4, SlotsSame

(* Swap reserves a slot. *)
LEMMA PushSwapRefines ==
  ASSUME MpscInv, MpscInv', NEW p \in Producers, PushSwap(p)
  PROVE  \E v \in Values : Queue!Reserve(p, v)
<1>. USE SeqFacts DEF MpscInv
<1>. DEFINE v == val[pnode[p]]
            e == [from |-> p, val |-> v, linked |-> FALSE]
<1>1. Owned(p) /\ chain \in Seq(Nodes)
  BY ZenonT(30) DEF PushSwap, PushOK, TypeOK
<1>2. /\ Len(chain') = Len(chain) + 1 /\ chain'[Len(chain) + 1] = pnode[p]
      /\ \A i \in 1..Len(chain) : chain'[i] = chain[i]
      /\ UNCHANGED <<next, val, from, cpc, got>>
  BY <1>1, AppendProperties DEF PushSwap, Owned, consumerVars
<1>3. e \in Queue!Slot
  BY Zenon, <1>1 DEF Owned, Queue!Slot
<1>4. \A i \in 1..(Len(chain) - 1) : SlotAt(i)' = SlotAt(i)
  BY <1>2 DEF SlotAt
<1>5. PICK l \in Nat : l = Len(chain)
  BY Zenon
<1>6. SlotAt(l)' = e
  <2>1. next[chain[l]] = Nil /\ l >= 1
    BY Zenon, <1>5 DEF ChainOK
  <2>2. ~(cpc = "scan" /\ l <= Len(got))
    BY <1>5 DEF ConsumerOK
  <2>3. from[pnode[p]] = p /\ chain'[l + 1] = pnode[p] /\ chain'[l] = chain[l]
    BY <1>1, <1>2, <1>5, <2>1 DEF Owned
  <2>. QED  BY Zenon, <1>2, <2>1, <2>2, <2>3 DEF SlotAt
<1>. HIDE DEF e
<1>7. Slots' = Append(Slots, e)
  <2>1. /\ Slots \in Seq(Queue!Slot) /\ Len(Slots) = l - 1
        /\ \A i \in 1..(l - 1) : Slots[i] = SlotAt(i)
    BY ZenonT(30), <1>5, SlotsType DEF SlotsOK
  <2>2. /\ Slots' \in Seq(Queue!Slot) /\ Len(Slots') = l
        /\ \A i \in 1..l : Slots'[i] = SlotAt(i)'
    BY SMTT(30), <1>2, <1>5, SlotsTypeNext DEF SlotsOK
  <2>3. /\ Append(Slots, e) \in Seq(Queue!Slot) /\ Len(Append(Slots, e)) = l
        /\ \A i \in 1..(l - 1) : Append(Slots, e)[i] = Slots[i]
        /\ Append(Slots, e)[l] = e
    BY SMTT(30), <1>3, <2>1, AppendProperties
  <2>4. \A i \in 1..l : Slots'[i] = Append(Slots, e)[i]
    BY SMTT(30), <1>4, <1>5, <1>6, <2>1, <2>2, <2>3
  <2>. QED  BY Zenon, <2>2, <2>3, <2>4, SeqEqual
<1>8. Pushing[p] = "no" /\ Pushing' = [Pushing EXCEPT ![p] = "link"]
  BY Zenon DEF PushSwap, Pushing, TypeOK
<1>9. len' = len /\ Owed' = Owed /\ v \in Values
  BY Zenon, <1>1, <1>2 DEF PushSwap, Owed, Owned
<1>. QED  BY Zenon, <1>7, <1>8, <1>9 DEF Queue!Reserve, Pushing, e

(* A slot, linked *)
LEMMA LinkedSlot ==
  ASSUME NEW f, NEW x, NEW b \in BOOLEAN
  PROVE  [[from |-> f, val |-> x, linked |-> b] EXCEPT !.linked = TRUE]
           = [from |-> f, val |-> x, linked |-> TRUE]
<1>. DEFINE S == [from : {f}, val : {x}, linked : BOOLEAN]
<1>1. [[from |-> f, val |-> x, linked |-> b] EXCEPT !.linked = TRUE] \in S
  BY Zenon
<1>2. [from |-> f, val |-> x, linked |-> TRUE] \in S
  BY Zenon
<1>3. [[from |-> f, val |-> x, linked |-> b] EXCEPT !.linked = TRUE].linked = TRUE
  BY Zenon
<1>. QED  BY Zenon, <1>1, <1>2, <1>3

(* The rest of a sequence, by its places there *)
LEMMA Rest ==
  ASSUME NEW S, NEW s \in Seq(S), NEW k \in 0..Len(s)
  PROVE  /\ SubSeq(s, k + 1, Len(s)) \in Seq(S)
         /\ Len(SubSeq(s, k + 1, Len(s))) = Len(s) - k
         /\ \A i \in 1..(Len(s) - k) : SubSeq(s, k + 1, Len(s))[i] = s[k + i]
<1>1. k \in Int /\ k + 1 \in Int /\ Len(s) \in Int /\ \A i \in (k + 1)..Len(s) : s[i] \in S
  BY ElementOfSeq
<1>2. /\ SubSeq(s, k + 1, Len(s)) \in Seq(S)
      /\ Len(SubSeq(s, k + 1, Len(s))) =
           IF k + 1 <= Len(s) THEN Len(s) - (k + 1) + 1 ELSE 0
      /\ \A i \in 1..(Len(s) - (k + 1) + 1) :
           SubSeq(s, k + 1, Len(s))[i] = s[(k + 1) + i - 1]
  BY SMTT(30), <1>1, SubSeqProperties
<1>3. /\ Len(s) - (k + 1) + 1 = Len(s) - k
      /\ \A i \in 1..(Len(s) - k) : (k + 1) + i - 1 = k + i
      /\ (IF k + 1 <= Len(s) THEN Len(s) - (k + 1) + 1 ELSE 0) = Len(s) - k
  BY <1>1
<1>4. QED
  BY Zenon, <1>2, <1>3

(* Store links it: the one slot of the producer that was not linked. *)
LEMMA PushLinkRefines ==
  ASSUME MpscInv, NEW p \in Producers, PushLink(p)
  PROVE  Queue!Link(p)
<1>a. TypeOK /\ ChainOK /\ PushOK
  BY Zenon DEF MpscInv
<1>b. Len(chain) \in Nat /\ \A i \in 1..Len(chain) : chain[i] \in Nodes
  BY Zenon, <1>a, SeqFacts
<1>. USE <1>a, <1>b
<1>1. PICK l \in 1..(Len(chain) - 1) :
        pprev[p] = chain[l] /\ pnode[p] = chain[l + 1] /\ from[chain[l + 1]] = p
  BY SMTT(30) DEF PushLink, PushOK, Unlinked
<1>2. /\ next'[chain[l]] = chain[l + 1] /\ chain[l + 1] # Nil
      /\ \A i \in 1..Len(chain) : i # l => next'[chain[i]] = next[chain[i]]
      /\ UNCHANGED <<val, from, cpc, got, chain>>
  <2>1. l \in 1..Len(chain) /\ l + 1 \in 1..Len(chain)
    BY <1>1
  <2>. QED  BY SMTT(30), <1>1, <2>1, MpscAssumption DEF PushLink, TypeOK, ChainOK, consumerVars
<1>3. ASSUME NEW i \in 1..(Len(chain) - 1)
      PROVE  SlotAt(i)' = IF SlotAt(i).from = p THEN [SlotAt(i) EXCEPT !.linked = TRUE] ELSE SlotAt(i)
  <2>1. SlotAt(i).from = from[chain[i + 1]]
    BY Zenon DEF SlotAt
  <2>2. CASE i = l
    <3>. DEFINE x == IF cpc = "scan" /\ i <= Len(got) THEN got[i] ELSE val[chain[i + 1]]
                f == from[chain[i + 1]]
                b == next[chain[i]] # Nil
    <3>a. (next'[chain[i]] # Nil) = TRUE
      BY Zenon, <2>2, <1>2
    <3>b. SlotAt(i) = [from |-> f, val |-> x, linked |-> b]
      BY Zenon DEF SlotAt
    <3>c. SlotAt(i)' = [from |-> f, val |-> x, linked |-> TRUE]
      BY Zenon, <3>a, <1>2 DEF SlotAt
    <3>d. b \in BOOLEAN
      BY Zenon
    <3>. HIDE DEF x, f, b
    <3>1. SlotAt(i)' = [SlotAt(i) EXCEPT !.linked = TRUE]
      BY ONLY <3>b, <3>c, <3>d, LinkedSlot
    <3>. QED  BY Zenon, <2>1, <2>2, <3>1, <1>1
  <2>3. CASE i # l
    <3>1. SlotAt(i)' = SlotAt(i)
      BY <2>3, <1>2 DEF SlotAt
    <3>2. ASSUME from[chain[i + 1]] = p PROVE next[chain[i]] # Nil
      <4>. SUFFICES ASSUME next[chain[i]] = Nil PROVE FALSE
        BY Zenon
      <4>1. i + 1 \in 1..Len(chain) /\ l + 1 \in 1..Len(chain) /\ i + 1 # l + 1
        BY <2>3, <1>1
      <4>2. chain[i + 1] # Nil
        BY Zenon, <4>1, MpscAssumption
      <4>3. PICK q \in Producers : ppc[q] = "link" /\ pnode[q] = chain[i + 1]
        BY ZenonT(30), <4>2 DEF ChainOK
      <4>4. q = p
        BY ZenonT(30), <3>2, <4>3 DEF PushOK, Unlinked
      <4>5. chain[i + 1] = chain[l + 1]
        BY Zenon, <4>3, <4>4, <1>1
      <4>. QED  BY Zenon, <4>1, <4>5 DEF ChainOK
    <3>3. ASSUME from[chain[i + 1]] = p PROVE [SlotAt(i) EXCEPT !.linked = TRUE] = SlotAt(i)
      <4>. DEFINE x == IF cpc = "scan" /\ i <= Len(got) THEN got[i] ELSE val[chain[i + 1]]
                  f == from[chain[i + 1]]
      <4>1. (next[chain[i]] # Nil) = TRUE
        BY Zenon, <3>2, <3>3
      <4>2. SlotAt(i) = [from |-> f, val |-> x, linked |-> TRUE]
        BY Zenon, <4>1 DEF SlotAt
      <4>. HIDE DEF x, f
      <4>. QED  BY ONLY <4>2, LinkedSlot
    <3>. QED  BY ZenonT(30), <2>1, <3>1, <3>3
  <2>. QED  BY Zenon, <2>2, <2>3
<1>4. /\ Len(Slots) = Len(chain) - 1 /\ \A i \in 1..Len(Slots) : Slots[i] = SlotAt(i)
  BY Zenon, SlotsType DEF SlotsOK
<1>5. Slots' = [i \in 1..Len(Slots) |-> SlotAt(i)']
  BY Zenon, <1>2, <1>4 DEF Slots, SlotAt
<1>6. Slots' = [i \in 1..Len(Slots) |->
                  IF Slots[i].from = p THEN [Slots[i] EXCEPT !.linked = TRUE] ELSE Slots[i]]
  BY Zenon, <1>3, <1>4, <1>5
<1>7. Pushing[p] = "link" /\ Pushing' = [Pushing EXCEPT ![p] = "count"]
  BY Zenon DEF PushLink, Pushing, TypeOK
<1>8. len' = len /\ Owed' = Owed
  BY Zenon, <1>2 DEF PushLink, Owed
<1>. QED  BY Zenon, <1>6, <1>7, <1>8 DEF Queue!Link, Pushing

(* Add(1) counts it. *)
LEMMA PushCountRefines ==
  ASSUME MpscInv, NEW p \in Producers, PushCount(p)
  PROVE  Queue!Count(p)
<1>. USE DEF MpscInv
<1>1. Slots' = Slots /\ Owed' = Owed
  BY Zenon DEF PushCount, consumerVars, Slots, Owed
<1>2. Pushing[p] = "count" /\ Pushing' = [Pushing EXCEPT ![p] = "no"] /\ len' = len + 1
  BY Zenon DEF PushCount, Pushing, TypeOK
<1>. QED  BY Zenon, <1>1, <1>2 DEF Queue!Count, Pushing

(* The scan is not visible until it ends: what it clears it has in got. *)
LEMMA PopQuietRefines ==
  ASSUME MpscInv, (\E n \in 1..BatchSize : PopBegin(n)) \/ PopScan \/ PopStore \/ PopRecycle
  PROVE  UNCHANGED <<Slots, len, Pushing, Owed>>
<1>. USE SeqFacts DEF MpscInv
<1>0. len' = len /\ Pushing' = Pushing
  BY Zenon DEF PopBegin, PopScan, PopStore, PopRecycle, producerVars, Pushing
<1>1. ASSUME NEW n \in 1..BatchSize, PopBegin(n) PROVE Slots' = Slots /\ Owed' = Owed
  <2>1. Len(got') = 0 /\ cpc = "idle" /\ cpc' = "scan" /\ UNCHANGED <<chain, next, val, from>>
    BY ZenonT(30), <1>1 DEF PopBegin
  <2>2. \A i \in 1..(Len(chain) - 1) : SlotAt(i)' = SlotAt(i)
    BY <2>1 DEF SlotAt
  <2>. QED  BY Zenon, <2>1, <2>2, SlotsSame DEF Owed
<1>2. CASE PopScan
  <2>. DEFINE n == Len(got) + 2
  <2>1. /\ n \in 1..Len(chain) /\ next[cur] = chain[n]
        /\ \A i \in 1..Len(got) : got'[i] = got[i]
        /\ got'[Len(got) + 1] = val[chain[n]] /\ Len(got') = Len(got) + 1
    BY Zenon, <1>2, ScanFinds
  <2>2. /\ cpc = "scan" /\ cpc' = "scan" /\ UNCHANGED <<chain, next, from>>
        /\ val' = [val EXCEPT ![chain[n]] = Zero]
    BY Zenon, <1>2, <2>1 DEF PopScan
  <2>3. \A i \in 1..Len(chain) : i # n => val'[chain[i]] = val[chain[i]]
    BY ZenonT(30), <2>1, <2>2 DEF ChainOK, TypeOK
  <2>4. ASSUME NEW i \in 1..(Len(chain) - 1)
        PROVE  (IF i <= Len(got') THEN got'[i] ELSE val'[chain[i + 1]])
                 = (IF i <= Len(got) THEN got[i] ELSE val[chain[i + 1]])
    <3>1. CASE i <= Len(got)
      BY <3>1, <2>1
    <3>2. CASE i = Len(got) + 1
      BY <3>2, <2>1
    <3>3. CASE i > Len(got) + 1
      BY <3>3, <2>1, <2>3
    <3>. QED  BY <3>1, <3>2, <3>3
  <2>5. \A i \in 1..(Len(chain) - 1) : SlotAt(i)' = SlotAt(i)
    BY Zenon, <2>2, <2>4 DEF SlotAt
  <2>6. Len(chain') = Len(chain) /\ Owed' = Owed
    BY Zenon, <2>2 DEF Owed
  <2>. QED  BY ONLY <1>0, <2>5, <2>6, SlotsSame
<1>3. CASE PopStore \/ PopRecycle
  <2>1. cpc # "scan" /\ cpc' # "scan" /\ UNCHANGED <<chain, next, val, from>> /\ Owed' = Owed
    BY Zenon, <1>3 DEF PopStore, PopRecycle, Owed
  <2>2. \A i \in 1..(Len(chain) - 1) : SlotAt(i)' = SlotAt(i)
    BY Zenon, <2>1 DEF SlotAt
  <2>3. Len(chain') = Len(chain)
    BY Zenon, <2>1
  <2>. QED  BY ONLY <1>0, <2>1, <2>2, <2>3, SlotsSame
<1>. QED  BY Zenon, <1>0, <1>1, <1>2, <1>3

(* A slot is linked when the node before it points on. *)
LEMMA SlotLinked == ASSUME NEW i PROVE SlotAt(i).linked <=> next[chain[i]] # Nil
BY Zenon DEF SlotAt

(* The end of a scan that found something takes it; Pop and PopBatch that  *)
(* find nothing change nothing.                                            *)
LEMMA PopStopRefines ==
  ASSUME MpscInv, MpscInv', PopStop
  PROVE  \/ UNCHANGED <<Slots, len, Pushing, Owed>>
         \/ \E n, k \in 1..BatchSize : Queue!Take(n, k)
<1>. USE SeqFacts DEF MpscInv
<1>0. PICK k \in Nat : k = Len(got)
  BY Zenon
<1>1. /\ k < Len(chain) /\ Len(chain') = Len(chain) - k
      /\ \A i \in 1..Len(chain') : chain'[i] = chain[k + i]
  BY Zenon, <1>0, ScanCuts
<1>2. /\ cpc = "scan" /\ cpc' = (IF got = <<>> THEN "idle" ELSE "store")
      /\ k <= want /\ want \in 1..BatchSize /\ (k = want \/ next[chain[k + 1]] = Nil)
      /\ \A i \in 1..k : next[chain[i]] # Nil
      /\ UNCHANGED <<next, val, len, Pushing, got, from>>
  BY Zenon, <1>0 DEF PopStop, producerVars, ConsumerOK, TypeOK, Pushing
<1>3. /\ Slots \in Seq(Queue!Slot) /\ Len(Slots) = Len(chain) - 1
      /\ \A i \in 1..Len(Slots) : Slots[i] = SlotAt(i)
  BY Zenon, SlotsType DEF SlotsOK
<1>4. /\ Slots' \in Seq(Queue!Slot) /\ Len(Slots') = Len(chain') - 1
      /\ \A i \in 1..Len(Slots') : Slots'[i] = SlotAt(i)'
  BY Zenon, SlotsTypeNext DEF SlotsOK
<1>5. ASSUME NEW i \in 1..(Len(chain') - 1) PROVE SlotAt(i)' = SlotAt(k + i)
  <2>0. i \in 1..Len(chain') /\ i + 1 \in 1..Len(chain') /\ k + (i + 1) = (k + i) + 1
    BY SMTT(30), <1>0, <1>1
  <2>1. chain'[i] = chain[k + i] /\ chain'[i + 1] = chain[(k + i) + 1]
    BY <1>1, <2>0
  <2>2. cpc' # "scan" /\ ~(k + i <= Len(got))
    BY <1>0, <1>2
  <2>. QED  BY Zenon, <2>1, <2>2, <1>2 DEF SlotAt
<1>6. CASE got = <<>>
  <2>1. k = 0 /\ Len(chain') = Len(chain) /\ Owed' = Owed
    BY <1>0, <1>1, <1>2, <1>6 DEF Owed
  <2>2. \A i \in 1..(Len(chain) - 1) : SlotAt(i)' = SlotAt(i)
    BY <2>1, <1>5
  <2>. QED  BY Zenon, <2>1, <2>2, <1>2, SlotsSame
<1>7. CASE got # <<>>
  <2>1. k > 0 /\ k \in 1..BatchSize /\ Owed = 0 /\ Owed' = k
    BY <1>0, <1>2, <1>7, MpscAssumption DEF Owed
  <2>2. Slots' = SubSeq(Slots, k + 1, Len(Slots))
    <3>. DEFINE c == SubSeq(Slots, k + 1, Len(Slots))
    <3>1. k \in 0..Len(Slots) /\ Len(Slots') = Len(Slots) - k
      BY SMTT(30), <1>1, <1>3, <1>4
    <3>2. /\ c \in Seq(Queue!Slot) /\ Len(c) = Len(Slots) - k
          /\ \A i \in 1..(Len(Slots) - k) : c[i] = Slots[k + i]
      BY Zenon, <1>3, <3>1, Rest
    <3>3. Len(Slots') = Len(c)
      BY Zenon, <3>1, <3>2
    <3>4. ASSUME NEW i \in 1..Len(Slots') PROVE Slots'[i] = c[i]
      <4>1. i \in 1..(Len(Slots) - k) /\ k + i \in 1..Len(Slots)
        BY SMTT(30), <1>1, <1>3, <1>4
      <4>2. c[i] = SlotAt(k + i)
        BY Zenon, <4>1, <3>2, <1>3
      <4>. QED  BY Zenon, <4>2, <1>4, <1>5
    <3>. QED  BY Zenon, <1>4, <3>2, <3>3, <3>4, SeqEqual
  <2>3. Queue!StopsAt(want, k)
    <3>1. k \in 0..Len(Slots) /\ k <= want
      BY <1>1, <1>2, <1>3
    <3>2. ASSUME NEW i \in 1..k PROVE Slots[i].linked
      <4>1. Slots[i] = SlotAt(i) /\ next[chain[i]] # Nil
        BY SMTT(30), <1>2, <1>3, <3>1
      <4>. QED  BY ZenonT(30), <4>1, SlotLinked
    <3>3. ASSUME k < want, k < Len(Slots) PROVE ~Slots[k + 1].linked
      <4>1. Slots[k + 1] = SlotAt(k + 1) /\ next[chain[k + 1]] = Nil
        BY <1>2, <1>3, <3>1, <3>3
      <4>. QED  BY Zenon, <4>1, SlotLinked
    <3>. QED  BY ZenonT(30), <3>1, <3>2, <3>3 DEF Queue!StopsAt
  <2>4. Queue!Take(want, k)
    BY Zenon, <2>1, <2>2, <2>3, <1>2 DEF Queue!Take, Pushing
  <2>. QED  BY Zenon, <2>1, <2>4, <1>2
<1>. QED  BY Zenon, <1>6, <1>7

(* Add(-consumed) settles the counter. *)
LEMMA PopSubRefines == ASSUME MpscInv, PopSub PROVE Queue!Settle
<1>. USE SeqFacts DEF MpscInv
<1>1. Owed = Len(got) /\ Len(got) > 0 /\ Owed' = 0 /\ len' = len - Len(got)
  BY Zenon DEF PopSub, Owed, ConsumerOK
<1>2. cpc # "scan" /\ cpc' # "scan" /\ UNCHANGED <<chain, next, val, from, Pushing>>
  BY Zenon DEF PopSub, producerVars, Pushing
<1>3. \A i \in 1..(Len(chain) - 1) : SlotAt(i)' = SlotAt(i)
  BY Zenon, <1>2 DEF SlotAt
<1>4. Slots' = Slots
  BY Zenon, <1>2, <1>3, SlotsSame
<1>. QED  BY Zenon, <1>1, <1>2, <1>4 DEF Queue!Settle, Pushing

(* mpsc.go, with its nodes and its pool, implements the queue that inbox.go*)
(* relies on (MpscQueue): first in first out in the order of the swaps,    *)
(* nothing lost, duplicated or altered.                                    *)
THEOREM MpscRefinesQueue == Spec => RefinesQueue
<1>1. Init => Queue!QueueInit
  <2>. SUFFICES ASSUME Init PROVE Queue!QueueInit
    BY Zenon
  <2>1. Len(chain) = 1 /\ len = 0 /\ Owed = 0
    BY Zenon DEF Init, Owed
  <2>2. Slots = <<>>
    <3>1. SlotsOK
      BY Zenon, MpscInit, SlotsType
    <3>. QED  BY <2>1, <3>1, EmptySeq DEF SlotsOK
  <2>3. Pushing = [p \in Producers |-> "no"]
    BY Zenon DEF Init, Pushing
  <2>. QED  BY Zenon, <2>1, <2>2, <2>3 DEF Queue!QueueInit, Pushing
<1>2. MpscInv /\ MpscInv' /\ [Next]_vars => [Queue!QueueNext]_(Queue!queueVars)
  <2>. SUFFICES ASSUME MpscInv, MpscInv', [Next]_vars
                PROVE  Queue!QueueNext \/ UNCHANGED <<Slots, len, Pushing, Owed>>
    BY Zenon DEF Queue!queueVars, Pushing
  <2>1. ASSUME NEW p \in Producers, NEW v \in Values, PushGet(p, v)
        PROVE  UNCHANGED <<Slots, len, Pushing, Owed>>
    <3>1. len' = len /\ Owed' = Owed
      BY Zenon, <2>1 DEF PushGet, consumerVars, Owed
    <3>. QED  BY Zenon, <2>1, <3>1, PushGetRefines
  <2>2. ASSUME NEW p \in Producers, PushSwap(p) \/ PushLink(p) \/ PushCount(p)
        PROVE  Queue!QueueNext
    BY Zenon, <2>2, PushSwapRefines, PushLinkRefines, PushCountRefines DEF Queue!QueueNext
  <2>3. CASE Consumer
    BY Zenon, <2>3, PopQuietRefines, PopStopRefines, PopSubRefines DEF Consumer, Queue!QueueNext
  <2>4. CASE UNCHANGED vars
    BY Zenon, <2>4 DEF vars, Slots, Pushing, Owed
  <2>. QED  BY Zenon, <2>1, <2>2, <2>3, <2>4 DEF Next, Producer
<1>. QED  BY <1>1, <1>2, MpscInvariant, PTL DEF Spec, RefinesQueue, Queue!QueueSpec
=============================================================================
