---------------------------- MODULE InboxProofs ----------------------------
(***************************************************************************)
(* Proofs about Inbox for any number of senders, workers and messages.     *)
(***************************************************************************)
EXTENDS Inbox, FiniteSetTheorems, SequenceTheorems, TLAPS

(* Where Start is determines what procStatus may be. *)
StartInv ==
  /\ opc = "cas" => procStatus = "stopped" /\ ~closed
  /\ opc \in {"proc", "idle"} => procStatus = "starting" /\ ~closed
  /\ opc \in {"schedule", "done"} =>
       /\ procStatus \in {"idle", "running", "stopped"}
       /\ procStatus = "stopped" <=> closed
       /\ proc
  /\ opc = "idle" => proc
  /\ opc \in {"cas", "proc", "idle"} => \A w \in Workers : wpc[w] = "none"

(* procStatus = running is the token that one worker holds. *)
TokenInv ==
  /\ SingleConsumer
  /\ procStatus = "running" => \E w \in Workers : Active(w)
  /\ procStatus = "idle" => \A w \in Workers : ~Active(w)
  /\ owed # 0 => \E w \in Workers : wpc[w] = "sub"

(* Somebody is still going to look at the queue. *)
Awake ==
  \/ \E p \in Producers : pushing[p] # "no" \/ p \in calling
  \/ \E w \in Workers : wpc[w] \in {"len", "resched"}
  \/ opc = "schedule"

WakeupInv == procStatus = "idle" /\ queue # <<>> => Awake

(* The inductive invariant *)
Inv == TypeOK /\ StartInv /\ TokenInv /\ CountExact /\ WakeupInv

----------------------------------------------------------------------------
(* The queue operations keep the type of the queue and say what becomes of *)
(* its length.                                                             *)
LEMMA ReserveLen ==
  ASSUME QueueTypeOK, NEW p \in Producers, NEW v \in Values, Reserve(p, v)
  PROVE  QueueTypeOK' /\ Len(queue') = Len(queue) + 1 /\ queue' # <<>>
<1>1. [from |-> p, val |-> v, linked |-> FALSE] \in Slot
  BY Zenon DEF Slot
<1>. QED  BY <1>1, AppendProperties DEF QueueTypeOK, Reserve

(* Push, prev.next.Store: one more place is visible, none is added. *)
LEMMA LinkLen ==
  ASSUME QueueTypeOK, NEW p \in Producers, Link(p)
  PROVE  QueueTypeOK' /\ Len(queue') = Len(queue)
<1>1. \A i \in 1..Len(queue) :
        (IF queue[i].from = p THEN [queue[i] EXCEPT !.linked = TRUE] ELSE queue[i]) \in Slot
  <2>. TAKE i \in 1..Len(queue)
  <2>1. queue[i] \in Slot
    BY Zenon, ElementOfSeq DEF QueueTypeOK
  <2>2. [queue[i] EXCEPT !.linked = TRUE] \in Slot
    BY Zenon, <2>1 DEF Slot
  <2>. QED  BY Zenon, <2>1, <2>2
<1>2. queue' \in Seq(Slot) /\ Len(queue') = Len(queue)
  BY <1>1 DEF QueueTypeOK, Link
<1>. QED  BY Zenon, <1>2 DEF QueueTypeOK, Link

(* Push, len.Add: the places are not touched. *)
LEMMA CountLen ==
  ASSUME QueueTypeOK, NEW p \in Producers, Count(p)
  PROVE  QueueTypeOK'
BY DEF QueueTypeOK, Count

(* PopBatch: k places leave at the front, as a batch. *)
LEMMA TakeLen ==
  ASSUME QueueTypeOK, NEW n \in Nat, NEW k \in Nat, Take(n, k)
  PROVE  /\ QueueTypeOK'
         /\ Len(queue') = Len(queue) - k
         /\ SubSeq(queue, 1, k) \in Seq(Slot)
<1>1. k \in 1..Len(queue) /\ Len(queue) \in Nat /\ \A i \in 1..Len(queue) : queue[i] \in Slot
  BY DEF QueueTypeOK, Take, StopsAt
<1>2. \A i \in (k + 1)..Len(queue) : queue[i] \in Slot
  BY <1>1
<1>3. \A i \in 1..k : queue[i] \in Slot
  BY <1>1
<1>4. /\ SubSeq(queue, k + 1, Len(queue)) \in Seq(Slot)
      /\ Len(SubSeq(queue, k + 1, Len(queue))) = Len(queue) - k
  BY <1>1, <1>2, SubSeqProperties
<1>5. SubSeq(queue, 1, k) \in Seq(Slot)
  BY <1>1, <1>3, SubSeqProperties
<1>. QED  BY Zenon, <1>4, <1>5 DEF QueueTypeOK, Take

(* PopBatch, len.Add(-k): the places are not touched. *)
LEMMA SettleLen ==
  ASSUME QueueTypeOK, Settle
  PROVE  QueueTypeOK'
BY DEF QueueTypeOK, Settle

----------------------------------------------------------------------------
(* Type correctness of every step *)
LEMMA TypeStep == TypeOK /\ [Next]_vars => TypeOK'
<1>. SUFFICES ASSUME TypeOK, [Next]_vars PROVE TypeOK'
  BY Zenon
<1>. USE DEF TypeOK, Worker, Running
<1>1. ASSUME NEW p \in Producers, SendReserve(p) PROVE TypeOK'
  <2>1. sent[p] + 1 \in Values /\ sent[p] + 1 \in 0..MaxSends
    BY <1>1, SendsAssumption DEF SendReserve
  <2>2. QueueTypeOK'
    BY Zenon, <1>1, <2>1, ReserveLen DEF SendReserve
  <2>. QED  BY Zenon, <1>1, <2>1, <2>2 DEF SendReserve
<1>2. ASSUME NEW p \in Producers, SendLink(p) PROVE TypeOK'
  BY Zenon, <1>2, LinkLen DEF SendLink, inboxVars
<1>3. ASSUME NEW p \in Producers, SendCount(p) PROVE TypeOK'
  BY Zenon, <1>3, CountLen DEF SendCount
<1>4. ASSUME NEW p \in Producers, SendSchedule(p) PROVE TypeOK'
  BY Zenon, <1>4 DEF SendSchedule, schedule, queueVars, QueueTypeOK
<1>5. ASSUME StartStep PROVE TypeOK'
  BY Zenon, <1>5 DEF StartStep, StartCas, StartProc, StartIdle, StartSchedule, schedule,
              queueVars, QueueTypeOK
<1>6. CASE Stop
  BY Zenon, <1>6 DEF Stop, queueVars, QueueTypeOK
<1>7. ASSUME NEW w \in Workers, RunCheck(w) \/ RunEmpty(w) PROVE TypeOK'
  BY Zenon, <1>7 DEF RunCheck, RunEmpty, queueVars, QueueTypeOK
<1>8. ASSUME NEW w \in Workers, RunPop(w) PROVE TypeOK'
  <2>1. PICK k \in 1..BatchSize : Take(BatchSize, k) /\ batch' = SubSeq(queue, 1, k)
    BY Zenon, <1>8 DEF RunPop
  <2>2. QueueTypeOK' /\ batch' \in Seq(Slot)
    BY <2>1, TakeLen, BatchAssumption
  <2>. QED  BY <1>8, <2>2 DEF RunPop
<1>9. ASSUME NEW w \in Workers, RunSub(w) PROVE TypeOK'
  BY Zenon, <1>9, SettleLen DEF RunSub
<1>10. ASSUME NEW w \in Workers, RunInvoke(w) PROVE TypeOK'
  <2>1. \A i \in 1..Len(batch) : batch[i] \in Slot
    BY Zenon, ElementOfSeq
  <2>2. \A i \in 1..Len(batch) : <<batch[i].from, batch[i].val>> \in Producers \X Values
    BY Zenon, <2>1 DEF Slot
  <2>3. <<>> \in Seq(Slot) /\ Len(<<>>) <= BatchSize
    BY EmptySeq, BatchAssumption
  <2>. QED  BY ZenonT(30), <1>10, <2>2, <2>3 DEF RunInvoke, queueVars, QueueTypeOK
<1>11. ASSUME NEW w \in Workers, ProcessSettle(w) \/ ProcessLen(w) PROVE TypeOK'
  BY ZenonT(30), <1>11 DEF ProcessSettle, ProcessLen, queueVars, QueueTypeOK
<1>12. ASSUME NEW w \in Workers, ProcessSchedule(w) PROVE TypeOK'
  BY Zenon, <1>12 DEF ProcessSchedule, schedule, queueVars, QueueTypeOK
<1>13. CASE UNCHANGED vars
  BY Zenon, <1>13 DEF vars, queueVars, inboxVars, QueueTypeOK
<1>. QED  BY ZenonT(30), <1>1, <1>2, <1>3, <1>4, <1>5, <1>6, <1>7, <1>8, <1>9, <1>10, <1>11, <1>12,
             <1>13 DEF Next, SendStep, WorkerStep
----------------------------------------------------------------------------
(* schedule() passes the token: it takes it from idle for a fresh worker,  *)
(* or finds it taken and changes nothing.                                  *)
LEMMA ScheduleToken ==
  ASSUME TypeOK, TokenInv, NEW pcs \in [Workers -> Worker], schedule(pcs),
         \A w \in Workers : pcs[w] = wpc[w] \/ (wpc[w] \notin Running /\ pcs[w] = "none"),
         owed' = owed
  PROVE  TokenInv' /\ procStatus' # "idle"
<1>. USE DEF TypeOK, TokenInv, SingleConsumer, Active, Running, Worker
<1>1. CASE procStatus = "idle"
  <2>1. PICK w \in Workers : pcs[w] = "none" /\ wpc' = [pcs EXCEPT ![w] = "check"]
    BY Zenon, <1>1 DEF schedule
  <2>2. procStatus' = "running" /\ owed = 0
    BY Zenon, <1>1 DEF schedule
  <2>3. \A v \in Workers : wpc'[v] \in Running => v = w
    BY Zenon, <1>1, <2>1
  <2>4. wpc'[w] = "check"
    BY Zenon, <2>1
  <2>. QED  BY Zenon, <2>2, <2>3, <2>4
<1>2. CASE procStatus # "idle"
  <2>1. wpc' = pcs /\ procStatus' = procStatus
    BY Zenon, <1>2 DEF schedule
  <2>2. \A w \in Workers : wpc'[w] \in Running <=> wpc[w] \in Running
    BY Zenon, <2>1
  <2>3. \A w \in Workers : wpc[w] = "sub" => wpc'[w] = "sub"
    BY Zenon, <2>1
  <2>. QED  BY Zenon, <1>2, <2>1, <2>2, <2>3
<1>. QED  BY Zenon, <1>1, <1>2

(* A step of one worker that stays inside run() keeps the token. *)
LEMMA RunKeepsToken ==
  ASSUME TypeOK, TokenInv, NEW w \in Workers, Active(w), NEW l \in Running,
         wpc' = [wpc EXCEPT ![w] = l], procStatus' = procStatus,
         owed' # 0 => l = "sub" \/ (owed # 0 /\ wpc[w] # "sub")
  PROVE  TokenInv' /\ procStatus # "idle"
<1>. USE DEF TypeOK, TokenInv, SingleConsumer, Active, Running, Worker
<1>1. \A v \in Workers : wpc'[v] \in Running <=> wpc[v] \in Running
  BY Zenon
<1>2. procStatus # "idle"
  BY Zenon
<1>3. SingleConsumer' /\ (procStatus' = "running" => \E v \in Workers : Active(v)')
  BY Zenon, <1>1
<1>4. owed' # 0 => \E v \in Workers : wpc'[v] = "sub"
  BY Zenon
<1>. QED  BY Zenon, <1>2, <1>3, <1>4

(* The token and the phase of Start over every step *)
LEMMA TokenStep == TypeOK /\ StartInv /\ TokenInv /\ [Next]_vars => StartInv' /\ TokenInv'
<1>. SUFFICES ASSUME TypeOK, StartInv, TokenInv, [Next]_vars PROVE StartInv' /\ TokenInv'
  BY Zenon
<1>1. ASSUME NEW p \in Producers, SendReserve(p) \/ SendLink(p) \/ SendCount(p)
      PROVE  StartInv' /\ TokenInv'
  <2>1. UNCHANGED <<procStatus, proc, opc, wpc, closed, owed>>
    BY Zenon, <1>1 DEF SendReserve, SendLink, SendCount, Reserve, Link, Count, inboxVars
  <2>. QED  BY Zenon, <2>1 DEF StartInv, TokenInv, SingleConsumer, Active
<1>2. ASSUME NEW p \in Producers, SendSchedule(p) PROVE StartInv' /\ TokenInv'
  <2>1. TokenInv'
    BY Zenon, <1>2, ScheduleToken DEF SendSchedule, queueVars, TypeOK
  <2>2. StartInv'
    BY Zenon, <1>2 DEF SendSchedule, schedule, StartInv, TypeOK
  <2>. QED  BY Zenon, <2>1, <2>2
<1>3. CASE StartCas \/ StartProc \/ StartIdle
  <2>. USE <1>3 DEF StartCas, StartProc, StartIdle, queueVars
  <2>1. StartInv'
    BY DEF StartInv, TypeOK
  <2>2. wpc' = wpc /\ owed' = owed /\ \A w \in Workers : wpc[w] = "none"
    BY Zenon DEF StartInv
  <2>3. TokenInv'
    BY Zenon, <2>2 DEF StartInv, TokenInv, SingleConsumer, Active, Running, TypeOK
  <2>. QED  BY Zenon, <2>1, <2>3
<1>4. CASE StartSchedule
  <2>1. TokenInv'
    BY Zenon, <1>4, ScheduleToken DEF StartSchedule, queueVars, TypeOK
  <2>2. StartInv'
    BY Zenon, <1>4 DEF StartSchedule, schedule, StartInv, TypeOK
  <2>. QED  BY Zenon, <2>1, <2>2
<1>5. CASE Stop
  BY Zenon, <1>5 DEF Stop, queueVars, StartInv, TokenInv, SingleConsumer, Active
<1>6. ASSUME NEW w \in Workers,
             RunCheck(w) \/ RunEmpty(w) \/ RunPop(w) \/ RunSub(w) \/ RunInvoke(w)
      PROVE  StartInv' /\ TokenInv'
  <2>1. PICK l \in Running : wpc' = [wpc EXCEPT ![w] = l]
    BY Zenon, <1>6 DEF RunCheck, RunEmpty, RunPop, RunSub, RunInvoke, Running
  <2>2. Active(w) /\ UNCHANGED <<procStatus, proc, opc, closed>>
    BY Zenon, <1>6 DEF RunCheck, RunEmpty, RunPop, RunSub, RunInvoke, Active, Running
  <2>3. StartInv'
    BY Zenon, <2>1, <2>2 DEF StartInv, TypeOK, Active, Running
  <2>4. owed' # 0 => l = "sub" \/ (owed # 0 /\ wpc[w] # "sub")
    BY Zenon, <1>6, <2>1 DEF RunCheck, RunEmpty, RunPop, RunSub, RunInvoke, Settle, queueVars,
                      TypeOK, Running
  <2>5. TokenInv'
    BY Zenon, <2>1, <2>2, <2>4, RunKeepsToken
  <2>. QED  BY Zenon, <2>3, <2>5
<1>7. ASSUME NEW w \in Workers, ProcessSettle(w) PROVE StartInv' /\ TokenInv'
  <2>. USE DEF TypeOK, Active, Running, Worker
  <2>1. wpc[w] = "settle" /\ owed' = owed /\ opc' = opc /\ closed' = closed /\ proc' = proc
    BY Zenon, <1>7 DEF ProcessSettle, queueVars
  <2>2. wpc' \in [Workers -> Worker]
    BY Zenon, <1>7 DEF ProcessSettle
  <2>3. \A v \in Workers : v # w => wpc'[v] = wpc[v] /\ wpc[v] \notin Running
    BY Zenon, <1>7 DEF ProcessSettle, TokenInv, SingleConsumer
  <2>4. wpc'[w] \notin Running /\ procStatus' # "running"
    BY Zenon, <1>7 DEF ProcessSettle
  <2>5. owed = 0
    BY Zenon, <2>1, <2>3 DEF TokenInv
  <2>6. TokenInv'
    BY Zenon, <2>1, <2>3, <2>4, <2>5 DEF TokenInv, SingleConsumer
  <2>7. StartInv'
    BY <1>7, <2>1 DEF ProcessSettle, StartInv
  <2>. QED  BY Zenon, <2>6, <2>7
<1>8. ASSUME NEW w \in Workers, ProcessLen(w) PROVE StartInv' /\ TokenInv'
  <2>1. \A v \in Workers :
          /\ wpc'[v] \in Running <=> wpc[v] \in Running
          /\ wpc[v] = "sub" => wpc'[v] = "sub"
    BY Zenon, <1>8 DEF ProcessLen, TypeOK, Running
  <2>2. wpc[w] = "len" /\ UNCHANGED <<procStatus, proc, opc, closed, owed>>
    BY Zenon, <1>8 DEF ProcessLen, queueVars
  <2>3. StartInv'
    BY Zenon, <2>2 DEF StartInv
  <2>4. TokenInv'
    BY Zenon, <2>1, <2>2 DEF TokenInv, SingleConsumer, Active
  <2>. QED  BY Zenon, <2>3, <2>4
<1>9. ASSUME NEW w \in Workers, ProcessSchedule(w) PROVE StartInv' /\ TokenInv'
  <2>. DEFINE pcs == [wpc EXCEPT ![w] = "none"]
  <2>1. /\ pcs \in [Workers -> Worker]
        /\ \A v \in Workers : pcs[v] = wpc[v] \/ (wpc[v] \notin Running /\ pcs[v] = "none")
    BY Zenon, <1>9 DEF ProcessSchedule, TypeOK, Worker, Running
  <2>2. schedule(pcs) /\ owed' = owed
    BY Zenon, <1>9 DEF ProcessSchedule, queueVars
  <2>3. TokenInv'
    BY Zenon, <2>1, <2>2, ScheduleToken
  <2>4. StartInv'
    BY Zenon, <1>9 DEF ProcessSchedule, schedule, StartInv, TypeOK
  <2>. QED  BY Zenon, <2>3, <2>4
<1>10. CASE UNCHANGED vars
  BY Zenon, <1>10 DEF vars, queueVars, inboxVars, StartInv, TokenInv, SingleConsumer, Active
<1>. QED  BY ZenonT(30), <1>1, <1>2, <1>3, <1>4, <1>5, <1>6, <1>7, <1>8, <1>9, <1>10
          DEF Next, SendStep, StartStep, WorkerStep
----------------------------------------------------------------------------
(* The sets of pushes in flight are finite, so they can be counted. *)
LEMMA UnaccountedFinite ==
  IsFiniteSet(Unaccounted) /\ Cardinality(Unaccounted) \in Nat
<1>1. Unaccounted \in SUBSET Producers
  BY Zenon DEF Unaccounted
<1>. QED  BY Zenon, <1>1, ProducersAssumption, FS_Subset, FS_CardinalityType

(* Len() over every step: it is the number of queued messages, less the    *)
(* pushes in flight, plus the batch not yet subtracted.                    *)
LEMMA CountStep == TypeOK /\ CountExact /\ [Next]_vars => CountExact'
<1>. SUFFICES ASSUME TypeOK, CountExact, [Next]_vars PROVE CountExact'
  BY Zenon
<1>0. Len(queue) \in Nat /\ QueueTypeOK
  BY DEF TypeOK, QueueTypeOK
<1>1. ASSUME NEW p \in Producers, SendReserve(p) PROVE CountExact'
  <2>1. Reserve(p, sent[p] + 1) /\ sent[p] + 1 \in Values
    BY <1>1, SendsAssumption DEF SendReserve, TypeOK
  <2>2. Len(queue') = Len(queue) + 1
    BY Zenon, <2>1, <1>0, ReserveLen
  <2>3. Unaccounted' = Unaccounted \cup {p} /\ p \notin Unaccounted
    BY Zenon, <2>1, <1>0 DEF Reserve, Unaccounted, QueueTypeOK
  <2>4. Cardinality(Unaccounted') = Cardinality(Unaccounted) + 1
    BY Zenon, <2>3, FS_AddElement, UnaccountedFinite
  <2>. QED  BY <2>1, <2>2, <2>4, <1>0, UnaccountedFinite DEF Reserve, CountExact, QueueTypeOK
<1>2. ASSUME NEW p \in Producers, SendLink(p) PROVE CountExact'
  <2>1. Len(queue') = Len(queue)
    BY Zenon, <1>2, <1>0, LinkLen DEF SendLink
  <2>2. Unaccounted' = Unaccounted
    BY Zenon, <1>2, <1>0 DEF SendLink, Link, Unaccounted, QueueTypeOK
  <2>. QED  BY Zenon, <1>2, <2>1, <2>2 DEF SendLink, Link, CountExact
<1>3. ASSUME NEW p \in Producers, SendCount(p) PROVE CountExact'
  <2>1. Unaccounted' = Unaccounted \ {p} /\ p \in Unaccounted
    BY Zenon, <1>3, <1>0 DEF SendCount, Count, Unaccounted, QueueTypeOK
  <2>2. Cardinality(Unaccounted') = Cardinality(Unaccounted) - 1
    BY Zenon, <2>1, FS_RemoveElement, UnaccountedFinite
  <2>. QED  BY SMTT(30), <1>3, <2>2, <1>0, UnaccountedFinite
            DEF SendCount, Count, CountExact, QueueTypeOK
<1>4. ASSUME NEW w \in Workers, RunPop(w) PROVE CountExact'
  <2>1. PICK k \in 1..BatchSize : Take(BatchSize, k)
    BY Zenon, <1>4 DEF RunPop
  <2>2. Len(queue') = Len(queue) - k
    BY <2>1, <1>0, TakeLen, BatchAssumption
  <2>3. Unaccounted' = Unaccounted /\ qlen' = qlen /\ owed = 0 /\ owed' = k
    BY Zenon, <2>1 DEF Take, Unaccounted
  <2>. QED  BY <2>2, <2>3, <1>0, BatchAssumption, UnaccountedFinite DEF CountExact, QueueTypeOK
<1>5. ASSUME NEW w \in Workers, RunSub(w) PROVE CountExact'
  <2>1. Unaccounted' = Unaccounted /\ queue' = queue /\ qlen' = qlen - owed /\ owed' = 0
    BY Zenon, <1>5 DEF RunSub, Settle, Unaccounted
  <2>. QED  BY <2>1, <1>0, UnaccountedFinite DEF CountExact, QueueTypeOK
<1>6. CASE UNCHANGED queueVars
  BY Zenon, <1>6 DEF queueVars, CountExact, Unaccounted
<1>. QED  BY ZenonT(30), <1>1, <1>2, <1>3, <1>4, <1>5, <1>6
          DEF Next, SendStep, StartStep, WorkerStep, SendSchedule, StartCas, StartProc,
              StartIdle, StartSchedule, Stop, RunCheck, RunEmpty, RunInvoke,
              ProcessSettle, ProcessLen, ProcessSchedule, vars

(* An idle inbox with messages has somebody awake, over every step.  The   *)
(* step to watch is ProcessLen: it leaves because Len() <= 0, and then the *)
(* messages it leaves behind belong to senders still inside Push.          *)
LEMMA WakeupStep == Inv /\ [Next]_vars => WakeupInv'
<1>. SUFFICES ASSUME Inv, [Next]_vars, procStatus' = "idle", queue' # <<>> PROVE Awake'
  BY Zenon DEF WakeupInv
<1>. USE DEF Inv
<1>1. ASSUME NEW p \in Producers, SendReserve(p) PROVE Awake'
  <2>1. pushing'[p] = "link"
    BY Zenon, <1>1 DEF SendReserve, Reserve, TypeOK, QueueTypeOK
  <2>. QED  BY Zenon, <2>1 DEF Awake
<1>2. ASSUME NEW p \in Producers, SendLink(p) PROVE Awake'
  <2>1. pushing'[p] = "count"
    BY Zenon, <1>2 DEF SendLink, Link, TypeOK, QueueTypeOK
  <2>. QED  BY Zenon, <2>1 DEF Awake
<1>3. ASSUME NEW p \in Producers, SendCount(p) PROVE Awake'
  BY Zenon, <1>3 DEF SendCount, Awake
<1>4. ASSUME NEW p \in Producers, SendSchedule(p) PROVE FALSE
  BY Zenon, <1>4 DEF SendSchedule, schedule
<1>5. ASSUME StartStep PROVE Awake'
  BY Zenon, <1>5 DEF StartStep, StartCas, StartProc, StartIdle, StartSchedule, schedule, Awake,
              StartInv
<1>6. CASE Stop
  BY Zenon, <1>6 DEF Stop
<1>7. ASSUME NEW w \in Workers,
             RunCheck(w) \/ RunEmpty(w) \/ RunPop(w) \/ RunSub(w) \/ RunInvoke(w)
      PROVE  FALSE
  BY Zenon, <1>7 DEF RunCheck, RunEmpty, RunPop, RunSub, RunInvoke, TokenInv, Active, Running
<1>8. ASSUME NEW w \in Workers, ProcessSettle(w) PROVE Awake'
  <2>1. procStatus = "running"
    <3>1. procStatus # "idle"
      BY Zenon, <1>8 DEF ProcessSettle, TokenInv, Active, Running
    <3>. QED  BY Zenon, <1>8, <3>1 DEF ProcessSettle
  <2>2. wpc'[w] = "len"
    BY Zenon, <1>8, <2>1 DEF ProcessSettle, TypeOK
  <2>. QED  BY Zenon, <2>2 DEF Awake
<1>9. ASSUME NEW w \in Workers, ProcessLen(w) PROVE Awake'
  <2>1. CASE qlen > 0
    <3>1. wpc'[w] = "resched"
      BY Zenon, <1>9, <2>1 DEF ProcessLen, TypeOK
    <3>. QED  BY Zenon, <3>1 DEF Awake
  <2>2. CASE ~(qlen > 0)
    <3>1. queue \in Seq(Slot) /\ queue # <<>> /\ procStatus = "idle" /\ pushing' = pushing
      BY Zenon, <1>9 DEF ProcessLen, queueVars, TypeOK, QueueTypeOK
    <3>2. Len(queue) \in Nat \ {0}
      BY Zenon, <3>1, EmptySeq
    <3>3. owed = 0
      BY Zenon, <3>1 DEF TokenInv, Active, Running
    <3>4. Cardinality(Unaccounted) # 0
      BY <2>2, <3>2, <3>3, UnaccountedFinite DEF CountExact, TypeOK, QueueTypeOK
    <3>5. PICK p \in Producers : pushing[p] # "no"
      BY Zenon, <3>4, FS_EmptySet, UnaccountedFinite DEF Unaccounted
    <3>. QED  BY Zenon, <3>1, <3>5 DEF Awake
  <2>. QED  BY Zenon, <2>1, <2>2
<1>10. ASSUME NEW w \in Workers, ProcessSchedule(w) PROVE FALSE
  BY Zenon, <1>10 DEF ProcessSchedule, schedule
<1>11. CASE UNCHANGED vars
  BY Zenon, <1>11 DEF vars, queueVars, inboxVars, WakeupInv, Awake
<1>. QED  BY ZenonT(30), <1>1, <1>2, <1>3, <1>4, <1>5, <1>6, <1>7, <1>8, <1>9, <1>10, <1>11
          DEF Next, SendStep, WorkerStep

----------------------------------------------------------------------------
(* A new inbox satisfies the invariant. *)
LEMMA InvInit == Init => Inv
<1>. SUFFICES ASSUME Init PROVE Inv
  BY Zenon
<1>1. TypeOK
  <2>1. <<>> \in Seq(Slot) /\ Len(<<>>) <= BatchSize
    BY EmptySeq, BatchAssumption
  <2>2. QueueTypeOK
    BY <2>1 DEF Init, QueueInit, QueueTypeOK
  <2>3. sent \in [Producers -> 0..MaxSends] /\ wpc \in [Workers -> Worker]
    BY SendsAssumption DEF Init, Worker
  <2>. QED  BY Zenon, <2>1, <2>2, <2>3 DEF Init, TypeOK
<1>2. StartInv /\ TokenInv /\ WakeupInv
  BY Zenon DEF Init, QueueInit, StartInv, TokenInv, SingleConsumer, Active, Running, WakeupInv
<1>3. Unaccounted = {}
  BY Zenon DEF Init, QueueInit, Unaccounted
<1>4. CountExact
  BY <1>3, FS_EmptySet DEF Init, QueueInit, CountExact
<1>. QED  BY Zenon, <1>1, <1>2, <1>4 DEF Inv

(* Inv holds in every reachable state of the inbox, for any number of      *)
(* senders, goroutines and messages and any batch size.                    *)
THEOREM InboxInvariant == Spec => []Inv
<1>1. Inv /\ [Next]_vars => Inv'
  BY Zenon, TypeStep, TokenStep, CountStep, WakeupStep DEF Inv
<1>. QED  BY <1>1, InvInit, PTL DEF Spec

(* Every variable of the inbox (inbox.go Inbox, mpsc.go Queue) keeps its   *)
(* type.                                                                   *)
THEOREM TypeCorrect == Spec => []TypeOK
<1>1. Inv => TypeOK
  BY Zenon DEF Inv
<1>. QED  BY <1>1, InboxInvariant, PTL

(* The compare-and-swaps on procStatus let one goroutine at a time into    *)
(* run(), the only caller of PopBatch.                                     *)
THEOREM OneConsumer == Spec => []SingleConsumer
<1>1. Inv => SingleConsumer
  BY ZenonT(30) DEF Inv, TokenInv
<1>. QED  BY <1>1, InboxInvariant, PTL

(* Len() is off by exactly the pushes in flight and the batch just taken.  *)
THEOREM CountIsExact == Spec => []CountExact
<1>1. Inv => CountExact
  BY Zenon DEF Inv
<1>. QED  BY <1>1, InboxInvariant, PTL

(* The re-check of Len() after the CAS to idle in process(), together with *)
(* the schedule() at the end of Send, leaves no message unattended.        *)
THEOREM WakeupNotLost == Spec => []NoLostWakeup
<1>1. Inv => NoLostWakeup
  <2>. SUFFICES ASSUME Inv, Quiescent, ~closed, queue # <<>> PROVE FALSE
    BY Zenon DEF NoLostWakeup
  <2>1. procStatus = "idle"
    BY ZenonT(30) DEF Inv, StartInv, TokenInv, Quiescent, Active, Running
  <2>. QED  BY Zenon, <2>1 DEF Inv, WakeupInv, Awake, Quiescent
<1>. QED  BY <1>1, InboxInvariant, PTL

(* The stopped -> starting -> idle detour of Start publishes in.proc       *)
(* before a goroutine can be created that uses it.                         *)
THEOREM ProcIsVisible == Spec => []ProcVisible
<1>1. Inv => ProcVisible
  BY Zenon DEF Inv, StartInv, TypeOK, ProcVisible
<1>. QED  BY <1>1, InboxInvariant, PTL

----------------------------------------------------------------------------
(* What Invoke is given: in.batch holds messages only between PopBatch and *)
(* the return of Invoke.                                                   *)
BatchInv == batch # <<>> => \E w \in Workers : wpc[w] \in {"sub", "invoke"}

(* The state of the mailbox *)
BoxState ==
  IF closed
    THEN IF \E w \in Workers : wpc[w] = "pop" THEN "closing" ELSE "closed"
    ELSE IF procStatus \in {"stopped", "starting"} THEN "new" ELSE "open"

(* Pairs is what the Processer sees of the slots of a queue or a batch ... *)
LEMMA PairsType ==
  ASSUME NEW s \in Seq(Slot)
  PROVE  /\ Pairs(s) \in Seq(Producers \X Values) /\ Len(Pairs(s)) = Len(s)
         /\ \A i \in 1..Len(s) : Pairs(s)[i] = <<s[i].from, s[i].val>>
         /\ Pairs(s) = <<>> <=> s = <<>>
<1>1. Len(s) \in Nat /\ \A i \in 1..Len(s) : s[i] \in Slot
  BY Zenon, ElementOfSeq, LenProperties
<1>2. \A i \in 1..Len(s) : <<s[i].from, s[i].val>> \in Producers \X Values
  BY Zenon, <1>1 DEF Slot
<1>3. Pairs(s) \in Seq(Producers \X Values) /\ Len(Pairs(s)) = Len(s)
  BY <1>1, <1>2 DEF Pairs
<1>4. Pairs(s) = <<>> <=> s = <<>>
  BY Zenon, <1>3, EmptySeq
<1>. QED  BY Zenon, <1>3, <1>4 DEF Pairs

(* ... and it commutes with putting a message at the end ... *)
LEMMA PairsAppend ==
  ASSUME NEW s \in Seq(Slot), NEW e \in Slot
  PROVE  Pairs(Append(s, e)) = Append(Pairs(s), <<e.from, e.val>>)
<1>. DEFINE t == Append(s, e)
            x == <<e.from, e.val>>
            P == Producers \X Values
<1>1. /\ t \in Seq(Slot) /\ Len(t) = Len(s) + 1 /\ t[Len(s) + 1] = e
      /\ \A i \in 1..Len(s) : t[i] = s[i]
  BY AppendProperties
<1>2. x \in P /\ Len(s) \in Nat
  BY Zenon, LenProperties DEF Slot
<1>3. /\ Pairs(s) \in Seq(P) /\ Len(Pairs(s)) = Len(s)
      /\ \A i \in 1..Len(s) : Pairs(s)[i] = <<s[i].from, s[i].val>>
  BY Zenon, PairsType
<1>. HIDE DEF t, x, P
<1>4. /\ Pairs(t) \in Seq(P) /\ Len(Pairs(t)) = Len(s) + 1
      /\ \A i \in 1..(Len(s) + 1) : Pairs(t)[i] = <<t[i].from, t[i].val>>
  BY Zenon, <1>1, PairsType DEF P
<1>5. /\ Append(Pairs(s), x) \in Seq(P) /\ Len(Append(Pairs(s), x)) = Len(s) + 1
      /\ \A i \in 1..Len(s) : Append(Pairs(s), x)[i] = Pairs(s)[i]
      /\ Append(Pairs(s), x)[Len(s) + 1] = x
  BY <1>2, <1>3, AppendProperties
<1>6. ASSUME NEW i \in 1..(Len(s) + 1) PROVE Pairs(t)[i] = Append(Pairs(s), x)[i]
  <2>1. CASE i = Len(s) + 1
    BY ZenonT(30), <2>1, <1>1, <1>4, <1>5 DEF x
  <2>2. CASE i \in 1..Len(s)
    <3>1. Pairs(t)[i] = <<s[i].from, s[i].val>>
      BY ZenonT(30), <2>2, <1>1, <1>4
    <3>. QED  BY Zenon, <2>2, <3>1, <1>3, <1>5
  <2>3. i = Len(s) + 1 \/ i \in 1..Len(s)
    BY <1>2
  <2>. QED  BY Zenon, <2>1, <2>2, <2>3
<1>7. Pairs(t) = Append(Pairs(s), x)
  BY ZenonT(30), <1>4, <1>5, <1>6, SeqEqual
<1>. QED  BY Zenon, <1>7 DEF t, x

(* ... and with taking a part. *)
LEMMA PairsSubSeq ==
  ASSUME NEW s \in Seq(Slot), NEW m \in 1..(Len(s) + 1), NEW n \in 0..Len(s)
  PROVE  Pairs(SubSeq(s, m, n)) = SubSeq(Pairs(s), m, n)
<1>. DEFINE t == SubSeq(s, m, n)
            P == Producers \X Values
            u == SubSeq(Pairs(s), m, n)
<1>1. /\ Len(s) \in Nat /\ m \in Int /\ n \in Int
      /\ \A i \in m..n : i \in 1..Len(s) /\ s[i] \in Slot
  BY LenProperties, ElementOfSeq
<1>2. /\ Pairs(s) \in Seq(P) /\ Len(Pairs(s)) = Len(s)
      /\ \A i \in 1..Len(s) : Pairs(s)[i] = <<s[i].from, s[i].val>> /\ Pairs(s)[i] \in P
  <2>1. \A i \in 1..Len(s) : s[i] \in Slot
    BY Zenon, ElementOfSeq
  <2>2. \A i \in 1..Len(s) : <<s[i].from, s[i].val>> \in P
    BY Zenon, <2>1 DEF Slot
  <2>3. /\ Pairs(s) \in Seq(P) /\ Len(Pairs(s)) = Len(s)
        /\ \A i \in 1..Len(s) : Pairs(s)[i] = <<s[i].from, s[i].val>>
    BY Zenon, PairsType
  <2>. HIDE DEF P
  <2>. QED  BY Zenon, <2>2, <2>3
<1>3. /\ t \in Seq(Slot) /\ Len(t) = IF m <= n THEN n - m + 1 ELSE 0
      /\ \A i \in 1..(n - m + 1) : t[i] = s[m + i - 1]
  BY <1>1, SubSeqProperties
<1>4. \A i \in m..n : Pairs(s)[i] \in P
  BY Zenon, <1>1, <1>2
<1>. HIDE DEF P
<1>5. /\ u \in Seq(P) /\ Len(u) = IF m <= n THEN n - m + 1 ELSE 0
      /\ \A i \in 1..(n - m + 1) : u[i] = Pairs(s)[m + i - 1]
  BY <1>1, <1>4, SubSeqProperties
<1>. HIDE DEF t, u
<1>6. /\ Pairs(t) \in Seq(P) /\ Len(Pairs(t)) = Len(t)
      /\ \A i \in 1..Len(t) : Pairs(t)[i] = <<t[i].from, t[i].val>>
  BY Zenon, <1>3, PairsType DEF P
<1>7. ASSUME NEW i \in 1..Len(t) PROVE Pairs(t)[i] = u[i]
  <2>1. i \in 1..(n - m + 1) /\ m + i - 1 \in m..n
    BY <1>1, <1>3
  <2>. QED  BY ZenonT(30), <2>1, <1>1, <1>2, <1>3, <1>5, <1>6
<1>8. Pairs(t) = u
  BY ZenonT(30), <1>3, <1>5, <1>6, <1>7, SeqEqual
<1>. QED  BY Zenon, <1>8 DEF t, u

(* The batch over every step *)
LEMMA BatchStep == Inv /\ BatchInv /\ [Next]_vars => BatchInv'
<1>. SUFFICES ASSUME Inv, BatchInv, [Next]_vars, batch' # <<>>
              PROVE  \E w \in Workers : wpc'[w] \in {"sub", "invoke"}
  BY Zenon DEF BatchInv
<1>. USE DEF Inv, TypeOK
<1>1. ASSUME NEW w \in Workers, RunPop(w) PROVE wpc'[w] = "sub"
  BY Zenon, <1>1 DEF RunPop
<1>2. ASSUME NEW w \in Workers, RunInvoke(w) PROVE FALSE
  BY Zenon, <1>2 DEF RunInvoke
<1>3. ASSUME batch' = batch, \A w \in Workers : wpc[w] \in {"sub", "invoke"} => wpc'[w] \in {"sub", "invoke"}
      PROVE  \E w \in Workers : wpc'[w] \in {"sub", "invoke"}
  BY Zenon, <1>3 DEF BatchInv
<1>4. ASSUME NEW pcs \in [Workers -> Worker], schedule(pcs)
      PROVE  \A w \in Workers : pcs[w] \in {"sub", "invoke"} => wpc'[w] \in {"sub", "invoke"}
  BY Zenon, <1>4 DEF schedule
<1>5. ASSUME NEW p \in Producers, SendReserve(p) \/ SendStep(p)
      PROVE  \E w \in Workers : wpc'[w] \in {"sub", "invoke"}
  BY ZenonT(30), <1>3, <1>4, <1>5 DEF SendReserve, SendStep, SendLink, SendCount, SendSchedule, inboxVars
<1>6. CASE StartStep \/ Stop
  BY Zenon, <1>3, <1>4, <1>6 DEF StartStep, StartCas, StartProc, StartIdle, StartSchedule, Stop
<1>7. ASSUME NEW w \in Workers, RunCheck(w) \/ RunEmpty(w) \/ RunSub(w) \/ ProcessSettle(w)
                                  \/ ProcessLen(w)
      PROVE  \E v \in Workers : wpc'[v] \in {"sub", "invoke"}
  BY Zenon, <1>3, <1>7 DEF RunCheck, RunEmpty, RunSub, ProcessSettle, ProcessLen
<1>8. ASSUME NEW w \in Workers, ProcessSchedule(w)
      PROVE  \E v \in Workers : wpc'[v] \in {"sub", "invoke"}
  <2>1. [wpc EXCEPT ![w] = "none"] \in [Workers -> Worker]
    BY Zenon DEF Worker
  <2>. QED  BY ZenonT(30), <1>3, <1>4, <1>8, <2>1 DEF ProcessSchedule
<1>9. CASE UNCHANGED vars
  BY Zenon, <1>3, <1>9 DEF vars, inboxVars
<1>. QED  BY ZenonT(30), <1>1, <1>2, <1>5, <1>6, <1>7, <1>8, <1>9 DEF Next, WorkerStep

(* Steps that only pass the token or move inside process() *)
LEMMA Stutters ==
  ASSUME queue' = queue, batch' = batch, BoxState' = BoxState
  PROVE  UNCHANGED <<Pairs(queue), Pairs(batch), BoxState>>
BY Zenon

(* schedule() does not change what the mailbox is seen to be. *)
LEMMA ScheduleState ==
  ASSUME Inv, NEW pcs, pcs \in [Workers -> Worker], schedule(pcs), closed' = closed,
         \A w \in Workers : pcs[w] = "pop" <=> wpc[w] = "pop"
  PROVE  BoxState' = BoxState
<1>1. \A w \in Workers : wpc'[w] = "pop" <=> wpc[w] = "pop"
  BY Zenon DEF schedule
<1>2. ~closed => (procStatus' \in {"stopped", "starting"} <=> procStatus \in {"stopped", "starting"})
  BY Zenon DEF schedule
<1>. QED  BY Zenon, <1>1, <1>2 DEF BoxState

(* Every step of the inbox is a step of the mailbox, or none. *)
LEMMA MailboxStep ==
  ASSUME Inv, BatchInv, [Next]_vars
  PROVE  Box!MailboxNext \/ UNCHANGED <<Pairs(queue), Pairs(batch), BoxState>>
<1>. USE DEF Inv
<1>0. queue \in Seq(Slot) /\ batch \in Seq(Slot)
  BY Zenon DEF TypeOK, QueueTypeOK
<1>1. ASSUME NEW p \in Producers, SendReserve(p) PROVE Box!MailboxNext
  <2>. DEFINE e == [from |-> p, val |-> sent[p] + 1, linked |-> FALSE]
  <2>1. e \in Slot /\ e.from = p /\ e.val = sent[p] + 1 /\ <<p, sent[p] + 1>> \in Producers \X Values
    BY <1>1, SendsAssumption DEF SendReserve, TypeOK, Slot
  <2>2. queue' = Append(queue, e) /\ batch' = batch /\ BoxState' = BoxState
    BY Zenon, <1>1 DEF SendReserve, Reserve, BoxState
  <2>3. Pairs(queue') = Append(Pairs(queue), <<p, sent[p] + 1>>)
    <3>. HIDE DEF e
    <3>. QED  BY Zenon, <2>1, <2>2, <1>0, PairsAppend
  <2>4. Box!Put(<<p, sent[p] + 1>>)
    BY Zenon, <2>2, <2>3 DEF Box!Put, BoxState
  <2>. QED  BY Zenon, <2>1, <2>4 DEF Box!MailboxNext
<1>2. ASSUME NEW p \in Producers, SendLink(p)
      PROVE  UNCHANGED <<Pairs(queue), Pairs(batch), BoxState>>
  <2>1. Len(queue) \in Nat /\ \A i \in 1..Len(queue) : queue[i] \in Slot
    BY Zenon, <1>0, ElementOfSeq, LenProperties
  <2>2. QueueTypeOK' /\ Len(queue') = Len(queue)
    BY Zenon, <1>2, LinkLen DEF SendLink, TypeOK
  <2>3. ASSUME NEW i \in 1..Len(queue)
        PROVE  queue'[i].from = queue[i].from /\ queue'[i].val = queue[i].val
    <3>1. queue'[i] = IF queue[i].from = p THEN [queue[i] EXCEPT !.linked = TRUE] ELSE queue[i]
      BY Zenon, <1>2 DEF SendLink, Link
    <3>. QED  BY Zenon, <2>1, <3>1 DEF Slot
  <2>4. Pairs(queue') = Pairs(queue)
    BY Zenon, <2>2, <2>3 DEF Pairs
  <2>5. batch' = batch /\ BoxState' = BoxState
    BY Zenon, <1>2 DEF SendLink, inboxVars, BoxState
  <2>. QED  BY Zenon, <2>4, <2>5
<1>3. ASSUME NEW p \in Producers, SendCount(p)
      PROVE  UNCHANGED <<Pairs(queue), Pairs(batch), BoxState>>
  BY Zenon, <1>3 DEF SendCount, Count, BoxState
<1>4. ASSUME NEW p \in Producers, SendSchedule(p)
      PROVE  UNCHANGED <<Pairs(queue), Pairs(batch), BoxState>>
  BY Zenon, <1>4, ScheduleState, Stutters DEF SendSchedule, queueVars, TypeOK
<1>5. CASE StartCas \/ StartProc
  <2>1. BoxState' = BoxState
    BY <1>5 DEF StartCas, StartProc, BoxState
  <2>. QED  BY Zenon, <1>5, <2>1 DEF StartCas, StartProc, queueVars
<1>6. CASE StartIdle
  <2>1. BoxState = "new" /\ BoxState' = "open" /\ queue' = queue /\ batch' = batch
    BY Zenon, <1>6 DEF StartIdle, StartInv, BoxState, queueVars
  <2>. QED  BY Zenon, <2>1 DEF Box!MailboxNext, Box!Open, BoxState
<1>7. CASE StartSchedule
  BY Zenon, <1>7, ScheduleState, Stutters DEF StartSchedule, queueVars, TypeOK
<1>8. CASE Stop
  <2>1. queue' = queue /\ batch' = batch /\ closed' = TRUE /\ wpc' = wpc
    BY Zenon, <1>8 DEF Stop, queueVars
  <2>2. CASE closed
    <3>1. BoxState' = BoxState
      BY ZenonT(30), <2>1, <2>2 DEF BoxState
    <3>. QED  BY Zenon, <2>1, <3>1
  <2>3. CASE ~closed
    <3>1. BoxState = "open" /\ BoxState' \in {"closing", "closed"}
      BY ZenonT(30), <1>8, <2>1, <2>3 DEF Stop, StartInv, BoxState
    <3>2. Pairs(batch) # <<>> => BoxState' = "closed"
      BY Zenon, <1>0, <2>1, PairsType DEF BatchInv, TokenInv, SingleConsumer, Active, Running, BoxState
    <3>3. Box!Close
      BY Zenon, <2>1, <3>1, <3>2 DEF Box!Close, BoxState
    <3>. QED  BY Zenon, <3>3 DEF Box!MailboxNext
  <2>. QED  BY Zenon, <2>2, <2>3
<1>9. ASSUME NEW w \in Workers, RunCheck(w)
      PROVE  UNCHANGED <<Pairs(queue), Pairs(batch), BoxState>>
  <2>1. opc \in {"schedule", "done"}
    BY Zenon, <1>9 DEF RunCheck, StartInv, TypeOK
  <2>2. closed => \A v \in Workers : wpc'[v] = "pop" <=> wpc[v] = "pop"
    BY Zenon, <1>9, <2>1 DEF RunCheck, StartInv, TypeOK
  <2>3. BoxState' = BoxState
    BY Zenon, <1>9, <2>2 DEF RunCheck, BoxState
  <2>. QED  BY Zenon, <1>9, <2>3 DEF RunCheck, queueVars
<1>10. ASSUME NEW w \in Workers, RunEmpty(w)
       PROVE  Box!MailboxNext \/ UNCHANGED <<Pairs(queue), Pairs(batch), BoxState>>
  <2>1. queue' = queue /\ batch' = batch /\ closed' = closed /\ procStatus' = procStatus
    BY Zenon, <1>10 DEF RunEmpty, queueVars
  <2>2. wpc[w] = "pop" /\ \A v \in Workers : wpc'[v] # "pop"
    BY Zenon, <1>10 DEF RunEmpty, TokenInv, SingleConsumer, Active, Running, TypeOK
  <2>3. CASE closed
    <3>1. BoxState = "closing" /\ BoxState' = "closed"
      BY Zenon, <2>1, <2>2, <2>3 DEF BoxState
    <3>. QED  BY Zenon, <2>1, <3>1 DEF Box!MailboxNext, Box!Seal, BoxState
  <2>4. CASE ~closed
    <3>1. BoxState' = BoxState
      BY Zenon, <2>1, <2>4 DEF BoxState
    <3>. QED  BY Zenon, <2>1, <3>1
  <2>. QED  BY Zenon, <2>3, <2>4
<1>11. ASSUME NEW w \in Workers, RunPop(w) PROVE Box!MailboxNext
  <2>1. PICK k \in 1..BatchSize : Take(BatchSize, k) /\ batch' = SubSeq(queue, 1, k)
    BY Zenon, <1>11 DEF RunPop
  <2>2. k \in 1..Len(queue) /\ Len(queue) \in Nat /\ queue' = SubSeq(queue, k + 1, Len(queue))
    BY <2>1, <1>0, LenProperties DEF Take, StopsAt
  <2>3. Pairs(batch') = SubSeq(Pairs(queue), 1, k) /\ Len(Pairs(queue)) = Len(queue)
    <3>1. 1 \in 1..(Len(queue) + 1) /\ k \in 0..Len(queue)
      BY <2>2
    <3>2. Pairs(SubSeq(queue, 1, k)) = SubSeq(Pairs(queue), 1, k)
      BY ONLY <3>1, <1>0, PairsSubSeq
    <3>. QED  BY Zenon, <2>1, <3>2, <1>0, PairsType
  <2>4. Pairs(queue') = SubSeq(Pairs(queue), k + 1, Len(Pairs(queue)))
    <3>1. k + 1 \in 1..(Len(queue) + 1) /\ Len(queue) \in 0..Len(queue)
      BY <2>2
    <3>2. Pairs(SubSeq(queue, k + 1, Len(queue))) = SubSeq(Pairs(queue), k + 1, Len(queue))
      BY ONLY <3>1, <1>0, PairsSubSeq
    <3>. QED  BY Zenon, <2>2, <2>3, <3>2
  <2>5. wpc[w] = "pop" /\ \A v \in Workers : wpc'[v] # "pop" /\ wpc[v] \notin {"sub", "invoke"}
    BY Zenon, <1>11 DEF RunPop, TokenInv, SingleConsumer, Active, Running, TypeOK
  <2>6. Pairs(batch) = <<>>
    BY Zenon, <2>5, <1>0, PairsType DEF BatchInv
  <2>7. BoxState = (IF closed THEN "closing" ELSE "open")
    BY Zenon, <2>5 DEF BoxState, StartInv, TypeOK
  <2>8. BoxState' = (IF closed THEN "closed" ELSE "open")
    BY Zenon, <1>11, <2>5 DEF RunPop, BoxState, StartInv, TypeOK
  <2>9. Box!Deliver(k)
    BY ZenonT(30), <2>3, <2>4, <2>6, <2>7, <2>8 DEF Box!Deliver, BoxState
  <2>. QED  BY Zenon, <2>2, <2>3, <2>9 DEF Box!MailboxNext
<1>12. ASSUME NEW w \in Workers, RunInvoke(w)
       PROVE  Box!MailboxNext \/ UNCHANGED <<Pairs(queue), Pairs(batch), BoxState>>
  <2>1. queue' = queue /\ batch' = <<>> /\ BoxState' = BoxState
    BY Zenon, <1>12 DEF RunInvoke, queueVars, BoxState, TypeOK
  <2>2. Pairs(batch') = <<>>
    BY Zenon, <2>1, PairsType, EmptySeq
  <2>3. Box!Finish \/ Pairs(batch) = <<>>
    BY Zenon, <2>1, <2>2 DEF Box!Finish, BoxState
  <2>. QED  BY Zenon, <2>1, <2>2, <2>3 DEF Box!MailboxNext
<1>13. ASSUME NEW w \in Workers, RunSub(w) \/ ProcessSettle(w) \/ ProcessLen(w)
       PROVE  UNCHANGED <<Pairs(queue), Pairs(batch), BoxState>>
  <2>1. queue' = queue /\ batch' = batch
    BY Zenon, <1>13 DEF RunSub, Settle, ProcessSettle, ProcessLen, queueVars
  <2>2. \A v \in Workers : wpc'[v] = "pop" <=> wpc[v] = "pop"
    BY Zenon, <1>13 DEF RunSub, ProcessSettle, ProcessLen, TypeOK
  <2>3. BoxState' = BoxState
    BY <1>13, <2>2 DEF RunSub, ProcessSettle, ProcessLen, BoxState
  <2>. QED  BY Zenon, <2>1, <2>3
<1>14. ASSUME NEW w \in Workers, ProcessSchedule(w)
       PROVE  UNCHANGED <<Pairs(queue), Pairs(batch), BoxState>>
  <2>. DEFINE pcs == [wpc EXCEPT ![w] = "none"]
  <2>1. /\ pcs \in [Workers -> Worker] /\ schedule(pcs) /\ closed' = closed
        /\ \A v \in Workers : pcs[v] = "pop" <=> wpc[v] = "pop"
    BY Zenon, <1>14 DEF ProcessSchedule, TypeOK, Worker
  <2>2. BoxState' = BoxState
    BY Zenon, <2>1, ScheduleState
  <2>. QED  BY Zenon, <1>14, <2>2 DEF ProcessSchedule, queueVars
<1>15. CASE UNCHANGED vars
  BY Zenon, <1>15 DEF vars, queueVars, inboxVars, BoxState
<1>. QED  BY ZenonT(30), <1>1, <1>2, <1>3, <1>4, <1>5, <1>6, <1>7, <1>8, <1>9, <1>10, <1>11, <1>12, <1>13,
             <1>14, <1>15 DEF Next, SendStep, StartStep, WorkerStep

(* The inbox implements Mailbox: what is sent comes out at most once, in   *)
(* the order of the sends, one batch at a time, and at most one batch      *)
(* after Stop, with any number of senders and goroutines.                  *)
THEOREM InboxRefinesMailbox == Spec => RefinesMailbox
<1>1. Init => BatchInv
  BY Zenon DEF Init, BatchInv
<1>2. Init => Box!MailboxInit
  <2>. SUFFICES ASSUME Init PROVE Box!MailboxInit
    BY Zenon
  <2>1. queue = <<>> /\ batch = <<>> /\ BoxState = "new"
    BY Zenon DEF Init, QueueInit, BoxState
  <2>2. Pairs(queue) = <<>> /\ Pairs(batch) = <<>>
    BY Zenon, <2>1, PairsType, EmptySeq
  <2>. QED  BY Zenon, <2>1, <2>2 DEF Box!MailboxInit, BoxState
<1>3. Inv /\ BatchInv /\ [Next]_vars => [Box!MailboxNext]_(Box!mailboxVars)
  BY Zenon, MailboxStep DEF Box!mailboxVars, BoxState
<1>. QED  BY <1>1, <1>2, <1>3, BatchStep, InboxInvariant, PTL
          DEF Spec, RefinesMailbox, Box!MailboxSpec
=============================================================================
