------------------------------- MODULE Inbox -------------------------------
(***************************************************************************)
(* src/actor/inbox.go on top of the queue of MpscQueue: senders, the       *)
(* goroutine that calls Start, Stop, and the goroutines that schedule()    *)
(* creates to run process().  The hard part is the hand-over: a goroutine  *)
(* leaves without holding a lock, and a sender that saw it running relies  *)
(* on it, or on another sender, to notice the message.                     *)
(*                                                                         *)
(* Start is called once, before Stop, as streamWriter uses an inbox; what  *)
(* process does with it is in module Process.                              *)
(***************************************************************************)
EXTENDS MpscQueue, FiniteSets

CONSTANTS Workers,   \* goroutines that may run Inbox.process
          MaxSends   \* bound: the messages of one sender

(* Message k of a sender is its k-th Send. *)
ASSUME SendsAssumption == MaxSends \in Nat /\ Values = 1..MaxSends
ASSUME ProducersAssumption == IsFiniteSet(Producers)

VARIABLES
  procStatus,  \* stopped, starting, idle, running
  proc,        \* in.proc has been set
  batch,       \* the messages of the last PopBatch (in.batch)
  calling,     \* senders whose Push is done and that now call schedule()
  opc,         \* the starter: next statement of Start
  wpc,         \* each worker: next statement of process() / run()
  (* History, read by no action: *)
  sent,        \* Sends begun, per sender
  handled,     \* the messages given to Invoke, as <<sender, k>>
  closed       \* Stop was called

inboxVars == <<procStatus, proc, batch, calling, opc, wpc, sent, handled, closed>>
vars == <<queueVars, inboxVars>>

Running == {"check", "pop", "sub", "invoke", "settle"}
Worker == Running \cup {"none", "len", "resched"}

TypeOK ==
  /\ QueueTypeOK
  /\ procStatus \in {"stopped", "starting", "idle", "running"}
  /\ proc \in BOOLEAN
  /\ batch \in Seq(Slot) /\ Len(batch) <= BatchSize
  /\ calling \subseteq Producers
  /\ opc \in {"cas", "proc", "idle", "schedule", "done"}
  /\ wpc \in [Workers -> Worker]
  /\ sent \in [Producers -> 0..MaxSends]
  /\ handled \subseteq Producers \X Values
  /\ closed \in BOOLEAN

Init ==
  /\ QueueInit
  /\ procStatus = "stopped"
  /\ proc = FALSE
  /\ batch = <<>>
  /\ calling = {}
  /\ opc = "cas"
  /\ wpc = [w \in Workers |-> "none"]
  /\ sent = [p \in Producers |-> 0]
  /\ handled = {}
  /\ closed = FALSE

----------------------------------------------------------------------------
(* Faulty variant of schedule(): a second goroutine while one is running *)
scheduleAgain(pcs) ==
  \/ /\ procStatus \in {"idle", "running"}
     /\ procStatus' = "running"
     /\ \E w \in Workers :
          /\ pcs[w] = "none"
          /\ wpc' = [pcs EXCEPT ![w] = "check"]
  \/ /\ procStatus \notin {"idle", "running"}
     /\ wpc' = pcs
     /\ UNCHANGED procStatus

(* schedule(): CAS idle -> running, and on success a goroutine for process *)
(* is created; pcs are the workers' counters once the caller has returned. *)
schedule(pcs) ==
  \/ /\ procStatus = "idle"
     /\ procStatus' = "running"
     /\ \E w \in Workers :
          /\ pcs[w] = "none"
          /\ wpc' = [pcs EXCEPT ![w] = "check"]
  \/ /\ procStatus # "idle"
     /\ wpc' = pcs
     /\ UNCHANGED procStatus

(* Send: in.rb.Push(msg), in the three steps of MpscQueue *)
SendReserve(p) ==
  /\ sent[p] < MaxSends
  /\ p \notin calling
  /\ Reserve(p, sent[p] + 1)
  /\ sent' = [sent EXCEPT ![p] = @ + 1]
  /\ UNCHANGED <<procStatus, proc, batch, calling, opc, wpc, handled, closed>>

SendLink(p) == Link(p) /\ UNCHANGED inboxVars

SendCount(p) ==
  /\ Count(p)
  /\ calling' = calling \cup {p}
  /\ UNCHANGED <<procStatus, proc, batch, opc, wpc, sent, handled, closed>>

(* Faulty variant: Send forgets to schedule *)
SendNoSchedule(p) ==
  /\ p \in calling
  /\ calling' = calling \ {p}
  /\ UNCHANGED <<queueVars, procStatus, wpc, proc, batch, opc, sent, handled, closed>>

(* Send: in.schedule() *)
SendSchedule(p) ==
  /\ p \in calling
  /\ calling' = calling \ {p}
  /\ schedule(wpc)
  /\ UNCHANGED <<queueVars, proc, batch, opc, sent, handled, closed>>

----------------------------------------------------------------------------
(* Start: CAS stopped -> starting; in.proc = proc; Swap idle; schedule() *)
StartCas ==
  /\ opc = "cas"
  /\ procStatus = "stopped"
  /\ procStatus' = "starting"
  /\ opc' = "proc"
  /\ UNCHANGED <<queueVars, proc, batch, calling, wpc, sent, handled, closed>>

StartProc ==
  /\ opc = "proc"
  /\ proc' = TRUE
  /\ opc' = "idle"
  /\ UNCHANGED <<queueVars, procStatus, batch, calling, wpc, sent, handled, closed>>

StartIdle ==
  /\ opc = "idle"
  /\ procStatus' = "idle"
  /\ opc' = "schedule"
  /\ UNCHANGED <<queueVars, proc, batch, calling, wpc, sent, handled, closed>>

StartSchedule ==
  /\ opc = "schedule"
  /\ opc' = "done"
  /\ schedule(wpc)
  /\ UNCHANGED <<queueVars, proc, batch, calling, sent, handled, closed>>

(* Stop: from inside Invoke (process.cleanup) or from another goroutine    *)
(* (streamWriter.Shutdown), once the inbox has been made idle.             *)
Stop ==
  /\ opc \in {"schedule", "done"}
  /\ procStatus' = "stopped"
  /\ closed' = TRUE
  /\ UNCHANGED <<queueVars, proc, batch, calling, opc, wpc, sent, handled>>

----------------------------------------------------------------------------
(* Faulty variant: run does not look at procStatus again *)
RunUnchecked(w) ==
  /\ wpc[w] = "check"
  /\ wpc' = [wpc EXCEPT ![w] = "pop"]
  /\ UNCHANGED <<queueVars, procStatus, proc, batch, calling, opc, sent, handled, closed>>

(* run: for atomic.LoadInt32(&in.procStatus) != stopped.  The throughput   *)
(* counter only decides when to call runtime.Gosched.                      *)
RunCheck(w) ==
  /\ wpc[w] = "check"
  /\ wpc' = [wpc EXCEPT ![w] = IF procStatus # "stopped" THEN "pop" ELSE "settle"]
  /\ UNCHANGED <<queueVars, procStatus, proc, batch, calling, opc, sent, handled, closed>>

(* run: PopBatch returns false *)
RunEmpty(w) ==
  /\ wpc[w] = "pop"
  /\ StopsAt(BatchSize, 0)
  /\ wpc' = [wpc EXCEPT ![w] = "settle"]
  /\ UNCHANGED <<queueVars, procStatus, proc, batch, calling, opc, sent, handled, closed>>

(* run: PopBatch takes k messages, then lowers the counter *)
RunPop(w) ==
  /\ wpc[w] = "pop"
  /\ \E k \in 1..BatchSize : Take(BatchSize, k) /\ batch' = SubSeq(queue, 1, k)
  /\ wpc' = [wpc EXCEPT ![w] = "sub"]
  /\ UNCHANGED <<procStatus, proc, calling, opc, sent, handled, closed>>

(* Faulty variant: a batch counts as one message *)
RunSubOne(w) ==
  /\ wpc[w] = "sub"
  /\ qlen' = qlen - 1
  /\ owed' = 0
  /\ wpc' = [wpc EXCEPT ![w] = "invoke"]
  /\ UNCHANGED <<queue, pushing, procStatus, proc, batch, calling, opc, sent, handled, closed>>

RunSub(w) ==
  /\ wpc[w] = "sub"
  /\ Settle
  /\ wpc' = [wpc EXCEPT ![w] = "invoke"]
  /\ UNCHANGED <<procStatus, proc, batch, calling, opc, sent, handled, closed>>

(* run: in.proc.Invoke(msgs), and back to the loop test *)
RunInvoke(w) ==
  /\ wpc[w] = "invoke"
  /\ proc
  /\ handled' = handled \cup {<<batch[i].from, batch[i].val>> : i \in 1..Len(batch)}
  /\ batch' = <<>>
  /\ wpc' = [wpc EXCEPT ![w] = "check"]
  /\ UNCHANGED <<queueVars, procStatus, proc, calling, opc, sent, closed>>

(* process: CAS running -> idle *)
ProcessSettle(w) ==
  /\ wpc[w] = "settle"
  /\ IF procStatus = "running"
       THEN procStatus' = "idle" /\ wpc' = [wpc EXCEPT ![w] = "len"]
       ELSE wpc' = [wpc EXCEPT ![w] = "none"] /\ UNCHANGED procStatus
  /\ UNCHANGED <<queueVars, proc, batch, calling, opc, sent, handled, closed>>

(* Faulty variant: process does not look at the queue again *)
ProcessNoLen(w) ==
  /\ wpc[w] = "len"
  /\ wpc' = [wpc EXCEPT ![w] = "none"]
  /\ UNCHANGED <<queueVars, procStatus, proc, batch, calling, opc, sent, handled, closed>>

(* process: && in.rb.Len() > 0 *)
ProcessLen(w) ==
  /\ wpc[w] = "len"
  /\ wpc' = [wpc EXCEPT ![w] = IF qlen > 0 THEN "resched" ELSE "none"]
  /\ UNCHANGED <<queueVars, procStatus, proc, batch, calling, opc, sent, handled, closed>>

(* process: in.schedule(), the last statement of the goroutine *)
ProcessSchedule(w) ==
  /\ wpc[w] = "resched"
  /\ schedule([wpc EXCEPT ![w] = "none"])
  /\ UNCHANGED <<queueVars, proc, batch, calling, opc, sent, handled, closed>>

----------------------------------------------------------------------------
SendStep(p) == SendLink(p) \/ SendCount(p) \/ SendSchedule(p)
StartStep == StartCas \/ StartProc \/ StartIdle \/ StartSchedule
WorkerStep(w) ==
  \/ RunCheck(w) \/ RunEmpty(w) \/ RunPop(w) \/ RunSub(w) \/ RunInvoke(w)
  \/ ProcessSettle(w) \/ ProcessLen(w) \/ ProcessSchedule(w)

Next ==
  \/ \E p \in Producers : SendReserve(p) \/ SendStep(p)
  \/ StartStep
  \/ Stop
  \/ \E w \in Workers : WorkerStep(w)

Spec == Init /\ [][Next]_vars

(* The Go scheduler runs every runnable goroutine: a Send, a Start and a   *)
(* worker that have begun take their next step (Invoke returns).  Nobody   *)
(* has to begin another Send, or to call Stop.                             *)
FairSpec ==
  /\ Spec
  /\ \A p \in Producers : WF_vars(SendStep(p))
  /\ WF_vars(StartStep)
  /\ \A w \in Workers : WF_vars(WorkerStep(w))
----------------------------------------------------------------------------
(* Inside process() up to the CAS that gives the inbox back *)
Active(w) == wpc[w] \in Running

(* mpsc.go, "PopBatch must only ever be called from the single consumer    *)
(* goroutine": two goroutines are never in run() at the same time, however *)
(* senders, the rescheduling worker, Start and Stop interleave.            *)
SingleConsumer == \A w1, w2 \in Workers : Active(w1) /\ Active(w2) => w1 = w2

(* Nobody is inside Send, Start or process() *)
Quiescent ==
  /\ \A p \in Producers : pushing[p] = "no"
  /\ calling = {}
  /\ opc = "done"
  /\ \A w \in Workers : wpc[w] = "none"

(* inbox.go process, "messages might have been added to the ring-buffer    *)
(* between the last pop and the transition to idle": when every goroutine  *)
(* has left, no message is left behind in an inbox that was not stopped.   *)
NoLostWakeup == Quiescent /\ ~closed => queue = <<>>

(* Len(), on which process() relies, differs from the number of queued     *)
(* messages by the pushes in flight and the batch not yet subtracted.      *)
Unaccounted == {p \in Producers : pushing[p] # "no"}
CountExact == qlen = Len(queue) - Cardinality(Unaccounted) + owed

(* inbox.go Start, "to ensure no race condition on in.proc": whoever is in *)
(* process() finds in.proc set.                                            *)
ProcVisible == \A w \in Workers : wpc[w] # "none" => proc

(* The inbox implements Mailbox: in order, at most once, one batch at a    *)
(* time, and at most one batch after Stop.                                 *)
Pairs(s) == [i \in 1..Len(s) |-> <<s[i].from, s[i].val>>]

Box == INSTANCE Mailbox WITH
  Message <- Producers \X Values,
  mail    <- Pairs(queue),
  current <- Pairs(batch),
  state   <- IF closed
               THEN IF \E w \in Workers : wpc[w] = "pop" THEN "closing" ELSE "closed"
               ELSE IF procStatus \in {"stopped", "starting"} THEN "new" ELSE "open"

RefinesMailbox == Box!MailboxSpec

(* inbox.go Send: a message is handed to Invoke sooner or later unless the *)
(* inbox is stopped.                                                       *)
SentIsHandled ==
  \A p \in Producers, k \in Values : sent[p] >= k ~> (<<p, k>> \in handled \/ closed)
=============================================================================
