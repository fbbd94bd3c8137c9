------------------------------ MODULE Process ------------------------------
(***************************************************************************)
(* src/actor/process.go: the life of one actor process (Start, Invoke,     *)
(* tryRestart, cleanup) together with its inbox (src/actor/inbox.go), its  *)
(* entry in the registry and the goroutines that send to it or stop it     *)
(* (src/actor/engine.go).                                                  *)
(*                                                                         *)
(* Start, Invoke and tryRestart call each other.  An Invoke that has       *)
(* recovered from a panic only returns, so what the stack of a goroutine   *)
(* still has to do is known from the number of Start calls that wait for   *)
(* their Invoke(mbuffer): the variable depth.                              *)
(*                                                                         *)
(* Push followed by schedule(), and Inbox.Start, are one step here; their  *)
(* interleavings are the subject of module Inbox.  Receivers do not panic  *)
(* on Stopped, and Producers do not panic.                                 *)
(***************************************************************************)
EXTENDS Naturals, Sequences, FiniteSets

CONSTANTS
  NMsgs,        \* bound: one client sends the user messages 1..NMsgs in order
  Pills,        \* one per call of Stop, Poison or PoisonCtx
  Graceful,     \* the pills of Poison and PoisonCtx
  MaxCalls,     \* bound: the calls of Send, Stop and Poison in one behaviour
  Spawner,      \* the goroutine in Engine.Spawn
  Workers,      \* goroutines that may run Inbox.process
  MaxRestarts,  \* Opts.MaxRestarts
  MsgPanics,    \* how Receive may panic on a user message ...
  LifePanics,   \* ... and on Initialized or Started
  None

ASSUME ProcessAssumption ==
  /\ NMsgs \in Nat /\ MaxCalls \in Nat /\ Pills \cap Nat = {}
  /\ Graceful \subseteq Pills
  /\ None \notin Pills /\ Spawner \notin Workers
  /\ MaxRestarts \in Nat
  /\ MsgPanics \subseteq {"restart", "internal"}
  /\ LifePanics \subseteq {"restart", "internal"}

Msgs == 1..NMsgs
Envelopes == Msgs \cup Pills
Goroutines == Workers \cup {Spawner}

VARIABLES
  registered,  \* the PID is in the Registry
  status,      \* Inbox.procStatus: stopped, idle or running
  queue,       \* Inbox.rb
  mbuffer, restarts,  \* process.mbuffer, process.restarts
  est,         \* each envelope: how far its sender is
  pc,          \* each goroutine: its next statement
  msgs, nproc, \* each goroutine: msgs and nproc of the current Invoke
  drain,       \* each goroutine: envelopes seen by the graceful loop
  cancel,      \* each goroutine: the pill whose cancel cleanup() was given
  depth,       \* each goroutine: Start calls waiting for Invoke(mbuffer)
  (* History, read by no action: *)
  cancelled,   \* pills whose context is done
  phase,       \* the last lifecycle message the receiver has seen
  attempts,    \* how often Receive was called with each message
  completed,   \* messages on which Receive has returned
  pushed,      \* the envelopes in the order of their Push
  stops,       \* Stopped messages delivered by cleanup
  closed,      \* Inbox.Stop was called
  revived      \* Inbox.Start reopened the inbox after that

goVars == <<msgs, nproc, drain, cancel, depth>>
history == <<cancelled, phase, attempts, completed, pushed, stops, closed, revived>>
vars == <<registered, status, queue, mbuffer, restarts, est, pc, goVars, history>>

TypeOK ==
  /\ registered \in BOOLEAN
  /\ status \in {"stopped", "idle", "running"}
  /\ queue \in Seq(Envelopes) /\ mbuffer \in Seq(Envelopes) /\ pushed \in Seq(Envelopes)
  /\ restarts \in Nat /\ stops \in Nat
  /\ est \in [Envelopes -> {"new", "checked", "found", "sent", "dead"}]
  /\ pc \in [Goroutines -> {"none", "check", "pop", "settle", "len", "invoke", "drain",
                            "restart", "internal", "count", "start", "started", "buffer",
                            "inbox", "unwind", "stop", "remove", "stopped", "cancel"}]
  /\ msgs \in [Goroutines -> Seq(Envelopes)]
  /\ nproc \in [Goroutines -> Nat] /\ drain \in [Goroutines -> Nat]
  /\ \A g \in Goroutines : nproc[g] <= Len(msgs[g]) /\ drain[g] <= Len(msgs[g])
  /\ cancel \in [Goroutines -> Pills \cup {None}]
  /\ depth \in [Goroutines -> Nat]
  /\ cancelled \subseteq Pills
  /\ phase \in {"none", "initialized", "started", "stopped"}
  /\ attempts \in [Msgs -> Nat] /\ completed \subseteq Msgs
  /\ closed \in BOOLEAN /\ revived \in BOOLEAN

(* Registry.add has stored the process and calls proc.Start(). *)
Init ==
  /\ registered = TRUE
  /\ status = "stopped"
  /\ queue = <<>> /\ mbuffer = <<>> /\ restarts = 0
  /\ est = [e \in Envelopes |-> "new"]
  /\ pc = [g \in Goroutines |-> IF g = Spawner THEN "start" ELSE "none"]
  /\ msgs = [g \in Goroutines |-> <<>>]
  /\ nproc = [g \in Goroutines |-> 0] /\ drain = [g \in Goroutines |-> 0]
  /\ cancel = [g \in Goroutines |-> None]
  /\ depth = [g \in Goroutines |-> 0]
  /\ cancelled = {} /\ phase = "none"
  /\ attempts = [m \in Msgs |-> 0] /\ completed = {}
  /\ pushed = <<>> /\ stops = 0
  /\ closed = FALSE /\ revived = FALSE

Goto(g, label) == pc' = [pc EXCEPT ![g] = label]

----------------------------------------------------------------------------
(* One more call may be made. *)
MayCall == Cardinality({e \in Envelopes : est[e] # "new"}) < MaxCalls

(* Engine.sendPoisonPill: the registry is asked first; when the process is *)
(* not there the context is cancelled at once.                             *)
CheckPill(p) ==
  /\ est[p] = "new" /\ MayCall
  /\ IF registered
       THEN est' = [est EXCEPT ![p] = "checked"] /\ UNCHANGED cancelled
       ELSE est' = [est EXCEPT ![p] = "dead"] /\ cancelled' = cancelled \cup {p}
  /\ UNCHANGED <<registered, status, queue, mbuffer, restarts, pc, goVars,
                 phase, attempts, completed, pushed, stops, closed, revived>>

(* Engine.SendLocal: Registry.get, and a DeadLetterEvent if that is nil *)
Lookup(e) ==
  /\ IF e \in Pills
       THEN est[e] = "checked"
       ELSE est[e] = "new" /\ MayCall /\ \A m \in 1..(e - 1) : est[m] \in {"sent", "dead"}
  /\ est' = [est EXCEPT ![e] = IF registered THEN "found" ELSE "dead"]
  /\ UNCHANGED <<registered, status, queue, mbuffer, restarts, pc, goVars, history>>

(* A new goroutine w in process(); which of the unused ones it is makes no *)
(* difference, so it is a fixed one.                                       *)
New(w) ==
  /\ \E v \in Workers : pc[v] = "none"
  /\ w = CHOOSE v \in Workers : pc[v] = "none"

(* Inbox.schedule: CAS idle -> running and a new goroutine in process() *)
schedule ==
  \/ /\ status = "idle"
     /\ status' = "running"
     /\ \E w \in Workers : New(w) /\ Goto(w, "check")
  \/ /\ status # "idle"
     /\ UNCHANGED <<status, pc>>

(* Faulty variant: Push puts the envelope in front *)
SendFront(e) ==
  /\ est[e] = "found"
  /\ est' = [est EXCEPT ![e] = "sent"]
  /\ queue' = <<e>> \o queue
  /\ pushed' = Append(pushed, e)
  /\ schedule
  /\ UNCHANGED <<registered, mbuffer, restarts, goVars, cancelled, phase,
                 attempts, completed, stops, closed, revived>>

(* Process.Send, Inbox.Send: Push and schedule *)
Send(e) ==
  /\ est[e] = "found"
  /\ est' = [est EXCEPT ![e] = "sent"]
  /\ queue' = Append(queue, e)
  /\ pushed' = Append(pushed, e)
  /\ schedule
  /\ UNCHANGED <<registered, mbuffer, restarts, goVars, cancelled, phase,
                 attempts, completed, stops, closed, revived>>

----------------------------------------------------------------------------
(* Receive panics on Initialized or Started.  Bound: it does so only while *)
(* restarts <= MaxRestarts; two consumers can take restarts past the limit *)
(* and then nothing ends the restarts.                                     *)
LifePanic(g) ==
  /\ restarts <= MaxRestarts
  /\ \E how \in LifePanics : Goto(g, how)
  /\ UNCHANGED phase

(* Faulty variant: Start leaves out Started *)
StartUnannounced(g) ==
  /\ pc[g] = "start"
  /\ phase' = "initialized"
  /\ Goto(g, "buffer")
  /\ UNCHANGED <<registered, status, queue, mbuffer, restarts, est, goVars,
                 cancelled, attempts, completed, pushed, stops, closed, revived>>

(* Start: Producer, and the receiver gets Initialized, ... *)
StartInitialized(g) ==
  /\ pc[g] = "start"
  /\ \/ phase' = "initialized" /\ Goto(g, "started")
     \/ LifePanic(g)
  /\ UNCHANGED <<registered, status, queue, mbuffer, restarts, est, goVars,
                 cancelled, attempts, completed, pushed, stops, closed, revived>>

(* ... then Started *)
StartStarted(g) ==
  /\ pc[g] = "started"
  /\ \/ phase' = "started" /\ Goto(g, "buffer")
     \/ LifePanic(g)
  /\ UNCHANGED <<registered, status, queue, mbuffer, restarts, est, goVars,
                 cancelled, attempts, completed, pushed, stops, closed, revived>>

(* Start: if len(p.mbuffer) > 0 { p.Invoke(p.mbuffer) ... *)
StartBuffer(g) ==
  /\ pc[g] = "buffer"
  /\ IF mbuffer # <<>>
       THEN /\ msgs' = [msgs EXCEPT ![g] = mbuffer]
            /\ nproc' = [nproc EXCEPT ![g] = 0] /\ drain' = [drain EXCEPT ![g] = 0]
            /\ depth' = [depth EXCEPT ![g] = @ + 1]
            /\ Goto(g, "invoke")
       ELSE Goto(g, "inbox") /\ UNCHANGED <<msgs, nproc, drain, depth>>
  /\ UNCHANGED <<registered, status, queue, mbuffer, restarts, est, cancel, history>>

(* Start: p.inbox.Start(p), which acts only on a stopped inbox *)
StartInbox(g) ==
  /\ pc[g] = "inbox"
  /\ IF status = "stopped"
       THEN /\ status' = "running"
            /\ revived' = closed
            /\ \E w \in Workers : New(w) /\ pc' = [pc EXCEPT ![g] = "unwind", ![w] = "check"]
       ELSE Goto(g, "unwind") /\ UNCHANGED <<status, revived>>
  /\ UNCHANGED <<registered, queue, mbuffer, restarts, est, goVars,
                 cancelled, phase, attempts, completed, pushed, stops, closed>>

(* A Start or an Invoke has returned: to the Start that called it for the  *)
(* buffer, ... p.mbuffer = nil }, or to run(), or to the spawner.          *)
Unwind(g) ==
  /\ pc[g] = "unwind"
  /\ IF depth[g] > 0
       THEN /\ depth' = [depth EXCEPT ![g] = @ - 1]
            /\ mbuffer' = <<>>
            /\ Goto(g, "inbox")
       ELSE /\ Goto(g, IF g = Spawner THEN "none" ELSE "check")
            /\ UNCHANGED <<depth, mbuffer>>
  /\ msgs' = [msgs EXCEPT ![g] = <<>>]
  /\ nproc' = [nproc EXCEPT ![g] = 0] /\ drain' = [drain EXCEPT ![g] = 0]
  /\ UNCHANGED <<registered, status, queue, restarts, est, cancel, history>>

----------------------------------------------------------------------------
(* Inbox.run: the loop test, then PopBatch *)
RunCheck(g) ==
  /\ pc[g] = "check"
  /\ Goto(g, IF status # "stopped" THEN "pop" ELSE "settle")
  /\ UNCHANGED <<registered, status, queue, mbuffer, restarts, est, goVars, history>>

RunPop(g) ==
  /\ pc[g] = "pop"
  /\ IF queue # <<>>
       THEN /\ msgs' = [msgs EXCEPT ![g] = queue]
            /\ queue' = <<>>
            /\ Goto(g, "invoke")
       ELSE Goto(g, "settle") /\ UNCHANGED <<msgs, queue>>
  /\ UNCHANGED <<registered, status, mbuffer, restarts, est, nproc, drain, cancel,
                 depth, history>>

(* Inbox.process after run: CAS running -> idle, Len() > 0, schedule *)
ProcessSettle(g) ==
  /\ pc[g] = "settle"
  /\ IF status = "running"
       THEN status' = "idle" /\ Goto(g, "len")
       ELSE Goto(g, "none") /\ UNCHANGED status
  /\ UNCHANGED <<registered, queue, mbuffer, restarts, est, goVars, history>>

(* Faulty variant: process does not look at the queue again *)
ProcessNoLen(g) ==
  /\ pc[g] = "len"
  /\ Goto(g, "none")
  /\ UNCHANGED <<registered, status, queue, mbuffer, restarts, est, goVars, history>>

ProcessLen(g) ==
  /\ pc[g] = "len"
  /\ IF queue # <<>> /\ status = "idle"
       THEN status' = "running" /\ Goto(g, "check")
       ELSE Goto(g, "none") /\ UNCHANGED status
  /\ UNCHANGED <<registered, queue, mbuffer, restarts, est, goVars, history>>

----------------------------------------------------------------------------
(* Faulty variant: the envelope after the failed one is dropped too *)
RecoverShort(g, n, how) ==
  /\ mbuffer' = SubSeq(msgs[g], n + 2, Len(msgs[g]))
  /\ Goto(g, how)

(* Faulty variant: the whole batch is buffered *)
RecoverAll(g, n, how) ==
  /\ mbuffer' = msgs[g]
  /\ Goto(g, how)

(* Faulty variant: the pills are not buffered *)
RecoverNoPills(g, n, how) ==
  LET IsMsg(e) == e \in Msgs
  IN /\ mbuffer' = SelectSeq(SubSeq(msgs[g], n + 1, Len(msgs[g])), IsMsg)
     /\ Goto(g, how)

(* Invoke's recover: what follows the envelope counted by nproc is kept. *)
Recover(g, n, how) ==
  /\ mbuffer' = SubSeq(msgs[g], n + 1, Len(msgs[g]))
  /\ Goto(g, how)

(* Invoke: p.invokeMsg(msg), which returns or panics *)
InvokeMsg(g) ==
  /\ pc[g] = "invoke"
  /\ nproc[g] < Len(msgs[g])
  /\ LET m == msgs[g][nproc[g] + 1]
     IN /\ m \in Msgs
        /\ attempts' = [attempts EXCEPT ![m] = @ + 1]
        /\ \/ completed' = completed \cup {m} /\ UNCHANGED <<pc, mbuffer>>
           \/ /\ \E how \in MsgPanics : Recover(g, nproc[g] + 1, how)
              /\ UNCHANGED completed
  /\ nproc' = [nproc EXCEPT ![g] = @ + 1]
  /\ UNCHANGED <<registered, status, queue, restarts, est, msgs, drain, cancel, depth,
                 cancelled, phase, pushed, stops, closed, revived>>

(* Faulty variant: a pill is skipped like any message of the engine *)
InvokePillIgnored(g) ==
  /\ pc[g] = "invoke"
  /\ nproc[g] < Len(msgs[g])
  /\ msgs[g][nproc[g] + 1] \in Pills
  /\ nproc' = [nproc EXCEPT ![g] = @ + 1]
  /\ UNCHANGED <<registered, status, queue, mbuffer, restarts, est, pc, msgs, drain, cancel,
                 depth, history>>

(* Invoke: a poison pill; a graceful one first runs through msgs[processed:] *)
InvokePill(g) ==
  /\ pc[g] = "invoke"
  /\ nproc[g] < Len(msgs[g])
  /\ LET p == msgs[g][nproc[g] + 1]
     IN /\ p \in Pills
        /\ cancel' = [cancel EXCEPT ![g] = p]
        /\ Goto(g, IF p \in Graceful THEN "drain" ELSE "stop")
  /\ drain' = [drain EXCEPT ![g] = nproc[g]]
  /\ nproc' = [nproc EXCEPT ![g] = @ + 1]
  /\ UNCHANGED <<registered, status, queue, mbuffer, restarts, est, msgs, depth, history>>

(* Invoke: one turn of the graceful loop; invokeMsg ignores pills *)
InvokeDrain(g) ==
  /\ pc[g] = "drain"
  /\ drain[g] < Len(msgs[g])
  /\ drain' = [drain EXCEPT ![g] = @ + 1]
  /\ LET m == msgs[g][drain[g] + 1]
     IN IF m \in Pills
          THEN UNCHANGED <<attempts, completed, pc, mbuffer, cancel>>
          ELSE /\ attempts' = [attempts EXCEPT ![m] = @ + 1]
               /\ \/ completed' = completed \cup {m} /\ UNCHANGED <<pc, mbuffer, cancel>>
                  \/ /\ \E how \in MsgPanics : Recover(g, nproc[g], how)
                     /\ cancel' = [cancel EXCEPT ![g] = None]
                     /\ UNCHANGED completed
  /\ UNCHANGED <<registered, status, queue, restarts, est, msgs, nproc, depth,
                 cancelled, phase, pushed, stops, closed, revived>>

(* Invoke: the loop, or the graceful loop, is at its end *)
InvokeEnd(g) ==
  /\ \/ pc[g] = "invoke" /\ nproc[g] = Len(msgs[g]) /\ Goto(g, "unwind")
     \/ pc[g] = "drain" /\ drain[g] = Len(msgs[g]) /\ Goto(g, "stop")
  /\ UNCHANGED <<registered, status, queue, mbuffer, restarts, est, goVars, history>>

----------------------------------------------------------------------------
(* tryRestart: an InternalError starts again without counting *)
RestartInternal(g) ==
  /\ pc[g] = "internal"
  /\ Goto(g, "start")
  /\ UNCHANGED <<registered, status, queue, mbuffer, restarts, est, goVars, history>>

(* tryRestart: cleanup(nil) at the limit, else the receiver gets Stopped *)
TryRestart(g) ==
  /\ pc[g] = "restart"
  /\ IF restarts = MaxRestarts
       THEN Goto(g, "stop") /\ UNCHANGED phase
       ELSE Goto(g, "count") /\ phase' = "stopped"
  /\ UNCHANGED <<registered, status, queue, mbuffer, restarts, est, goVars,
                 cancelled, attempts, completed, pushed, stops, closed, revived>>

(* tryRestart: p.restarts++; p.Start() *)
RestartCount(g) ==
  /\ pc[g] = "count"
  /\ restarts' = restarts + 1
  /\ Goto(g, "start")
  /\ UNCHANGED <<registered, status, queue, mbuffer, est, goVars, history>>

----------------------------------------------------------------------------
(* Faulty variant: cancel() is called at once instead of deferred *)
CleanupStopCancel(g) ==
  /\ pc[g] = "stop"
  /\ status' = "stopped"
  /\ closed' = TRUE
  /\ cancelled' = cancelled \cup ({cancel[g]} \ {None})
  /\ Goto(g, "remove")
  /\ UNCHANGED <<registered, queue, mbuffer, restarts, est, goVars,
                 phase, attempts, completed, pushed, stops, revived>>

(* cleanup: p.inbox.Stop() (the children are in module Supervision) *)
CleanupStop(g) ==
  /\ pc[g] = "stop"
  /\ status' = "stopped"
  /\ closed' = TRUE
  /\ Goto(g, "remove")
  /\ UNCHANGED <<registered, queue, mbuffer, restarts, est, goVars,
                 cancelled, phase, attempts, completed, pushed, stops, revived>>

(* cleanup: Registry.Remove(p.pid) *)
CleanupRemove(g) ==
  /\ pc[g] = "remove"
  /\ registered' = FALSE
  /\ Goto(g, "stopped")
  /\ UNCHANGED <<status, queue, mbuffer, restarts, est, goVars, history>>

(* cleanup: the receiver gets Stopped *)
CleanupStopped(g) ==
  /\ pc[g] = "stopped"
  /\ phase' = "stopped"
  /\ stops' = stops + 1
  /\ Goto(g, "cancel")
  /\ UNCHANGED <<registered, status, queue, mbuffer, restarts, est, goVars,
                 cancelled, attempts, completed, pushed, closed, revived>>

(* Faulty variant: the cancel of a graceful pill is forgotten *)
CleanupForget(g) ==
  /\ pc[g] = "cancel"
  /\ cancelled' = cancelled \cup ({cancel[g]} \ ({None} \cup Graceful))
  /\ cancel' = [cancel EXCEPT ![g] = None]
  /\ Goto(g, "unwind")
  /\ UNCHANGED <<registered, status, queue, mbuffer, restarts, est, msgs, nproc, drain,
                 depth, phase, attempts, completed, pushed, stops, closed, revived>>

(* cleanup: defer cancel() *)
CleanupCancel(g) ==
  /\ pc[g] = "cancel"
  /\ cancelled' = cancelled \cup ({cancel[g]} \ {None})
  /\ cancel' = [cancel EXCEPT ![g] = None]
  /\ Goto(g, "unwind")
  /\ UNCHANGED <<registered, status, queue, mbuffer, restarts, est, msgs, nproc, drain,
                 depth, phase, attempts, completed, pushed, stops, closed, revived>>

----------------------------------------------------------------------------
Step(g) ==
  \/ StartInitialized(g) \/ StartStarted(g) \/ StartBuffer(g) \/ StartInbox(g) \/ Unwind(g)
  \/ RunCheck(g) \/ RunPop(g) \/ ProcessSettle(g) \/ ProcessLen(g)
  \/ InvokeMsg(g) \/ InvokePill(g) \/ InvokeDrain(g) \/ InvokeEnd(g)
  \/ RestartInternal(g) \/ TryRestart(g) \/ RestartCount(g)
  \/ CleanupStop(g) \/ CleanupRemove(g) \/ CleanupStopped(g) \/ CleanupCancel(g)

Next ==
  \/ \E p \in Pills : CheckPill(p)
  \/ \E e \in Envelopes : Lookup(e) \/ Send(e)
  \/ \E g \in Goroutines : Step(g)

Spec == Init /\ [][Next]_vars

(* Every goroutine that has something to do is run; receivers return.  The *)
(* calls of Send, Stop and Poison themselves may or may not be made.       *)
FairSpec ==
  /\ Spec
  /\ \A e \in Envelopes : WF_vars(Send(e) \/ (e \in Pills /\ Lookup(e)))
  /\ \A g \in Goroutines : WF_vars(Step(g))
----------------------------------------------------------------------------
(* Positions in the order of the pushes *)
Before(e, f) ==
  \E i, j \in 1..Len(pushed) : i < j /\ pushed[i] = e /\ pushed[j] = f

(* README.md, "processes messages from its inbox in order", across batches *)
(* and restarts: the receiver never gets a message while an earlier one    *)
(* has not been given to it, unless the inbox was reopened after Stop.     *)
InOrder ==
  ~revived => \A m1, m2 \in Msgs : Before(m1, m2) /\ attempts[m2] > 0 => attempts[m1] > 0

(* engine.go Poison, "once it has processed all the messages in the        *)
(* inbox": the context of a poisoned process ends after every message      *)
(* accepted before the pill has reached the receiver, restarts included.   *)
GracefulDrains ==
  ~revived => \A p \in Graceful \cap cancelled, m \in Msgs :
                 Before(m, p) => attempts[m] > 0

(* process.go Start / tryRestart / cleanup: user messages reach the        *)
(* receiver between its Started and its Stopped only, unless the inbox was *)
(* reopened after Stop.                                                    *)
OnlyWhileStarted ==
  [][\A m \in Msgs : attempts'[m] # attempts[m] => phase = "started" \/ revived]_vars

(* engine_test.go TestStop / TestPoison: when the context of a pill that   *)
(* reached the process is done, the process has left the registry and its  *)
(* receiver has had Stopped.                                               *)
DoneMeansGone ==
  \A p \in cancelled : ~registered /\ (est[p] = "sent" => stops > 0)

(* What the liveness properties say of a call or of its effect stays true  *)
(* once it is, and the calls are finitely many: that each is followed by   *)
(* its effect means that in the end all are, for good.                     *)

(* inbox.go / process.go: a message accepted by the inbox reaches the      *)
(* receiver sooner or later, across restarts, unless the inbox is stopped. *)
AcceptedIsReceived ==
  <>[](\A m \in Msgs : est[m] = "sent" => attempts[m] > 0 \/ closed)

(* engine.go Stop: a pill that is not graceful and that reached the inbox  *)
(* shuts the process down, also when panics postpone it into mbuffer.      *)
StopTakesEffect ==
  <>[](\A p \in Pills \ Graceful : est[p] = "sent" => closed)

(* process.go Invoke, graceful stop: a message on which the receiver has   *)
(* returned is given to it again only if it came in behind a graceful pill *)
(* (then a panic in the loop over msgs[processed:] buffers it once more);  *)
(* a panic anywhere else repeats nothing.                                  *)
ReplayBehindPill ==
  [][\A m \in completed :
       attempts'[m] # attempts[m] => revived \/ \E p \in Graceful : Before(p, m)]_vars

(* The receiver has panicked: a restart, or a message not got through *)
Panicked ==
  restarts > 0 \/ \E m \in Msgs : attempts[m] > 1 \/ (attempts[m] > 0 /\ m \notin completed)

(* engine.go sendPoisonPill: the context of a pill that was pushed ends if *)
(* the receiver does not panic and no other pill is sent.  (A pill behind  *)
(* another one, or pushed after inbox.Stop, is never looked at.)           *)
LonePillCompletes ==
  <>[](\A p \in Pills : est[p] = "sent" =>
         p \in cancelled \/ Panicked \/ \E q \in Pills \ {p} : est[q] # "new")

(* engine.go Stop / Poison, "A context is being returned that can be used  *)
(* to block / wait until the process is stopped": the context of every     *)
(* pill that was sent ends.                                                *)
PillCompletes ==
  \A p \in Pills : est[p] # "new" ~> p \in cancelled

(* mpsc.go, "PopBatch must only ever be called from the single consumer    *)
(* goroutine".                                                             *)
InRun(g) == g \in Workers /\ pc[g] \notin {"none", "len", "settle"}
SingleConsumer == \A g, h \in Goroutines : InRun(g) /\ InRun(h) => g = h

(* process.go Invoke, "we buffer up all the messages that we could not     *)
(* process so we can retry them on the next restart": a message on which   *)
(* the receiver has returned is not given to it again after a panic.       *)
RetryUnprocessed ==
  [][\A m \in completed : attempts'[m] = attempts[m]]_vars
=============================================================================
