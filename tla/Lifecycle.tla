----------------------------- MODULE Lifecycle -----------------------------
(***************************************************************************)
(* A node is started and stopped from goroutines of the user: NewEngine    *)
(* with a Remote, which calls Remote.Start, and Remote.Stop                *)
(* (src/actor/engine.go, src/remote/remote.go).  The processes that        *)
(* Cluster.Start spawns and Cluster.Stop poisons are in module Provider.   *)
(*                                                                         *)
(* NewEngine may be called with one Remote more than once, and Stop at any *)
(* time and by several goroutines: nothing in the code forbids it.  The    *)
(* address of the Remote names a port, so that one listener at a time has  *)
(* it.                                                                     *)
(***************************************************************************)
CONSTANTS
  Starters,      \* calls of NewEngine, each with the one Remote
  Stoppers,      \* calls of Remote.Stop().Wait()
  None           \* nil

ASSUME LifecycleAssumption ==
  Starters \cap Stoppers = {} /\ None \notin Starters

Calls == Starters \cup Stoppers

VARIABLES
  pc,            \* each call: its next statement
  state,         \* Remote.state
  listening,     \* the Starter whose listener has the port
  stopCh, stopWg,\* Remote.stopCh, Remote.stopWg: the Starter that made them
  mine,          \* each Stopper: the channel, then the WaitGroup it has read
  server,        \* each Starter: its goroutine in Serve
  waiter         \* each Starter: its goroutine at <-r.stopCh

remoteVars == <<state, listening, stopCh, stopWg, mine, server, waiter>>
vars == <<pc, remoteVars>>

Init ==
  /\ pc = [c \in Calls |-> "new"]
  /\ state = "initialized" /\ listening = None
  /\ stopCh = None /\ stopWg = None /\ mine = [t \in Stoppers |-> None]
  /\ server = [s \in Starters |-> "none"] /\ waiter = [s \in Starters |-> "none"]

Goto(c, label) == pc' = [pc EXCEPT ![c] = label]

----------------------------------------------------------------------------
(* Remote.Start: the state is read ... *)
StartCheck(s) ==
  /\ pc[s] = "new"
  /\ Goto(s, IF state = "initialized" THEN "store" ELSE "error")
  /\ UNCHANGED remoteVars

(* ... and written *)
StartStore(s) ==
  /\ pc[s] = "store"
  /\ state' = "running"
  /\ Goto(s, "listen")
  /\ UNCHANGED <<listening, stopCh, stopWg, mine, server, waiter>>

(* Listen, which fails when the port is taken, by this program or another; *)
(* the state stays stateRunning.                                           *)
StartListen(s) ==
  /\ pc[s] = "listen"
  /\ \/ listening = None /\ listening' = s /\ Goto(s, "wg")
     \/ Goto(s, "error") /\ UNCHANGED listening
  /\ UNCHANGED <<state, stopCh, stopWg, mine, server, waiter>>

(* The stream router is spawned; stopWg, then stopCh, is made. *)
StartWg(s) ==
  /\ pc[s] = "wg"
  /\ stopWg' = s
  /\ Goto(s, "ch")
  /\ UNCHANGED <<state, listening, stopCh, mine, server, waiter>>

StartCh(s) ==
  /\ pc[s] = "ch"
  /\ stopCh' = s
  /\ Goto(s, "go")
  /\ UNCHANGED <<state, listening, stopWg, mine, server, waiter>>

(* The goroutines that serve and that wait for stopCh *)
StartGo(s) ==
  /\ pc[s] = "go"
  /\ server' = [server EXCEPT ![s] = "serving"]
  /\ waiter' = [waiter EXCEPT ![s] = "receive"]
  /\ Goto(s, "started")
  /\ UNCHANGED <<state, listening, stopCh, stopWg, mine>>

(* Faulty: the WaitGroup is done before Serve has returned *)
ServeEndEarly(s) ==
  /\ server[s] = "serving"
  /\ waiter[s] = "cancelled"
  /\ server' = [server EXCEPT ![s] = "done"]
  /\ UNCHANGED <<pc, state, listening, stopCh, stopWg, mine, waiter>>

(* Serve returns when its context is cancelled; stopWg.Done *)
ServeEnd(s) ==
  /\ server[s] = "serving"
  /\ waiter[s] = "cancelled"
  /\ server' = [server EXCEPT ![s] = "done"]
  /\ listening' = None
  /\ UNCHANGED <<pc, state, stopCh, stopWg, mine, waiter>>

----------------------------------------------------------------------------
(* Remote.Stop: the state is read; if it is not stateRunning an empty      *)
(* WaitGroup is returned, on which Wait returns at once ...                *)
StopCheck(t) ==
  /\ pc[t] = "new"
  /\ Goto(t, IF state = "running" THEN "store" ELSE "empty")
  /\ UNCHANGED remoteVars

(* ... and written *)
StopStore(t) ==
  /\ pc[t] = "store"
  /\ state' = "stopped"
  /\ Goto(t, "read")
  /\ UNCHANGED <<listening, stopCh, stopWg, mine, server, waiter>>

(* r.stopCh <- struct{}{}: the channel, which may still be nil, ... *)
StopRead(t) ==
  /\ pc[t] = "read"
  /\ mine' = [mine EXCEPT ![t] = stopCh]
  /\ Goto(t, "send")
  /\ UNCHANGED <<state, listening, stopCh, stopWg, server, waiter>>

(* Faulty: the waiter receives and does not cancel *)
StopSendOnly(t, s) ==
  /\ pc[t] = "send" /\ mine[t] = s /\ waiter[s] = "receive"
  /\ waiter' = [waiter EXCEPT ![s] = "received"]
  /\ mine' = [mine EXCEPT ![t] = stopWg]
  /\ Goto(t, "wait")
  /\ UNCHANGED <<state, listening, stopCh, stopWg, server>>

(* ... has no buffer: the waiter of that Start, which receives once,       *)
(* receives and cancels.  return r.stopWg                                  *)
StopSend(t, s) ==
  /\ pc[t] = "send" /\ mine[t] = s /\ waiter[s] = "receive"
  /\ waiter' = [waiter EXCEPT ![s] = "cancelled"]
  /\ mine' = [mine EXCEPT ![t] = stopWg]
  /\ Goto(t, "wait")
  /\ UNCHANGED <<state, listening, stopCh, stopWg, server>>

(* The caller's Wait *)
StopWait(t) ==
  /\ pc[t] = "wait"
  /\ server[mine[t]] = "done"
  /\ Goto(t, "stopped")
  /\ UNCHANGED remoteVars

----------------------------------------------------------------------------
StarterStep(s) ==
  \/ StartStore(s) \/ StartListen(s) \/ StartWg(s) \/ StartCh(s) \/ StartGo(s)
StopperStep(t) ==
  \/ StopStore(t) \/ StopRead(t) \/ \E s \in Starters : StopSend(t, s)
  \/ StopWait(t)

Next ==
  \/ \E s \in Starters : StartCheck(s) \/ StarterStep(s) \/ ServeEnd(s)
  \/ \E t \in Stoppers : StopCheck(t) \/ StopperStep(t)

Spec == Init /\ [][Next]_vars

(* Every goroutine that has been started and can go on does so; the calls  *)
(* themselves may never be made.                                           *)
FairSpec ==
  /\ Spec
  /\ \A s \in Starters : WF_vars(StarterStep(s)) /\ WF_vars(ServeEnd(s))
  /\ \A t \in Stoppers : WF_vars(StopperStep(t))

----------------------------------------------------------------------------
(* remote.go, "Stop will stop the remote from listening": when the Wait of *)
(* the call that stopped it returns nothing is listening, unless two Start *)
(* calls overlapped: both may read stateInitialized, and the later one     *)
(* then starts the remote again.                                           *)
StoppedIsClosed ==
  (\E t \in Stoppers : pc[t] = "stopped") =>
    \/ listening = None
    \/ \E s \in Starters \ {listening} : pc[s] \notin {"new", "error"}

(* remote.go Stop: a call that finds the remote started, its stopCh made,  *)
(* returns with the server at its end; if another Stop overtakes it, it    *)
(* may wait for ever for a receiver.                                       *)
StopReturns ==
  \A t \in Stoppers :
    (pc[t] = "store" /\ \E s \in Starters : server[s] = "serving")
      ~> (pc[t] = "stopped" \/ \E u \in Stoppers \ {t} : pc[u] \notin {"new", "empty"})
=============================================================================
