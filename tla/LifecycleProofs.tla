-------------------------- MODULE LifecycleProofs --------------------------
(***************************************************************************)
(* Proofs about Lifecycle for any number of calls.                         *)
(***************************************************************************)
EXTENDS Lifecycle, TLAPS

StarterPC == {"new", "store", "listen", "wg", "ch", "go", "started", "error"}
StopperPC == {"new", "store", "empty", "read", "send", "wait", "stopped"}

PcOK ==
  /\ pc \in [Calls -> StarterPC \cup StopperPC]
  /\ \A s \in Starters : pc[s] \in StarterPC
  /\ \A t \in Stoppers : pc[t] \in StopperPC

(* The port goes with the Start that has it from Listen until Serve        *)
(* returns, and a Stop waits on the WaitGroup of a Start that served.      *)
Serving(s) == pc[s] \in {"wg", "ch", "go"} \/ server[s] = "serving"
Up(s) == pc[s] = "started"
RemoteInv ==
  /\ mine \in [Stoppers -> Starters \cup {None}]
  /\ server \in [Starters -> {"none", "serving", "done"}]
  /\ waiter \in [Starters -> {"none", "receive", "cancelled"}]
  /\ listening \in Starters \cup {None} /\ stopWg \in Starters \cup {None}
  /\ stopCh \in Starters \cup {None}
  /\ \A s \in Starters :
       /\ listening = s <=> Serving(s)
       /\ server[s] # "none" <=> Up(s)
       /\ waiter[s] # "none" <=> Up(s)
       /\ pc[s] \in {"ch", "go"} \/ Up(s) => stopWg # None
  /\ \A t \in Stoppers :
       /\ pc[t] \in {"wait", "stopped"} => mine[t] # None
       /\ pc[t] = "stopped" => server[mine[t]] = "done"

(* The inductive invariant behind StoppedIsClosed *)
StopInv == PcOK /\ RemoteInv

----------------------------------------------------------------------------
(* Every call stays at a statement of its own kind of call. *)
LEMMA PcStep == PcOK /\ [Next]_vars => PcOK'
<1>. SUFFICES ASSUME PcOK, [Next]_vars PROVE PcOK'
  BY Zenon
<1>. USE LifecycleAssumption DEF Calls, StarterPC, StopperPC
<1>1. ASSUME NEW s \in Starters, NEW l \in StarterPC, Goto(s, l) PROVE PcOK'
  BY ZenonT(30), <1>1 DEF PcOK, Goto
<1>2. ASSUME NEW s \in Stoppers, NEW l \in StopperPC, Goto(s, l) PROVE PcOK'
  BY ZenonT(30), <1>2 DEF PcOK, Goto
<1>3. ASSUME pc' = pc PROVE PcOK'
  BY Zenon, <1>3 DEF PcOK
<1>4. ASSUME NEW s \in Starters, StartCheck(s) \/ StarterStep(s) \/ ServeEnd(s) PROVE PcOK'
  BY Zenon, <1>1, <1>3, <1>4 DEF StartCheck, StarterStep, StartStore, StartListen, StartWg, StartCh,
     StartGo, ServeEnd
<1>5. ASSUME NEW t \in Stoppers, StopCheck(t) \/ StopperStep(t) PROVE PcOK'
  BY Zenon, <1>2, <1>5 DEF StopCheck, StopperStep, StopStore, StopRead, StopSend, StopWait
<1>. QED  BY Zenon, <1>3, <1>4, <1>5 DEF Next, vars

(* Over every step the port is with the one Start that listens and serves. *)
LEMMA RemoteStep == StopInv /\ [Next]_vars => RemoteInv'
<1>. SUFFICES ASSUME StopInv, [Next]_vars PROVE RemoteInv'
  BY Zenon
<1>. USE LifecycleAssumption DEF StopInv, Serving, Up, StarterPC, StopperPC, Calls
<1>1. ASSUME NEW s \in Starters, StartCheck(s) \/ StartStore(s) PROVE RemoteInv'
  BY <1>1 DEF StartCheck, StartStore, remoteVars, Goto, RemoteInv, PcOK
<1>2. ASSUME NEW s \in Starters, StartListen(s) PROVE RemoteInv'
  BY <1>2 DEF StartListen, Goto, RemoteInv, PcOK
<1>3. ASSUME NEW s \in Starters, StartWg(s) \/ StartCh(s) PROVE RemoteInv'
  BY <1>3 DEF StartWg, StartCh, Goto, RemoteInv, PcOK
<1>4. ASSUME NEW s \in Starters, StartGo(s) PROVE RemoteInv'
  BY <1>4 DEF StartGo, Goto, RemoteInv, PcOK
<1>5. ASSUME NEW s \in Starters, ServeEnd(s) PROVE RemoteInv'
  BY <1>5 DEF ServeEnd, RemoteInv, PcOK
<1>6. ASSUME NEW t \in Stoppers, StopCheck(t) \/ StopStore(t) PROVE RemoteInv'
  BY <1>6 DEF StopCheck, StopStore, remoteVars, Goto, RemoteInv, PcOK
<1>7. ASSUME NEW t \in Stoppers, StopRead(t) PROVE RemoteInv'
  BY ZenonT(30), <1>7 DEF StopRead, Goto, RemoteInv, PcOK
<1>8. ASSUME NEW t \in Stoppers, NEW s \in Starters, StopSend(t, s) PROVE RemoteInv'
  BY ZenonT(30), <1>8 DEF StopSend, Goto, RemoteInv, PcOK
<1>9. ASSUME NEW t \in Stoppers, StopWait(t) PROVE RemoteInv'
  BY ZenonT(30), <1>9 DEF StopWait, remoteVars, Goto, RemoteInv, PcOK
<1>10. ASSUME pc' = pc, UNCHANGED remoteVars PROVE RemoteInv'
  BY Zenon, <1>10 DEF remoteVars, RemoteInv
<1>. QED
  BY Zenon, <1>1, <1>2, <1>3, <1>4, <1>5, <1>6, <1>7, <1>8, <1>9, <1>10
  DEF Next, StarterStep, StopperStep, vars

(* Remote.Stop: when the Wait of a call that stopped the remote returns,   *)
(* the listener is closed, or is the one of another Start that overlapped. *)
THEOREM StopCloses == Spec => []StoppedIsClosed
<1>1. Init => StopInv
  BY LifecycleAssumption DEF Init, StopInv, PcOK, RemoteInv, Serving, Up, Calls, StarterPC,
     StopperPC
<1>2. StopInv /\ [Next]_vars => StopInv'
  BY Zenon, PcStep, RemoteStep DEF StopInv
<1>3. StopInv => StoppedIsClosed
  <2>. SUFFICES ASSUME StopInv, NEW t \in Stoppers, pc[t] = "stopped", listening # None
                PROVE  \E s \in Starters \ {listening} : pc[s] \notin {"new", "error"}
    BY Zenon DEF StoppedIsClosed
  <2>1. mine[t] \in Starters /\ server[mine[t]] = "done"
    BY ZenonT(30) DEF StopInv, RemoteInv
  <2>2. Up(mine[t]) /\ mine[t] # listening
    BY Zenon, <2>1 DEF StopInv, RemoteInv, Serving, Up
  <2>. QED  BY Zenon, <2>1, <2>2 DEF Up
<1>. QED  BY <1>1, <1>2, <1>3, PTL DEF Spec

=============================================================================
