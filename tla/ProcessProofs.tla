---------------------------- MODULE ProcessProofs ----------------------------
(***************************************************************************)
(* Proofs about module Process, for any number of messages, pills, workers *)
(* and restarts and any panics: until an inbox that was stopped is opened  *)
(* again one goroutine at a time has messages in its hands, and what it    *)
(* holds, mbuffer or the rest of a batch, is the part of the pushes that   *)
(* comes directly before the queue.  The last part is about the member     *)
(* pinger of module Provider, whose steps are steps of Process.            *)
(***************************************************************************)
EXTENDS Provider, Integers, SequenceTheorems, TLAPS

(* Labels of tryRestart and Start, up to Started; of a goroutine after it  *)
(* has stopped the inbox; and with nothing of a batch left                 *)
Restarting == {"restart", "internal", "count", "start", "started"}
AfterStop == {"remove", "stopped", "cancel", "unwind", "inbox", "check", "settle"}
Between == {"none", "check", "pop", "settle", "len"}

(* A goroutine that cannot touch a message any more *)
Idle(g) == pc[g] \in {"none", "len"} \/ (g = Spawner /\ pc[g] = "unwind")

(* One goroutine at a time is busy: the spawner until it starts the inbox, *)
(* then a worker while the status is running.                              *)
OneBusy ==
  /\ \A g, h \in Goroutines : ~Idle(g) /\ ~Idle(h) => g = h
  /\ pc[Spawner] \notin {"invoke", "drain", "check", "pop", "settle", "len"}
  /\ depth[Spawner] = 0
  /\ closed => /\ status = "stopped"
               /\ \A g \in Goroutines : ~Idle(g) => pc[g] \in AfterStop
  /\ ~closed => /\ status = "stopped" <=> ~Idle(Spawner)
                /\ status = "idle" => \A g \in Goroutines : Idle(g)
                /\ status = "stopped" => mbuffer = <<>>
                /\ \A g \in Goroutines : pc[g] \notin {"remove", "stopped", "cancel"}

(* The receiver has had Started unless somebody is about to restart or     *)
(* stop it.                                                                *)
PhaseInv ==
  ~closed /\ (\A g \in Goroutines : pc[g] \notin Restarting \cup {"stop"}) => phase = "started"

(* A pill is done when the process is gone. *)
GoneInv ==
  /\ \A g \in Goroutines : /\ pc[g] \in {"stopped", "cancel"} => ~registered
                           /\ pc[g] = "cancel" => stops > 0
  /\ \A p \in cancelled : ~registered /\ (stops > 0 \/ est[p] = "dead")

BetweenInv ==
  \A g \in Goroutines : pc[g] \in Between => nproc[g] = 0 /\ drain[g] = 0

ControlInv ==
  /\ TypeOK /\ GoneInv /\ BetweenInv
  /\ revived => closed
  /\ ~revived => OneBusy /\ PhaseInv

----------------------------------------------------------------------------
(* Nobody has stopped the inbox or is about to. *)
Live == ~revived /\ ~closed /\ \A g \in Goroutines : pc[g] # "stop"

(* What a goroutine still has to give to the receiver, and how many of the *)
(* pushes come before that                                                 *)
Pending(g) ==
  IF pc[g] \in {"invoke", "drain"} THEN SubSeq(msgs[g], nproc[g] + 1, Len(msgs[g]))
  ELSE IF pc[g] \in Restarting \cup {"buffer"} THEN mbuffer
  ELSE <<>>
Base(g) == Len(pushed) - Len(queue) - Len(Pending(g))

(* Every envelope is pushed once; the queue is the end of the pushes, ... *)
QueueInv ==
  /\ \A i \in 1..Len(pushed) : est[pushed[i]] = "sent"
  /\ \A i, j \in 1..Len(pushed) : pushed[i] = pushed[j] => i = j
  /\ Len(queue) <= Len(pushed)
  /\ \A i \in 1..Len(queue) : pushed[Len(pushed) - Len(queue) + i] = queue[i]

(* ... and what is pending comes before it. *)
PendingInv ==
  Live => \A g \in Goroutines :
            /\ Base(g) >= 0
            /\ \A i \in 1..Len(Pending(g)) : pushed[Base(g) + i] = Pending(g)[i]

(* What comes before that has been given to the receiver. *)
Behind(i) == \A g \in Goroutines : i <= Base(g)
Given(i) == pushed[i] \in Msgs => attempts[pushed[i]] > 0
GivenInv == Live => \A i \in 1..Len(pushed) : Behind(i) => Given(i)

(* The graceful loop is at the pill before what is pending, and has given  *)
(* the receiver the first part of that.                                    *)
DrainAt(g) ==
  /\ Base(g) >= 1 /\ pushed[Base(g)] \in Graceful
  /\ nproc[g] >= 1 /\ msgs[g][nproc[g]] \in Pills
  /\ drain[g] >= nproc[g] - 1
  /\ \A i \in 1..Len(pushed) : Base(g) < i /\ i <= Base(g) + drain[g] - nproc[g] => Given(i)
DrainInv == Live => \A g \in Goroutines : pc[g] = "drain" => DrainAt(g)

(* What is pending and completed comes after a graceful pill. *)
AfterGraceful(i) == \E j \in 1..Len(pushed) : j < i /\ pushed[j] \in Graceful
ReplayInv ==
  Live => \A i \in 1..Len(pushed) : pushed[i] \in completed => Behind(i) \/ AfterGraceful(i)

(* The receiver only gets what was pushed. *)
SentInv ==
  \A m \in Msgs : attempts[m] > 0 \/ m \in completed => est[m] = "sent"

(* What was pushed before i has been given to the receiver. *)
AllGiven(i) == \A j \in 1..Len(pushed) : j < i => Given(j)
OrderInv ==
  \A i \in 1..Len(pushed) : pushed[i] \in Msgs /\ attempts[pushed[i]] > 0 => AllGiven(i)

(* A pill that stops the process, or has stopped it, was not looked at     *)
(* before the messages ahead of it.                                        *)
Drained(p) ==
  /\ est[p] \in {"sent", "dead"}
  /\ \A i \in 1..Len(pushed) : pushed[i] = p => AllGiven(i)
PillInv ==
  /\ \A g \in Goroutines : cancel[g] # None => Drained(cancel[g])
  /\ \A p \in cancelled : Drained(p)

DataInv ==
  /\ QueueInv /\ PendingInv /\ GivenInv /\ DrainInv /\ ReplayInv
  /\ ~revived => SentInv /\ OrderInv /\ PillInv

ProcessInv == ControlInv /\ DataInv

----------------------------------------------------------------------------
(* Inbox.process: a goroutine that is created was not running before. *)
LEMMA NewFacts ==
  ASSUME NEW w \in Workers, New(w)
  PROVE  pc[w] = "none" /\ w \in Goroutines /\ w # Spawner
BY Zenon, ProcessAssumption DEF New, Goroutines

(* Start: a receiver that panics leaves its goroutine in tryRestart. *)
LEMMA LifePanicFacts ==
  ASSUME NEW g \in Goroutines, LifePanic(g)
  PROVE  phase' = phase /\ (Goto(g, "restart") \/ Goto(g, "internal"))
BY Zenon, ProcessAssumption DEF LifePanic

(* Invoke: so does one that panics on a user message, with its mbuffer. *)
LEMMA RecoverFacts ==
  ASSUME NEW g \in Goroutines, NEW n, NEW how \in MsgPanics, Recover(g, n, how)
  PROVE  /\ mbuffer' = SubSeq(msgs[g], n + 1, Len(msgs[g]))
         /\ Goto(g, "restart") \/ Goto(g, "internal")
BY Zenon, ProcessAssumption DEF Recover

(* Every step keeps the types; RunPop needs that nproc was reset. *)
LEMMA TypeStep ==
  ASSUME TypeOK, BetweenInv, [Next]_vars
  PROVE  TypeOK'
<1>1. ASSUME NEW p \in Pills, CheckPill(p) PROVE TypeOK'
  <2>1. CASE registered
    BY <1>1, <2>1, Zenon DEF CheckPill, TypeOK, goVars, Envelopes
  <2>2. CASE ~registered
    BY Zenon, <1>1, <2>2 DEF CheckPill, TypeOK, goVars, Envelopes
  <2>3. QED
    BY Zenon, <2>1, <2>2
<1>2. ASSUME NEW e \in Envelopes, Lookup(e) PROVE TypeOK'
  BY Zenon, <1>2 DEF Lookup, goVars, history, TypeOK, Goroutines
<1>3. ASSUME NEW e \in Envelopes, Send(e) PROVE TypeOK'
  <2>1. queue' \in Seq(Envelopes) /\ pushed' \in Seq(Envelopes)
    BY Zenon, <1>3, AppendProperties DEF Send, TypeOK
  <2>2. status' \in {"stopped", "idle", "running"}
        /\ pc' \in [Goroutines -> {"none", "check", "pop", "settle", "len", "invoke", "drain",
                            "restart", "internal", "count", "start", "started", "buffer",
                            "inbox", "unwind", "stop", "remove", "stopped", "cancel"}]
    BY Zenon, <1>3, NewFacts DEF Send, schedule, Goto, TypeOK
  <2>3. QED
    BY Zenon, <1>3, <2>1, <2>2 DEF Send, TypeOK, goVars
<1>4. ASSUME NEW g \in Goroutines, StartInitialized(g) PROVE TypeOK'
  BY ZenonT(30), <1>4, LifePanicFacts DEF StartInitialized, Goto, goVars, TypeOK, Goroutines
<1>5. ASSUME NEW g \in Goroutines, StartStarted(g) PROVE TypeOK'
  BY ZenonT(30), <1>5, LifePanicFacts DEF StartStarted, Goto, goVars, TypeOK, Goroutines
<1>6. ASSUME NEW g \in Goroutines, StartBuffer(g) PROVE TypeOK'
  <2>1. CASE mbuffer # <<>>
    <3>1. /\ msgs' = [msgs EXCEPT ![g] = mbuffer]
          /\ nproc' = [nproc EXCEPT ![g] = 0] /\ drain' = [drain EXCEPT ![g] = 0]
          /\ depth' = [depth EXCEPT ![g] = @ + 1]
          /\ Goto(g, "invoke")
      BY Zenon, <1>6, <2>1 DEF StartBuffer
    <3>2. Len(mbuffer) \in Nat
      BY Zenon, LenProperties DEF TypeOK
    <3>3. \A h \in Goroutines : nproc'[h] <= Len(msgs'[h]) /\ drain'[h] <= Len(msgs'[h])
      BY <3>1, <3>2 DEF TypeOK
    <3>4. QED
      BY <1>6, <3>1, <3>3 DEF StartBuffer, Goto, TypeOK, history
  <2>2. CASE mbuffer = <<>>
    BY Zenon, <1>6, <2>2 DEF StartBuffer, Goto, TypeOK, history
  <2>3. QED
    BY Zenon, <2>1, <2>2
<1>7. ASSUME NEW g \in Goroutines, StartInbox(g) PROVE TypeOK'
  BY ZenonT(30), <1>7, NewFacts DEF StartInbox, Goto, goVars, TypeOK, Goroutines
<1>8. ASSUME NEW g \in Goroutines, Unwind(g) PROVE TypeOK'
  <2>1. /\ msgs' = [msgs EXCEPT ![g] = <<>>]
        /\ nproc' = [nproc EXCEPT ![g] = 0] /\ drain' = [drain EXCEPT ![g] = 0]
    BY Zenon, <1>8 DEF Unwind
  <2>2. <<>> \in Seq(Envelopes) /\ Len(<<>>) = 0
    BY Zenon, EmptySeq
  <2>3. \A h \in Goroutines : nproc'[h] <= Len(msgs'[h]) /\ drain'[h] <= Len(msgs'[h])
    BY <2>1, <2>2 DEF TypeOK
  <2>4. /\ depth' \in [Goroutines -> Nat] /\ mbuffer' \in Seq(Envelopes)
        /\ pc' \in [Goroutines -> {"none", "check", "pop", "settle", "len", "invoke", "drain",
                            "restart", "internal", "count", "start", "started", "buffer",
                            "inbox", "unwind", "stop", "remove", "stopped", "cancel"}]
    <3>1. CASE depth[g] > 0
      <4>1. /\ depth' = [depth EXCEPT ![g] = @ - 1] /\ mbuffer' = <<>>
            /\ pc' = [pc EXCEPT ![g] = "inbox"]
        BY Zenon, <1>8, <3>1 DEF Unwind, Goto
      <4>2. depth[g] \in Nat /\ depth[g] - 1 \in Nat
        BY <3>1 DEF TypeOK
      <4>3. depth' \in [Goroutines -> Nat]
        BY Zenon, <4>1, <4>2 DEF TypeOK
      <4>4. QED
        BY Zenon, <2>2, <4>1, <4>3 DEF TypeOK
    <3>2. CASE ~(depth[g] > 0)
      BY Zenon, <1>8, <3>2 DEF Unwind, Goto, TypeOK
    <3>3. QED
      BY Zenon, <3>1, <3>2
  <2>5. /\ msgs' \in [Goroutines -> Seq(Envelopes)]
        /\ nproc' \in [Goroutines -> Nat] /\ drain' \in [Goroutines -> Nat]
    BY Zenon, <2>1, <2>2 DEF TypeOK
  <2>6. UNCHANGED <<registered, status, queue, restarts, est, cancel, history>>
    BY Zenon, <1>8 DEF Unwind
  <2>7. QED
    BY Zenon, <2>3, <2>4, <2>5, <2>6 DEF TypeOK, history
<1>9. ASSUME NEW g \in Goroutines, RunCheck(g) PROVE TypeOK'
  BY Zenon, <1>9 DEF RunCheck, Goto, goVars, history, TypeOK, Goroutines
<1>10. ASSUME NEW g \in Goroutines, RunPop(g) PROVE TypeOK'
  <2>1. CASE queue # <<>>
    <3>1. /\ msgs' = [msgs EXCEPT ![g] = queue] /\ queue' = <<>>
          /\ nproc' = nproc /\ drain' = drain /\ Goto(g, "invoke")
      BY Zenon, <1>10, <2>1 DEF RunPop
    <3>2. Len(queue) \in Nat /\ nproc[g] = 0 /\ drain[g] = 0
      BY Zenon, <1>10, LenProperties DEF TypeOK, RunPop, BetweenInv, Between
    <3>3. \A h \in Goroutines : nproc'[h] <= Len(msgs'[h]) /\ drain'[h] <= Len(msgs'[h])
      BY <3>1, <3>2 DEF TypeOK
    <3>4. QED
      BY Zenon, <1>10, <3>1, <3>3, EmptySeq DEF RunPop, Goto, TypeOK, history
  <2>2. CASE queue = <<>>
    BY ZenonT(30), <1>10, <2>2 DEF RunPop, Goto, TypeOK, history
  <2>3. QED
    BY Zenon, <2>1, <2>2
<1>11. ASSUME NEW g \in Goroutines, ProcessSettle(g) PROVE TypeOK'
  BY ZenonT(30), <1>11 DEF ProcessSettle, Goto, goVars, history, TypeOK, Goroutines
<1>12. ASSUME NEW g \in Goroutines, ProcessLen(g) PROVE TypeOK'
  BY ZenonT(30), <1>12 DEF ProcessLen, Goto, goVars, history, TypeOK, Goroutines
<1>13. ASSUME NEW g \in Goroutines, InvokeMsg(g) PROVE TypeOK'
  <2>1. PICK m \in Msgs :
          /\ attempts' = [attempts EXCEPT ![m] = @ + 1]
          /\ \/ completed' = completed \cup {m} /\ UNCHANGED <<pc, mbuffer>>
             \/ /\ \E how \in MsgPanics : Recover(g, nproc[g] + 1, how)
                /\ UNCHANGED completed
    BY Zenon, <1>13 DEF InvokeMsg
  <2>2. /\ pc[g] = "invoke" /\ nproc[g] < Len(msgs[g])
        /\ nproc' = [nproc EXCEPT ![g] = @ + 1]
        /\ UNCHANGED <<registered, status, queue, restarts, est, msgs, drain, cancel, depth,
                 cancelled, phase, pushed, stops, closed, revived>>
    BY Zenon, <1>13 DEF InvokeMsg
  <2>3. mbuffer' \in Seq(Envelopes) /\ completed' \subseteq Msgs
    <3>1. SubSeq(msgs[g], nproc[g] + 2, Len(msgs[g])) \in Seq(Envelopes)
      BY SMTT(30), <2>2, SubSeqProperties, LenProperties DEF TypeOK
    <3>2. nproc[g] + 1 + 1 = nproc[g] + 2
      BY DEF TypeOK
    <3>3. QED
      BY Zenon, <2>1, <3>1, <3>2, RecoverFacts DEF TypeOK
  <2>4. pc' \in [Goroutines -> {"none", "check", "pop", "settle", "len", "invoke", "drain",
                            "restart", "internal", "count", "start", "started", "buffer",
                            "inbox", "unwind", "stop", "remove", "stopped", "cancel"}]
    BY Zenon, <2>1, RecoverFacts DEF TypeOK, Goto
  <2>5. Len(msgs[g]) \in Nat
    BY Zenon, LenProperties DEF TypeOK
  <2>6. \A h \in Goroutines : nproc'[h] <= Len(msgs'[h]) /\ drain'[h] <= Len(msgs'[h])
    BY <2>2, <2>5 DEF TypeOK
  <2>7. attempts' \in [Msgs -> Nat] /\ nproc' \in [Goroutines -> Nat]
    BY SMTT(30), <2>1, <2>2 DEF TypeOK
  <2>8. QED
    BY Zenon, <2>2, <2>3, <2>4, <2>6, <2>7 DEF TypeOK
<1>14. ASSUME NEW g \in Goroutines, InvokePill(g) PROVE TypeOK'
  BY SMTT(30), <1>14 DEF InvokePill, Goto, history, TypeOK, Goroutines
<1>15. ASSUME NEW g \in Goroutines, InvokeDrain(g) PROVE TypeOK'
  <2>1. /\ pc[g] = "drain" /\ drain[g] < Len(msgs[g])
        /\ drain' = [drain EXCEPT ![g] = @ + 1]
        /\ UNCHANGED <<registered, status, queue, restarts, est, msgs, nproc, depth,
                 cancelled, phase, pushed, stops, closed, revived>>
    BY Zenon, <1>15 DEF InvokeDrain
  <2>2. Len(msgs[g]) \in Nat /\ msgs[g][drain[g] + 1] \in Envelopes
    BY <2>1, LenProperties, ElementOfSeq DEF TypeOK
  <2>3. PICK m \in Envelopes :
          IF m \in Pills
            THEN UNCHANGED <<attempts, completed, pc, mbuffer, cancel>>
            ELSE /\ attempts' = [attempts EXCEPT ![m] = @ + 1]
                 /\ \/ completed' = completed \cup {m} /\ UNCHANGED <<pc, mbuffer, cancel>>
                    \/ /\ \E how \in MsgPanics : Recover(g, nproc[g], how)
                       /\ cancel' = [cancel EXCEPT ![g] = None]
                       /\ UNCHANGED completed
    BY Zenon, <1>15, <2>2 DEF InvokeDrain
  <2>4. mbuffer' \in Seq(Envelopes)
    <3>1. SubSeq(msgs[g], nproc[g] + 1, Len(msgs[g])) \in Seq(Envelopes)
      BY <2>2, SubSeqProperties DEF TypeOK
    <3>2. QED
      BY Zenon, <2>3, <3>1, RecoverFacts DEF TypeOK
  <2>5. pc' \in [Goroutines -> {"none", "check", "pop", "settle", "len", "invoke", "drain",
                            "restart", "internal", "count", "start", "started", "buffer",
                            "inbox", "unwind", "stop", "remove", "stopped", "cancel"}]
    BY Zenon, <2>3, RecoverFacts DEF TypeOK, Goto
  <2>6. \A h \in Goroutines : nproc'[h] <= Len(msgs'[h]) /\ drain'[h] <= Len(msgs'[h])
    BY <2>1, <2>2 DEF TypeOK
  <2>7. drain' \in [Goroutines -> Nat]
    BY <2>1 DEF TypeOK
  <2>8. /\ attempts' \in [Msgs -> Nat] /\ completed' \subseteq Msgs
        /\ cancel' \in [Goroutines -> Pills \cup {None}]
    <3>1. CASE m \in Pills
      BY Zenon, <2>3, <3>1 DEF TypeOK
    <3>2. CASE m \notin Pills
      <4>1. m \in Msgs /\ attempts' = [attempts EXCEPT ![m] = @ + 1]
        BY Zenon, <2>3, <3>2 DEF Envelopes
      <4>2. completed' = completed \cup {m} \/ completed' = completed
        BY Zenon, <2>3, <3>2
      <4>3. cancel' = cancel \/ cancel' = [cancel EXCEPT ![g] = None]
        BY Zenon, <2>3, <3>2
      <4>4. attempts' \in [Msgs -> Nat]
        BY <4>1 DEF TypeOK
      <4>5. completed' \subseteq Msgs
        BY Zenon, <4>1, <4>2 DEF TypeOK
      <4>6. cancel' \in [Goroutines -> Pills \cup {None}]
        BY Zenon, <4>3 DEF TypeOK
      <4>7. QED
        BY Zenon, <4>4, <4>5, <4>6
    <3>3. QED
      BY Zenon, <3>1, <3>2
  <2>9. QED
    BY Zenon, <2>1, <2>4, <2>5, <2>6, <2>7, <2>8 DEF TypeOK
<1>16. ASSUME NEW g \in Goroutines, InvokeEnd(g) PROVE TypeOK'
  BY ZenonT(30), <1>16 DEF InvokeEnd, Goto, goVars, history, TypeOK, Goroutines
<1>17. ASSUME NEW g \in Goroutines, RestartInternal(g) PROVE TypeOK'
  BY Zenon, <1>17 DEF RestartInternal, Goto, goVars, history, TypeOK, Goroutines
<1>18. ASSUME NEW g \in Goroutines, TryRestart(g) PROVE TypeOK'
  BY ZenonT(30), <1>18 DEF TryRestart, Goto, goVars, TypeOK, Goroutines
<1>19. ASSUME NEW g \in Goroutines, RestartCount(g) PROVE TypeOK'
  BY SMTT(30), <1>19 DEF RestartCount, Goto, goVars, history, TypeOK, Goroutines
<1>20. ASSUME NEW g \in Goroutines, CleanupStop(g) PROVE TypeOK'
  BY Zenon, <1>20 DEF CleanupStop, Goto, goVars, TypeOK, Goroutines
<1>21. ASSUME NEW g \in Goroutines, CleanupRemove(g) PROVE TypeOK'
  BY Zenon, <1>21 DEF CleanupRemove, Goto, goVars, history, TypeOK, Goroutines
<1>22. ASSUME NEW g \in Goroutines, CleanupStopped(g) PROVE TypeOK'
  BY <1>22 DEF CleanupStopped, Goto, goVars, TypeOK, Goroutines
<1>23. ASSUME NEW g \in Goroutines, CleanupCancel(g) PROVE TypeOK'
  BY ZenonT(30), <1>23 DEF CleanupCancel, Goto, TypeOK, Goroutines
<1>24. CASE UNCHANGED vars
  BY Zenon, <1>24 DEF vars, goVars, history, TypeOK, Goroutines
<1>25. QED
  BY Zenon, <1>1, <1>2, <1>3, <1>4, <1>5, <1>6, <1>7, <1>8, <1>9, <1>10, <1>11, <1>12, <1>13,
     <1>14, <1>15, <1>16, <1>17, <1>18, <1>19, <1>20, <1>21, <1>22, <1>23,
     <1>24 DEF Next, Step

(* nproc and drain are 0 between two batches. *)
LEMMA BetweenStep ==
  ASSUME TypeOK, BetweenInv, [Next]_vars
  PROVE  BetweenInv'
<1>1. ASSUME NEW p \in Pills, CheckPill(p) PROVE BetweenInv'
  BY Zenon, <1>1 DEF CheckPill, goVars, TypeOK, BetweenInv, Between
<1>2. ASSUME NEW e \in Envelopes, Lookup(e) PROVE BetweenInv'
  BY Zenon, <1>2 DEF Lookup, goVars, history, TypeOK, BetweenInv, Between
<1>3. ASSUME NEW e \in Envelopes, Send(e) PROVE BetweenInv'
  BY Zenon, <1>3, NewFacts DEF Send, schedule, Goto, goVars, TypeOK, BetweenInv, Between
<1>4. ASSUME NEW g \in Goroutines, StartInitialized(g) PROVE BetweenInv'
  BY ZenonT(30), <1>4, LifePanicFacts DEF StartInitialized, Goto, goVars, TypeOK, BetweenInv, Between
<1>5. ASSUME NEW g \in Goroutines, StartStarted(g) PROVE BetweenInv'
  BY ZenonT(30), <1>5, LifePanicFacts DEF StartStarted, Goto, goVars, TypeOK, BetweenInv, Between
<1>6. ASSUME NEW g \in Goroutines, StartBuffer(g) PROVE BetweenInv'
  BY ZenonT(30), <1>6 DEF StartBuffer, Goto, history, TypeOK, BetweenInv, Between
<1>7. ASSUME NEW g \in Goroutines, StartInbox(g) PROVE BetweenInv'
  BY ZenonT(30), <1>7, NewFacts DEF StartInbox, Goto, goVars, TypeOK, BetweenInv, Between
<1>8. ASSUME NEW g \in Goroutines, Unwind(g) PROVE BetweenInv'
  BY Zenon, <1>8 DEF Unwind, Goto, history, TypeOK, BetweenInv, Between
<1>9. ASSUME NEW g \in Goroutines, RunCheck(g) PROVE BetweenInv'
  BY Zenon, <1>9 DEF RunCheck, Goto, goVars, history, TypeOK, BetweenInv, Between
<1>10. ASSUME NEW g \in Goroutines, RunPop(g) PROVE BetweenInv'
  BY Zenon, <1>10 DEF RunPop, Goto, history, TypeOK, BetweenInv, Between
<1>11. ASSUME NEW g \in Goroutines, ProcessSettle(g) PROVE BetweenInv'
  BY Zenon, <1>11 DEF ProcessSettle, Goto, goVars, history, TypeOK, BetweenInv, Between
<1>12. ASSUME NEW g \in Goroutines, ProcessLen(g) PROVE BetweenInv'
  BY Zenon, <1>12 DEF ProcessLen, Goto, goVars, history, TypeOK, BetweenInv, Between
<1>13. ASSUME NEW g \in Goroutines, InvokeMsg(g) PROVE BetweenInv'
  BY ZenonT(30), <1>13, RecoverFacts DEF InvokeMsg, Goto, TypeOK, BetweenInv, Between
<1>14. ASSUME NEW g \in Goroutines, InvokePill(g) PROVE BetweenInv'
  BY Zenon, <1>14 DEF InvokePill, Goto, history, TypeOK, BetweenInv, Between
<1>15. ASSUME NEW g \in Goroutines, InvokeDrain(g) PROVE BetweenInv'
  <2>1. /\ pc[g] = "drain" /\ drain' = [drain EXCEPT ![g] = @ + 1] /\ nproc' = nproc
        /\ pc' = pc \/ \E how \in MsgPanics : Recover(g, nproc[g], how)
    BY <1>15, Zenon DEF InvokeDrain
  <2>2. pc' = pc \/ Goto(g, "restart") \/ Goto(g, "internal")
    BY Zenon, <2>1, RecoverFacts
  <2>3. QED
    BY ZenonT(30), <2>1, <2>2 DEF Goto, TypeOK, BetweenInv, Between
<1>16. ASSUME NEW g \in Goroutines, InvokeEnd(g) PROVE BetweenInv'
  BY Zenon, <1>16 DEF InvokeEnd, Goto, goVars, history, TypeOK, BetweenInv, Between
<1>17. ASSUME NEW g \in Goroutines, RestartInternal(g) PROVE BetweenInv'
  BY Zenon, <1>17 DEF RestartInternal, Goto, goVars, history, TypeOK, BetweenInv, Between
<1>18. ASSUME NEW g \in Goroutines, TryRestart(g) PROVE BetweenInv'
  BY ZenonT(30), <1>18 DEF TryRestart, Goto, goVars, TypeOK, BetweenInv, Between
<1>19. ASSUME NEW g \in Goroutines, RestartCount(g) PROVE BetweenInv'
  BY Zenon, <1>19 DEF RestartCount, Goto, goVars, history, TypeOK, BetweenInv, Between
<1>20. ASSUME NEW g \in Goroutines, CleanupStop(g) PROVE BetweenInv'
  BY Zenon, <1>20 DEF CleanupStop, Goto, goVars, TypeOK, BetweenInv, Between
<1>21. ASSUME NEW g \in Goroutines, CleanupRemove(g) PROVE BetweenInv'
  BY Zenon, <1>21 DEF CleanupRemove, Goto, goVars, history, TypeOK, BetweenInv, Between
<1>22. ASSUME NEW g \in Goroutines, CleanupStopped(g) PROVE BetweenInv'
  BY Zenon, <1>22 DEF CleanupStopped, Goto, goVars, TypeOK, BetweenInv, Between
<1>23. ASSUME NEW g \in Goroutines, CleanupCancel(g) PROVE BetweenInv'
  BY Zenon, <1>23 DEF CleanupCancel, Goto, TypeOK, BetweenInv, Between
<1>24. CASE UNCHANGED vars
  BY ZenonT(30), <1>24 DEF vars, goVars, history, TypeOK, BetweenInv, Between
<1>25. QED
  BY ZenonT(30), <1>1, <1>2, <1>3, <1>4, <1>5, <1>6, <1>7, <1>8, <1>9, <1>10, <1>11, <1>12, <1>13,
     <1>14, <1>15, <1>16, <1>17, <1>18, <1>19, <1>20, <1>21, <1>22, <1>23,
     <1>24 DEF Next, Step

(* cleanup: the context is cancelled last. *)
LEMMA GoneStep ==
  ASSUME TypeOK, GoneInv, [Next]_vars
  PROVE  GoneInv'
<1>1. ASSUME NEW p \in Pills, CheckPill(p) PROVE GoneInv'
  <2>1. CASE registered
    BY <1>1, <2>1, Zenon DEF CheckPill, GoneInv
  <2>2. CASE ~registered
    <3>1. /\ est' = [est EXCEPT ![p] = "dead"] /\ cancelled' = cancelled \cup {p}
          /\ UNCHANGED <<registered, pc, stops>> /\ p \in Envelopes
      BY Zenon, <1>1, <2>2 DEF CheckPill, Envelopes
    <3>2. QED
      BY <3>1, <2>2 DEF GoneInv, TypeOK
  <2>3. QED
    BY Zenon, <2>1, <2>2
<1>2. ASSUME NEW e \in Envelopes, Lookup(e) PROVE GoneInv'
  BY <1>2 DEF Lookup, goVars, history, GoneInv, TypeOK
<1>3. ASSUME NEW e \in Envelopes, Send(e) PROVE GoneInv'
  BY <1>3, NewFacts DEF Send, schedule, Goto, goVars, GoneInv, TypeOK
<1>4. ASSUME NEW g \in Goroutines, StartInitialized(g) PROVE GoneInv'
  BY ZenonT(30), <1>4, LifePanicFacts DEF StartInitialized, Goto, goVars, GoneInv, TypeOK
<1>5. ASSUME NEW g \in Goroutines, StartStarted(g) PROVE GoneInv'
  BY ZenonT(30), <1>5, LifePanicFacts DEF StartStarted, Goto, goVars, GoneInv, TypeOK
<1>6. ASSUME NEW g \in Goroutines, StartBuffer(g) PROVE GoneInv'
  BY ZenonT(30), <1>6 DEF StartBuffer, Goto, history, GoneInv, TypeOK
<1>7. ASSUME NEW g \in Goroutines, StartInbox(g) PROVE GoneInv'
  BY ZenonT(30), <1>7, NewFacts DEF StartInbox, Goto, goVars, GoneInv, TypeOK
<1>8. ASSUME NEW g \in Goroutines, Unwind(g) PROVE GoneInv'
  BY ZenonT(30), <1>8 DEF Unwind, Goto, history, GoneInv, TypeOK
<1>9. ASSUME NEW g \in Goroutines, RunCheck(g) PROVE GoneInv'
  BY Zenon, <1>9 DEF RunCheck, Goto, goVars, history, GoneInv, TypeOK
<1>10. ASSUME NEW g \in Goroutines, RunPop(g) PROVE GoneInv'
  BY ZenonT(30), <1>10 DEF RunPop, Goto, history, GoneInv, TypeOK
<1>11. ASSUME NEW g \in Goroutines, ProcessSettle(g) PROVE GoneInv'
  BY ZenonT(30), <1>11 DEF ProcessSettle, Goto, goVars, history, GoneInv, TypeOK
<1>12. ASSUME NEW g \in Goroutines, ProcessLen(g) PROVE GoneInv'
  BY ZenonT(30), <1>12 DEF ProcessLen, Goto, goVars, history, GoneInv, TypeOK
<1>13. ASSUME NEW g \in Goroutines, InvokeMsg(g) PROVE GoneInv'
  BY ZenonT(30), <1>13, RecoverFacts DEF InvokeMsg, Goto, GoneInv, TypeOK
<1>14. ASSUME NEW g \in Goroutines, InvokePill(g) PROVE GoneInv'
  BY Zenon, <1>14 DEF InvokePill, Goto, history, GoneInv, TypeOK
<1>15. ASSUME NEW g \in Goroutines, InvokeDrain(g) PROVE GoneInv'
  <2>1. /\ UNCHANGED <<registered, est, cancelled, stops>>
        /\ pc' = pc \/ \E how \in MsgPanics : Recover(g, nproc[g], how)
    BY Zenon, <1>15 DEF InvokeDrain
  <2>2. pc' = pc \/ Goto(g, "restart") \/ Goto(g, "internal")
    BY Zenon, <2>1, RecoverFacts
  <2>3. QED
    BY Zenon, <2>1, <2>2 DEF Goto, GoneInv, TypeOK
<1>16. ASSUME NEW g \in Goroutines, InvokeEnd(g) PROVE GoneInv'
  BY Zenon, <1>16 DEF InvokeEnd, Goto, goVars, history, GoneInv, TypeOK
<1>17. ASSUME NEW g \in Goroutines, RestartInternal(g) PROVE GoneInv'
  BY Zenon, <1>17 DEF RestartInternal, Goto, goVars, history, GoneInv, TypeOK
<1>18. ASSUME NEW g \in Goroutines, TryRestart(g) PROVE GoneInv'
  BY ZenonT(30), <1>18 DEF TryRestart, Goto, goVars, GoneInv, TypeOK
<1>19. ASSUME NEW g \in Goroutines, RestartCount(g) PROVE GoneInv'
  BY Zenon, <1>19 DEF RestartCount, Goto, goVars, history, GoneInv, TypeOK
<1>20. ASSUME NEW g \in Goroutines, CleanupStop(g) PROVE GoneInv'
  BY Zenon, <1>20 DEF CleanupStop, Goto, goVars, GoneInv, TypeOK
<1>21. ASSUME NEW g \in Goroutines, CleanupRemove(g) PROVE GoneInv'
  BY Zenon, <1>21 DEF CleanupRemove, Goto, goVars, history, GoneInv, TypeOK
<1>22. ASSUME NEW g \in Goroutines, CleanupStopped(g) PROVE GoneInv'
  BY <1>22 DEF CleanupStopped, Goto, goVars, GoneInv, TypeOK
<1>23. ASSUME NEW g \in Goroutines, CleanupCancel(g) PROVE GoneInv'
  BY Zenon, <1>23 DEF CleanupCancel, Goto, GoneInv, TypeOK
<1>24. CASE UNCHANGED vars
  BY Zenon, <1>24 DEF vars, goVars, history, GoneInv, TypeOK
<1>25. QED
  BY Zenon, <1>1, <1>2, <1>3, <1>4, <1>5, <1>6, <1>7, <1>8, <1>9, <1>10, <1>11, <1>12, <1>13,
     <1>14, <1>15, <1>16, <1>17, <1>18, <1>19, <1>20, <1>21, <1>22, <1>23,
     <1>24 DEF Next, Step

(* What a step does that keeps its goroutine, and only it, busy *)
SameBusy == UNCHANGED <<pc, status, closed, revived, depth, mbuffer>>
Proceeds(g, label) ==
  /\ pc' = [pc EXCEPT ![g] = label] /\ ~Idle(g)
  /\ label \notin {"none", "len"}
  /\ g = Spawner => label \notin {"invoke", "drain", "check", "pop", "settle", "unwind"}
  /\ g = Spawner => mbuffer' = mbuffer \/ mbuffer' = <<>>
  /\ depth'[Spawner] = depth[Spawner]
  /\ UNCHANGED <<status, closed>>
  /\ closed => label \in AfterStop
  /\ ~closed => label \notin {"remove", "stopped", "cancel"}

(* A step that changes nothing of this keeps OneBusy. *)
LEMMA BusyStays ==
  ASSUME OneBusy, SameBusy
  PROVE  OneBusy'
BY Zenon DEF OneBusy, SameBusy, Idle

(* So does one after which the busy goroutine is still the only one. *)
LEMMA BusyMove ==
  ASSUME TypeOK, OneBusy, NEW g \in Goroutines, NEW label, Proceeds(g, label)
  PROVE  OneBusy'
<1>1. pc'[g] = label /\ \A h \in Goroutines : h # g => pc'[h] = pc[h] /\ Idle(h)
  BY Zenon DEF Proceeds, TypeOK, OneBusy
<1>2. \A h \in Goroutines : Idle(h)' <=> h # g
  BY Zenon, <1>1 DEF Idle, Proceeds
<1>3. Spawner \in Goroutines
  BY Zenon DEF Goroutines
<1>4. pc'[Spawner] \notin {"invoke", "drain", "check", "pop", "settle", "len"}
  BY Zenon, <1>1, <1>3 DEF Proceeds, OneBusy
<1>5. closed => /\ status' = "stopped"
                /\ \A h \in Goroutines : ~Idle(h)' => pc'[h] \in AfterStop
  BY Zenon, <1>1, <1>2 DEF Proceeds, OneBusy
<1>6. ~closed => /\ status = "stopped" <=> g = Spawner
                 /\ status # "idle"
                 /\ status = "stopped" => mbuffer' = <<>>
                 /\ \A h \in Goroutines : pc'[h] \notin {"remove", "stopped", "cancel"}
  BY Zenon, <1>1, <1>3 DEF Proceeds, OneBusy
<1>7. QED
  BY Zenon, <1>2, <1>3, <1>4, <1>5, <1>6 DEF Proceeds, OneBusy

(* Inbox.process and Inbox.Start: no step lets a second goroutine in. *)
LEMMA BusyStep ==
  ASSUME TypeOK, revived => closed, ~revived => OneBusy, [Next]_vars
  PROVE  ~revived' => OneBusy'
<1>1. ASSUME NEW p \in Pills, CheckPill(p) PROVE ~revived' => OneBusy'
  BY Zenon, <1>1 DEF CheckPill, goVars, OneBusy, Idle, AfterStop, TypeOK
<1>2. ASSUME NEW e \in Envelopes, Lookup(e) PROVE ~revived' => OneBusy'
  BY Zenon, <1>2 DEF Lookup, goVars, history, OneBusy, Idle, AfterStop, TypeOK
<1>3. ASSUME NEW e \in Envelopes, Send(e) PROVE ~revived' => OneBusy'
  <2>1. SUFFICES ASSUME ~revived' PROVE OneBusy'
    BY Zenon
  <2>2. /\ UNCHANGED <<mbuffer, depth, closed, revived>>
        /\ \/ UNCHANGED <<status, pc>>
           \/ /\ status = "idle" /\ status' = "running"
              /\ \E w \in Workers : New(w) /\ Goto(w, "check")
    BY Zenon, <1>3 DEF Send, schedule, goVars
  <2>3. OneBusy
    BY Zenon, <2>1, <2>2
  <2>4. CASE UNCHANGED <<status, pc>>
    BY Zenon, <2>2, <2>3, <2>4, BusyStays DEF SameBusy
  <2>5. ASSUME status = "idle", status' = "running",
               NEW w \in Workers, New(w), Goto(w, "check")
        PROVE  OneBusy'
    <3>1. pc[w] = "none" /\ w \in Goroutines /\ w # Spawner
      BY Zenon, <2>5, NewFacts
    <3>2. ~closed /\ \A h \in Goroutines : Idle(h)
      BY Zenon, <2>3, <2>5 DEF OneBusy
    <3>3. pc' = [pc EXCEPT ![w] = "check"] /\ Spawner \in Goroutines
      BY Zenon, <2>5 DEF Goto, Goroutines
    <3>4. pc'[w] = "check" /\ \A h \in Goroutines : h # w => pc'[h] = pc[h]
      BY Zenon, <3>1, <3>3 DEF TypeOK
    <3>5. QED
      BY ZenonT(30), <2>2, <2>3, <2>5, <3>1, <3>2, <3>3, <3>4 DEF OneBusy, Idle
  <2>6. QED
    BY Zenon, <2>2, <2>4, <2>5
<1>4. ASSUME NEW g \in Goroutines, StartInitialized(g) PROVE ~revived' => OneBusy'
  <2>1. SUFFICES ASSUME ~revived' PROVE OneBusy'
    BY Zenon
  <2>2. Proceeds(g, "started") \/ Proceeds(g, "restart") \/ Proceeds(g, "internal")
    BY Zenon, <1>4, <2>1, LifePanicFacts DEF StartInitialized, goVars, history, Proceeds,
       Goto, OneBusy, Idle, AfterStop
  <2>3. ~revived /\ OneBusy
    BY Zenon, <1>4, <2>1 DEF StartInitialized, history
  <2>4. QED
    BY Zenon, <2>2, <2>3, BusyMove
<1>5. ASSUME NEW g \in Goroutines, StartStarted(g) PROVE ~revived' => OneBusy'
  <2>1. SUFFICES ASSUME ~revived' PROVE OneBusy'
    BY Zenon
  <2>2. Proceeds(g, "buffer") \/ Proceeds(g, "restart") \/ Proceeds(g, "internal")
    BY Zenon, <1>5, <2>1, LifePanicFacts DEF StartStarted, goVars, history, Proceeds, Goto,
       OneBusy, Idle, AfterStop
  <2>3. ~revived /\ OneBusy
    BY Zenon, <1>5, <2>1 DEF StartStarted, history
  <2>4. QED
    BY Zenon, <2>2, <2>3, BusyMove
<1>6. ASSUME NEW g \in Goroutines, StartBuffer(g) PROVE ~revived' => OneBusy'
  <2>1. SUFFICES ASSUME ~revived' PROVE OneBusy'
    BY Zenon
  <2>2. pc[g] = "buffer" /\ UNCHANGED <<status, closed, revived, mbuffer>>
    BY Zenon, <1>6 DEF StartBuffer, history
  <2>3. ~revived /\ OneBusy /\ Spawner \in Goroutines
    BY Zenon, <2>1, <2>2 DEF Goroutines
  <2>4. ~closed /\ ~Idle(g)
    BY Zenon, <2>2, <2>3 DEF OneBusy, Idle, AfterStop
  <2>5. g = Spawner => mbuffer = <<>>
    BY Zenon, <2>3, <2>4 DEF OneBusy
  <2>6. \/ pc' = [pc EXCEPT ![g] = "inbox"] /\ depth' = depth
        \/ /\ pc' = [pc EXCEPT ![g] = "invoke"] /\ g # Spawner
           /\ depth' = [depth EXCEPT ![g] = @ + 1]
    BY Zenon, <1>6, <2>5 DEF StartBuffer, Goto
  <2>7. depth'[Spawner] = depth[Spawner]
    BY Zenon, <2>3, <2>6 DEF TypeOK
  <2>8. Proceeds(g, "inbox") \/ Proceeds(g, "invoke")
    BY Zenon, <2>2, <2>4, <2>6, <2>7 DEF Proceeds
  <2>9. QED
    BY Zenon, <2>3, <2>8, BusyMove
<1>7. ASSUME NEW g \in Goroutines, StartInbox(g) PROVE ~revived' => OneBusy'
  <2>1. SUFFICES ASSUME ~revived' PROVE OneBusy'
    BY Zenon
  <2>2. /\ pc[g] = "inbox" /\ UNCHANGED <<mbuffer, depth, closed>>
    BY Zenon, <1>7 DEF StartInbox, goVars
  <2>3. CASE status = "stopped"
    <3>1. PICK w \in Workers : /\ New(w) /\ pc' = [pc EXCEPT ![g] = "unwind", ![w] = "check"]
                               /\ status' = "running" /\ revived' = closed
      BY Zenon, <1>7, <2>3 DEF StartInbox
    <3>2. pc[w] = "none" /\ w \in Goroutines /\ w # Spawner /\ Spawner \in Goroutines
      BY Zenon, <3>1, NewFacts DEF Goroutines
    <3>3. ~closed /\ ~revived /\ OneBusy
      BY Zenon, <2>1, <3>1
    <3>4. g = Spawner
      BY Zenon, <2>2, <2>3, <3>2, <3>3 DEF OneBusy, Idle
    <3>5. /\ pc'[g] = "unwind" /\ pc'[w] = "check"
          /\ \A h \in Goroutines : h # g /\ h # w => pc'[h] = pc[h] /\ Idle(h)
      BY Zenon, <2>2, <3>1, <3>2, <3>3, <3>4 DEF TypeOK, OneBusy, Idle
    <3>6. QED
      BY Zenon, <2>2, <3>1, <3>2, <3>3, <3>4, <3>5 DEF OneBusy, Idle
  <2>4. CASE status # "stopped"
    <3>1. Goto(g, "unwind") /\ UNCHANGED <<status, revived>>
      BY Zenon, <1>7, <2>4 DEF StartInbox
    <3>2. ~revived /\ OneBusy
      BY Zenon, <2>1, <3>1
    <3>3. Proceeds(g, "unwind")
      BY Zenon, <2>2, <2>4, <3>1, <3>2 DEF Proceeds, OneBusy, Idle, AfterStop, Goto
    <3>4. QED
      BY Zenon, <3>2, <3>3, BusyMove
  <2>5. QED
    BY Zenon, <2>3, <2>4
<1>8. ASSUME NEW g \in Goroutines, Unwind(g) PROVE ~revived' => OneBusy'
  <2>1. SUFFICES ASSUME ~revived' PROVE OneBusy'
    BY Zenon
  <2>2. pc[g] = "unwind" /\ UNCHANGED <<status, closed, revived>>
    BY Zenon, <1>8 DEF Unwind, history
  <2>3. ~revived /\ OneBusy /\ Spawner \in Goroutines
    BY Zenon, <2>1, <2>2 DEF Goroutines
  <2>4. CASE g = Spawner
    <3>1. UNCHANGED <<mbuffer, depth>> /\ pc' = [pc EXCEPT ![g] = "none"]
      BY <1>8, <2>3, <2>4 DEF Unwind, OneBusy, Goto
    <3>2. pc'[g] = "none" /\ \A h \in Goroutines : h # g => pc'[h] = pc[h]
      BY Zenon, <3>1 DEF TypeOK
    <3>3. QED
      BY Zenon, <2>2, <2>3, <2>4, <3>1, <3>2 DEF OneBusy, Idle
  <2>5. CASE g # Spawner
    <3>1. /\ mbuffer' = mbuffer \/ mbuffer' = <<>>
          /\ depth'[Spawner] = depth[Spawner]
          /\ Goto(g, "inbox") \/ Goto(g, "check")
      BY Zenon, <1>8, <2>3, <2>5 DEF Unwind, TypeOK
    <3>2. Proceeds(g, "inbox") \/ Proceeds(g, "check")
      BY Zenon, <2>2, <2>3, <2>5, <3>1 DEF Proceeds, OneBusy, Idle, AfterStop, Goto
    <3>3. QED
      BY Zenon, <2>3, <3>2, BusyMove
  <2>6. QED
    BY Zenon, <2>4, <2>5
<1>9. ASSUME NEW g \in Goroutines, RunCheck(g) PROVE ~revived' => OneBusy'
  BY SMTT(20), <1>9 DEF RunCheck, Goto, goVars, history, OneBusy, Idle, AfterStop, TypeOK
<1>10. ASSUME NEW g \in Goroutines, RunPop(g) PROVE ~revived' => OneBusy'
  <2>1. SUFFICES ASSUME ~revived' PROVE OneBusy'
    BY Zenon
  <2>2. Proceeds(g, "invoke") \/ Proceeds(g, "settle")
    BY Zenon, <1>10, <2>1 DEF RunPop, goVars, history, Proceeds, Goto, OneBusy, Idle, AfterStop
  <2>3. ~revived /\ OneBusy
    BY Zenon, <1>10, <2>1 DEF RunPop, history
  <2>4. QED
    BY Zenon, <2>2, <2>3, BusyMove
<1>11. ASSUME NEW g \in Goroutines, ProcessSettle(g) PROVE ~revived' => OneBusy'
  <2>1. SUFFICES ASSUME ~revived' PROVE OneBusy'
    BY Zenon
  <2>2. pc[g] = "settle" /\ UNCHANGED <<mbuffer, depth, closed, revived>>
    BY Zenon, <1>11 DEF ProcessSettle, goVars, history
  <2>3. ~revived /\ OneBusy /\ Spawner \in Goroutines
    BY Zenon, <2>1, <2>2 DEF Goroutines
  <2>4. g # Spawner /\ status # "idle" /\ (~closed => status = "running")
    BY Zenon, <2>2, <2>3 DEF OneBusy, Idle, TypeOK
  <2>5. /\ pc'[g] \in {"len", "none"} /\ \A h \in Goroutines : h # g => pc'[h] = pc[h]
        /\ IF status = "running" THEN status' = "idle" ELSE status' = status
    BY Zenon, <1>11 DEF ProcessSettle, Goto, TypeOK
  <2>6. \A h \in Goroutines : Idle(h)'
    BY Zenon, <2>2, <2>3, <2>5 DEF OneBusy, Idle
  <2>7. QED
    BY Zenon, <2>2, <2>3, <2>4, <2>5, <2>6 DEF OneBusy, Idle
<1>12. ASSUME NEW g \in Goroutines, ProcessLen(g) PROVE ~revived' => OneBusy'
  <2>1. SUFFICES ASSUME ~revived' PROVE OneBusy'
    BY Zenon
  <2>2. pc[g] = "len" /\ UNCHANGED <<mbuffer, depth, closed, revived>>
    BY Zenon, <1>12 DEF ProcessLen, goVars, history
  <2>3. ~revived /\ OneBusy /\ Spawner \in Goroutines /\ g # Spawner
    BY Zenon, <2>1, <2>2 DEF Goroutines, OneBusy
  <2>4. CASE queue # <<>> /\ status = "idle"
    <3>1. status' = "running" /\ pc' = [pc EXCEPT ![g] = "check"]
      BY Zenon, <1>12, <2>4 DEF ProcessLen, Goto
    <3>2. pc'[g] = "check" /\ \A h \in Goroutines : h # g => pc'[h] = pc[h]
      BY Zenon, <3>1 DEF TypeOK
    <3>3. ~closed /\ \A h \in Goroutines : Idle(h)
      BY Zenon, <2>3, <2>4 DEF OneBusy
    <3>4. QED
      BY ZenonT(30), <2>2, <2>3, <2>4, <3>1, <3>2, <3>3 DEF OneBusy, Idle
  <2>5. CASE ~(queue # <<>> /\ status = "idle")
    <3>1. status' = status /\ pc' = [pc EXCEPT ![g] = "none"]
      BY Zenon, <1>12, <2>5 DEF ProcessLen, Goto
    <3>2. pc'[g] = "none" /\ \A h \in Goroutines : h # g => pc'[h] = pc[h]
      BY Zenon, <3>1 DEF TypeOK
    <3>3. QED
      BY Zenon, <2>2, <2>3, <3>1, <3>2 DEF OneBusy, Idle
  <2>6. QED
    BY Zenon, <2>4, <2>5
<1>13. ASSUME NEW g \in Goroutines, InvokeMsg(g) PROVE ~revived' => OneBusy'
  <2>1. SUFFICES ASSUME ~revived' PROVE OneBusy'
    BY Zenon
  <2>2. SameBusy \/ Proceeds(g, "restart") \/ Proceeds(g, "internal")
    BY Zenon, <1>13, <2>1, RecoverFacts DEF InvokeMsg, goVars, history, Proceeds, Goto,
       OneBusy, Idle, AfterStop, SameBusy
  <2>3. ~revived /\ OneBusy
    BY Zenon, <1>13, <2>1 DEF InvokeMsg, history
  <2>4. QED
    BY Zenon, <2>2, <2>3, BusyMove, BusyStays
<1>14. ASSUME NEW g \in Goroutines, InvokePill(g) PROVE ~revived' => OneBusy'
  <2>1. SUFFICES ASSUME ~revived' PROVE OneBusy'
    BY Zenon
  <2>2. Proceeds(g, "drain") \/ Proceeds(g, "stop")
    BY Zenon, <1>14, <2>1 DEF InvokePill, goVars, history, Proceeds, Goto, OneBusy, Idle,
       AfterStop
  <2>3. ~revived /\ OneBusy
    BY Zenon, <1>14, <2>1 DEF InvokePill, history
  <2>4. QED
    BY Zenon, <2>2, <2>3, BusyMove
<1>15. ASSUME NEW g \in Goroutines, InvokeDrain(g) PROVE ~revived' => OneBusy'
  <2>1. SUFFICES ASSUME ~revived' PROVE OneBusy'
    BY Zenon
  <2>2. SameBusy \/ Proceeds(g, "restart") \/ Proceeds(g, "internal")
    BY Zenon, <1>15, <2>1, RecoverFacts DEF InvokeDrain, goVars, history, Proceeds, Goto,
       OneBusy, Idle, AfterStop, SameBusy
  <2>3. ~revived /\ OneBusy
    BY Zenon, <1>15, <2>1 DEF InvokeDrain, history
  <2>4. QED
    BY Zenon, <2>2, <2>3, BusyMove, BusyStays
<1>16. ASSUME NEW g \in Goroutines, InvokeEnd(g) PROVE ~revived' => OneBusy'
  <2>1. SUFFICES ASSUME ~revived' PROVE OneBusy'
    BY Zenon
  <2>2. Proceeds(g, "unwind") \/ Proceeds(g, "stop")
    BY Zenon, <1>16, <2>1 DEF InvokeEnd, goVars, history, Proceeds, Goto, OneBusy, Idle,
       AfterStop
  <2>3. ~revived /\ OneBusy
    BY Zenon, <1>16, <2>1 DEF InvokeEnd, history
  <2>4. QED
    BY Zenon, <2>2, <2>3, BusyMove
<1>17. ASSUME NEW g \in Goroutines, RestartInternal(g) PROVE ~revived' => OneBusy'
  BY SMTT(20), <1>17 DEF RestartInternal, Goto, goVars, history, OneBusy, Idle, AfterStop,
     TypeOK
<1>18. ASSUME NEW g \in Goroutines, TryRestart(g) PROVE ~revived' => OneBusy'
  <2>1. SUFFICES ASSUME ~revived' PROVE OneBusy'
    BY Zenon
  <2>2. Proceeds(g, "count") \/ Proceeds(g, "stop")
    BY Zenon, <1>18, <2>1 DEF TryRestart, goVars, history, Proceeds, Goto, OneBusy, Idle,
       AfterStop
  <2>3. ~revived /\ OneBusy
    BY Zenon, <1>18, <2>1 DEF TryRestart, history
  <2>4. QED
    BY Zenon, <2>2, <2>3, BusyMove
<1>19. ASSUME NEW g \in Goroutines, RestartCount(g) PROVE ~revived' => OneBusy'
  BY SMTT(30), <1>19 DEF RestartCount, Goto, goVars, history, OneBusy, Idle, AfterStop, TypeOK
<1>20. ASSUME NEW g \in Goroutines, CleanupStop(g) PROVE ~revived' => OneBusy'
  <2>1. SUFFICES ASSUME ~revived' PROVE OneBusy'
    BY Zenon
  <2>2. /\ pc[g] = "stop" /\ UNCHANGED <<mbuffer, depth, revived>>
        /\ closed' = TRUE /\ status' = "stopped" /\ pc' = [pc EXCEPT ![g] = "remove"]
    BY Zenon, <1>20 DEF CleanupStop, goVars, Goto
  <2>3. ~revived /\ OneBusy /\ Spawner \in Goroutines
    BY Zenon, <2>1, <2>2 DEF Goroutines
  <2>4. /\ pc'[g] = "remove"
        /\ \A h \in Goroutines : h # g => pc'[h] = pc[h] /\ Idle(h)
    BY Zenon, <2>2, <2>3 DEF TypeOK, OneBusy, Idle
  <2>5. QED
    BY Zenon, <2>2, <2>3, <2>4 DEF OneBusy, Idle, AfterStop
<1>21. ASSUME NEW g \in Goroutines, CleanupRemove(g) PROVE ~revived' => OneBusy'
  BY SMTT(30), <1>21 DEF CleanupRemove, Goto, goVars, history, OneBusy, Idle, AfterStop, TypeOK
<1>22. ASSUME NEW g \in Goroutines, CleanupStopped(g) PROVE ~revived' => OneBusy'
  BY SMTT(30), <1>22 DEF CleanupStopped, Goto, goVars, OneBusy, Idle, AfterStop, TypeOK
<1>23. ASSUME NEW g \in Goroutines, CleanupCancel(g) PROVE ~revived' => OneBusy'
  BY SMTT(20), <1>23 DEF CleanupCancel, Goto, OneBusy, Idle, AfterStop, TypeOK
<1>24. CASE UNCHANGED vars
  BY Zenon, <1>24 DEF vars, goVars, history, OneBusy, Idle, AfterStop, TypeOK
<1>25. QED
  BY ZenonT(30), <1>1, <1>2, <1>3, <1>4, <1>5, <1>6, <1>7, <1>8, <1>9, <1>10, <1>11, <1>12, <1>13,
     <1>14, <1>15, <1>16, <1>17, <1>18, <1>19, <1>20, <1>21, <1>22, <1>23,
     <1>24 DEF Next, Step

(* Start: the receiver gets Started before the buffer and the inbox. *)
LEMMA PhaseStep ==
  ASSUME TypeOK, revived => closed, ~revived => OneBusy /\ PhaseInv, [Next]_vars
  PROVE  ~revived' => PhaseInv'
<1>1. ASSUME NEW p \in Pills, CheckPill(p) PROVE ~revived' => PhaseInv'
  BY Zenon, <1>1 DEF CheckPill, goVars, PhaseInv, Restarting, OneBusy, Idle, AfterStop, TypeOK
<1>2. ASSUME NEW e \in Envelopes, Lookup(e) PROVE ~revived' => PhaseInv'
  BY Zenon, <1>2 DEF Lookup, goVars, history, PhaseInv, Restarting, OneBusy, Idle, AfterStop,
     TypeOK
<1>3. ASSUME NEW e \in Envelopes, Send(e) PROVE ~revived' => PhaseInv'
  BY Zenon, <1>3, NewFacts DEF Send, schedule, Goto, goVars, PhaseInv, Restarting, OneBusy,
     Idle, AfterStop, TypeOK
<1>4. ASSUME NEW g \in Goroutines, StartInitialized(g) PROVE ~revived' => PhaseInv'
  BY ZenonT(30), <1>4, LifePanicFacts DEF StartInitialized, Goto, goVars, PhaseInv, Restarting,
     OneBusy, Idle, AfterStop, TypeOK
<1>5. ASSUME NEW g \in Goroutines, StartStarted(g) PROVE ~revived' => PhaseInv'
  BY ZenonT(30), <1>5, LifePanicFacts DEF StartStarted, Goto, goVars, PhaseInv, Restarting, OneBusy,
     Idle, AfterStop, TypeOK
<1>6. ASSUME NEW g \in Goroutines, StartBuffer(g) PROVE ~revived' => PhaseInv'
  BY Zenon, <1>6 DEF StartBuffer, Goto, history, PhaseInv, Restarting, OneBusy, Idle, AfterStop,
     TypeOK
<1>7. ASSUME NEW g \in Goroutines, StartInbox(g) PROVE ~revived' => PhaseInv'
  BY Zenon, <1>7, NewFacts DEF StartInbox, Goto, goVars, PhaseInv, Restarting, OneBusy, Idle,
     AfterStop, TypeOK
<1>8. ASSUME NEW g \in Goroutines, Unwind(g) PROVE ~revived' => PhaseInv'
  BY ZenonT(30), <1>8 DEF Unwind, Goto, history, PhaseInv, Restarting, OneBusy, Idle, AfterStop,
     TypeOK
<1>9. ASSUME NEW g \in Goroutines, RunCheck(g) PROVE ~revived' => PhaseInv'
  BY Zenon, <1>9 DEF RunCheck, Goto, goVars, history, PhaseInv, Restarting, OneBusy, Idle,
     AfterStop, TypeOK
<1>10. ASSUME NEW g \in Goroutines, RunPop(g) PROVE ~revived' => PhaseInv'
  BY Zenon, <1>10 DEF RunPop, Goto, history, PhaseInv, Restarting, OneBusy, Idle, AfterStop,
     TypeOK
<1>11. ASSUME NEW g \in Goroutines, ProcessSettle(g) PROVE ~revived' => PhaseInv'
  BY Zenon, <1>11 DEF ProcessSettle, Goto, goVars, history, PhaseInv, Restarting, OneBusy, Idle,
     AfterStop, TypeOK
<1>12. ASSUME NEW g \in Goroutines, ProcessLen(g) PROVE ~revived' => PhaseInv'
  BY ZenonT(30), <1>12 DEF ProcessLen, Goto, goVars, history, PhaseInv, Restarting, OneBusy, Idle,
     AfterStop, TypeOK
<1>13. ASSUME NEW g \in Goroutines, InvokeMsg(g) PROVE ~revived' => PhaseInv'
  BY Zenon, <1>13, RecoverFacts DEF InvokeMsg, Goto, PhaseInv, Restarting, OneBusy, Idle,
     AfterStop, TypeOK
<1>14. ASSUME NEW g \in Goroutines, InvokePill(g) PROVE ~revived' => PhaseInv'
  BY Zenon, <1>14 DEF InvokePill, Goto, history, PhaseInv, Restarting, OneBusy, Idle, AfterStop,
     TypeOK
<1>15. ASSUME NEW g \in Goroutines, InvokeDrain(g) PROVE ~revived' => PhaseInv'
  BY Zenon, <1>15, RecoverFacts DEF InvokeDrain, Goto, PhaseInv, Restarting, OneBusy, Idle,
     AfterStop, TypeOK
<1>16. ASSUME NEW g \in Goroutines, InvokeEnd(g) PROVE ~revived' => PhaseInv'
  BY Zenon, <1>16 DEF InvokeEnd, Goto, goVars, history, PhaseInv, Restarting, OneBusy, Idle,
     AfterStop, TypeOK
<1>17. ASSUME NEW g \in Goroutines, RestartInternal(g) PROVE ~revived' => PhaseInv'
  BY Zenon, <1>17 DEF RestartInternal, Goto, goVars, history, PhaseInv, Restarting, OneBusy,
     Idle, AfterStop, TypeOK
<1>18. ASSUME NEW g \in Goroutines, TryRestart(g) PROVE ~revived' => PhaseInv'
  BY <1>18 DEF TryRestart, Goto, goVars, PhaseInv, Restarting, OneBusy, Idle, AfterStop,
     TypeOK
<1>19. ASSUME NEW g \in Goroutines, RestartCount(g) PROVE ~revived' => PhaseInv'
  BY Zenon, <1>19 DEF RestartCount, Goto, goVars, history, PhaseInv, Restarting, OneBusy, Idle,
     AfterStop, TypeOK
<1>20. ASSUME NEW g \in Goroutines, CleanupStop(g) PROVE ~revived' => PhaseInv'
  BY Zenon, <1>20 DEF CleanupStop, Goto, goVars, PhaseInv, Restarting, OneBusy, Idle, AfterStop,
     TypeOK
<1>21. ASSUME NEW g \in Goroutines, CleanupRemove(g) PROVE ~revived' => PhaseInv'
  BY Zenon, <1>21 DEF CleanupRemove, Goto, goVars, history, PhaseInv, Restarting, OneBusy, Idle,
     AfterStop, TypeOK
<1>22. ASSUME NEW g \in Goroutines, CleanupStopped(g) PROVE ~revived' => PhaseInv'
  BY Zenon, <1>22 DEF CleanupStopped, Goto, goVars, PhaseInv, Restarting, OneBusy, Idle,
     AfterStop, TypeOK
<1>23. ASSUME NEW g \in Goroutines, CleanupCancel(g) PROVE ~revived' => PhaseInv'
  BY Zenon, <1>23 DEF CleanupCancel, Goto, PhaseInv, Restarting, OneBusy, Idle, AfterStop,
     TypeOK
<1>24. CASE UNCHANGED vars
  BY Zenon, <1>24 DEF vars, goVars, history, PhaseInv, Restarting, OneBusy, Idle, AfterStop,
     TypeOK
<1>25. QED
  BY Zenon, <1>1, <1>2, <1>3, <1>4, <1>5, <1>6, <1>7, <1>8, <1>9, <1>10, <1>11, <1>12, <1>13,
     <1>14, <1>15, <1>16, <1>17, <1>18, <1>19, <1>20, <1>21, <1>22, <1>23,
     <1>24 DEF Next, Step

(* The control part of the invariant holds at the start, ... *)
LEMMA ControlInit == Init => ControlInv
<1>1. SUFFICES ASSUME Init PROVE ControlInv
  BY Zenon
<1>2. TypeOK
  <2>1. <<>> \in Seq(Envelopes) /\ Len(<<>>) = 0
    BY Zenon, EmptySeq
  <2>2. /\ registered \in BOOLEAN /\ closed \in BOOLEAN /\ revived \in BOOLEAN
        /\ cancelled \subseteq Pills /\ completed \subseteq Msgs
    BY <1>1, Zenon DEF Init
  <2>3. /\ msgs \in [Goroutines -> Seq(Envelopes)]
        /\ nproc \in [Goroutines -> Nat] /\ drain \in [Goroutines -> Nat]
        /\ \A g \in Goroutines : nproc[g] <= Len(msgs[g]) /\ drain[g] <= Len(msgs[g])
    BY <1>1, <2>1 DEF Init
  <2>4. QED
    BY Zenon, <1>1, <2>1, <2>2, <2>3 DEF Init, TypeOK
<1>3. GoneInv /\ BetweenInv
  BY Zenon, <1>1 DEF Init, GoneInv, BetweenInv
<1>4. OneBusy /\ PhaseInv
  BY Zenon, <1>1 DEF Init, OneBusy, PhaseInv, Idle, Goroutines, Restarting
<1>5. QED
  BY Zenon, <1>1, <1>2, <1>3, <1>4 DEF ControlInv, Init

(* ... and every step keeps it. *)
LEMMA ControlStep ==
  ASSUME ControlInv, [Next]_vars
  PROVE  ControlInv'
<1>1. TypeOK' /\ BetweenInv' /\ GoneInv'
  BY Zenon, TypeStep, BetweenStep, GoneStep DEF ControlInv
<1>2. ~revived' => OneBusy' /\ PhaseInv'
  BY Zenon, BusyStep, PhaseStep DEF ControlInv
<1>3. revived' => closed'
  <2>1. ASSUME NEW p \in Pills, CheckPill(p) PROVE revived' => closed'
    BY Zenon, <2>1 DEF ControlInv, CheckPill
  <2>2. ASSUME NEW e \in Envelopes, Lookup(e) PROVE revived' => closed'
    BY Zenon, <2>2 DEF ControlInv, Lookup, history
  <2>3. ASSUME NEW e \in Envelopes, Send(e) PROVE revived' => closed'
    BY Zenon, <2>3 DEF ControlInv, Send
  <2>4. ASSUME NEW g \in Goroutines, StartInitialized(g) PROVE revived' => closed'
    BY Zenon, <2>4 DEF ControlInv, StartInitialized
  <2>5. ASSUME NEW g \in Goroutines, StartStarted(g) PROVE revived' => closed'
    BY Zenon, <2>5 DEF ControlInv, StartStarted
  <2>6. ASSUME NEW g \in Goroutines, StartBuffer(g) PROVE revived' => closed'
    BY Zenon, <2>6 DEF ControlInv, StartBuffer, history
  <2>7. ASSUME NEW g \in Goroutines, StartInbox(g) PROVE revived' => closed'
    BY Zenon, <2>7 DEF ControlInv, StartInbox
  <2>8. ASSUME NEW g \in Goroutines, Unwind(g) PROVE revived' => closed'
    BY Zenon, <2>8 DEF ControlInv, Unwind, history
  <2>9. ASSUME NEW g \in Goroutines, RunCheck(g) PROVE revived' => closed'
    BY Zenon, <2>9 DEF ControlInv, RunCheck, history
  <2>10. ASSUME NEW g \in Goroutines, RunPop(g) PROVE revived' => closed'
    BY Zenon, <2>10 DEF ControlInv, RunPop, history
  <2>11. ASSUME NEW g \in Goroutines, ProcessSettle(g) PROVE revived' => closed'
    BY Zenon, <2>11 DEF ControlInv, ProcessSettle, history
  <2>12. ASSUME NEW g \in Goroutines, ProcessLen(g) PROVE revived' => closed'
    BY Zenon, <2>12 DEF ControlInv, ProcessLen, history
  <2>13. ASSUME NEW g \in Goroutines, InvokeMsg(g) PROVE revived' => closed'
    BY Zenon, <2>13 DEF ControlInv, InvokeMsg
  <2>14. ASSUME NEW g \in Goroutines, InvokePill(g) PROVE revived' => closed'
    BY Zenon, <2>14 DEF ControlInv, InvokePill, history
  <2>15. ASSUME NEW g \in Goroutines, InvokeDrain(g) PROVE revived' => closed'
    BY Zenon, <2>15 DEF ControlInv, InvokeDrain
  <2>16. ASSUME NEW g \in Goroutines, InvokeEnd(g) PROVE revived' => closed'
    BY Zenon, <2>16 DEF ControlInv, InvokeEnd, history
  <2>17. ASSUME NEW g \in Goroutines, RestartInternal(g) PROVE revived' => closed'
    BY Zenon, <2>17 DEF ControlInv, RestartInternal, history
  <2>18. ASSUME NEW g \in Goroutines, TryRestart(g) PROVE revived' => closed'
    BY Zenon, <2>18 DEF ControlInv, TryRestart
  <2>19. ASSUME NEW g \in Goroutines, RestartCount(g) PROVE revived' => closed'
    BY Zenon, <2>19 DEF ControlInv, RestartCount, history
  <2>20. ASSUME NEW g \in Goroutines, CleanupStop(g) PROVE revived' => closed'
    BY Zenon, <2>20 DEF ControlInv, CleanupStop
  <2>21. ASSUME NEW g \in Goroutines, CleanupRemove(g) PROVE revived' => closed'
    BY Zenon, <2>21 DEF ControlInv, CleanupRemove, history
  <2>22. ASSUME NEW g \in Goroutines, CleanupStopped(g) PROVE revived' => closed'
    BY Zenon, <2>22 DEF ControlInv, CleanupStopped
  <2>23. ASSUME NEW g \in Goroutines, CleanupCancel(g) PROVE revived' => closed'
    BY Zenon, <2>23 DEF ControlInv, CleanupCancel
  <2>24. CASE UNCHANGED vars
    BY Zenon, <2>24 DEF ControlInv, vars, history
  <2>25. QED
    BY ZenonT(30), <2>1, <2>2, <2>3, <2>4, <2>5, <2>6, <2>7, <2>8, <2>9, <2>10, <2>11, <2>12, <2>13,
       <2>14, <2>15, <2>16, <2>17, <2>18, <2>19, <2>20, <2>21, <2>22, <2>23,
       <2>24 DEF Next, Step
<1>4. QED
  BY Zenon, <1>1, <1>2, <1>3 DEF ControlInv

----------------------------------------------------------------------------
(* The types of what is pending *)
LEMMA PendingType ==
  ASSUME TypeOK, NEW g \in Goroutines
  PROVE  /\ Pending(g) \in Seq(Envelopes) /\ Len(Pending(g)) \in Nat
         /\ Len(pushed) \in Nat /\ Len(queue) \in Nat /\ Base(g) \in Int
<1>1. CASE pc[g] \in {"invoke", "drain"}
  <2>1. Len(msgs[g]) \in Nat /\ nproc[g] \in Nat /\ msgs[g] \in Seq(Envelopes)
    BY Zenon, LenProperties DEF TypeOK
  <2>2. SubSeq(msgs[g], nproc[g] + 1, Len(msgs[g])) \in Seq(Envelopes)
    BY <2>1, SubSeqProperties
  <2>3. QED
    BY SMTT(30), <1>1, <2>2, LenProperties DEF Pending, Base, TypeOK
<1>2. CASE pc[g] \notin {"invoke", "drain"}
  <2>1. Pending(g) \in Seq(Envelopes)
    BY Zenon, <1>2, EmptySeq DEF Pending, TypeOK
  <2>2. QED
    BY <2>1, LenProperties DEF Base, TypeOK
<1>3. QED
  BY Zenon, <1>1, <1>2

(* The rest of a batch, by its places there *)
LEMMA Rest ==
  ASSUME NEW s \in Seq(Envelopes), NEW n \in Nat, NEW k \in Nat, k = Len(s), n <= k
  PROVE  /\ SubSeq(s, n + 1, k) \in Seq(Envelopes)
         /\ Len(SubSeq(s, n + 1, k)) = k - n
         /\ \A i \in 1..(k - n) : SubSeq(s, n + 1, k)[i] = s[n + i]
<1>1. n + 1 \in Int /\ k \in Int /\ \A i \in (n + 1)..k : s[i] \in Envelopes
  BY ElementOfSeq
<1>2. /\ SubSeq(s, n + 1, k) \in Seq(Envelopes)
      /\ Len(SubSeq(s, n + 1, k)) = IF n + 1 <= k THEN k - (n + 1) + 1 ELSE 0
      /\ \A i \in 1..(k - (n + 1) + 1) : SubSeq(s, n + 1, k)[i] = s[(n + 1) + i - 1]
  BY SMTT(30), <1>1, SubSeqProperties
<1>3. k - (n + 1) + 1 = k - n
  OBVIOUS
<1>4. \A i \in 1..(k - n) : (n + 1) + i - 1 = n + i
  OBVIOUS
<1>5. Len(SubSeq(s, n + 1, k)) = k - n
  <2>1. CASE n + 1 <= k
    BY Zenon, <1>2, <1>3, <2>1
  <2>2. CASE ~(n + 1 <= k)
    <3>1. Len(SubSeq(s, n + 1, k)) = 0
      BY Zenon, <1>2, <2>2
    <3>2. k - n = 0
      BY <2>2
    <3>3. QED
      BY Zenon, <3>1, <3>2
  <2>3. QED
    BY Zenon, <2>1, <2>2
<1>6. \A i \in 1..(k - n) : SubSeq(s, n + 1, k)[i] = s[(n + 1) + i - 1]
  BY Zenon, <1>2, <1>3
<1>7. QED
  BY Zenon, <1>2, <1>4, <1>5, <1>6

(* What is pending in Invoke *)
LEMMA PendingPlaces ==
  ASSUME TypeOK, NEW g \in Goroutines, pc[g] \in {"invoke", "drain"}
  PROVE  /\ Len(Pending(g)) = Len(msgs[g]) - nproc[g]
         /\ \A i \in 1..Len(Pending(g)) : Pending(g)[i] = msgs[g][nproc[g] + i]
<1>1. /\ Len(msgs[g]) \in Nat /\ nproc[g] \in Nat /\ msgs[g] \in Seq(Envelopes)
      /\ nproc[g] <= Len(msgs[g])
  BY Zenon, LenProperties DEF TypeOK
<1>2. Pending(g) = SubSeq(msgs[g], nproc[g] + 1, Len(msgs[g]))
  BY Zenon DEF Pending
<1>3. PICK n \in Nat, k \in Nat, s \in Seq(Envelopes) :
         n = nproc[g] /\ k = Len(msgs[g]) /\ s = msgs[g] /\ n <= k
  BY Zenon, <1>1
<1>4. /\ Len(SubSeq(s, n + 1, k)) = k - n
      /\ \A i \in 1..(k - n) : SubSeq(s, n + 1, k)[i] = s[n + i]
  <2>1. k = Len(s) /\ n <= k
    BY Zenon, <1>3
  <2>2. QED
    BY Zenon, <2>1, Rest
<1>5. QED
  BY Zenon, <1>2, <1>3, <1>4

(* A goroutine has nothing pending but what Invoke or Start works on. *)
LEMMA NothingPending ==
  ASSUME NEW g \in Goroutines, pc[g] \notin Restarting \cup {"buffer", "invoke", "drain"}
  PROVE  Pending(g) = <<>>
BY Zenon DEF Pending

(* Nobody but g has something pending. *)
Alone(g) == \A h \in Goroutines : h # g => Pending(h) = <<>> /\ pc[h] # "drain"

(* While one goroutine is busy the others have nothing pending. *)
LEMMA BusyAlone ==
  ASSUME OneBusy, NEW g \in Goroutines, ~Idle(g)
  PROVE  Alone(g)
<1>1. \A h \in Goroutines : h # g => pc[h] \in {"none", "len", "unwind"}
  BY Zenon DEF OneBusy, Idle
<1>2. QED
  BY Zenon, <1>1, NothingPending DEF Alone, Restarting

(* The invariants of a live process as its one busy goroutine sees them *)
View(g) ==
  /\ Base(g) >= 0
  /\ \A i \in 1..Len(Pending(g)) : pushed[Base(g) + i] = Pending(g)[i]
  /\ \A i \in 1..Len(pushed) : i <= Base(g) => Given(i)
  /\ pc[g] = "drain" => DrainAt(g)
  /\ \A i \in 1..Len(pushed) : pushed[i] \in completed => i <= Base(g) \/ AfterGraceful(i)

(* What comes before its messages comes before everybody's. *)
LEMMA AloneBehind ==
  ASSUME TypeOK, NEW g \in Goroutines, Alone(g), NEW i \in Nat
  PROVE  Behind(i) <=> i <= Base(g)
<1>1. \A h \in Goroutines : h # g => Base(h) = Len(pushed) - Len(queue)
  BY PendingType, EmptySeq DEF Alone, Base
<1>2. \A h \in Goroutines : Base(g) <= Base(h)
  BY <1>1, PendingType DEF Base
<1>3. \A h \in Goroutines : Base(h) \in Int
  BY Zenon, PendingType
<1>4. QED
  BY <1>2, <1>3 DEF Behind

(* From the invariants to the view of the busy goroutine, ... *)
LEMMA ToView ==
  ASSUME TypeOK, Live, PendingInv, GivenInv, DrainInv, ReplayInv,
         NEW g \in Goroutines, Alone(g)
  PROVE  View(g)
<1>1. \A i \in 1..Len(pushed) : Behind(i) <=> i <= Base(g)
  BY AloneBehind, PendingType
<1>2. QED
  BY Zenon, <1>1 DEF View, PendingInv, GivenInv, DrainInv, ReplayInv

(* ... and back. *)
ViewSuffices ==
  \A g \in Goroutines : TypeOK /\ QueueInv /\ OneBusy /\ ~Idle(g) /\ View(g) =>
                          PendingInv /\ GivenInv /\ DrainInv /\ ReplayInv

(* That is true of every state. *)
LEMMA FromView == ViewSuffices
<1>1. SUFFICES ASSUME NEW g \in Goroutines, TypeOK, QueueInv, OneBusy, ~Idle(g), View(g)
               PROVE  PendingInv /\ GivenInv /\ DrainInv /\ ReplayInv
  BY Zenon DEF ViewSuffices
<1>2. Alone(g)
  BY Zenon, <1>1, BusyAlone
<1>3. \A i \in 1..Len(pushed) : Behind(i) <=> i <= Base(g)
  BY <1>1, <1>2, AloneBehind, PendingType
<1>4. GivenInv /\ DrainInv /\ ReplayInv
  BY Zenon, <1>1, <1>2, <1>3 DEF View, GivenInv, DrainInv, ReplayInv, Alone
<1>5. \A h \in Goroutines : h # g => Base(h) >= 0 /\ Len(Pending(h)) = 0
  BY <1>1, <1>2, PendingType, EmptySeq DEF Alone, Base, QueueInv
<1>6. PendingInv
  BY <1>1, <1>5 DEF View, PendingInv
<1>7. QED
  BY Zenon, <1>4, <1>6

(* A goroutine that takes or goes through a batch *)
LEMMA BusyView ==
  ASSUME ControlInv, DataInv, ~revived,
         NEW g \in Goroutines, pc[g] \in {"pop", "invoke", "drain"}
  PROVE  Live /\ Alone(g) /\ View(g)
<1>1. TypeOK /\ OneBusy /\ ~Idle(g)
  BY Zenon DEF ControlInv, Idle
<1>2. Alone(g)
  BY Zenon, <1>1, BusyAlone
<1>3. Live
  BY Zenon, <1>1 DEF Live, OneBusy, AfterStop, Idle
<1>4. QED
  BY Zenon, <1>1, <1>2, <1>3, ToView DEF DataInv

----------------------------------------------------------------------------
(* A step after which the same is pending, pushed and received *)
Quiet ==
  /\ UNCHANGED <<pushed, queue, attempts, completed>>
  /\ ~revived' => ~revived
  /\ \A e \in Envelopes : est[e] \in {"sent", "dead"} => est'[e] = est[e]
  /\ Live' => /\ Live
              /\ \A h \in Goroutines : Pending(h)' = Pending(h)
              /\ \A h \in Goroutines : pc'[h] = "drain" =>
                   /\ pc[h] = "drain"
                   /\ msgs'[h] = msgs[h] /\ nproc'[h] = nproc[h] /\ drain'[h] = drain[h]
  /\ \A h \in Goroutines : cancel'[h] = cancel[h] \/ cancel'[h] = None
  /\ \A p \in cancelled' : \/ p \in cancelled
                           \/ \E h \in Goroutines : cancel[h] # None /\ p = cancel[h]
                           \/ p \in Pills /\ est[p] = "new" /\ est'[p] = "dead"

(* Such a step keeps the invariants about the messages. *)
LEMMA QuietStep ==
  ASSUME TypeOK, DataInv, Quiet
  PROVE  DataInv'
<1>1. \A i \in 1..Len(pushed) : pushed[i] \in Envelopes
  BY Zenon, ElementOfSeq DEF TypeOK
<1>2. QueueInv'
  BY <1>1 DEF Quiet, QueueInv, DataInv
<1>3. \A i : /\ Given(i)' <=> Given(i)
             /\ AllGiven(i)' <=> AllGiven(i)
             /\ AfterGraceful(i)' <=> AfterGraceful(i)
  BY Zenon DEF Quiet, Given, AllGiven, AfterGraceful
<1>4. ASSUME Live' PROVE PendingInv' /\ GivenInv' /\ DrainInv' /\ ReplayInv'
  <2>1. Live /\ UNCHANGED <<pushed, queue, completed>>
    BY Zenon, <1>4 DEF Quiet
  <2>2. \A h \in Goroutines : Pending(h)' = Pending(h) /\ Base(h)' = Base(h)
    BY Zenon, <1>4, <2>1 DEF Quiet, Base
  <2>3. \A i : Behind(i)' <=> Behind(i)
    BY Zenon, <2>2 DEF Behind
  <2>4. PendingInv'
    BY Zenon, <2>1, <2>2 DEF DataInv, PendingInv
  <2>5. GivenInv'
    BY Zenon, <2>1, <2>3, <1>3 DEF DataInv, GivenInv
  <2>6. ReplayInv'
    BY Zenon, <2>1, <2>3, <1>3 DEF DataInv, ReplayInv
  <2>7. ASSUME NEW h \in Goroutines, pc'[h] = "drain" PROVE DrainAt(h)'
    <3>1. /\ DrainAt(h)
          /\ msgs'[h] = msgs[h] /\ nproc'[h] = nproc[h] /\ drain'[h] = drain[h]
      BY Zenon, <1>4, <2>1, <2>7 DEF Quiet, DataInv, DrainInv
    <3>2. QED
      BY Zenon, <2>1, <2>2, <3>1, <1>3 DEF DrainAt
  <2>8. QED
    BY Zenon, <2>4, <2>5, <2>6, <2>7 DEF DrainInv
<1>5. ASSUME ~revived' PROVE SentInv' /\ OrderInv' /\ PillInv'
  <2>1. SentInv /\ OrderInv /\ PillInv /\ UNCHANGED <<pushed, attempts, completed>>
    BY Zenon, <1>5 DEF Quiet, DataInv
  <2>2. SentInv'
    BY Zenon, <2>1 DEF Quiet, SentInv, Envelopes
  <2>3. OrderInv'
    BY Zenon, <2>1, <1>3 DEF OrderInv
  <2>4. ASSUME NEW p \in Pills, Drained(p) PROVE Drained(p)'
    BY Zenon, <2>1, <2>4, <1>3 DEF Drained, Quiet, Envelopes
  <2>5. ASSUME NEW p \in Pills, est[p] = "new", est'[p] = "dead" PROVE Drained(p)'
    BY Zenon, <2>1, <2>5, <1>1, <1>2 DEF Drained, QueueInv, DataInv
  <2>6. ASSUME NEW h \in Goroutines, cancel'[h] # None PROVE Drained(cancel[h])'
    <3>1. PICK p \in Pills : p = cancel[h] /\ Drained(p) /\ cancel'[h] = p
      BY <2>1, <2>6 DEF PillInv, Quiet, TypeOK
    <3>2. Drained(p)'
      BY Zenon, <2>4, <3>1
    <3>3. QED
      BY Zenon, <3>1, <3>2 DEF Drained
  <2>7. ASSUME NEW p \in cancelled' PROVE Drained(p)'
    <3>1. CASE p \in cancelled
      BY Zenon, <2>1, <2>4, <3>1 DEF PillInv, TypeOK
    <3>2. CASE \E h \in Goroutines : cancel[h] # None /\ p = cancel[h]
      BY Zenon, <2>1, <2>4, <3>2 DEF PillInv, TypeOK
    <3>3. QED
      BY Zenon, <2>5, <2>7, <3>1, <3>2 DEF Quiet
  <2>8. QED
    BY Zenon, <2>2, <2>3, <2>6, <2>7 DEF PillInv, Drained
<1>6. QED
  BY Zenon, <1>2, <1>4, <1>5 DEF DataInv, PendingInv, GivenInv, DrainInv, ReplayInv

(* Every action but Send, PopBatch and the turns of Invoke is quiet. *)
LEMMA QuietActions ==
  ASSUME ControlInv
  PROVE  /\ \A p \in Pills : CheckPill(p) => Quiet
         /\ \A e \in Envelopes : Lookup(e) => Quiet
         /\ \A g \in Goroutines :
                 StartInitialized(g) \/ StartStarted(g) \/ StartBuffer(g)
              \/ StartInbox(g) \/ Unwind(g) \/ RunCheck(g)
              \/ ProcessSettle(g) \/ ProcessLen(g) \/ InvokeEnd(g)
              \/ RestartInternal(g) \/ TryRestart(g) \/ RestartCount(g)
              \/ CleanupStop(g) \/ CleanupRemove(g) \/ CleanupStopped(g)
              \/ CleanupCancel(g)
              => Quiet
<1>1. ASSUME NEW p \in Pills, CheckPill(p) PROVE Quiet
  <2>1. /\ UNCHANGED <<mbuffer, queue, pc, msgs, nproc, drain, cancel, attempts, completed,
                       pushed, closed, revived>>
        /\ est[p] = "new" /\ p \in Envelopes
    BY Zenon, <1>1 DEF CheckPill, goVars, Envelopes
  <2>2. \/ est' = [est EXCEPT ![p] = "checked"] /\ cancelled' = cancelled
        \/ est' = [est EXCEPT ![p] = "dead"] /\ cancelled' = cancelled \cup {p}
    BY <1>1, Zenon DEF CheckPill
  <2>3. \A e \in Envelopes : est[e] \in {"sent", "dead"} => est'[e] = est[e]
    BY Zenon, <2>1, <2>2 DEF ControlInv, TypeOK
  <2>4. \A q \in cancelled' : q \in cancelled \/ (q \in Pills /\ est[q] = "new" /\ est'[q] = "dead")
    <3>1. est' = [est EXCEPT ![p] = "dead"] => est'[p] = "dead"
      BY Zenon, <2>1 DEF ControlInv, TypeOK
    <3>2. QED
      BY Zenon, <2>1, <2>2, <3>1
  <2>5. QED
    BY Zenon, <2>1, <2>3, <2>4 DEF Quiet, Live, Pending
<1>2. ASSUME NEW e \in Envelopes, Lookup(e) PROVE Quiet
  BY Zenon, <1>2 DEF Lookup, goVars, history, ControlInv, TypeOK, OneBusy, Idle, AfterStop,
     Quiet, Live, Pending, Restarting
<1>3. ASSUME NEW g \in Goroutines, StartInitialized(g) PROVE Quiet
  <2>1. /\ pc[g] = "start"
        /\ Goto(g, "started") \/ Goto(g, "restart") \/ Goto(g, "internal")
    BY Zenon, <1>3, LifePanicFacts DEF StartInitialized
  <2>2. UNCHANGED <<mbuffer, queue, est, msgs, nproc, drain, cancel, cancelled, attempts,
                    completed, pushed, closed, revived>>
    BY Zenon, <1>3 DEF StartInitialized, goVars
  <2>3. QED
    BY ZenonT(30), <2>1, <2>2 DEF Goto, ControlInv, TypeOK, Quiet, Live, Pending, Restarting
<1>4. ASSUME NEW g \in Goroutines, StartStarted(g) PROVE Quiet
  <2>1. /\ pc[g] = "started"
        /\ Goto(g, "buffer") \/ Goto(g, "restart") \/ Goto(g, "internal")
    BY Zenon, <1>4, LifePanicFacts DEF StartStarted
  <2>2. UNCHANGED <<mbuffer, queue, est, msgs, nproc, drain, cancel, cancelled, attempts,
                    completed, pushed, closed, revived>>
    BY Zenon, <1>4 DEF StartStarted, goVars
  <2>3. QED
    BY ZenonT(30), <2>1, <2>2 DEF Goto, ControlInv, TypeOK, Quiet, Live, Pending, Restarting
<1>5. ASSUME NEW g \in Goroutines, StartBuffer(g) PROVE Quiet
  <2>1. /\ pc[g] = "buffer"
        /\ UNCHANGED <<mbuffer, queue, est, cancel, cancelled, attempts, completed, pushed,
                       closed, revived>>
    BY Zenon, <1>5 DEF StartBuffer, history
  <2>2. CASE mbuffer # <<>>
    <3>1. /\ msgs' = [msgs EXCEPT ![g] = mbuffer] /\ nproc' = [nproc EXCEPT ![g] = 0]
          /\ drain' = [drain EXCEPT ![g] = 0] /\ pc' = [pc EXCEPT ![g] = "invoke"]
      BY Zenon, <1>5, <2>2 DEF StartBuffer, Goto
    <3>2. SubSeq(mbuffer, 1, Len(mbuffer)) = mbuffer
      BY Zenon, SubSeqFull DEF ControlInv, TypeOK
    <3>3. Pending(g)' = Pending(g)
      BY <2>1, <3>1, <3>2 DEF Pending, Restarting, ControlInv, TypeOK
    <3>4. \A h \in Goroutines : h # g => /\ pc'[h] = pc[h] /\ msgs'[h] = msgs[h]
                                         /\ nproc'[h] = nproc[h] /\ drain'[h] = drain[h]
      BY Zenon, <3>1 DEF ControlInv, TypeOK
    <3>5. pc'[g] = "invoke"
      BY Zenon, <3>1 DEF ControlInv, TypeOK
    <3>6. \A h \in Goroutines : Pending(h)' = Pending(h)
      BY Zenon, <2>1, <3>3, <3>4 DEF Pending
    <3>7. QED
      BY Zenon, <2>1, <3>4, <3>5, <3>6 DEF Quiet, Live
  <2>3. CASE mbuffer = <<>>
    <3>1. UNCHANGED <<msgs, nproc, drain>> /\ pc' = [pc EXCEPT ![g] = "inbox"]
      BY Zenon, <1>5, <2>3 DEF StartBuffer, Goto
    <3>2. QED
      BY Zenon, <2>1, <2>3, <3>1 DEF ControlInv, TypeOK, Quiet, Live, Pending, Restarting
  <2>4. QED
    BY Zenon, <2>2, <2>3
<1>6. ASSUME NEW g \in Goroutines, StartInbox(g) PROVE Quiet
  <2>1. /\ pc[g] = "inbox"
        /\ UNCHANGED <<mbuffer, queue, est, msgs, nproc, drain, cancel, cancelled, attempts,
                       completed, pushed, closed>>
    BY Zenon, <1>6 DEF StartInbox, goVars
  <2>2. \/ Goto(g, "unwind") /\ revived' = revived
        \/ /\ revived' = closed
           /\ \E w \in Workers : New(w) /\ pc' = [pc EXCEPT ![g] = "unwind", ![w] = "check"]
    BY Zenon, <1>6 DEF StartInbox
  <2>3. ~revived' => ~revived
    BY Zenon, <2>2 DEF ControlInv
  <2>4. CASE Goto(g, "unwind")
    BY Zenon, <2>1, <2>3, <2>4 DEF Goto, ControlInv, TypeOK, Quiet, Live, Pending, Restarting
  <2>5. ASSUME NEW w \in Workers, New(w), pc' = [pc EXCEPT ![g] = "unwind", ![w] = "check"]
        PROVE  Quiet
    <3>1. pc[w] = "none" /\ w \in Goroutines
      BY Zenon, <2>5, NewFacts
    <3>2. /\ pc'[g] = "unwind" /\ pc'[w] = "check"
          /\ \A h \in Goroutines : h # g /\ h # w => pc'[h] = pc[h]
      BY Zenon, <2>1, <2>5, <3>1 DEF ControlInv, TypeOK
    <3>3. \A h \in Goroutines : Pending(h)' = Pending(h)
      BY Zenon, <2>1, <3>1, <3>2 DEF Pending, Restarting
    <3>4. QED
      BY Zenon, <2>1, <2>3, <3>1, <3>2, <3>3 DEF Quiet, Live
  <2>6. QED
    BY Zenon, <2>2, <2>4, <2>5
<1>7. ASSUME NEW g \in Goroutines, Unwind(g) PROVE Quiet
  <2>1. /\ pc[g] = "unwind"
        /\ UNCHANGED <<queue, est, cancel, cancelled, attempts, completed, pushed,
                       closed, revived>>
        /\ msgs' = [msgs EXCEPT ![g] = <<>>] /\ nproc' = [nproc EXCEPT ![g] = 0]
        /\ drain' = [drain EXCEPT ![g] = 0]
    BY Zenon, <1>7 DEF Unwind, history
  <2>2. /\ pc'[g] \in {"inbox", "none", "check"}
        /\ \A h \in Goroutines : h # g => /\ pc'[h] = pc[h] /\ msgs'[h] = msgs[h]
                                          /\ nproc'[h] = nproc[h] /\ drain'[h] = drain[h]
    BY ZenonT(30), <1>7, <2>1 DEF Unwind, Goto, ControlInv, TypeOK
  <2>3. ASSUME Live', NEW h \in Goroutines PROVE Pending(h)' = Pending(h)
    <3>1. OneBusy
      BY Zenon, <2>1, <2>3 DEF Live, ControlInv
    <3>2. CASE h = g
      BY Zenon, <2>1, <2>2, <3>2 DEF Pending, Restarting
    <3>3. CASE g = Spawner
      <4>1. mbuffer' = mbuffer
        BY <1>7, <3>1, <3>3 DEF Unwind, OneBusy
      <4>2. QED
        BY <2>1, <2>2, <4>1 DEF Pending, Restarting
    <3>4. CASE g # Spawner /\ h # g
      <4>1. pc[h] \in {"none", "len", "unwind"}
        BY Zenon, <2>1, <3>1, <3>4 DEF OneBusy, Idle
      <4>2. QED
        BY Zenon, <2>2, <3>4, <4>1 DEF Pending, Restarting
    <3>5. QED
      BY Zenon, <3>2, <3>3, <3>4
  <2>4. Live' => Live
    BY Zenon, <2>1, <2>2 DEF Live
  <2>5. QED
    BY Zenon, <2>1, <2>2, <2>3, <2>4 DEF Quiet
<1>8. ASSUME NEW g \in Goroutines, RunCheck(g) PROVE Quiet
  BY Zenon, <1>8 DEF RunCheck, Goto, goVars, history, ControlInv, TypeOK, OneBusy, Idle,
     AfterStop, Quiet, Live, Pending, Restarting
<1>9. ASSUME NEW g \in Goroutines, ProcessSettle(g) PROVE Quiet
  <2>1. /\ UNCHANGED <<mbuffer, queue, est, goVars, history>>
        /\ pc[g] = "settle"
        /\ pc' = [pc EXCEPT ![g] = "len"] \/ pc' = [pc EXCEPT ![g] = "none"]
    BY Zenon, <1>9 DEF ProcessSettle, Goto
  <2>2. /\ pc'[g] \in {"len", "none"}
        /\ \A h \in Goroutines : h # g => pc'[h] = pc[h]
    BY Zenon, <2>1 DEF ControlInv, TypeOK
  <2>3. Live' => /\ Live /\ \A h \in Goroutines : Pending(h)' = Pending(h)
                 /\ \A h \in Goroutines : pc'[h] = "drain" => pc[h] = "drain"
    BY Zenon, <2>1, <2>2 DEF Live, Pending, Restarting, goVars, history
  <2>4. QED
    BY Zenon, <2>1, <2>3 DEF Quiet, goVars, history
<1>10. ASSUME NEW g \in Goroutines, ProcessLen(g) PROVE Quiet
  <2>1. /\ UNCHANGED <<mbuffer, queue, est, goVars, history>>
        /\ pc[g] = "len"
        /\ pc' = [pc EXCEPT ![g] = "check"] \/ pc' = [pc EXCEPT ![g] = "none"]
    BY Zenon, <1>10 DEF ProcessLen, Goto
  <2>2. /\ pc'[g] \in {"check", "none"}
        /\ \A h \in Goroutines : h # g => pc'[h] = pc[h]
    BY Zenon, <2>1 DEF ControlInv, TypeOK
  <2>3. Live' => /\ Live /\ \A h \in Goroutines : Pending(h)' = Pending(h)
                 /\ \A h \in Goroutines : pc'[h] = "drain" => pc[h] = "drain"
    BY Zenon, <2>1, <2>2 DEF Live, Pending, Restarting, goVars, history
  <2>4. QED
    BY Zenon, <2>1, <2>3 DEF Quiet, goVars, history
<1>11. ASSUME NEW g \in Goroutines, InvokeEnd(g) PROVE Quiet
  <2>1. UNCHANGED <<mbuffer, queue, est, msgs, nproc, drain, cancel, cancelled, attempts,
                    completed, pushed, closed, revived>>
    BY Zenon, <1>11 DEF InvokeEnd, goVars, history
  <2>2. CASE pc[g] = "invoke" /\ nproc[g] = Len(msgs[g]) /\ Goto(g, "unwind")
    <3>1. Pending(g) = <<>>
      <4>1. PICK k \in Nat : k = Len(msgs[g])
        BY Zenon, LenProperties DEF ControlInv, TypeOK
      <4>2. SubSeq(msgs[g], k + 1, k) = <<>>
        BY SubSeqEmpty
      <4>3. QED
        BY Zenon, <2>2, <4>1, <4>2 DEF Pending
    <3>2. pc'[g] = "unwind" /\ \A h \in Goroutines : h # g => pc'[h] = pc[h]
      BY Zenon, <2>2 DEF Goto, ControlInv, TypeOK
    <3>3. \A h \in Goroutines : Pending(h)' = Pending(h)
      BY Zenon, <2>1, <3>1, <3>2 DEF Pending, Restarting
    <3>4. QED
      BY Zenon, <2>1, <2>2, <3>2, <3>3 DEF Quiet, Live
  <2>3. CASE pc[g] = "drain" /\ Goto(g, "stop")
    <3>1. pc'[g] = "stop"
      BY Zenon, <2>3 DEF Goto, ControlInv, TypeOK
    <3>2. QED
      BY Zenon, <2>1, <3>1 DEF Quiet, Live
  <2>4. QED
    BY Zenon, <1>11, <2>2, <2>3 DEF InvokeEnd
<1>12. ASSUME NEW g \in Goroutines, RestartInternal(g) PROVE Quiet
  BY Zenon, <1>12 DEF RestartInternal, Goto, goVars, history, ControlInv, TypeOK, OneBusy, Idle,
     AfterStop, Quiet, Live, Pending, Restarting
<1>13. ASSUME NEW g \in Goroutines, TryRestart(g) PROVE Quiet
  <2>1. /\ UNCHANGED <<mbuffer, queue, est, goVars, cancelled, attempts, completed, pushed,
                       closed, revived>>
        /\ pc[g] = "restart"
        /\ pc' = [pc EXCEPT ![g] = "stop"] \/ pc' = [pc EXCEPT ![g] = "count"]
    BY Zenon, <1>13 DEF TryRestart, Goto
  <2>2. /\ pc'[g] \in {"stop", "count"} /\ pc[g] = "restart"
        /\ \A h \in Goroutines : h # g => pc'[h] = pc[h]
    BY Zenon, <2>1 DEF ControlInv, TypeOK
  <2>3. Live' => /\ Live /\ \A h \in Goroutines : Pending(h)' = Pending(h)
                 /\ \A h \in Goroutines : pc'[h] = "drain" => pc[h] = "drain"
    BY Zenon, <2>1, <2>2 DEF Live, Pending, Restarting, goVars
  <2>4. QED
    BY Zenon, <2>1, <2>3 DEF Quiet, goVars
<1>14. ASSUME NEW g \in Goroutines, RestartCount(g) PROVE Quiet
  BY Zenon, <1>14 DEF RestartCount, Goto, goVars, history, ControlInv, TypeOK, OneBusy, Idle,
     AfterStop, Quiet, Live, Pending, Restarting
<1>15. ASSUME NEW g \in Goroutines, CleanupStop(g) PROVE Quiet
  BY Zenon, <1>15 DEF CleanupStop, Goto, goVars, ControlInv, TypeOK, OneBusy, Idle, AfterStop,
     Quiet, Live, Pending, Restarting
<1>16. ASSUME NEW g \in Goroutines, CleanupRemove(g) PROVE Quiet
  BY Zenon, <1>16 DEF CleanupRemove, Goto, goVars, history, ControlInv, TypeOK, OneBusy, Idle,
     AfterStop, Quiet, Live, Pending, Restarting
<1>17. ASSUME NEW g \in Goroutines, CleanupStopped(g) PROVE Quiet
  BY Zenon, <1>17 DEF CleanupStopped, Goto, goVars, ControlInv, TypeOK, OneBusy, Idle,
     AfterStop, Quiet, Live, Pending, Restarting
<1>18. ASSUME NEW g \in Goroutines, CleanupCancel(g) PROVE Quiet
  BY Zenon, <1>18 DEF CleanupCancel, Goto, ControlInv, TypeOK, OneBusy, Idle, AfterStop, Quiet,
     Live, Pending, Restarting
<1>19. QED
  BY ZenonT(30), <1>1, <1>2, <1>3, <1>4, <1>5, <1>6, <1>7, <1>8, <1>9, <1>10, <1>11, <1>12, <1>13,
     <1>14, <1>15, <1>16, <1>17, <1>18

----------------------------------------------------------------------------
(* Process.Send: the new envelope comes behind everything. *)
LEMMA SendStep ==
  ASSUME ControlInv, DataInv, NEW e \in Envelopes, Send(e)
  PROVE  DataInv'
<1>1. /\ UNCHANGED <<mbuffer, msgs, nproc, drain, cancel, cancelled, attempts, completed,
                     closed, revived>>
      /\ est[e] = "found" /\ est' = [est EXCEPT ![e] = "sent"]
      /\ queue' = Append(queue, e) /\ pushed' = Append(pushed, e)
  BY Zenon DEF Send, goVars
<1>2. TypeOK /\ QueueInv
  BY Zenon DEF ControlInv, DataInv
<1>3. \A h \in Goroutines : pc'[h] = pc[h] \/ (pc[h] = "none" /\ pc'[h] = "check")
  BY Zenon, <1>2, NewFacts DEF Send, schedule, Goto, TypeOK
<1>4. /\ \A h \in Goroutines : Pending(h)' = Pending(h) /\ (pc'[h] = "drain" => pc[h] = "drain")
      /\ Live' => Live
  BY Zenon, <1>1, <1>3 DEF Pending, Restarting, Live
<1>5. PICK n \in Nat, k \in Nat : n = Len(pushed) /\ k = Len(queue) /\ k <= n
  BY ZenonT(30), <1>2, LenProperties DEF TypeOK, QueueInv
<1>6. /\ Len(pushed') = n + 1 /\ pushed'[n + 1] = e /\ \A i \in 1..n : pushed'[i] = pushed[i]
      /\ Len(queue') = k + 1 /\ queue'[k + 1] = e /\ \A i \in 1..k : queue'[i] = queue[i]
  BY <1>1, <1>2, <1>5, AppendProperties DEF TypeOK
<1>7. \A i \in 1..n : /\ pushed[i] \in Envelopes /\ pushed[i] # e
                      /\ est[pushed[i]] = "sent" /\ est'[pushed[i]] = "sent"
  BY Zenon, <1>1, <1>2, <1>5, ElementOfSeq DEF QueueInv, TypeOK
<1>8. QueueInv'
  <2>1. \A i \in 1..Len(pushed') : est'[pushed'[i]] = "sent"
    BY <1>1, <1>2, <1>6, <1>7 DEF TypeOK
  <2>2. \A i, j \in 1..Len(pushed') : pushed'[i] = pushed'[j] => i = j
    BY <1>2, <1>5, <1>6, <1>7 DEF QueueInv
  <2>3. \A i \in 1..k : pushed'[(n - k) + i] = queue'[i]
    BY <1>2, <1>5, <1>6 DEF QueueInv
  <2>4. \A i \in 1..(k + 1) : pushed'[(n + 1) - (k + 1) + i] = queue'[i]
    <3>1. SUFFICES ASSUME NEW i \in 1..(k + 1)
                   PROVE  pushed'[(n + 1) - (k + 1) + i] = queue'[i]
      BY Zenon
    <3>2. (n + 1) - (k + 1) + i = (n - k) + i
      OBVIOUS
    <3>3. CASE i = k + 1
      <4>1. (n - k) + i = n + 1
        BY <3>3
      <4>2. QED
        BY Zenon, <1>6, <3>2, <3>3, <4>1
    <3>4. CASE i \in 1..k
      BY Zenon, <2>3, <3>2, <3>4
    <3>5. QED
      BY <3>3, <3>4
  <2>5. /\ Len(queue') <= Len(pushed')
        /\ \A i \in 1..Len(queue') : pushed'[Len(pushed') - Len(queue') + i] = queue'[i]
    BY <1>5, <1>6, <2>4
  <2>6. QED
    BY Zenon, <2>1, <2>2, <2>5 DEF QueueInv
<1>9. \A h \in Goroutines : /\ Base(h)' = Base(h) /\ Base(h) \in Int
                            /\ Base(h) + Len(Pending(h)) <= n
  BY <1>2, <1>4, <1>5, <1>6, PendingType DEF Base
<1>10. \A i \in 1..n : /\ Given(i)' <=> Given(i)
                       /\ AllGiven(i) => AllGiven(i)'
                       /\ AfterGraceful(i) => AfterGraceful(i)'
  <2>1. \A i \in 1..n : Given(i)' <=> Given(i)
    BY Zenon, <1>1, <1>6 DEF Given
  <2>2. QED
    BY <1>5, <1>6, <2>1 DEF AllGiven, AfterGraceful
<1>11. ASSUME Live' PROVE PendingInv' /\ GivenInv' /\ DrainInv' /\ ReplayInv'
  <2>1. Live /\ PendingInv /\ GivenInv /\ DrainInv /\ ReplayInv
    BY Zenon, <1>4, <1>11 DEF DataInv
  <2>2. \A i \in 1..(n + 1) : (Behind(i)' <=> Behind(i)) /\ (Behind(i) => i \in 1..n)
    BY <1>2, <1>9, PendingType DEF Behind, Goroutines
  <2>3. PendingInv'
    <3>1. ASSUME NEW h \in Goroutines, NEW i \in 1..Len(Pending(h))
          PROVE  pushed'[Base(h) + i] = Pending(h)[i]
      BY SMTT(30), <1>2, <1>6, <1>9, <2>1, PendingType DEF PendingInv
    <3>2. QED
      BY ZenonT(30), <1>4, <1>9, <2>1, <3>1 DEF PendingInv
  <2>4. GivenInv'
    BY Zenon, <1>6, <1>10, <1>5, <2>1, <2>2 DEF GivenInv
  <2>5. ReplayInv'
    <3>1. SUFFICES ASSUME NEW i \in 1..(n + 1), pushed'[i] \in completed
                   PROVE  Behind(i)' \/ AfterGraceful(i)'
      BY Zenon, <1>1, <1>6 DEF ReplayInv
    <3>2. i \in 1..n
      BY <1>1, <1>2, <1>6, <2>1, <3>1 DEF DataInv, SentInv, TypeOK, Live
    <3>3. QED
      BY Zenon, <1>5, <1>6, <1>10, <2>1, <2>2, <3>1, <3>2 DEF ReplayInv
  <2>6. ASSUME NEW h \in Goroutines, pc'[h] = "drain" PROVE DrainAt(h)'
    <3>1. DrainAt(h) /\ pc[h] = "drain"
      BY ZenonT(30), <1>4, <2>1, <2>6 DEF DrainInv
    <3>2. drain[h] - nproc[h] <= Len(Pending(h)) /\ drain[h] \in Nat /\ nproc[h] \in Nat
      BY SMTT(30), <1>2, <3>1, PendingPlaces, LenProperties DEF TypeOK
    <3>3. \A i \in 1..(n + 1) : i <= Base(h) + drain[h] - nproc[h] => i \in 1..n
      BY <1>2, <1>9, <3>2, PendingType
    <3>4. Base(h) \in 1..n
      BY <1>2, <1>9, <3>1, PendingType DEF DrainAt
    <3>5. QED
      BY Zenon, <1>1, <1>5, <1>6, <1>9, <1>10, <3>1, <3>3, <3>4 DEF DrainAt
  <2>7. QED
    BY Zenon, <2>3, <2>4, <2>5, <2>6 DEF DrainInv
<1>12. ASSUME ~revived' PROVE SentInv' /\ OrderInv' /\ PillInv'
  <2>1. SentInv /\ OrderInv /\ PillInv
    BY Zenon, <1>1, <1>12 DEF DataInv
  <2>2. SentInv'
    BY Zenon, <1>1, <1>2, <2>1 DEF SentInv, TypeOK, Envelopes
  <2>3. OrderInv'
    <3>1. SUFFICES ASSUME NEW i \in 1..(n + 1), pushed'[i] \in Msgs, attempts[pushed'[i]] > 0
                   PROVE  AllGiven(i)'
      BY Zenon, <1>1, <1>6 DEF OrderInv
    <3>2. i \in 1..n
      BY <1>1, <1>6, <2>1, <3>1 DEF SentInv
    <3>3. QED
      BY Zenon, <1>5, <1>6, <1>10, <2>1, <3>1, <3>2 DEF OrderInv
  <2>4. ASSUME NEW p \in Pills, Drained(p) PROVE Drained(p)'
    <3>1. p # e /\ p \in Envelopes
      BY Zenon, <1>1, <2>4 DEF Drained, Envelopes
    <3>2. est'[p] = est[p]
      BY Zenon, <1>1, <1>2, <3>1 DEF TypeOK
    <3>3. \A i \in 1..(n + 1) : pushed'[i] = p => i \in 1..n
      BY <1>6, <3>1
    <3>4. QED
      BY Zenon, <1>5, <1>6, <1>10, <2>4, <3>2, <3>3 DEF Drained
  <2>5. ASSUME NEW h \in Goroutines, cancel[h] # None PROVE Drained(cancel[h])'
    <3>1. PICK p \in Pills : p = cancel[h] /\ Drained(p)
      BY Zenon, <1>2, <2>1, <2>5 DEF PillInv, TypeOK
    <3>2. Drained(p)'
      BY Zenon, <2>4, <3>1
    <3>3. QED
      BY Zenon, <1>1, <3>1, <3>2 DEF Drained
  <2>6. \A p \in cancelled : Drained(p)'
    BY Zenon, <1>2, <2>1, <2>4 DEF PillInv, TypeOK
  <2>7. QED
    BY Zenon, <1>1, <2>2, <2>3, <2>5, <2>6 DEF PillInv
<1>13. QED
  BY Zenon, <1>8, <1>11, <1>12 DEF DataInv, PendingInv, GivenInv, DrainInv, ReplayInv

----------------------------------------------------------------------------
(* What was given to the receiver stays given. *)
LEMMA StaysGiven ==
  ASSUME pushed' = pushed, \A m \in Msgs : attempts[m] > 0 => attempts'[m] > 0
  PROVE  \A i : (Given(i) => Given(i)') /\ (AllGiven(i) => AllGiven(i)')
BY Zenon DEF Given, AllGiven

(* FromView, of the state after a step *)
LEMMA NextView ==
  ASSUME ControlInv', QueueInv', ~revived', NEW g \in Goroutines, ~Idle(g)', View(g)'
  PROVE  PendingInv' /\ GivenInv' /\ DrainInv' /\ ReplayInv'
<1>1. ViewSuffices'
  BY FromView, PTL
<1>2. TypeOK' /\ OneBusy'
  BY Zenon DEF ControlInv
<1>3. QED
  BY Zenon, <1>1, <1>2 DEF ViewSuffices

(* PopBatch: the batch is what was queued, and comes directly after what   *)
(* the receiver was given.                                                 *)
LEMMA PopStep ==
  ASSUME ControlInv, ControlInv', DataInv, NEW g \in Goroutines, RunPop(g)
  PROVE  DataInv'
<1>1. /\ pc[g] = "pop"
      /\ UNCHANGED <<mbuffer, est, nproc, drain, cancel, cancelled, attempts, completed,
                     pushed, closed, revived>>
      /\ \/ msgs' = [msgs EXCEPT ![g] = queue] /\ queue' = <<>> /\ Goto(g, "invoke")
         \/ UNCHANGED <<msgs, queue>> /\ queue = <<>> /\ Goto(g, "settle")
  BY Zenon DEF RunPop, history
<1>2. TypeOK /\ QueueInv
  BY Zenon DEF ControlInv, DataInv
<1>3. QueueInv'
  BY <1>1, <1>2, EmptySeq, LenProperties DEF QueueInv, TypeOK
<1>4. ASSUME ~revived'
      PROVE  /\ SentInv' /\ OrderInv' /\ PillInv'
             /\ PendingInv' /\ GivenInv' /\ DrainInv' /\ ReplayInv'
  <2>1. ~revived /\ SentInv /\ OrderInv /\ PillInv
    BY Zenon, <1>1, <1>4 DEF DataInv
  <2>2. Live /\ Alone(g) /\ View(g)
    BY Zenon, <1>1, <2>1, BusyView
  <2>3. Pending(g) = <<>> /\ Len(Pending(g)) = 0
    BY Zenon, <1>1, EmptySeq DEF Pending, Restarting
  <2>4. pc'[g] \in {"invoke", "settle"} /\ ~Idle(g)'
    BY Zenon, <1>1, <1>2 DEF Goto, TypeOK, Idle
  <2>5. Pending(g)' = queue /\ Len(queue') + Len(Pending(g)') = Len(queue)
    <3>1. CASE Goto(g, "invoke") /\ msgs' = [msgs EXCEPT ![g] = queue] /\ queue' = <<>>
      <4>1. msgs'[g] = queue /\ nproc'[g] = 0 /\ pc'[g] = "invoke"
        BY ZenonT(30), <1>1, <1>2, <3>1 DEF Goto, TypeOK, ControlInv, BetweenInv, Between
      <4>2. SubSeq(queue, 1, Len(queue)) = queue /\ Len(queue) \in Nat
        BY Zenon, <1>2, SubSeqFull, LenProperties DEF TypeOK
      <4>3. Pending(g)' = queue
        BY <4>1, <4>2 DEF Pending
      <4>4. QED
        BY <3>1, <4>2, <4>3, EmptySeq
    <3>2. CASE Goto(g, "settle") /\ queue = <<>> /\ queue' = queue
      <4>1. pc'[g] = "settle"
        BY Zenon, <1>2, <3>2 DEF Goto, TypeOK
      <4>2. Pending(g)' = <<>>
        BY Zenon, <4>1 DEF Pending, Restarting
      <4>3. QED
        BY <3>2, <4>2, EmptySeq
    <3>3. QED
      BY Zenon, <1>1, <3>1, <3>2
  <2>6. Base(g) = Len(pushed) - Len(queue) /\ Base(g)' = Base(g)
    <3>1. Len(queue') \in Nat /\ Len(Pending(g)') \in Nat /\ Len(queue) \in Nat /\ Len(pushed) \in Nat
      BY Zenon, <1>1, <1>2, <2>5, EmptySeq, LenProperties DEF TypeOK
    <3>2. QED
      BY <1>1, <2>3, <2>5, <3>1 DEF Base
  <2>7. \A i : /\ Given(i)' <=> Given(i)
               /\ AllGiven(i)' <=> AllGiven(i)
               /\ AfterGraceful(i)' <=> AfterGraceful(i)
    BY Zenon, <1>1 DEF Given, AllGiven, AfterGraceful
  <2>8. View(g)'
    <3>1. \A i \in 1..Len(queue) : pushed[Base(g) + i] = queue[i]
      BY Zenon, <1>2, <2>6 DEF QueueInv
    <3>2. QED
      BY Zenon, <1>1, <2>2, <2>4, <2>5, <2>6, <2>7, <3>1 DEF View
  <2>9. SentInv' /\ OrderInv' /\ PillInv'
    BY Zenon, <1>1, <2>1, <2>7 DEF SentInv, OrderInv, PillInv, Drained
  <2>10. QED
    BY Zenon, <1>3, <1>4, <2>4, <2>8, <2>9, NextView
<1>5. QED
  BY Zenon, <1>3, <1>4 DEF DataInv, PendingInv, GivenInv, DrainInv, ReplayInv, Live

----------------------------------------------------------------------------
(* Invoke: the next envelope of the loop is the first that is pending. *)
LEMMA NextPlace ==
  ASSUME ControlInv, DataInv, ~revived,
         NEW g \in Goroutines, pc[g] = "invoke", nproc[g] < Len(msgs[g])
  PROVE  /\ Base(g) \in Nat /\ Base(g) + 1 \in 1..Len(pushed)
         /\ msgs[g][nproc[g] + 1] = pushed[Base(g) + 1]
<1>1. TypeOK /\ View(g)
  BY Zenon, BusyView DEF ControlInv
<1>2. /\ Len(Pending(g)) = Len(msgs[g]) - nproc[g]
      /\ \A i \in 1..Len(Pending(g)) : Pending(g)[i] = msgs[g][nproc[g] + i]
  BY Zenon, <1>1, PendingPlaces
<1>3. Len(msgs[g]) \in Nat /\ nproc[g] \in Nat
  BY ZenonT(30), <1>1, LenProperties DEF TypeOK
<1>4. 1 \in 1..Len(Pending(g)) /\ Base(g) \in Nat
  BY <1>1, <1>2, <1>3, PendingType DEF View
<1>5. Base(g) + 1 <= Len(pushed)
  BY <1>1, <1>4, PendingType DEF Base
<1>6. Base(g) + 1 \in 1..Len(pushed)
  BY <1>1, <1>4, <1>5, PendingType
<1>7. Pending(g)[1] = msgs[g][nproc[g] + 1]
  BY Zenon, <1>2, <1>4
<1>8. pushed[Base(g) + 1] = Pending(g)[1]
  BY Zenon, <1>1, <1>4 DEF View
<1>9. QED
  BY Zenon, <1>4, <1>6, <1>7, <1>8

(* Everything before it has been given to the receiver. *)
LEMMA BeforeNext ==
  ASSUME ControlInv, DataInv, ~revived,
         NEW g \in Goroutines, pc[g] = "invoke", nproc[g] < Len(msgs[g])
  PROVE  AllGiven(Base(g) + 1)
<1>1. View(g)
  BY Zenon, BusyView
<1>2. \A j \in 1..Len(pushed) : j < Base(g) + 1 => j <= Base(g)
  BY NextPlace
<1>3. QED
  BY Zenon, <1>1, <1>2 DEF View, AllGiven

(* The i-th place after the next one is the (i + 1)-th. *)
LEMMA OneOn ==
  ASSUME NEW b \in Nat, NEW n \in Nat, NEW k \in Nat, NEW i \in 1..(k - (n + 1))
  PROVE  i + 1 \in 1..(k - n) /\ (b + 1) + i = b + (i + 1) /\ (n + 1) + i = n + (i + 1)
OBVIOUS

(* Invoke: processed++; what is left follows the envelope just looked at. *)
LEMMA Advance ==
  ASSUME ControlInv, DataInv, ~revived,
         NEW g \in Goroutines, pc[g] = "invoke", nproc[g] < Len(msgs[g]),
         UNCHANGED <<pushed, queue>>,
         Pending(g)' = SubSeq(msgs[g], nproc[g] + 2, Len(msgs[g])),
         \A m \in Msgs : attempts[m] > 0 => attempts'[m] > 0,
         pushed[Base(g) + 1] \in Msgs => attempts'[pushed[Base(g) + 1]] > 0,
         completed' \subseteq completed \cup {pushed[Base(g) + 1]},
         pc'[g] = "drain" => /\ pushed[Base(g) + 1] \in Graceful
                             /\ msgs'[g] = msgs[g]
                             /\ nproc'[g] = nproc[g] + 1 /\ drain'[g] = nproc[g]
  PROVE  View(g)'
<1>1. TypeOK /\ View(g) /\ QueueInv
  BY Zenon, BusyView DEF ControlInv, DataInv
<1>2. PICK b \in Nat : b = Base(g) /\ b + 1 \in 1..Len(pushed)
  BY Zenon, NextPlace
<1>3. PICK n \in Nat, k \in Nat, s \in Seq(Envelopes) :
        n = nproc[g] /\ k = Len(msgs[g]) /\ s = msgs[g] /\ n < k
  BY Zenon, <1>1, LenProperties DEF TypeOK
<1>4. /\ Len(Pending(g)) = k - n
      /\ \A i \in 1..(k - n) : pushed[b + i] = s[n + i]
  BY ZenonT(30), <1>1, <1>2, <1>3, PendingPlaces DEF View
<1>5. /\ Len(Pending(g)') = k - (n + 1)
      /\ \A i \in 1..(k - (n + 1)) : Pending(g)'[i] = s[(n + 1) + i]
  <2>1. n + 2 = (n + 1) + 1 /\ n + 1 \in Nat /\ n + 1 <= k
    BY <1>3
  <2>2. /\ Len(SubSeq(s, (n + 1) + 1, k)) = k - (n + 1)
        /\ \A i \in 1..(k - (n + 1)) : SubSeq(s, (n + 1) + 1, k)[i] = s[(n + 1) + i]
    <3>1. k = Len(s)
      BY Zenon, <1>3
    <3>2. QED
      BY Zenon, <2>1, <3>1, Rest
  <2>3. Pending(g)' = SubSeq(s, (n + 1) + 1, k)
    BY Zenon, <1>3, <2>1
  <2>4. QED
    BY Zenon, <2>2, <2>3
<1>6. Base(g)' = b + 1
  <2>1. /\ Base(g) = Len(pushed) - Len(queue) - (k - n)
        /\ Base(g)' = Len(pushed) - Len(queue) - (k - (n + 1))
    BY Zenon, <1>4, <1>5 DEF Base
  <2>2. Len(pushed) \in Nat /\ Len(queue) \in Nat
    BY Zenon, <1>1, PendingType
  <2>3. QED
    BY <1>2, <2>1, <2>2
<1>7. \A i \in 1..Len(Pending(g)') : pushed'[(b + 1) + i] = Pending(g)'[i]
  <2>1. SUFFICES ASSUME NEW i \in 1..(k - (n + 1))
                 PROVE  pushed[(b + 1) + i] = s[(n + 1) + i]
    BY Zenon, <1>5
  <2>2. i + 1 \in 1..(k - n) /\ (b + 1) + i = b + (i + 1) /\ (n + 1) + i = n + (i + 1)
    BY ZenonT(30), OneOn
  <2>3. pushed[b + (i + 1)] = s[n + (i + 1)]
    BY Zenon, <1>4, <2>2
  <2>4. QED
    BY Zenon, <2>2, <2>3
<1>8. \A i : (Given(i) => Given(i)') /\ (AfterGraceful(i) => AfterGraceful(i)')
  BY Zenon, StaysGiven DEF AfterGraceful
<1>9. \A i \in 1..Len(pushed) : i <= b + 1 => Given(i)'
  <2>1. Given(b + 1)'
    BY Zenon, <1>2 DEF Given
  <2>2. QED
    BY <1>1, <1>2, <1>8, <2>1 DEF View
<1>10. \A i \in 1..Len(pushed) : pushed[i] \in completed' => i <= b + 1 \/ AfterGraceful(i)'
  <2>1. \A i \in 1..Len(pushed) : pushed[i] = pushed[b + 1] => i = b + 1
    BY Zenon, <1>1, <1>2 DEF QueueInv
  <2>2. QED
    BY <1>1, <1>2, <1>8, <2>1 DEF View
<1>11. ASSUME pc'[g] = "drain" PROVE DrainAt(g)'
  <2>1. /\ pushed[b + 1] \in Graceful /\ msgs'[g][n + 1] = pushed[b + 1]
        /\ nproc'[g] = n + 1 /\ drain'[g] = n
    BY Zenon, <1>2, <1>3, <1>11, NextPlace
  <2>2. pushed[b + 1] \in Pills
    BY Zenon, <2>1, ProcessAssumption
  <2>3. QED
    BY <1>6, <2>1, <2>2 DEF DrainAt
<1>12. QED
  <2>1. Base(g)' >= 0
    BY <1>6
  <2>2. \A i \in 1..Len(pushed') : i <= Base(g)' => Given(i)'
    BY Zenon, <1>6, <1>9
  <2>3. \A i \in 1..Len(pushed') : pushed'[i] \in completed' => i <= Base(g)' \/ AfterGraceful(i)'
    BY Zenon, <1>6, <1>10
  <2>4. QED
    BY Zenon, <1>6, <1>7, <1>11, <2>1, <2>2, <2>3 DEF View

(* The order of the calls of Receive, when the one at place k is next *)
LEMMA OrderNext ==
  ASSUME DataInv, ~revived, NEW k \in 1..Len(pushed), AllGiven(k),
         UNCHANGED <<pushed, est, cancelled>>,
         \A m \in Msgs : attempts[m] > 0 => attempts'[m] > 0,
         \A m \in Msgs : attempts'[m] > 0 => attempts[m] > 0 \/ m = pushed[k],
         completed' \subseteq completed \cup {pushed[k]}
  PROVE  SentInv' /\ OrderInv' /\ \A p \in Pills : Drained(p) => Drained(p)'
<1>1. QueueInv /\ SentInv /\ OrderInv
  BY Zenon DEF DataInv
<1>2. \A i : AllGiven(i) => AllGiven(i)'
  BY Zenon, StaysGiven
<1>3. SentInv'
  BY Zenon, <1>1 DEF SentInv, QueueInv
<1>4. OrderInv'
  <2>1. SUFFICES ASSUME NEW i \in 1..Len(pushed), pushed[i] \in Msgs, attempts'[pushed[i]] > 0
                 PROVE  AllGiven(i)'
    BY Zenon DEF OrderInv
  <2>2. CASE pushed[i] = pushed[k]
    BY Zenon, <1>1, <1>2, <2>2 DEF QueueInv
  <2>3. CASE attempts[pushed[i]] > 0
    BY Zenon, <1>1, <1>2, <2>1, <2>3 DEF OrderInv
  <2>4. QED
    BY Zenon, <2>1, <2>2, <2>3
<1>5. \A p \in Pills : Drained(p) => Drained(p)'
  BY Zenon, <1>2 DEF Drained
<1>6. QED
  BY Zenon, <1>3, <1>4, <1>5

(* Invoke: a user message *)
LEMMA MsgStep ==
  ASSUME ControlInv, ControlInv', DataInv, NEW g \in Goroutines, InvokeMsg(g)
  PROVE  DataInv'
<1>1. PICK m \in Msgs :
        /\ m = msgs[g][nproc[g] + 1]
        /\ attempts' = [attempts EXCEPT ![m] = @ + 1]
        /\ \/ completed' = completed \cup {m} /\ UNCHANGED <<pc, mbuffer>>
           \/ /\ completed' = completed
              /\ mbuffer' = SubSeq(msgs[g], nproc[g] + 1 + 1, Len(msgs[g]))
              /\ Goto(g, "restart") \/ Goto(g, "internal")
  BY Zenon, RecoverFacts DEF InvokeMsg
<1>2. /\ pc[g] = "invoke" /\ nproc[g] < Len(msgs[g])
      /\ nproc' = [nproc EXCEPT ![g] = @ + 1]
      /\ UNCHANGED <<queue, est, msgs, drain, cancel, cancelled, pushed, closed, revived>>
  BY Zenon DEF InvokeMsg
<1>3. TypeOK /\ QueueInv /\ QueueInv'
  BY Zenon, <1>2 DEF ControlInv, DataInv, QueueInv
<1>4. ASSUME ~revived'
      PROVE  /\ SentInv' /\ OrderInv' /\ PillInv'
             /\ PendingInv' /\ GivenInv' /\ DrainInv' /\ ReplayInv'
  <2>1. ~revived /\ PillInv
    BY Zenon, <1>2, <1>4 DEF DataInv
  <2>2. PICK k \in 1..Len(pushed) : k = Base(g) + 1 /\ pushed[k] = m /\ AllGiven(k)
    BY Zenon, <1>1, <1>2, <2>1, NextPlace, BeforeNext
  <2>3. /\ \A x \in Msgs : attempts[x] > 0 => attempts'[x] > 0
        /\ \A x \in Msgs : attempts'[x] > 0 => attempts[x] > 0 \/ x = m
        /\ attempts'[m] > 0 /\ completed' \subseteq completed \cup {m}
    <3>1. /\ attempts \in [Msgs -> Nat] /\ attempts' = [attempts EXCEPT ![m] = @ + 1]
          /\ completed' = completed \/ completed' = completed \cup {m}
      BY Zenon, <1>1, <1>3 DEF TypeOK
    <3>2. attempts'[m] = attempts[m] + 1 /\ \A x \in Msgs : x # m => attempts'[x] = attempts[x]
      BY Zenon, <3>1
    <3>3. attempts[m] \in Nat
      BY Zenon, <3>1
    <3>4. attempts'[m] > 0
      BY <3>2, <3>3
    <3>5. QED
      BY Zenon, <3>1, <3>2, <3>4
  <2>4. /\ pc'[g] \in {"invoke", "restart", "internal"} /\ nproc'[g] = nproc[g] + 1
        /\ pc'[g] # "invoke" => mbuffer' = SubSeq(msgs[g], nproc[g] + 1 + 1, Len(msgs[g]))
    BY Zenon, <1>1, <1>2, <1>3 DEF Goto, TypeOK
  <2>5. Pending(g)' = SubSeq(msgs[g], nproc[g] + 1 + 1, Len(msgs[g]))
    BY Zenon, <1>2, <2>4 DEF Pending, Restarting
  <2>6. nproc[g] + 1 + 1 = nproc[g] + 2
    BY <1>3 DEF TypeOK
  <2>7. View(g)'
    BY Zenon, <1>2, <2>1, <2>2, <2>3, <2>4, <2>5, <2>6, Advance
  <2>8. ~Idle(g)'
    BY Zenon, <2>4 DEF Idle
  <2>9. SentInv' /\ OrderInv' /\ \A p \in Pills : Drained(p) => Drained(p)'
    BY Zenon, <1>2, <2>1, <2>2, <2>3, OrderNext
  <2>10. PillInv'
    BY Zenon, <1>2, <1>3, <2>1, <2>9 DEF PillInv, TypeOK, Drained
  <2>11. QED
    BY Zenon, <1>3, <1>4, <2>7, <2>8, <2>9, <2>10, NextView
<1>5. QED
  BY Zenon, <1>3, <1>4 DEF DataInv, PendingInv, GivenInv, DrainInv, ReplayInv, Live

(* Invoke: a poison pill *)
LEMMA PillStep ==
  ASSUME ControlInv, ControlInv', DataInv, NEW g \in Goroutines, InvokePill(g)
  PROVE  DataInv'
<1>1. PICK p \in Pills :
        /\ p = msgs[g][nproc[g] + 1]
        /\ cancel' = [cancel EXCEPT ![g] = p]
        /\ pc' = [pc EXCEPT ![g] = IF p \in Graceful THEN "drain" ELSE "stop"]
  BY Zenon DEF InvokePill, Goto
<1>2. /\ pc[g] = "invoke" /\ nproc[g] < Len(msgs[g])
      /\ nproc' = [nproc EXCEPT ![g] = @ + 1] /\ drain' = [drain EXCEPT ![g] = nproc[g]]
      /\ UNCHANGED <<queue, est, msgs, mbuffer, cancelled, attempts, completed, pushed,
                     closed, revived>>
  BY Zenon DEF InvokePill, history
<1>3. TypeOK /\ QueueInv /\ QueueInv'
  BY Zenon, <1>2 DEF ControlInv, DataInv, QueueInv
<1>4. /\ pc'[g] = IF p \in Graceful THEN "drain" ELSE "stop"
      /\ nproc'[g] = nproc[g] + 1 /\ drain'[g] = nproc[g]
  BY Zenon, <1>1, <1>2, <1>3 DEF TypeOK
<1>5. ASSUME ~revived' PROVE SentInv' /\ OrderInv' /\ PillInv'
  <2>1. ~revived /\ PillInv
    BY Zenon, <1>2, <1>5 DEF DataInv
  <2>2. PICK k \in 1..Len(pushed) : k = Base(g) + 1 /\ pushed[k] = p /\ AllGiven(k)
    BY Zenon, <1>1, <1>2, <2>1, NextPlace, BeforeNext
  <2>3. SentInv' /\ OrderInv' /\ \A q \in Pills : Drained(q) => Drained(q)'
    BY Zenon, <1>2, <2>1, <2>2, OrderNext
  <2>4. Drained(p)
    BY Zenon, <1>3, <2>2 DEF Drained, QueueInv
  <2>5. \A h \in Goroutines : cancel'[h] # None => cancel'[h] \in Pills /\ Drained(cancel'[h])
    BY Zenon, <1>1, <1>3, <2>1, <2>4 DEF PillInv, TypeOK
  <2>6. ASSUME NEW h \in Goroutines, cancel'[h] # None PROVE Drained(cancel[h])'
    <3>1. PICK q \in Pills : q = cancel'[h] /\ Drained(q)
      BY Zenon, <2>5, <2>6
    <3>2. Drained(q)'
      BY Zenon, <2>3, <3>1
    <3>3. QED
      BY Zenon, <3>1, <3>2 DEF Drained
  <2>7. \A q \in cancelled' : Drained(q)'
    BY Zenon, <1>2, <1>3, <2>1, <2>3 DEF PillInv, TypeOK
  <2>8. QED
    BY Zenon, <2>3, <2>6, <2>7 DEF PillInv
<1>6. ASSUME Live' PROVE PendingInv' /\ GivenInv' /\ DrainInv' /\ ReplayInv'
  <2>1. ~revived' /\ ~revived /\ p \in Graceful /\ pc'[g] = "drain"
    BY ZenonT(30), <1>2, <1>4, <1>6 DEF Live
  <2>2. pushed[Base(g) + 1] = p /\ p \notin Msgs
    BY <1>1, <1>2, <2>1, NextPlace, ProcessAssumption DEF Msgs
  <2>3. Pending(g)' = SubSeq(msgs[g], nproc[g] + 1 + 1, Len(msgs[g]))
    BY Zenon, <1>2, <1>4, <2>1 DEF Pending
  <2>4. nproc[g] + 1 + 1 = nproc[g] + 2
    BY <1>3 DEF TypeOK
  <2>5. View(g)'
    BY Zenon, <1>2, <1>4, <2>1, <2>2, <2>3, <2>4, Advance
  <2>6. ~Idle(g)'
    BY Zenon, <2>1 DEF Idle
  <2>7. QED
    BY Zenon, <1>3, <2>1, <2>5, <2>6, NextView
<1>7. QED
  BY Zenon, <1>3, <1>5, <1>6 DEF DataInv, PendingInv, GivenInv, DrainInv, ReplayInv

(* Invoke: where the graceful loop is.  It passes the pill itself first. *)
LEMMA DrainPlace ==
  ASSUME ControlInv, DataInv, ~revived,
         NEW g \in Goroutines, pc[g] = "drain", drain[g] < Len(msgs[g]),
         NEW k, k = Base(g) + drain[g] - nproc[g] + 1
  PROVE  /\ k \in Int /\ Base(g) \in 1..Len(pushed) /\ pushed[Base(g)] \in Graceful
         /\ k > Base(g) => /\ k \in 1..Len(pushed)
                           /\ pushed[k] = msgs[g][drain[g] + 1]
                           /\ AllGiven(k)
         /\ k <= Base(g) => msgs[g][drain[g] + 1] \in Pills
<1>1. TypeOK /\ View(g) /\ DrainAt(g)
  BY Zenon, BusyView DEF ControlInv, View
<1>2. PICK n \in Nat, d \in Nat, l \in Nat :
        n = nproc[g] /\ d = drain[g] /\ l = Len(msgs[g]) /\ d < l /\ n <= l
  BY Zenon, <1>1, LenProperties DEF TypeOK
<1>3. PICK b \in Nat : b = Base(g) /\ b >= 1 /\ b + (l - n) <= Len(pushed)
  <2>1. PICK b \in Nat : b = Base(g) /\ b >= 1
    BY <1>1, PendingType DEF DrainAt
  <2>2. Len(Pending(g)) = l - n
    BY Zenon, <1>1, <1>2, PendingPlaces
  <2>3. b = Len(pushed) - Len(queue) - (l - n)
    BY Zenon, <2>1, <2>2 DEF Base
  <2>4. Len(pushed) \in Nat /\ Len(queue) \in Nat
    BY Zenon, <1>1, PendingType
  <2>5. b + (l - n) <= Len(pushed)
    BY <2>3, <2>4
  <2>6. QED
    BY Zenon, <2>1, <2>5
<1>4. d >= n - 1 /\ n >= 1 /\ msgs[g][n] \in Pills /\ k = b + d - n + 1
  BY Zenon, <1>1, <1>2, <1>3 DEF DrainAt
<1>5. ASSUME k > b
      PROVE  k \in 1..Len(pushed) /\ pushed[k] = msgs[g][d + 1] /\ AllGiven(k)
  <2>1. PICK i \in 1..(l - n) : i = d - n + 1 /\ k = b + i /\ n + i = d + 1
    <3>1. d - n + 1 \in 1..(l - n)
      <4>1. b + d - n + 1 > b
        BY Zenon, <1>4, <1>5
      <4>2. d - n + 1 >= 1
        BY <4>1
      <4>3. d - n + 1 <= l - n
        BY <1>2
      <4>4. QED
        BY <4>2, <4>3
    <3>2. k = b + (d - n + 1) /\ n + (d - n + 1) = d + 1
      BY <1>4
    <3>3. QED
      BY Zenon, <3>1, <3>2
  <2>2. pushed[b + i] = msgs[g][n + i]
    <3>1. Pending(g)[i] = msgs[g][n + i]
      BY Zenon, <1>1, <1>2, <1>3, <2>1, PendingPlaces
    <3>2. i \in 1..Len(Pending(g))
      BY Zenon, <1>1, <1>2, <2>1, PendingPlaces
    <3>3. pushed[Base(g) + i] = Pending(g)[i]
      BY Zenon, <1>1, <3>2 DEF View
    <3>4. QED
      BY Zenon, <1>3, <3>1, <3>3
  <2>3. k \in 1..Len(pushed)
    BY <1>1, <1>3, <2>1, PendingType
  <2>4. ASSUME NEW j \in 1..Len(pushed), j < k PROVE Given(j)
    <3>1. CASE j <= b
      BY Zenon, <1>1, <1>3, <3>1 DEF View
    <3>2. CASE b < j /\ j <= b + d - n
      BY Zenon, <1>1, <1>2, <1>3, <3>2 DEF DrainAt
    <3>3. QED
      BY <1>4, <2>4, <3>1, <3>2
  <2>5. QED
    BY Zenon, <2>1, <2>2, <2>3, <2>4 DEF AllGiven
<1>6. k <= b => d + 1 = n
  BY <1>4
<1>7. b \in 1..Len(pushed)
  BY SMTT(30), <1>1, <1>2, <1>3, PendingType
<1>8. k \in Int /\ pushed[b] \in Graceful
  BY <1>1, <1>3, <1>4 DEF DrainAt
<1>9. k > Base(g) => /\ k \in 1..Len(pushed)
                     /\ pushed[k] = msgs[g][drain[g] + 1]
                     /\ AllGiven(k)
  BY Zenon, <1>2, <1>3, <1>5
<1>10. k <= Base(g) => msgs[g][drain[g] + 1] \in Pills
  BY Zenon, <1>2, <1>3, <1>4, <1>6
<1>11. QED
  BY Zenon, <1>3, <1>7, <1>8, <1>9, <1>10

(* Invoke: a turn of the graceful loop *)
LEMMA DrainStep ==
  ASSUME ControlInv, ControlInv', DataInv, NEW g \in Goroutines, InvokeDrain(g)
  PROVE  DataInv'
<1>1. /\ pc[g] = "drain" /\ drain[g] < Len(msgs[g])
      /\ drain' = [drain EXCEPT ![g] = @ + 1]
      /\ UNCHANGED <<queue, est, msgs, nproc, cancelled, pushed, closed, revived>>
  BY Zenon DEF InvokeDrain
<1>2. TypeOK /\ QueueInv /\ QueueInv'
  BY Zenon, <1>1 DEF ControlInv, DataInv, QueueInv
<1>3. PICK m \in Envelopes :
        /\ m = msgs[g][drain[g] + 1]
        /\ \/ m \in Pills /\ UNCHANGED <<attempts, completed, pc, mbuffer, cancel>>
           \/ /\ m \in Msgs /\ attempts' = [attempts EXCEPT ![m] = @ + 1]
              /\ \/ completed' = completed \cup {m} /\ UNCHANGED <<pc, mbuffer, cancel>>
                 \/ /\ completed' = completed /\ cancel' = [cancel EXCEPT ![g] = None]
                    /\ mbuffer' = SubSeq(msgs[g], nproc[g] + 1, Len(msgs[g]))
                    /\ Goto(g, "restart") \/ Goto(g, "internal")
  <2>1. msgs[g][drain[g] + 1] \in Envelopes
    BY <1>1, <1>2, LenProperties, ElementOfSeq DEF TypeOK
  <2>2. QED
    BY Zenon, <2>1, RecoverFacts DEF InvokeDrain, Envelopes
<1>4. ASSUME ~revived'
      PROVE  /\ SentInv' /\ OrderInv' /\ PillInv'
             /\ PendingInv' /\ GivenInv' /\ DrainInv' /\ ReplayInv'
  <2>1. ~revived /\ SentInv /\ OrderInv /\ PillInv
    BY Zenon, <1>1, <1>4 DEF DataInv
  <2>2. View(g) /\ DrainAt(g)
    BY Zenon, <1>1, <2>1, BusyView DEF View
  <2>3. PICK k : k = Base(g) + drain[g] - nproc[g] + 1
    BY Zenon
  <2>4. /\ k \in Int /\ Base(g) \in 1..Len(pushed) /\ pushed[Base(g)] \in Graceful
        /\ k > Base(g) => k \in 1..Len(pushed) /\ pushed[k] = m /\ AllGiven(k)
        /\ k <= Base(g) => m \in Pills
    BY Zenon, <1>1, <1>3, <2>1, <2>3, DrainPlace
  <2>5. \A x \in Pills : x \notin Msgs
    BY ProcessAssumption DEF Msgs
  <2>6. /\ \A x \in Msgs : attempts[x] > 0 => attempts'[x] > 0
        /\ \A x \in Msgs : attempts'[x] > 0 => attempts[x] > 0 \/ x = m
        /\ m \in Msgs => attempts'[m] > 0
        /\ completed' \subseteq completed \cup {m}
        /\ m \in Pills => attempts' = attempts /\ completed' = completed
    <3>1. CASE m \in Pills
      BY Zenon, <1>3, <2>5, <3>1
    <3>2. CASE m \in Msgs
      <4>1. attempts' = [attempts EXCEPT ![m] = @ + 1]
        BY Zenon, <1>3, <2>5, <3>2
      <4>2. completed' = completed \/ completed' = completed \cup {m}
        BY Zenon, <1>3, <2>5, <3>2
      <4>3. QED
        BY <1>2, <2>5, <3>2, <4>1, <4>2 DEF TypeOK
    <3>3. QED
      BY Zenon, <3>1, <3>2 DEF Envelopes
  <2>7. /\ pc'[g] \in {"drain", "restart", "internal"} /\ drain'[g] = drain[g] + 1
        /\ pc'[g] # "drain" => mbuffer' = SubSeq(msgs[g], nproc[g] + 1, Len(msgs[g]))
        /\ \A h \in Goroutines : cancel'[h] = cancel[h] \/ cancel'[h] = None
    BY Zenon, <1>1, <1>2, <1>3 DEF Goto, TypeOK
  <2>8. Pending(g)' = Pending(g) /\ Base(g)' = Base(g)
    <3>1. Pending(g)' = Pending(g)
      BY Zenon, <1>1, <2>7 DEF Pending, Restarting
    <3>2. QED
      BY Zenon, <1>1, <3>1 DEF Base
  <2>9. \A i : (Given(i) => Given(i)') /\ (AfterGraceful(i) => AfterGraceful(i)')
    BY Zenon, <1>1, <2>6, StaysGiven DEF AfterGraceful
  <2>10. View(g)'
    <3>1. \A i \in 1..Len(pushed) : i = k => Given(i)'
      <4>1. k \in 1..Len(pushed) /\ k > Base(g) => Given(k)'
        BY Zenon, <1>1, <2>4, <2>6 DEF Given
      <4>2. k \in 1..Len(pushed) /\ k <= Base(g) => Given(k)'
        BY Zenon, <2>2, <2>9 DEF View
      <4>3. QED
        BY <2>4, <4>1, <4>2
    <3>2. \A i \in 1..Len(pushed) : pushed[i] \in completed' => i <= Base(g) \/ AfterGraceful(i)'
      <4>1. SUFFICES ASSUME NEW i \in 1..Len(pushed), pushed[i] \in completed', i > Base(g)
                     PROVE  AfterGraceful(i)'
        BY <1>2, <2>4
      <4>2. CASE pushed[i] \in completed
        BY SMTT(30), <2>2, <2>4, <2>9, <4>1, <4>2 DEF View
      <4>3. CASE pushed[i] \notin completed
        BY ZenonT(30), <1>1, <2>4, <4>1 DEF AfterGraceful
      <4>4. QED
        BY Zenon, <4>2, <4>3
    <3>3. ASSUME pc'[g] = "drain" PROVE DrainAt(g)'
      <4>1. PICK b \in Nat, n \in Nat, d \in Nat : b = Base(g) /\ n = nproc[g] /\ d = drain[g]
        BY <1>2, <2>4 DEF TypeOK
      <4>2. \A i \in 1..Len(pushed) : b < i /\ i <= b + (d + 1) - n => Given(i)'
        <5>1. SUFFICES ASSUME NEW i \in 1..Len(pushed), b < i, i <= b + (d + 1) - n
                       PROVE  Given(i)'
          BY Zenon
        <5>2. k = b + d - n + 1
          BY Zenon, <2>3, <4>1
        <5>3. i = k \/ i <= b + d - n
          BY <5>1, <5>2
        <5>4. QED
          BY Zenon, <2>2, <2>9, <3>1, <4>1, <5>1, <5>3 DEF DrainAt
      <4>3. QED
        BY SMTT(30), <1>1, <2>2, <2>7, <2>8, <4>1, <4>2 DEF DrainAt
    <3>4. QED
      BY Zenon, <1>1, <2>2, <2>8, <2>9, <3>2, <3>3 DEF View
  <2>11. ~Idle(g)'
    BY Zenon, <2>7 DEF Idle
  <2>12. SentInv' /\ OrderInv' /\ \A p \in Pills : Drained(p) => Drained(p)'
    <3>1. CASE m \in Pills
      BY ZenonT(30), <1>1, <2>1, <2>6, <3>1 DEF SentInv, OrderInv, Drained, AllGiven, Given
    <3>2. CASE m \notin Pills
      BY <1>1, <2>1, <2>4, <2>6, <3>2, OrderNext
    <3>3. QED
      BY Zenon, <3>1, <3>2
  <2>13. PillInv'
    <3>1. ASSUME NEW h \in Goroutines, cancel'[h] # None PROVE Drained(cancel[h])'
      <4>1. PICK p \in Pills : p = cancel[h] /\ p = cancel'[h] /\ Drained(p)
        BY Zenon, <1>2, <2>1, <2>7, <3>1 DEF PillInv, TypeOK
      <4>2. Drained(p)'
        BY Zenon, <2>12, <4>1
      <4>3. QED
        BY Zenon, <4>1, <4>2 DEF Drained
    <3>2. \A p \in cancelled' : Drained(p)'
      BY Zenon, <1>1, <1>2, <2>1, <2>12 DEF PillInv, TypeOK
    <3>3. QED
      BY Zenon, <3>1, <3>2 DEF PillInv
  <2>14. QED
    BY Zenon, <1>2, <1>4, <2>10, <2>11, <2>12, <2>13, NextView
<1>5. QED
  BY Zenon, <1>2, <1>4 DEF DataInv, PendingInv, GivenInv, DrainInv, ReplayInv, Live

----------------------------------------------------------------------------
(* Nothing is pushed at the start. *)
LEMMA DataInit == Init => DataInv
<1>1. SUFFICES ASSUME Init PROVE DataInv
  BY Zenon
<1>2. pushed = <<>> /\ queue = <<>> /\ Len(<<>>) = 0 /\ 1..0 = {}
  BY <1>1, EmptySeq DEF Init
<1>3. \A g \in Goroutines : Pending(g) = <<>> /\ pc[g] # "drain" /\ cancel[g] = None
  BY Zenon, <1>1 DEF Init, Pending, Restarting
<1>4. QueueInv /\ OrderInv /\ GivenInv /\ ReplayInv
  BY <1>2 DEF QueueInv, OrderInv, GivenInv, ReplayInv
<1>5. PendingInv /\ DrainInv
  BY <1>2, <1>3 DEF PendingInv, DrainInv, Base
<1>6. SentInv /\ PillInv
  BY <1>1, <1>3 DEF Init, SentInv, PillInv
<1>7. QED
  BY Zenon, <1>4, <1>5, <1>6 DEF DataInv

(* Every step keeps what is said of the messages. *)
LEMMA DataStep ==
  ASSUME ControlInv, ControlInv', DataInv, [Next]_vars
  PROVE  DataInv'
<1>1. CASE Quiet
  BY Zenon, <1>1, QuietStep DEF ControlInv
<1>2. CASE \E e \in Envelopes : Send(e)
  BY Zenon, <1>2, SendStep
<1>3. CASE \E g \in Goroutines : RunPop(g) \/ InvokeMsg(g) \/ InvokePill(g) \/ InvokeDrain(g)
  BY Zenon, <1>3, PopStep, MsgStep, PillStep, DrainStep
<1>4. CASE UNCHANGED vars
  BY Zenon, <1>1, <1>4 DEF vars, goVars, history, Quiet, Live, Pending
<1>5. QED
  BY Zenon, <1>1, <1>2, <1>3, <1>4, QuietActions DEF Next, Step

(* process.go: the inductive invariant of the process.  It says that one   *)
(* goroutine at a time is busy and where every message is, until a stopped *)
(* inbox is opened again; from then on it claims types only.               *)
THEOREM ProcessInvariant == Spec => []ProcessInv
<1>1. Init => ProcessInv
  BY Zenon, ControlInit, DataInit DEF ProcessInv
<1>2. ProcessInv /\ [Next]_vars => ProcessInv'
  BY Zenon, ControlStep, DataStep DEF ProcessInv
<1>3. QED
  BY <1>1, <1>2, PTL DEF Spec

(* README.md, "processes messages from its inbox in order": across batches *)
(* and restarts the receiver never gets a message while an earlier one has *)
(* not been given to it, as long as a stopped inbox is not reopened.       *)
THEOREM ReceivedInOrder == Spec => []InOrder
<1>1. ProcessInv => InOrder
  BY Zenon DEF ProcessInv, DataInv, OrderInv, AllGiven, Given, InOrder, Before
<1>2. QED
  BY <1>1, ProcessInvariant, PTL

(* engine.go Poison: the context of a poisoned process ends only after     *)
(* every message accepted before the pill has reached the receiver, as     *)
(* long as a stopped inbox is not reopened.                                *)
THEOREM PoisonDrains == Spec => []GracefulDrains
<1>1. ProcessInv => GracefulDrains
  BY Zenon DEF ProcessInv, DataInv, PillInv, Drained, AllGiven, Given, GracefulDrains, Before
<1>2. QED
  BY <1>1, ProcessInvariant, PTL

(* process.go cleanup: when the context of a pill is done the process has  *)
(* left the registry and, if the pill reached it, has had Stopped.         *)
THEOREM DoneIsGone == Spec => []DoneMeansGone
<1>1. ProcessInv => DoneMeansGone
  BY Zenon DEF ProcessInv, ControlInv, GoneInv, DoneMeansGone
<1>2. QED
  BY <1>1, ProcessInvariant, PTL

----------------------------------------------------------------------------
(* Only a turn of Invoke or of its graceful loop calls Receive with a user *)
(* message, and only with the one it is at.                                *)
LEMMA ReceiveStep ==
  ASSUME ControlInv, [Next]_vars, NEW m \in Msgs, attempts'[m] # attempts[m]
  PROVE  \E g \in Goroutines :
           \/ pc[g] = "invoke" /\ nproc[g] < Len(msgs[g]) /\ m = msgs[g][nproc[g] + 1]
           \/ pc[g] = "drain" /\ drain[g] < Len(msgs[g]) /\ m = msgs[g][drain[g] + 1]
<1>1. attempts' # attempts
  BY Zenon
<1>2. ~Quiet
  BY Zenon, <1>1 DEF Quiet
<1>3. ASSUME NEW e \in Envelopes, Send(e) PROVE FALSE
  BY Zenon, <1>1, <1>3 DEF Send
<1>4. ASSUME NEW g \in Goroutines, RunPop(g) \/ InvokePill(g) PROVE FALSE
  BY Zenon, <1>1, <1>4 DEF RunPop, InvokePill, history
<1>5. ~UNCHANGED vars
  BY Zenon, <1>1 DEF vars, history
<1>6. PICK g \in Goroutines : InvokeMsg(g) \/ InvokeDrain(g)
  BY Zenon, <1>2, <1>3, <1>4, <1>5, QuietActions DEF Next, Step
<1>7. CASE InvokeMsg(g)
  <2>1. /\ pc[g] = "invoke" /\ nproc[g] < Len(msgs[g])
        /\ attempts' = [attempts EXCEPT ![msgs[g][nproc[g] + 1]] = @ + 1]
    BY Zenon, <1>7 DEF InvokeMsg
  <2>2. QED
    BY Zenon, <2>1 DEF ControlInv, TypeOK
<1>8. CASE InvokeDrain(g)
  <2>1. /\ pc[g] = "drain" /\ drain[g] < Len(msgs[g])
        /\ attempts' = [attempts EXCEPT ![msgs[g][drain[g] + 1]] = @ + 1]
    BY Zenon, <1>1, <1>8 DEF InvokeDrain
  <2>2. QED
    BY Zenon, <2>1 DEF ControlInv, TypeOK
<1>9. QED
  BY Zenon, <1>6, <1>7, <1>8

(* process.go Start / tryRestart / cleanup: user messages reach the        *)
(* receiver between its Started and its Stopped only, unless the inbox was *)
(* reopened after Stop.                                                    *)
THEOREM StartedReceivesOnly == Spec => OnlyWhileStarted
<1>1. ASSUME ProcessInv, [Next]_vars, NEW m \in Msgs, attempts'[m] # attempts[m]
      PROVE  phase = "started" \/ revived
  <2>1. ControlInv
    BY Zenon, <1>1 DEF ProcessInv
  <2>2. PICK g \in Goroutines : pc[g] = "invoke" \/ pc[g] = "drain"
    BY Zenon, <1>1, <2>1, ReceiveStep
  <2>3. QED
    BY Zenon, <2>1, <2>2 DEF ControlInv, OneBusy, PhaseInv, Idle, AfterStop, Restarting
<1>2. ProcessInv /\ [Next]_vars =>
        [\A m \in Msgs : attempts'[m] # attempts[m] => phase = "started" \/ revived]_vars
  BY Zenon, <1>1
<1>3. QED
  BY <1>2, ProcessInvariant, PTL DEF Spec, OnlyWhileStarted

(* process.go Invoke: a message on which the receiver has returned is      *)
(* given to it again only if it was pushed behind a graceful pill, as long *)
(* as a stopped inbox is not reopened.                                     *)
THEOREM ReplayOnlyBehindPill == Spec => ReplayBehindPill
<1>1. ASSUME ProcessInv, [Next]_vars, NEW m \in completed, attempts'[m] # attempts[m], ~revived
      PROVE  \E p \in Graceful : Before(p, m)
  <2>1. ControlInv /\ DataInv /\ m \in Msgs
    BY Zenon, <1>1 DEF ProcessInv, ControlInv, TypeOK
  <2>2. PICK g \in Goroutines :
           \/ pc[g] = "invoke" /\ nproc[g] < Len(msgs[g]) /\ m = msgs[g][nproc[g] + 1]
           \/ pc[g] = "drain" /\ drain[g] < Len(msgs[g]) /\ m = msgs[g][drain[g] + 1]
    BY Zenon, <1>1, <2>1, ReceiveStep
  <2>3. CASE pc[g] = "invoke" /\ nproc[g] < Len(msgs[g]) /\ m = msgs[g][nproc[g] + 1]
    <3>1. PICK k \in 1..Len(pushed) : k = Base(g) + 1 /\ pushed[k] = m /\ Base(g) \in Nat
      BY Zenon, <1>1, <2>1, <2>3, NextPlace
    <3>2. View(g)
      BY ZenonT(30), <1>1, <2>1, <2>3, BusyView
    <3>3. AfterGraceful(k)
      BY <1>1, <3>1, <3>2 DEF View
    <3>4. QED
      BY Zenon, <3>1, <3>3 DEF AfterGraceful, Before
  <2>4. CASE pc[g] = "drain" /\ drain[g] < Len(msgs[g]) /\ m = msgs[g][drain[g] + 1]
    <3>1. PICK k : k = Base(g) + drain[g] - nproc[g] + 1
      BY Zenon
    <3>2. /\ k \in Int /\ Base(g) \in 1..Len(pushed) /\ pushed[Base(g)] \in Graceful
          /\ k > Base(g) => k \in 1..Len(pushed) /\ pushed[k] = m
          /\ k <= Base(g) => m \in Pills
      BY Zenon, <1>1, <2>1, <2>4, <3>1, DrainPlace
    <3>3. m \notin Pills
      BY <2>1, ProcessAssumption DEF Msgs
    <3>4. Base(g) < k /\ k \in 1..Len(pushed) /\ pushed[k] = m
      BY <3>2, <3>3
    <3>5. QED
      BY Zenon, <3>2, <3>4 DEF Before
  <2>5. QED
    BY Zenon, <2>2, <2>3, <2>4
<1>2. ProcessInv /\ [Next]_vars =>
        [\A m \in completed :
           attempts'[m] # attempts[m] => revived \/ \E p \in Graceful : Before(p, m)]_vars
  BY Zenon, <1>1
<1>3. QED
  BY <1>2, ProcessInvariant, PTL DEF Spec, ReplayBehindPill

----------------------------------------------------------------------------
(* Module Provider adds variables to Process, and no step of the process:  *)
(* what is proved of Process holds for a provider and for an agent.        *)
LEMMA ProviderNextStep == [ProviderNext]_providerVars => [Next]_vars
<1>1. ASSUME NEW g \in Goroutines, ProviderStep(g) PROVE Next
  BY Zenon, <1>1 DEF ProviderStep, ProduceProvider, ReceiveStarted, ReceiveStopped, OtherStep,
     Step, Next
<1>2. ASSUME NEW p \in Pills, Call(p) PROVE Next
  BY Zenon, <1>2 DEF Call, Next
<1>3. ASSUME NEW e \in Envelopes, Sending(e) PROVE Next
  BY Zenon, <1>3 DEF Sending, Next
<1>4. ASSUME NEW i, RepeaterEnd(i) PROVE UNCHANGED vars
  BY Zenon, <1>4 DEF RepeaterEnd
<1>5. QED
  BY Zenon, <1>1, <1>2, <1>3, <1>4 DEF ProviderNext, providerVars

(* A goroutine that has given Stopped to one receiver and not yet Started  *)
(* to the next                                                             *)
Fresh == {"count", "start", "started"}

(* Only the current receiver has a pinger that runs, from its Started to   *)
(* its Stopped; a second goroutine that delivers Stopped finds none.  As   *)
(* long as no stopped inbox is reopened the pinger is there for every      *)
(* Stopped.                                                                *)
PingInv ==
  /\ repeaters \in Seq({"run", "cancelled", "done"}) /\ mine \in 0..Len(repeaters)
  /\ \A i \in DOMAIN repeaters : repeaters[i] = "run" => i = mine
  /\ phase = "stopped" => ~Pinging
  /\ ~crashed => \A g \in Goroutines : pc[g] \in Fresh =>
       /\ ~Pinging
       /\ pc[g] = "started" => phase = "initialized"
       /\ \A h \in Goroutines : pc[h] \in Fresh => h = g
  /\ ~revived => /\ ~crashed
                 /\ ~closed /\ (\A g \in Goroutines : pc[g] \notin Fresh) => Pinging
                 /\ \A g \in Goroutines : pc[g] \in {"remove", "stopped"} => Pinging

ProviderInv ==
  /\ provider \in BOOLEAN
  /\ provider => PingInv
  /\ ~provider => repeaters = <<>> /\ ~crashed

(* A step that starts and stops no receiver *)
Calm ==
  /\ phase' = phase /\ (closed => closed') /\ (revived => revived')
  /\ \A h \in Goroutines : (pc'[h] \in Fresh <=> pc[h] \in Fresh)
                             /\ (pc'[h] = "started" => pc[h] = "started")
                             /\ (pc'[h] \in {"remove", "stopped"} =>
                                    pc[h] \in {"stop", "remove", "stopped"})

(* Every step of the process that gives its receiver neither Started nor   *)
(* Stopped is such a step.                                                 *)
LEMMA CalmSteps ==
  ASSUME ControlInv
  PROVE  /\ \A p \in Pills : CheckPill(p) => Calm
         /\ \A e \in Envelopes : Lookup(e) \/ Send(e) => Calm
         /\ \A g \in Goroutines : OtherStep(g) => Calm
<1>1. pc \in [Goroutines -> {pc[g] : g \in Goroutines}]
  BY Zenon DEF ControlInv, TypeOK
<1>2. ASSUME NEW g \in Goroutines, NEW l, Goto(g, l),
             l \notin Fresh \cup {"remove", "stopped"}, pc[g] \notin Fresh,
             phase' = phase, closed => closed', revived => revived'
      PROVE  Calm
  BY Zenon, <1>1, <1>2 DEF Goto, Calm, Fresh
<1>3. ASSUME pc' = pc, phase' = phase, closed' = closed, revived' = revived PROVE Calm
  BY Zenon, <1>3 DEF Calm
<1>4. ASSUME schedule, phase' = phase, closed' = closed, revived' = revived PROVE Calm
  <2>1. CASE pc' = pc
    BY Zenon, <1>3, <1>4, <2>1
  <2>2. CASE \E w \in Workers : New(w) /\ Goto(w, "check")
    <3>1. PICK w \in Workers : pc[w] = "none" /\ w \in Goroutines /\ Goto(w, "check")
      BY Zenon, <2>2, NewFacts
    <3>2. QED
      BY Zenon, <1>2, <1>4, <3>1 DEF Fresh
  <2>3. QED
    BY Zenon, <1>4, <2>1, <2>2 DEF schedule
<1>5. ASSUME NEW p \in Pills, CheckPill(p) PROVE Calm
  BY Zenon, <1>3, <1>5 DEF CheckPill
<1>6. ASSUME NEW e \in Envelopes, Lookup(e) PROVE Calm
  BY Zenon, <1>3, <1>6 DEF Lookup, history
<1>7. ASSUME NEW e \in Envelopes, Send(e) PROVE Calm
  BY Zenon, <1>4, <1>7 DEF Send
<1>. SUFFICES ASSUME NEW g \in Goroutines, OtherStep(g) PROVE Calm
  BY Zenon, <1>5, <1>6, <1>7
<1>8. CASE StartBuffer(g) \/ Unwind(g)
  <2>1. pc[g] \in {"buffer", "unwind"} /\ phase' = phase /\ closed' = closed /\ revived' = revived
    BY Zenon, <1>8 DEF StartBuffer, Unwind, history
  <2>2. Goto(g, "invoke") \/ Goto(g, "inbox") \/ Goto(g, "none") \/ Goto(g, "check")
    BY Zenon, <1>8 DEF StartBuffer, Unwind
  <2>3. QED
    BY Zenon, <1>2, <2>1, <2>2 DEF Fresh
<1>9. CASE StartInbox(g)
  <2>1. pc[g] = "inbox" /\ phase' = phase /\ closed' = closed /\ (revived => revived')
    BY Zenon, <1>9 DEF StartInbox, ControlInv
  <2>2. CASE Goto(g, "unwind")
    BY Zenon, <1>2, <2>1, <2>2 DEF Fresh
  <2>3. CASE \E w \in Workers : New(w) /\ pc' = [pc EXCEPT ![g] = "unwind", ![w] = "check"]
    <3>1. PICK w \in Workers : /\ pc[w] = "none" /\ w \in Goroutines
                               /\ pc' = [pc EXCEPT ![g] = "unwind", ![w] = "check"]
      BY Zenon, <2>3, NewFacts
    <3>2. \A h \in Goroutines : pc'[h] = pc[h] \/ pc'[h] \in {"unwind", "check"}
      BY Zenon, <1>1, <3>1
    <3>3. pc'[g] \in {"unwind", "check"} /\ pc'[w] = "check"
      BY Zenon, <1>1, <3>1
    <3>4. \A h \in Goroutines : pc'[h] = pc[h] \/ pc[h] \in {"inbox", "none"}
      BY Zenon, <1>1, <2>1, <3>1
    <3>5. QED
      BY Zenon, <2>1, <3>2, <3>4 DEF Calm, Fresh
  <2>4. QED
    BY Zenon, <1>9, <2>2, <2>3 DEF StartInbox
<1>10. CASE RunCheck(g) \/ RunPop(g) \/ ProcessSettle(g) \/ ProcessLen(g)
  <2>1. /\ pc[g] \in {"check", "pop", "settle", "len"}
        /\ phase' = phase /\ closed' = closed /\ revived' = revived
    BY Zenon, <1>10 DEF RunCheck, RunPop, ProcessSettle, ProcessLen, history
  <2>2. \E l \in {"pop", "settle", "invoke", "len", "none", "check"} : Goto(g, l)
    BY Zenon, <1>10 DEF RunCheck, RunPop, ProcessSettle, ProcessLen
  <2>3. QED
    BY Zenon, <1>2, <2>1, <2>2 DEF Fresh
<1>11. CASE InvokeMsg(g)
  <2>1. pc[g] = "invoke" /\ phase' = phase /\ closed' = closed /\ revived' = revived
    BY Zenon, <1>11 DEF InvokeMsg
  <2>2. pc' = pc \/ Goto(g, "restart") \/ Goto(g, "internal")
    BY Zenon, <1>11, RecoverFacts DEF InvokeMsg
  <2>3. QED
    BY Zenon, <1>2, <1>3, <2>1, <2>2 DEF Fresh
<1>12. CASE InvokeDrain(g)
  <2>1. pc[g] = "drain" /\ phase' = phase /\ closed' = closed /\ revived' = revived
    BY Zenon, <1>12 DEF InvokeDrain
  <2>2. pc' = pc \/ Goto(g, "restart") \/ Goto(g, "internal")
    BY Zenon, <1>12, RecoverFacts DEF InvokeDrain
  <2>3. QED
    BY Zenon, <1>2, <1>3, <2>1, <2>2 DEF Fresh
<1>13. CASE InvokePill(g) \/ InvokeEnd(g)
  <2>1. pc[g] \in {"invoke", "drain"} /\ phase' = phase /\ closed' = closed /\ revived' = revived
    BY Zenon, <1>13 DEF InvokePill, InvokeEnd, history
  <2>2. Goto(g, "drain") \/ Goto(g, "stop") \/ Goto(g, "unwind")
    BY Zenon, <1>13 DEF InvokePill, InvokeEnd
  <2>3. QED
    BY Zenon, <1>2, <2>1, <2>2 DEF Fresh
<1>14. CASE restarts = MaxRestarts /\ TryRestart(g)
  BY Zenon, <1>2, <1>14 DEF TryRestart, Fresh
<1>15. CASE RestartCount(g)
  BY Zenon, <1>1, <1>15 DEF RestartCount, history, Goto, Calm, Fresh
<1>16. CASE CleanupStop(g)
  BY Zenon, <1>1, <1>16 DEF CleanupStop, Goto, Calm, Fresh
<1>17. CASE CleanupRemove(g)
  BY Zenon, <1>1, <1>17 DEF CleanupRemove, history, Goto, Calm, Fresh
<1>18. CASE CleanupCancel(g)
  BY Zenon, <1>2, <1>18 DEF CleanupCancel, Fresh
<1>19. QED
  BY Zenon, <1>8, <1>9, <1>10, <1>11, <1>12, <1>13, <1>14, <1>15, <1>16, <1>17, <1>18 DEF OtherStep

(* process.go: as long as no stopped inbox is reopened, a goroutine that   *)
(* is about to stop the inbox or to deliver Stopped finds the pinger on.   *)
LEMMA PingerFound ==
  ASSUME ControlInv, PingInv, ~revived, NEW g \in Goroutines,
         pc[g] \in {"stop", "restart", "stopped"}
  PROVE  Pinging /\ (pc[g] # "stopped" => ~closed)
<1>1. ~Idle(g) /\ OneBusy
  BY Zenon DEF Idle, ControlInv
<1>2. CASE pc[g] = "stopped"
  BY Zenon, <1>2 DEF PingInv
<1>3. CASE pc[g] # "stopped"
  <2>1. ~closed
    BY Zenon, <1>1, <1>3 DEF OneBusy, AfterStop
  <2>2. \A h \in Goroutines : pc[h] \in Fresh => ~Idle(h)
    BY Zenon, ProcessAssumption DEF Idle, Fresh
  <2>3. \A h \in Goroutines : pc[h] \notin Fresh
    BY Zenon, <1>1, <1>3, <2>2 DEF OneBusy, Fresh
  <2>4. QED
    BY Zenon, <1>3, <2>1, <2>3 DEF PingInv
<1>4. QED
  BY Zenon, <1>2, <1>3

(* A step that starts and stops no receiver leaves the pinger as it is. *)
LEMMA CalmStep ==
  ASSUME ControlInv, PingInv, Calm, UNCHANGED pingerVars
  PROVE  PingInv'
<1>1. Pinging' = Pinging /\ repeaters' = repeaters /\ mine' = mine /\ crashed' = crashed
  BY Zenon DEF pingerVars, Pinging
<1>2. ~crashed' => \A g \in Goroutines : pc'[g] \in Fresh =>
        /\ ~Pinging'
        /\ pc'[g] = "started" => phase' = "initialized"
        /\ \A h \in Goroutines : pc'[h] \in Fresh => h = g
  BY Zenon, <1>1 DEF PingInv, Calm
<1>3. ASSUME ~revived'
      PROVE  ~crashed' /\ (~closed' /\ (\A g \in Goroutines : pc'[g] \notin Fresh) => Pinging')
  BY Zenon, <1>1, <1>3 DEF PingInv, Calm
<1>4. ASSUME ~revived', NEW g \in Goroutines, pc'[g] \in {"remove", "stopped"} PROVE Pinging'
  BY Zenon, <1>1, <1>4, PingerFound DEF PingInv, Calm
<1>5. QED
  BY Zenon, <1>1, <1>2, <1>3, <1>4 DEF PingInv, Calm

(* NewSelfManagedProvider: the new receiver has no pinger yet. *)
LEMMA ProduceStep ==
  ASSUME ControlInv, PingInv, ~crashed, NEW g \in Goroutines, ProduceProvider(g)
  PROVE  PingInv'
<1>1. /\ pc[g] = "start" /\ pc' = [pc EXCEPT ![g] = "started"] /\ phase' = "initialized"
      /\ mine' = 0 /\ repeaters' = repeaters /\ crashed' = crashed
      /\ closed' = closed /\ revived' = revived
  BY Zenon, LifePanicFacts DEF ProduceProvider, StartInitialized, Goto, ControlInv, TypeOK
<1>2. pc \in [Goroutines -> {pc[h] : h \in Goroutines}]
  BY Zenon DEF ControlInv, TypeOK
<1>3. ~Pinging /\ ~Pinging'
  BY Zenon, <1>1 DEF PingInv, Pinging, Fresh
<1>4. \A h \in Goroutines : h # g => pc'[h] = pc[h] /\ pc[h] \notin Fresh
  BY Zenon, <1>1, <1>2 DEF PingInv, Fresh
<1>5. pc'[g] = "started"
  BY Zenon, <1>1, <1>2
<1>6. mine' \in 0..Len(repeaters') /\ \A i \in DOMAIN repeaters' : repeaters'[i] # "run"
  BY <1>1, <1>3 DEF PingInv, Pinging
<1>7. ~crashed' => \A h \in Goroutines : pc'[h] \in Fresh =>
        /\ ~Pinging'
        /\ pc'[h] = "started" => phase' = "initialized"
        /\ \A k \in Goroutines : pc'[k] \in Fresh => k = h
  BY Zenon, <1>1, <1>3, <1>4
<1>8. \A h \in Goroutines : pc'[h] \notin {"remove", "stopped"} \/ pc[h] = pc'[h]
  BY Zenon, <1>4, <1>5
<1>9. ~revived' => /\ ~crashed'
                   /\ ~(\A h \in Goroutines : pc'[h] \notin Fresh)
                   /\ \A h \in Goroutines : pc'[h] \in {"remove", "stopped"} => Pinging'
  BY Zenon, <1>1, <1>3, <1>5, <1>8 DEF PingInv, Fresh
<1>10. QED
  BY Zenon, <1>1, <1>3, <1>6, <1>7, <1>9 DEF PingInv

(* SelfManaged.Receive, Started: one pinger is added to none. *)
LEMMA StartedStep ==
  ASSUME ControlInv, PingInv, ~crashed, NEW g \in Goroutines, ReceiveStarted(g)
  PROVE  PingInv'
<1>1. /\ pc[g] = "started" /\ repeaters' = Append(repeaters, "run")
      /\ mine' = Len(repeaters) + 1 /\ crashed' = crashed
      /\ closed' = closed /\ revived' = revived
  BY Zenon DEF ReceiveStarted, StartStarted, SendRepeat
<1>2. /\ Goto(g, "buffer") \/ Goto(g, "restart") \/ Goto(g, "internal")
      /\ phase' = "started" \/ phase' = phase
  BY Zenon, LifePanicFacts DEF ReceiveStarted, StartStarted
<1>3. ~Pinging /\ phase = "initialized"
  BY Zenon, <1>1 DEF PingInv, Fresh
<1>4. pc \in [Goroutines -> {pc[h] : h \in Goroutines}]
  BY Zenon DEF ControlInv, TypeOK
<1>5. \A h \in Goroutines : pc'[h] \notin Fresh
  BY Zenon, <1>1, <1>2, <1>4 DEF PingInv, Fresh, Goto
<1>6. /\ repeaters' \in Seq({"run", "cancelled", "done"}) /\ mine' \in 0..Len(repeaters')
      /\ Len(repeaters') = Len(repeaters) + 1 /\ repeaters'[mine'] = "run" /\ mine' # 0
      /\ \A i \in 1..Len(repeaters) : repeaters'[i] = repeaters[i]
  BY <1>1 DEF PingInv
<1>7. \A i \in DOMAIN repeaters' : repeaters'[i] = "run" => i = mine'
  BY <1>1, <1>3, <1>6 DEF PingInv, Pinging
<1>8. Pinging'
  BY Zenon, <1>6 DEF Pinging
<1>9. phase' # "stopped"
  BY Zenon, <1>2, <1>3
<1>10. ~revived' => ~crashed'
  BY Zenon, <1>1 DEF PingInv
<1>11. QED
  BY Zenon, <1>5, <1>6, <1>7, <1>8, <1>9, <1>10 DEF PingInv

(* SelfManaged.Receive, Stopped: the pinger is stopped, or the program     *)
(* ends, which a reopened inbox must have preceded.                        *)
LEMMA StoppedStep ==
  ASSUME ControlInv, PingInv, ~crashed, NEW g \in Goroutines, ReceiveStopped(g)
  PROVE  PingInv'
<1>1. /\ mine' = mine /\ phase' = "stopped" /\ closed' = closed /\ revived' = revived
      /\ \/ pc[g] = "restart" /\ Goto(g, "count")
         \/ pc[g] = "stopped" /\ Goto(g, "cancel")
  BY Zenon DEF ReceiveStopped, RepeaterStop, TryRestart, CleanupStopped
<1>2. pc \in [Goroutines -> {pc[h] : h \in Goroutines}]
  BY Zenon DEF ControlInv, TypeOK
<1>3. \A h \in Goroutines : h # g => pc'[h] = pc[h]
  BY Zenon, <1>1, <1>2 DEF Goto
<1>4. pc'[g] \in {"count", "cancel"} /\ (pc'[g] = "count" => pc[g] = "restart")
  BY Zenon, <1>1, <1>2 DEF Goto
<1>5. \/ Pinging /\ repeaters' = [repeaters EXCEPT ![mine] = "cancelled"] /\ ~crashed'
      \/ ~Pinging /\ repeaters' = repeaters /\ crashed'
  BY Zenon DEF ReceiveStopped, RepeaterStop
<1>6. /\ repeaters' \in Seq({"run", "cancelled", "done"}) /\ mine' \in 0..Len(repeaters')
      /\ \A i \in DOMAIN repeaters' : repeaters'[i] # "run"
  BY <1>1, <1>5 DEF PingInv, Pinging
<1>7. ~Pinging'
  BY <1>1, <1>6 DEF Pinging
<1>8. ~crashed' => \A h \in Goroutines : h # g => pc'[h] \notin Fresh
  BY Zenon, <1>3, <1>5 DEF PingInv
<1>9. ~crashed' => \A h \in Goroutines : pc'[h] \in Fresh =>
        /\ ~Pinging'
        /\ pc'[h] = "started" => phase' = "initialized"
        /\ \A k \in Goroutines : pc'[k] \in Fresh => k = h
  BY Zenon, <1>4, <1>7, <1>8 DEF Fresh
<1>10. ASSUME ~revived'
       PROVE  /\ ~crashed'
              /\ ~closed' /\ (\A h \in Goroutines : pc'[h] \notin Fresh) => Pinging'
              /\ \A h \in Goroutines : pc'[h] \in {"remove", "stopped"} => Pinging'
  <2>1. Pinging /\ (pc[g] # "stopped" => ~closed)
    BY Zenon, <1>1, <1>10, PingerFound
  <2>2. OneBusy /\ ~Idle(g)
    BY Zenon, <1>1, <1>10 DEF ControlInv, Idle
  <2>3. \A h \in Goroutines : h # g => pc[h] \notin {"remove", "stopped"}
    BY Zenon, <2>2 DEF OneBusy, Idle
  <2>4. pc[g] = "stopped" => closed
    BY Zenon, <2>2 DEF OneBusy
  <2>5. pc[g] = "restart" => pc'[g] = "count"
    BY Zenon, <1>1, <1>2 DEF Goto
  <2>6. QED
    BY Zenon, <1>1, <1>3, <1>4, <1>5, <2>1, <2>3, <2>4, <2>5 DEF Fresh
<1>11. QED
  BY Zenon, <1>1, <1>6, <1>7, <1>9, <1>10 DEF PingInv

(* SendRepeater.start: a goroutine that ends was not running any more. *)
LEMMA EndStep ==
  ASSUME PingInv, NEW i \in DOMAIN repeaters, RepeaterEnd(i)
  PROVE  PingInv'
<1>1. /\ repeaters[i] = "cancelled" /\ repeaters' = [repeaters EXCEPT ![i] = "done"]
      /\ mine' = mine /\ crashed' = crashed
      /\ phase' = phase /\ pc' = pc /\ closed' = closed /\ revived' = revived
  BY Zenon DEF RepeaterEnd, vars, history
<1>2. /\ repeaters' \in Seq({"run", "cancelled", "done"}) /\ Len(repeaters') = Len(repeaters)
      /\ mine' \in 0..Len(repeaters')
      /\ \A j \in DOMAIN repeaters' : repeaters'[j] = "run" <=> repeaters[j] = "run"
      /\ DOMAIN repeaters' = DOMAIN repeaters
  BY <1>1 DEF PingInv
<1>3. Pinging' = Pinging
  BY <1>1, <1>2 DEF PingInv, Pinging
<1>4. QED
  BY Zenon, <1>1, <1>2, <1>3 DEF PingInv

(* Every step of a provider or of an agent keeps what is said of it. *)
LEMMA ProviderInvStep ==
  ASSUME ControlInv, ProviderInv, [ProviderNext]_providerVars
  PROVE  ProviderInv'
<1>1. CASE UNCHANGED pingerVars /\ (Calm \/ ~provider)
  BY Zenon, <1>1, CalmStep DEF ProviderInv, pingerVars
<1>2. ASSUME NEW p \in Pills, Call(p) PROVE ProviderInv'
  BY Zenon, <1>1, <1>2, CalmSteps DEF Call
<1>3. ASSUME NEW e \in Envelopes, Sending(e) PROVE ProviderInv'
  BY Zenon, <1>1, <1>3, CalmSteps DEF Sending
<1>4. ASSUME NEW g \in Goroutines, ProviderStep(g) PROVE ProviderInv'
  <2>1. CASE ~provider
    BY Zenon, <1>1, <1>4, <2>1 DEF ProviderStep
  <2>2. CASE provider /\ OtherStep(g)
    BY Zenon, <1>1, <2>2, CalmSteps DEF OtherStep
  <2>3. CASE provider /\ (ProduceProvider(g) \/ ReceiveStarted(g) \/ ReceiveStopped(g))
    <3>1. PingInv /\ ~crashed /\ provider' = provider
      BY Zenon, <1>4, <2>3 DEF ProviderInv, ProviderStep, ProduceProvider, ReceiveStarted, SendRepeat,
         ReceiveStopped, RepeaterStop
    <3>2. PingInv'
      BY Zenon, <2>3, <3>1, ProduceStep, StartedStep, StoppedStep
    <3>3. QED
      BY Zenon, <2>3, <3>1, <3>2 DEF ProviderInv
  <2>4. QED
    BY Zenon, <1>4, <2>1, <2>2, <2>3 DEF ProviderStep, ProviderInv
<1>5. ASSUME NEW i \in DOMAIN repeaters, RepeaterEnd(i) PROVE ProviderInv'
  <2>1. provider' = provider /\ provider
    BY <1>5 DEF RepeaterEnd, ProviderInv
  <2>2. QED
    BY Zenon, <1>5, <2>1, EndStep DEF ProviderInv
<1>6. CASE UNCHANGED providerVars
  <2>1. Calm /\ UNCHANGED pingerVars
    BY Zenon, <1>6 DEF providerVars, vars, history, Calm
  <2>2. QED
    BY Zenon, <1>1, <2>1
<1>7. QED
  BY Zenon, <1>2, <1>3, <1>4, <1>5, <1>6 DEF ProviderNext

(* selfmanaged.go Receive / engine.go SendRepeater: whatever panics,       *)
(* restarts and pills there are, one pinger at most runs and none once the *)
(* receiver has had Stopped; no pinger is stopped twice, as long as a      *)
(* stopped inbox is not reopened.                                          *)
THEOREM OnePingerRuns == ProviderSpec => []OnePinger
<1>1. ProviderInit => ControlInv /\ ProviderInv
  <2>1. SUFFICES ASSUME ProviderInit PROVE ProviderInv
    BY Zenon, ControlInit DEF ProviderInit
  <2>2. repeaters = <<>> /\ mine = 0 /\ ~crashed /\ provider \in BOOLEAN
    BY Zenon, <2>1 DEF ProviderInit
  <2>3. repeaters \in Seq({"run", "cancelled", "done"}) /\ mine \in 0..Len(repeaters)
        /\ DOMAIN repeaters = {}
    BY <2>2
  <2>4. /\ ~Pinging /\ phase = "none" /\ Spawner \in Goroutines
        /\ \A g \in Goroutines : pc[g] = IF g = Spawner THEN "start" ELSE "none"
    BY Zenon, <2>1, <2>2 DEF ProviderInit, Init, Pinging, Goroutines
  <2>5. \A g \in Goroutines : /\ pc[g] \in Fresh <=> g = Spawner
                              /\ pc[g] \notin {"started", "remove", "stopped"}
    BY Zenon, <2>4 DEF Fresh
  <2>6. PingInv
    BY Zenon, <2>2, <2>3, <2>4, <2>5 DEF PingInv
  <2>7. QED
    BY Zenon, <2>2, <2>6 DEF ProviderInv
<1>2. ControlInv /\ ProviderInv /\ [ProviderNext]_providerVars => ControlInv' /\ ProviderInv'
  BY Zenon, ProviderNextStep, ControlStep, ProviderInvStep
<1>3. ControlInv /\ ProviderInv => OnePinger
  <2>1. SUFFICES ASSUME ControlInv, ProviderInv PROVE OnePinger
    BY Zenon
  <2>2. CASE provider
    <3>1. /\ \A i \in DOMAIN repeaters : repeaters[i] = "run" => i = mine /\ Pinging
          /\ phase = "stopped" => ~Pinging
          /\ crashed => revived
      BY <2>1, <2>2 DEF ProviderInv, PingInv, Pinging
    <3>2. QED
      BY Zenon, <3>1 DEF OnePinger
  <2>3. CASE ~provider
    BY <2>1, <2>3 DEF ProviderInv, OnePinger
  <2>4. QED
    BY Zenon, <2>2, <2>3
<1>4. QED
  BY <1>1, <1>2, <1>3, PTL DEF ProviderSpec

(* cluster.go Start: the agent and the provider are processes like any     *)
(* other, so what is proved of Process holds for them.                     *)
THEOREM ProviderIsProcess == ProviderSpec => Spec
<1>1. ProviderInit => Init
  BY Zenon DEF ProviderInit
<1>2. QED
  BY <1>1, ProviderNextStep, PTL DEF ProviderSpec, Spec

==============================================================================
