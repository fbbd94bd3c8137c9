------------------------------ MODULE Provider ------------------------------
(***************************************************************************)
(* The processes of a cluster node: module Process with the receiver that  *)
(* Cluster.Start gives to its provider, SelfManaged of                     *)
(* src/cluster/selfmanaged.go, which starts a SendRepeater                 *)
(* (src/actor/engine.go) on Started and stops it on Stopped.  The other    *)
(* process Cluster.Start spawns, the agent, is a receiver without one.     *)
(* Cluster.Stop poisons both and waits for the contexts.                   *)
(*                                                                         *)
(* The messages of Process are what anybody sends to the process, the      *)
(* pings of its own SendRepeaters included.  SelfManaged does nothing on   *)
(* Initialized, and no panic of it is an InternalError; Receive may panic  *)
(* on a message (memberLeave for an unknown host) and on Started, behind   *)
(* SendRepeat (startAutoDiscovery).                                        *)
(***************************************************************************)
EXTENDS Process

VARIABLES
  provider,   \* the process is the provider; it never changes
  repeaters,  \* each SendRepeater made: run, cancelled (Stop was called), done
  mine,       \* SelfManaged.memberPinger of the receiver: its place, or 0
  crashed     \* a panic that nobody recovers has ended the program

pingerVars == <<provider, repeaters, mine, crashed>>
providerVars == <<vars, pingerVars>>

(* Cluster.Start: Spawn of the agent or of the provider *)
ProviderInit ==
  /\ Init
  /\ provider \in BOOLEAN
  /\ repeaters = <<>> /\ mine = 0 /\ crashed = FALSE

Pinging == mine # 0 /\ repeaters[mine] = "run"

----------------------------------------------------------------------------
(* Context.SendRepeat, and the goroutine of SendRepeater.start *)
SendRepeat ==
  /\ repeaters' = Append(repeaters, "run")
  /\ mine' = Len(repeaters) + 1
  /\ UNCHANGED <<provider, crashed>>

(* Faulty variant: Stop does not close the channel *)
RepeaterKept == UNCHANGED pingerVars

(* SendRepeater.Stop closes the channel.  Closing a nil or a closed one    *)
(* panics; the Stopped of every deferred tryRestart on the stack panics    *)
(* again, and the program ends.                                            *)
RepeaterStop ==
  /\ IF Pinging
       THEN repeaters' = [repeaters EXCEPT ![mine] = "cancelled"] /\ UNCHANGED crashed
       ELSE crashed' = TRUE /\ UNCHANGED repeaters
  /\ UNCHANGED <<provider, mine>>

(* SendRepeater.start: the goroutine sees the closed channel. *)
RepeaterEnd(i) ==
  /\ ~crashed
  /\ repeaters[i] = "cancelled"
  /\ repeaters' = [repeaters EXCEPT ![i] = "done"]
  /\ UNCHANGED <<vars, provider, mine, crashed>>

----------------------------------------------------------------------------
(* Start with the Producer of NewSelfManagedProvider: a new SelfManaged,   *)
(* which ignores Initialized                                               *)
ProduceProvider(g) ==
  /\ StartInitialized(g)
  /\ phase' = "initialized" /\ pc'[g] = "started"
  /\ mine' = 0
  /\ UNCHANGED <<provider, repeaters, crashed>>

(* SelfManaged.Receive: Started *)
ReceiveStarted(g) ==
  /\ StartStarted(g)
  /\ SendRepeat

(* SelfManaged.Receive: Stopped, from tryRestart or from cleanup *)
ReceiveStopped(g) ==
  /\ \/ restarts # MaxRestarts /\ TryRestart(g)
     \/ CleanupStopped(g)
  /\ RepeaterStop

(* The steps of the process that do not touch the SendRepeater *)
OtherStep(g) ==
  /\ \/ StartBuffer(g) \/ StartInbox(g) \/ Unwind(g)
     \/ RunCheck(g) \/ RunPop(g) \/ ProcessSettle(g) \/ ProcessLen(g)
     \/ InvokeMsg(g) \/ InvokePill(g) \/ InvokeDrain(g) \/ InvokeEnd(g)
     \/ restarts = MaxRestarts /\ TryRestart(g)
     \/ RestartCount(g)
     \/ CleanupStop(g) \/ CleanupRemove(g) \/ CleanupCancel(g)
  /\ UNCHANGED pingerVars

ProviderStep(g) ==
  /\ ~crashed
  /\ IF provider
       THEN /\ ProduceProvider(g) \/ ReceiveStarted(g) \/ ReceiveStopped(g) \/ OtherStep(g)
            /\ pc'[g] # "internal"
       ELSE Step(g) /\ UNCHANGED pingerVars

(* Stop or Poison of the process; Cluster.Stop calls Poison *)
Call(p) == ~crashed /\ CheckPill(p) /\ UNCHANGED pingerVars

Sending(e) == ~crashed /\ (Lookup(e) \/ Send(e)) /\ UNCHANGED pingerVars

ProviderNext ==
  \/ \E p \in Pills : Call(p)
  \/ \E e \in Envelopes : Sending(e)
  \/ \E g \in Goroutines : ProviderStep(g)
  \/ \E i \in DOMAIN repeaters : RepeaterEnd(i)

ProviderSpec == ProviderInit /\ [][ProviderNext]_providerVars

(* As in Process; a select with a closed channel takes that case after     *)
(* finitely many ticks.                                                    *)
FairProviderSpec ==
  /\ ProviderSpec
  /\ \A e \in Envelopes :
       WF_providerVars(Sending(e) /\ (e \in Pills \/ est[e] = "found"))
  /\ \A g \in Goroutines : WF_providerVars(ProviderStep(g))
  /\ WF_providerVars(\E i \in DOMAIN repeaters : RepeaterEnd(i))

----------------------------------------------------------------------------
(* selfmanaged.go Receive / engine.go SendRepeater: whatever restarts and  *)
(* pills there are, one pinger at most runs and none once the receiver has *)
(* had Stopped; and no pinger is stopped twice, which ends the program,    *)
(* unless the inbox was reopened after Stop (a pill out of mbuffer).       *)
OnePinger ==
  /\ \A i, j \in DOMAIN repeaters : repeaters[i] = "run" /\ repeaters[j] = "run" => i = j
  /\ phase = "stopped" => \A i \in DOMAIN repeaters : repeaters[i] # "run"
  /\ crashed => revived

(* A message that came in behind p has panicked: in the graceful loop, so  *)
(* that recover keeps what is behind the pill, but not the pill.           *)
FailedBehind(p) ==
  \E m \in Msgs : Before(p, m) /\ attempts[m] > 0 /\ (attempts[m] > 1 \/ m \notin completed)

(* cluster.go Stop: the contexts it waits for end, also when Receive       *)
(* panics and the process restarts meanwhile, and in the end no pinger is  *)
(* left.  It may wait for ever if somebody else stops the process too, if  *)
(* the restarts are used up, or if a message behind the pill panics.       *)
ClusterStopReturns ==
  <>[](\A p \in Graceful : est[p] # "new" =>
         \/ p \in cancelled /\ (crashed \/ \A i \in DOMAIN repeaters : repeaters[i] = "done")
         \/ \E q \in Pills \ {p} : est[q] # "new"
         \/ closed /\ restarts = MaxRestarts
         \/ FailedBehind(p))

(* engine.go SendRepeater, "It is started by the SendRepeat method and     *)
(* stopped by it's Stop() method": no pinger is stopped twice.             *)
StoppedOnce == ~crashed
=============================================================================
