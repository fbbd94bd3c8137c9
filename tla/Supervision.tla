---------------------------- MODULE Supervision ----------------------------
(***************************************************************************)
(* A tree of actors: Context.SpawnChild (src/actor/context.go), the        *)
(* cleanup of a process that waits for its children (src/actor/process.go) *)
(* and the poison pills that callers and dying parents send                *)
(* (src/actor/engine.go).                                                  *)
(*                                                                         *)
(* An actor handles one batch at a time, so a parent spawns and cleans up  *)
(* one step after the other; user messages and restarts that succeed do    *)
(* not touch the tree and are left out (module Process has them), and so   *)
(* is the reopening of an inbox that Process shows.                        *)
(***************************************************************************)
EXTENDS Naturals, Sequences, FiniteSets

CONSTANTS
  Actors,   \* the processes of the tree
  Root,     \* the one spawned by Engine.Spawn
  Parent,   \* [Actors \ {Root} -> Actors]: who spawns whom
  Calls,    \* <<caller, target>>: Engine.Stop or Poison by anybody else
  Crashers, \* the actors that may reach MaxRestarts
  None

ASSUME TreeAssumption ==
  /\ Root \in Actors /\ Crashers \subseteq Actors
  /\ Parent \in [Actors \ {Root} -> Actors]
  /\ \A x \in Calls : x[1] \notin Actors /\ x[2] \in Actors
  /\ None \notin Actors

Kids(a) == {c \in Actors \ {Root} : Parent[c] = a}

(* A pill is known by its sender and its target. *)
Pills == Calls \cup {<<Parent[c], c>> : c \in Actors \ {Root}}

VARIABLES
  pc,         \* each actor: absent, alive, the statements of cleanup, gone
  spawning,   \* each actor: the child whose SpawnChild has not returned
  registered, \* the actors in the Registry
  children,   \* each actor: Context.children
  inbox,      \* each actor: the pills in its inbox
  pills,      \* each pill: how far sendPoisonPill is
  cancelled,  \* pills whose context is done
  todo,       \* each actor in cleanup: children not yet waited for
  current,    \* each actor in cleanup: the pill whose cancel is deferred
  (* History, read by no action: *)
  stopped,    \* actors whose receiver has had Stopped from cleanup
  disturbed   \* an actor other than the root was stopped by a caller or died

vars == <<pc, spawning, registered, children, inbox, pills, cancelled, todo, current,
          stopped, disturbed>>

Cleaning == {"delete", "children", "poison", "remove", "stopped", "cancel"}

TypeOK ==
  /\ pc \in [Actors -> Cleaning \cup {"absent", "alive", "gone"}]
  /\ spawning \in [Actors -> Actors \cup {None}]
  /\ registered \subseteq Actors
  /\ children \in [Actors -> SUBSET Actors]
  /\ inbox \in [Actors -> Seq(Pills)]
  /\ pills \in [Pills -> {"new", "checked", "found", "sent", "dead"}]
  /\ cancelled \subseteq Pills
  /\ todo \in [Actors -> SUBSET Actors]
  /\ current \in [Actors -> Pills \cup {None}]
  /\ stopped \subseteq Actors
  /\ disturbed \in BOOLEAN
  /\ \A a \in Actors : children[a] \cup todo[a] \subseteq Kids(a)

Init ==
  /\ pc = [a \in Actors |-> IF a = Root THEN "alive" ELSE "absent"]
  /\ spawning = [a \in Actors |-> None]
  /\ registered = {Root}
  /\ children = [a \in Actors |-> {}]
  /\ inbox = [a \in Actors |-> <<>>]
  /\ pills = [p \in Pills |-> "new"]
  /\ cancelled = {}
  /\ todo = [a \in Actors |-> {}]
  /\ current = [a \in Actors |-> None]
  /\ stopped = {}
  /\ disturbed = FALSE

Goto(a, label) == pc' = [pc EXCEPT ![a] = label]

----------------------------------------------------------------------------
(* SpawnChild: SpawnProc registers the child and starts it ... *)
SpawnProc(c) ==
  /\ pc[c] = "absent"
  /\ pc[Parent[c]] = "alive"
  /\ spawning[Parent[c]] = None
  /\ Goto(c, "alive")
  /\ registered' = registered \cup {c}
  /\ spawning' = [spawning EXCEPT ![Parent[c]] = c]
  /\ UNCHANGED <<children, inbox, pills, cancelled, todo, current, stopped, disturbed>>

(* ... and c.children.Set remembers it *)
SpawnSet(a) ==
  /\ spawning[a] # None
  /\ children' = [children EXCEPT ![a] = @ \cup {spawning[a]}]
  /\ spawning' = [spawning EXCEPT ![a] = None]
  /\ UNCHANGED <<pc, registered, inbox, pills, cancelled, todo, current, stopped, disturbed>>

----------------------------------------------------------------------------
(* sendPoisonPill: the first Registry.get; the context of an unknown       *)
(* target is cancelled at once.                                            *)
Check(p) ==
  /\ pills[p] = "new"
  /\ IF p[2] \in registered
       THEN pills' = [pills EXCEPT ![p] = "checked"] /\ UNCHANGED cancelled
       ELSE pills' = [pills EXCEPT ![p] = "dead"] /\ cancelled' = cancelled \cup {p}

(* Engine.Stop / Engine.Poison from outside the tree *)
Call(p) ==
  /\ p \in Calls
  /\ pc[p[2]] # "absent"
  /\ Check(p)
  /\ disturbed' = (disturbed \/ p[2] # Root)
  /\ UNCHANGED <<pc, spawning, registered, children, inbox, todo, current, stopped>>

(* SendLocal: the second Registry.get *)
Lookup(p) ==
  /\ pills[p] = "checked"
  /\ pills' = [pills EXCEPT ![p] = IF p[2] \in registered THEN "found" ELSE "dead"]
  /\ UNCHANGED <<pc, spawning, registered, children, inbox, cancelled, todo, current,
                 stopped, disturbed>>

(* proc.Send: the pill is pushed, whatever became of the process *)
Push(p) ==
  /\ pills[p] = "found"
  /\ pills' = [pills EXCEPT ![p] = "sent"]
  /\ inbox' = [inbox EXCEPT ![p[2]] = Append(@, p)]
  /\ UNCHANGED <<pc, spawning, registered, children, cancelled, todo, current, stopped,
                 disturbed>>

----------------------------------------------------------------------------
(* Invoke takes a batch; its first pill ends the process and the rest of   *)
(* the batch goes with it.                                                 *)
TakePill(a) ==
  /\ pc[a] = "alive" /\ spawning[a] = None
  /\ inbox[a] # <<>>
  /\ current' = [current EXCEPT ![a] = Head(inbox[a])]
  /\ inbox' = [inbox EXCEPT ![a] = <<>>]
  /\ Goto(a, "delete")
  /\ UNCHANGED <<spawning, registered, children, pills, cancelled, todo, stopped, disturbed>>

(* tryRestart at the limit: cleanup(nil), and the batch is lost *)
MaxRestarts(a) ==
  /\ a \in Crashers
  /\ pc[a] = "alive" /\ spawning[a] = None
  /\ \E lost \in 0..Len(inbox[a]) :
       inbox' = [inbox EXCEPT ![a] = SubSeq(@, lost + 1, Len(@))]
  /\ Goto(a, "delete")
  /\ disturbed' = (disturbed \/ a # Root)
  /\ UNCHANGED <<spawning, registered, children, pills, cancelled, todo, current, stopped>>

(* cleanup: parentCtx.children.Delete *)
CleanupDelete(a) ==
  /\ pc[a] = "delete"
  /\ children' = IF a = Root THEN children
                             ELSE [children EXCEPT ![Parent[a]] = @ \ {a}]
  /\ Goto(a, "children")
  /\ UNCHANGED <<spawning, registered, inbox, pills, cancelled, todo, current, stopped,
                 disturbed>>

(* cleanup: children := p.context.Children() *)
CleanupChildren(a) ==
  /\ pc[a] = "children"
  /\ todo' = [todo EXCEPT ![a] = children[a]]
  /\ Goto(a, "poison")
  /\ UNCHANGED <<spawning, registered, children, inbox, pills, cancelled, current, stopped,
                 disturbed>>

(* cleanup: Poison(pid), for one child at a time in any order *)
PoisonChild(a, c) ==
  /\ pc[a] = "poison"
  /\ c \in todo[a]
  /\ \A d \in todo[a] : pills[<<a, d>>] = "new"
  /\ Check(<<a, c>>)
  /\ UNCHANGED <<pc, spawning, registered, children, inbox, todo, current, stopped, disturbed>>

(* Faulty variant: cleanup goes on without <-Done() *)
ChildNotAwaited(a, c) ==
  /\ c \in todo[a]
  /\ pills[<<a, c>>] \in {"sent", "dead"}
  /\ todo' = [todo EXCEPT ![a] = @ \ {c}]
  /\ UNCHANGED <<pc, spawning, registered, children, inbox, pills, cancelled, current,
                 stopped, disturbed>>

(* cleanup: <-Done() *)
ChildDone(a, c) ==
  /\ c \in todo[a]
  /\ <<a, c>> \in cancelled
  /\ todo' = [todo EXCEPT ![a] = @ \ {c}]
  /\ UNCHANGED <<pc, spawning, registered, children, inbox, pills, cancelled, current,
                 stopped, disturbed>>

(* cleanup: every child was waited for; p.inbox.Stop() *)
CleanupStop(a) ==
  /\ pc[a] = "poison"
  /\ todo[a] = {}
  /\ Goto(a, "remove")
  /\ UNCHANGED <<spawning, registered, children, inbox, pills, cancelled, todo, current,
                 stopped, disturbed>>

(* cleanup: Registry.Remove(p.pid) *)
CleanupRemove(a) ==
  /\ pc[a] = "remove"
  /\ registered' = registered \ {a}
  /\ Goto(a, "stopped")
  /\ UNCHANGED <<spawning, children, inbox, pills, cancelled, todo, current, stopped, disturbed>>

(* cleanup: the receiver gets Stopped *)
CleanupStopped(a) ==
  /\ pc[a] = "stopped"
  /\ stopped' = stopped \cup {a}
  /\ Goto(a, "cancel")
  /\ UNCHANGED <<spawning, registered, children, inbox, pills, cancelled, todo, current,
                 disturbed>>

(* Faulty variant: cancel is never called *)
CleanupNoCancel(a) ==
  /\ pc[a] = "cancel"
  /\ Goto(a, "gone")
  /\ UNCHANGED <<spawning, registered, children, inbox, pills, cancelled, todo, current,
                 stopped, disturbed>>

(* cleanup: defer cancel() *)
CleanupCancel(a) ==
  /\ pc[a] = "cancel"
  /\ cancelled' = cancelled \cup ({current[a]} \ {None})
  /\ Goto(a, "gone")
  /\ UNCHANGED <<spawning, registered, children, inbox, pills, todo, current, stopped, disturbed>>

----------------------------------------------------------------------------
Deliver(p) == Lookup(p) \/ Push(p)
Step(a) ==
  \/ SpawnSet(a) \/ TakePill(a)
  \/ CleanupDelete(a) \/ CleanupChildren(a)
  \/ \E c \in Kids(a) : PoisonChild(a, c) \/ ChildDone(a, c)
  \/ CleanupStop(a) \/ CleanupRemove(a) \/ CleanupStopped(a) \/ CleanupCancel(a)

Next ==
  \/ \E c \in Actors \ {Root} : SpawnProc(c)
  \/ \E p \in Pills : Call(p) \/ Deliver(p)
  \/ \E a \in Actors : MaxRestarts(a) \/ Step(a)

Spec == Init /\ [][Next]_vars

(* Goroutines that have something to do are run.  Nobody has to spawn,     *)
(* call Stop or panic.                                                     *)
FairSpec ==
  /\ Spec
  /\ \A p \in Pills : WF_vars(Deliver(p))
  /\ \A a \in Actors : WF_vars(Step(a))
----------------------------------------------------------------------------
(* process.go cleanup, <-Poison(pid).Done(): when a parent is told Stopped *)
(* no child of it is alive without it, and, if nobody else has stopped one *)
(* of the actors, every child it ever had has been told Stopped before.    *)
ChildrenFirst ==
  \A a \in stopped : \A c \in Kids(a) :
    /\ pc[c] # "alive"
    /\ ~disturbed /\ pc[c] # "absent" => c \in stopped

(* process.go cleanup: a tree in which only the root is stopped from       *)
(* outside, by any number of callers, shuts down completely.               *)
TreeStops ==
  pc[Root] \in Cleaning ~> (disturbed \/ \A a \in Actors : pc[a] \in {"absent", "gone"})

(* context.go SpawnChild, "If the parent process dies, all the children    *)
(* will be automatically shutdown gracefully. Hence, all children will     *)
(* receive the Stopped message."                                           *)
ChildrenStopped ==
  \A c \in Actors \ {Root} :
    pc[Parent[c]] \in Cleaning /\ pc[c] # "absent" ~> c \in stopped
=============================================================================
