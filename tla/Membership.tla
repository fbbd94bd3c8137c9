----------------------------- MODULE Membership ------------------------------
(***************************************************************************)
(* The self-managed provider of every node of a cluster                    *)
(* (cluster/selfmanaged.go), with what it lives on: its mailbox and its    *)
(* restarts (actor/process.go), the streams to the other hosts             *)
(* (remote/stream_router.go, stream_writer.go), the mDNS browser, and the  *)
(* agent it tells about the members (cluster/agent.go, handleMembers).     *)
(*                                                                         *)
(* A member is identified with its host: every node keeps its ID and its   *)
(* address over a restart of the machine.  A host that is not one of the   *)
(* Nodes may listen, and runs no cluster.  The steps inside a stream       *)
(* writer and inside a process are in Streams and Process; here a process  *)
(* handles a message in one step.  The stream to a host is none, or has a  *)
(* writer that dials, is up or is broken; ending or again while a writer   *)
(* that has told the router of its end is still registered, with nothing   *)
(* or with something for the host in the router's inbox behind that; or a  *)
(* hole: the router keeps the PID of a writer that does not exist.         *)
(***************************************************************************)
EXTENDS Naturals, Sequences

CONSTANTS
    Nodes,          \* the hosts on which a cluster may run
    Hosts,          \* all addresses
    Bootstrap,      \* [Nodes -> SUBSET Hosts], config.bootstrapMembers
    Visible,        \* pairs <<n, m>>: the mDNS browser of n can see m
    MaxRestarts,    \* Opts.MaxRestarts of the provider's process
    MaxPending,     \* bound: messages waiting at a provider that pings
    MaxFaults       \* bound on the crashes and broken connections of a behaviour

ASSUME MembershipAssumption ==
    /\ Nodes \subseteq Hosts
    /\ Bootstrap \in [Nodes -> SUBSET Hosts]
    /\ \A n \in Nodes : n \notin Bootstrap[n]
    /\ Visible \subseteq Nodes \X Nodes
    /\ {MaxRestarts, MaxPending, MaxFaults} \subseteq Nat

VARIABLES
    up,         \* [Hosts -> BOOLEAN]: the remote of the host listens
    prov,       \* [Nodes -> ...]: "none" yet, "runs", "restarting" or "gone"
    restarts,   \* [Nodes -> Nat]: process.restarts of the provider
    members,    \* [Nodes -> SUBSET Hosts]: SelfManaged.members
    inbox,      \* [Nodes -> Seq(messages)]: the provider's inbox
    events,     \* [Nodes -> Seq(Hosts)]: RemoteUnreachableEvents at its "event" child
    found,      \* [Nodes -> SUBSET Nodes]: what Browse has reported
    link,       \* [Nodes -> [Hosts -> [st, q]]]: the stream to a host
    agent,      \* [Nodes -> SUBSET Hosts]: Agent.members
    faults,
    failed      \* pairs of nodes <<n, m>>: a stream from n to m has failed

provider == <<prov, restarts, members, inbox, found>>
vars == <<up, provider, events, link, agent, faults, failed>>

Handshake(n) == [type |-> "handshake", from |-> n, members |-> {n}]
Members(n, ms) == [type |-> "members", from |-> n, members |-> ms]
memberLeave(h) == [type |-> "leave", from |-> h, members |-> {}]

Idle == [st |-> "none", q |-> <<>>]

\* Remote.Send and deliverStream: the router starts a writer for a host that has
\* none.  A Ping has an empty handler, so all it does is that.
Open(l) ==
    CASE l.st = "none" -> [l EXCEPT !.st = "dial"]
      [] l.st = "ending" -> [l EXCEPT !.st = "again"]
      [] OTHER -> l

\* What goes into a hole is a dead letter.
Send(n, hs, msg) ==
    link' = [link EXCEPT ![n] = [h \in Hosts |->
                IF h \in hs /\ @[h].st # "hole"
                THEN [Open(@[h]) EXCEPT !.q = Append(@, msg)] ELSE @[h]]]

\* Agent.handleMembers: who is new in the update joins, who is left out leaves.
handleMembers(view, ms) ==
    LET joined == ms \ view
        left == view \ ms
    IN (view \cup joined) \ left

\* The agent's mailbox is first in, first out, and its view depends on the last
\* update only: agent is the view it is on its way to.
sendMembersToAgent(n, ms) == agent' = [agent EXCEPT ![n] = handleMembers(@, ms)]

-----------------------------------------------------------------------------
Init ==
    /\ up = [h \in Hosts |-> FALSE]
    /\ prov = [n \in Nodes |-> "none"]
    /\ restarts = [n \in Nodes |-> 0]
    /\ members = [n \in Nodes |-> {}]
    /\ inbox = [n \in Nodes |-> <<>>]
    /\ events = [n \in Nodes |-> <<>>]
    /\ found = [n \in Nodes |-> {}]
    /\ link = [n \in Nodes |-> [h \in Hosts |-> Idle]]
    /\ agent = [n \in Nodes |-> {}]
    /\ faults = 0
    /\ failed = {}

\* A mutant of Started that relies on being greeted.
StartedQuietly(n) ==
    /\ prov' = [prov EXCEPT ![n] = "runs"]
    /\ members' = [members EXCEPT ![n] = {n}]
    /\ found' = [found EXCEPT ![n] = {}]
    /\ sendMembersToAgent(n, {n})
    /\ UNCHANGED link

\* The provider gets Started: a new SelfManaged, with itself as only member,
\* subscribes to the events, greets the bootstrap members and starts to browse.
Started(n) ==
    /\ prov' = [prov EXCEPT ![n] = "runs"]
    /\ members' = [members EXCEPT ![n] = {n}]
    /\ found' = [found EXCEPT ![n] = {}]
    /\ sendMembersToAgent(n, {n})
    /\ Send(n, Bootstrap[n], Handshake(n))

\* cluster.New creates the engine and starts its remote.
New(h) ==
    /\ ~up[h]
    /\ up' = [up EXCEPT ![h] = TRUE]
    /\ UNCHANGED <<provider, events, link, agent, faults, failed>>

\* Cluster.Start spawns the agent and the provider.
Start(n) ==
    /\ up[n] /\ prov[n] = "none"
    /\ Started(n)
    /\ UNCHANGED <<up, restarts, inbox, events, faults, failed>>

\* tryRestart, after Stopped and RestartDelay.
Restart(n) ==
    /\ prov[n] = "restarting"
    /\ Started(n)
    /\ UNCHANGED <<up, restarts, inbox, events, faults, failed>>

\* A panic in Receive.  Until MaxRestarts is reached the process restarts and
\* keeps its inbox; then cleanup stops it for good, its child with it.
Panic(n, rest) ==
    /\ IF restarts[n] < MaxRestarts
       THEN /\ prov' = [prov EXCEPT ![n] = "restarting"]
            /\ restarts' = [restarts EXCEPT ![n] = @ + 1]
            /\ inbox' = [inbox EXCEPT ![n] = rest]
            /\ UNCHANGED events
       ELSE /\ prov' = [prov EXCEPT ![n] = "gone"]
            /\ inbox' = [inbox EXCEPT ![n] = <<>>]
            /\ events' = [events EXCEPT ![n] = <<>>]
            /\ UNCHANGED restarts
    /\ UNCHANGED <<members, link, agent>>

ReceiveHandshake(n, msg) ==
    LET ms == members[n] \cup msg.members
    IN /\ members' = [members EXCEPT ![n] = ms]
       /\ sendMembersToAgent(n, ms)
       /\ Send(n, {msg.from}, Members(n, ms))
       /\ inbox' = [inbox EXCEPT ![n] = Tail(@)]
       /\ UNCHANGED <<prov, restarts, events>>

ReceiveMembers(n, msg) ==
    LET ms == members[n] \cup msg.members
    IN /\ members' = [members EXCEPT ![n] = ms]
       /\ sendMembersToAgent(n, ms)
       /\ inbox' = [inbox EXCEPT ![n] = Tail(@)]
       /\ UNCHANGED <<prov, restarts, events, link>>

\* A mutant of ReceiveLeave that keeps the change from the agent.
ReceiveLeaveSilently(n, msg) ==
    IF msg.from \in members[n]
    THEN /\ members' = [members EXCEPT ![n] = @ \ {msg.from}]
         /\ inbox' = [inbox EXCEPT ![n] = Tail(@)]
         /\ UNCHANGED <<prov, restarts, events, link, agent>>
    ELSE Panic(n, Tail(inbox[n]))

\* GetByHost finds no member with the host of an event that comes twice, or
\* about a host that never answered, and removeMember dereferences nil.
ReceiveLeave(n, msg) ==
    IF msg.from \in members[n]
    THEN /\ members' = [members EXCEPT ![n] = @ \ {msg.from}]
         /\ sendMembersToAgent(n, members[n] \ {msg.from})
         /\ inbox' = [inbox EXCEPT ![n] = Tail(@)]
         /\ UNCHANGED <<prov, restarts, events, link>>
    ELSE Panic(n, Tail(inbox[n]))

Receive(n) ==
    /\ prov[n] = "runs"
    /\ inbox[n] # <<>>
    /\ LET msg == Head(inbox[n])
       IN \/ msg.type = "handshake" /\ ReceiveHandshake(n, msg)
          \/ msg.type = "members" /\ ReceiveMembers(n, msg)
          \/ msg.type = "leave" /\ ReceiveLeave(n, msg)
    /\ UNCHANGED <<up, found, faults, failed>>

\* memberPing: a Ping to every member but the node itself.
MemberPing(n) ==
    /\ prov[n] = "runs"
    /\ Len(inbox[n]) + Len(events[n]) < MaxPending
    /\ link' = [link EXCEPT ![n] = [h \in Hosts |->
                   IF h \in members[n] \ {n} THEN Open(@[h]) ELSE @[h]]]
    /\ UNCHANGED <<up, provider, events, agent, faults, failed>>

\* The browser of n reports an instance that is announced, once per Browse.
Discover(n, m) ==
    /\ <<n, m>> \in Visible
    /\ prov[n] = "runs" /\ prov[m] = "runs"
    /\ m \notin found[n]
    /\ found' = [found EXCEPT ![n] = @ \cup {m}]
    /\ Send(n, {m}, Handshake(n))
    /\ UNCHANGED <<up, prov, restarts, members, inbox, events, agent, faults, failed>>

\* handleEventStream: the child passes an event on to the provider.
HandleEventStream(n) ==
    /\ events[n] # <<>>
    /\ inbox' = [inbox EXCEPT ![n] = Append(@, memberLeave(Head(events[n])))]
    /\ events' = [events EXCEPT ![n] = Tail(@)]
    /\ UNCHANGED <<up, prov, restarts, members, found, link, agent, faults, failed>>

-----------------------------------------------------------------------------
(* The streams.                                                             *)

\* streamWriter.Shutdown: the router is told, and the event is broadcast; it
\* reaches the child while the provider is subscribed.  What the writer was given
\* is lost.
Unreachable(n, h, st) ==
    /\ link' = [link EXCEPT ![n][h] = [st |-> st, q |-> <<>>]]
    /\ events' = IF prov[n] = "runs" THEN [events EXCEPT ![n] = Append(@, h)] ELSE events
    /\ failed' = failed \cup ({<<n, h>>} \cap (Nodes \X Nodes))

\* The writer is started, and dials, in the router's goroutine: when Shutdown has
\* to be called the router finds the end of the writer behind all it did not
\* handle meanwhile, and the writer out of the registry.
Dial(n, h) ==
    /\ link[n][h].st = "dial"
    /\ \/ up[h] /\ link' = [link EXCEPT ![n][h].st = "up"] /\ UNCHANGED <<events, failed>>
       \/ ~up[h] /\ Unreachable(n, h, "none")
    /\ UNCHANGED <<up, provider, agent, faults>>

\* The reader at m hands the message to the provider, if there is one.
Deliver(n, m) ==
    /\ link[n][m].st = "up" /\ link[n][m].q # <<>>
    /\ link' = [link EXCEPT ![n][m].q = Tail(@)]
    /\ inbox' = IF prov[m] \in {"none", "gone"} THEN inbox
                ELSE [inbox EXCEPT ![m] = Append(@, Head(link[n][m].q))]
    /\ UNCHANGED <<up, prov, restarts, members, found, events, agent, faults, failed>>

\* The goroutine at conn.Closed calls Shutdown, which tells the router ...
Lost(n, h) ==
    /\ link[n][h].st = "broken"
    /\ Unreachable(n, h, "ending")
    /\ UNCHANGED <<up, provider, agent, faults>>

\* ... and at its end takes the writer out of the registry: the next message
\* starts another writer.
Removed(n, h) ==
    /\ link[n][h].st \in {"ending", "again"}
    /\ link' = [link EXCEPT ![n][h].st = IF @ = "again" THEN "dial" ELSE "none"]
    /\ UNCHANGED <<up, provider, events, agent, faults, failed>>

\* deliverStream in between: the registry refuses the new writer as a duplicate,
\* the router keeps its PID, and the message goes to the one that ends.
Refused(n, h) ==
    /\ link[n][h].st = "again"
    /\ link' = [link EXCEPT ![n][h] = [st |-> "hole", q |-> <<>>]]
    /\ UNCHANGED <<up, provider, events, agent, faults, failed>>

\* The connection breaks although both nodes live.
Cut(n, m) ==
    /\ faults < MaxFaults
    /\ faults' = faults + 1
    /\ link[n][m].st = "up"
    /\ link' = [link EXCEPT ![n][m].st = "broken"]
    /\ UNCHANGED <<up, provider, events, agent, failed>>

\* A node dies with everything on it; what was connected to it is broken.
Crash(n) ==
    /\ faults < MaxFaults
    /\ faults' = faults + 1
    /\ up[n]
    /\ up' = [up EXCEPT ![n] = FALSE]
    /\ prov' = [prov EXCEPT ![n] = "none"]
    /\ restarts' = [restarts EXCEPT ![n] = 0]
    /\ members' = [members EXCEPT ![n] = {}]
    /\ inbox' = [inbox EXCEPT ![n] = <<>>]
    /\ events' = [events EXCEPT ![n] = <<>>]
    /\ found' = [found EXCEPT ![n] = {}]
    /\ agent' = [agent EXCEPT ![n] = {}]
    /\ link' = [m \in Nodes |-> [h \in Hosts |->
                   IF m = n THEN Idle
                   ELSE IF h = n /\ link[m][h].st = "up"
                   THEN [link[m][h] EXCEPT !.st = "broken"] ELSE link[m][h]]]
    /\ UNCHANGED failed

Next ==
    \/ \E h \in Hosts : New(h)
    \/ \E n \in Nodes :
        \/ Start(n) \/ Restart(n) \/ Receive(n) \/ MemberPing(n)
        \/ HandleEventStream(n) \/ Crash(n)
        \/ \E m \in Nodes : Discover(n, m) \/ Deliver(n, m) \/ Cut(n, m)
        \/ \E h \in Hosts : Dial(n, h) \/ Lost(n, h) \/ Removed(n, h) \/ Refused(n, h)

\* What a running node does goes on: its actors handle their messages, the
\* pinger ticks, the writers dial and notice a dead connection, and the browser
\* reports what is announced.
Fairness ==
    \A n \in Nodes :
        /\ WF_vars(Restart(n)) /\ WF_vars(Receive(n)) /\ WF_vars(MemberPing(n))
        /\ WF_vars(HandleEventStream(n))
        /\ \A m \in Nodes : WF_vars(Discover(n, m)) /\ WF_vars(Deliver(n, m))
        /\ \A h \in Hosts : /\ WF_vars(Dial(n, h)) /\ WF_vars(Lost(n, h))
                             /\ WF_vars(Removed(n, h))

Spec == Init /\ [][Next]_vars /\ Fairness

-----------------------------------------------------------------------------
Alive(n) == prov[n] \in {"runs", "restarting"}

\* selfmanaged.go memberPing, "RemoteUnreachableEvent": a node that dies and does
\* not come back leaves the view of every agent whose provider lives, although
\* late Members replies of others may bring it back in between: the next ping
\* notices it, unless the router has a hole for the host.
DeadIsDropped ==
    \A n \in Nodes : \A h \in Hosts \ {n} :
        <>[](~up[h]) => <>[](Alive(n) => h \notin agent[n] \/ link[n][h].st = "hole")

\* Two nodes whose providers live in the end and that never failed to reach each
\* other list each other in the end, also when an unreachable third host has made
\* a provider panic and forget its members.
Rejoin ==
    \A n, m \in Nodes :
        <>[](Alive(n) /\ Alive(m)) =>
            \/ <>({<<n, m>>, <<m, n>>} \cap failed # {})
            \/ <>[](m \in agent[n] /\ n \in agent[m])

\* README.md, "Cluster support for distributed, self-discovering actors": where no
\* node dies and no connection breaks, two nodes that have both been started find
\* each other, whichever was started first.
Discovers ==
    \A n, m \in Nodes :
        [](faults = 0) /\ <>[]("none" \notin {prov[n], prov[m]}) =>
            <>[](m \in agent[n] /\ n \in agent[m])
=============================================================================
