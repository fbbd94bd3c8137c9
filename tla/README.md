# Specifications of go-actors

TLA+ specifications of the actor engine in `src/`: its queue and inboxes, the
life of a process, supervision trees, requests and events, the streams between
nodes and the bytes on them, the members and agents of a cluster, and the start
and stop of a node. TLC checks them on small instances; TLAPS proves all safety
properties and refinements, but those of the bytes, for every instance.

    tlc -config Provider.cfg Provider       # one model-checking run
    tlapm ProcessProofs.tla                 # the proofs of one module

`PROJECT.json` lists the runs, the lines of code each definition stands for, the
hazards, the findings and the theorems.

## The system

| part | source | state | operations |
|---|---|---|---|
| MPSC queue | `mpsc/mpsc.go` | linked nodes, head, tail, length counter, node pool | Push (any goroutine), PopBatch, Pop (one consumer), Len |
| inbox | `actor/inbox.go` | `procStatus`, `proc`, `batch`, the queue | Send, Start, Stop, schedule, process, run |
| process | `actor/process.go` | `mbuffer`, `restarts`, the receiver | Start, Invoke, tryRestart, cleanup, Send |
| context | `actor/context.go`, `safemap/` | parent, children, current message | SpawnChild, Respond, Forward, Child |
| engine, registry | `actor/engine.go`, `registry.go` | processes and responses by ID | Spawn, Send, Request, Stop, Poison, Subscribe |
| response | `actor/response.go` | a channel of capacity 1 | Result, Send |
| event stream | `actor/event_stream.go` | the subscribers | eventSub, eventUnsub, forward anything else |
| stream router | `remote/stream_router.go` | address -> PID of a writer | deliverStream, handleTerminateStream |
| stream writer | `remote/stream_writer.go` | connection, inbox | init (dial), Invoke (encode, send), Shutdown |
| stream reader | `remote/stream_reader.go` | | Receive (decode, SendLocal) |
| remote | `remote/remote.go` | state, stop channel | Start, Stop, Send |
| serializer | `remote/serialize.go` | | TypeName, Serialize, Deserialize of `ProtoSerializer` |
| generated code | `*_vtproto.pb.go`, `remote_drpc.pb.go` | | marshal, size, unmarshal, equality, clone of 19 messages; Recv |
| repeater | `actor/engine.go`, `context.go` | a ticker and a channel | SendRepeat, Stop |
| agent | `cluster/agent.go` | members, activated actors, kinds | Activate, Deactivate, Members, Activation, ActorTopology, ActivationRequest |
| cluster | `cluster/cluster.go` | engine, agent and provider PIDs | Start, Stop, Spawn, Activate, Deactivate, Members |
| providers | `cluster/selfmanaged.go`, `consul_provider.go` | members seen | handshake, ping, leave; watch, TTL |
| helpers | `ringbuffer/`, `actor/pid_map.go`, `cluster/member_set.go` | collections | |

A message goes from `Engine.Send` through the registry into the inbox of a
process. Whoever finds the inbox idle starts a goroutine that hands batches to
`process.Invoke`. A process that panics keeps the rest of its batch in `mbuffer`
and starts again, up to `MaxRestarts` times; a poison pill ends it, after its
children. A message for another address goes to the stream router, which spawns
one writer per address; the reader on the other node sends it on locally. The
agents of a cluster are actors that talk over those streams; a provider, one more
actor on each node, finds the other nodes and tells its agent who is a member.

What makes it hard: the inbox hands over without a lock; Start, Invoke and
tryRestart call each other; stopping goes through two registry lookups and a pill
that competes with other pills; the registry knows processes by ID only;
timeouts race answers; writers come and go while the router keeps their PIDs; an
agent learns of its own activations by mail, and handles nothing while it waits.

## Modules

Every module follows the same plan: VARIABLES for the fields of the Go types
(and, set apart, history that no action reads), one action per statement another
goroutine can observe, `Spec`, `FairSpec`, then the properties. Definitions
marked *Faulty* belong to no specification: each is a plausible mistake in
the action below it, used to see that a property would notice.

    Mpsc ==implements==> MpscQueue <--extends-- Inbox ==implements==> Mailbox
                                                                          |
                                                              Process, Streams (its guarantees)
    Supervision    Messaging    StreamCodec <--extends-- Streams    Agent
    Wire <-- ActorWire <-- RemoteWire, ClusterWire <--extend-- Codec
    Process <--extends-- Provider    Membership (on the guarantees of Process, Streams)
    Lifecycle
    XProofs --extends--> X   for X = Mpsc, Inbox, Supervision, Messaging, Streams,
                                     Agent, Lifecycle
    ProcessProofs --extends--> Provider

* **MpscQueue** is what the queue promises: a place is reserved by the swap of
  the tail, linked, then counted; an unlinked slot hides those behind it; the
  counter lags behind. **Mpsc** is the code: nodes, `next` pointers, sentinel, the
  `sync.Pool` as a finite set of nodes, and every atomic access a step. Pop is
  PopBatch with n = 1, since its statements are the same in the same order.
* **Mailbox** is what an inbox promises: each message at most once, in order, one
  batch at a time, at most one batch after Stop. **Inbox** is the code on top of
  MpscQueue, with senders, the goroutine in Start, Stop and the workers of
  `schedule`. Start is called once, before Stop, as `streamWriter` does; the
  other use is in Process. `Gosched` and the throughput do not change state.
* **Process** is one process with its inbox, its registry entry, the spawner, the
  senders and the callers of Stop and Poison. The recursion of Start, Invoke and
  tryRestart needs no stack: an Invoke that has recovered only returns, so the
  number of Start calls that wait for `Invoke(mbuffer)` (`depth`) says what is
  left to do. Push with schedule, and `Inbox.Start`, are single steps here because
  Inbox has their interleavings; PopBatch takes all there is (the code's limit is
  4096). Receivers do not panic on Stopped, Producers do not panic.
* **Provider** is Process with the receivers of a cluster node: the agent, an
  arbitrary one, or the self-managed provider, which starts a SendRepeater on
  Started and stops it on Stopped. Each action of Process is taken over with what
  the receiver does in it; a second Stop of one SendRepeater panics, and the
  program ends. `Cluster.Stop` is a Poison of each of the two processes.
* **Supervision** is a tree of processes: SpawnChild in its two steps, the
  children map, cleanup statement by statement, pills of callers and of dying
  parents. User messages, restarts that succeed and the reopening of an inbox are
  in Process and left out here.
* **Messaging** is one engine: Request and Result with a timeout at any
  moment, a server that may stop, replies through the registry, dead letters, and
  the event stream with a subscriber that may unsubscribe (with the `*PID` it
  subscribed with) and may stop, in either order or without the other.
* **StreamCodec** is the envelope with its tables as operators; **Streams** is the
  router, the writers of one address, their connections and the reader. Dialing
  is its outcome; a connection may break at any moment, an envelope under way then
  arrives or not. A message that is not serializable is one that `proto.Marshal`
  refuses, which leaves a hole in the envelope, or no protobuf message at all,
  which makes the type assertion of `ProtoSerializer` panic and ends the program.
  A failing SetDeadline after a successful dial is left out.
* **Agent** is the agents of a cluster and the API calls made to them, with one
  kind of actor. Channels between agents are reliable and in order, the provider is
  the sequence of member sets it sends, a node's ID is its host, and Poison takes
  effect at once. The calls are scripted (`Plans`), so that a run considers a few
  small scenarios in all interleavings.

* **Wire** is what the generated code repeats in every message: varints, tags,
  fields of each kind and their sizes, the loop over the elements of a message,
  skip of a field that is not known. **ActorWire**, **RemoteWire** and
  **ClusterWire** are the generated methods of the 19 messages, one line per field in
  place of some thirty. **Codec** sends messages of one type: possibly cloned first,
  marshalled, broken off on the way or passed on by a relay built from a schema
  with fewer fields, and decoded by `Recv` into a fresh message. Bytes are numbers,
  a string is a sequence of them, lengths reach into two-byte varints. At run time
  this encoding carries the Envelope with its Messages and PIDs, and SendRepeat
  clones PIDs; the payloads are marshalled by the protobuf library. The methods of
  the other types (**ClusterWire** above all) are part of the repository, and of
  Codec, without being on the path of a message.
* **Membership** is the self-managed provider of every node with its inbox, its
  restarts, the stream to each host and the agent's view. Crashes, connections that
  break, hosts that are down and mDNS reports at any time are part of it. A
  stream writer shuts down in two steps, the end of which the router learns first
  and the registry last, so that a message in between can leave the router with the
  PID of a writer that does not exist (`hole`). Since the agent's view depends on
  the latest update only, `agent` is the view it is on its way to.
* **Lifecycle** is the remote seen from the goroutines that start and stop it:
  `NewEngine` with `Remote.Start` statement by statement, and
  `Remote.Stop().Wait()`.

`MC*` modules give constants their values where a cfg cannot.

## Runs

| run | instance | distinct states | shows |
|---|---|---|---|
| `mpsc` | 2 producers, 2 values, batches of 1 and 2, 3 nodes | 167 thousand | RecycleSafe, RefinesQueue, Consumed |
| `inbox` | 2 senders with 2 messages each, 2 workers, batch 2 | 83 thousand | SingleConsumer, NoLostWakeup, CountExact, RefinesMailbox, SentIsHandled |
| `process` | an arbitrary receiver and the provider; 2 messages, a Stop and a Poison, at most 4 calls, panics of both sorts, MaxRestarts 1 | 707 thousand | InOrder, GracefulDrains, DoneMeansGone, OnePinger, OnlyWhileStarted, ReplayBehindPill, AcceptedIsReceived, StopTakesEffect, LonePillCompletes, ClusterStopReturns |
| `supervision` | root, two children, a grandchild, 3 calls of Stop, 2 actors that may fail | 646 thousand | ChildrenFirst, TreeStops |
| `messaging` | 2 requests, 1 subscriber, 1 message for an address without remote | 250 thousand | OwnReply, ReplyNeverBlocks, Notified, EventsCease |
| `streams` | 4 messages: one without sender, one of an unknown type, one that does not serialize | 163 thousand | Faithful, OnceInOrder, OneWriter, Settled |
| `agent` | 2 nodes, 1 ID, 3 calls in two scenarios, a join and a leave | 235 thousand | OnlySpawned, SequentialUnique, Announced, DeactivateStops |
| `codec` | 19 message types, every cut of a frame, three pairs of schemas | 36 thousand | RoundTrip, CutIsNoticed, Canonical |
| `membership` | 2 nodes, a third host, one of the nodes visible by mDNS, MaxRestarts 1, 1 fault | 355 thousand | DeadIsDropped, Rejoin |
| `lifecycle` | 3 Remote.Start, 3 Remote.Stop | 159 thousand | StoppedIsClosed, StopReturns |

Two more runs, `process_two_consumers` and `membership_discovery`, show a property
that the repository's own words state and that the code does not have; see
*Findings*. The `TypeOK` of a module says what its variables range over; it is
part of the invariants proved of Mpsc, Inbox, Process, Supervision and Agent.

Several properties of stopping are conditional, and the condition is the point:
they name the circumstances in which the code keeps no promise. LonePillCompletes:
the context of a pill ends unless the receiver panics or another pill is sent.
StopReturns: `Remote.Stop` returns if Start had succeeded and no other Stop
overlaps. ClusterStopReturns: the contexts `Cluster.Stop` waits for end, and the
pinger with them, unless somebody else stops the process too, the restarts are used
up, or a message behind the pill panics in the graceful loop, which loses the pill.
ReplayBehindPill: a message that was handled is handled again only behind a graceful
pill. OnePinger: a pinger is stopped twice only after a stopped inbox was opened
again. EventsCease: the event stream comes to rest unless somebody has stopped and
stays subscribed. Settled: a message ends somewhere (one for the PID of a writer that
does not exist as a dead letter) unless the program ends in a panic. DeadIsDropped: a
node that stays dead leaves the view of every agent, but for one behind such a PID,
about which no event comes any more. SequentialUnique: an earlier call counts if it
announced its actor to the node, which a Spawn whose `Members()` timed out does not.
Rejoin: nodes find each other again unless a stream between the two has failed, for
the code never greets a member twice.

**Why the bounds are enough to be interesting.** Two producers suffice for a gap
in the linked list with a value behind it, and three nodes make every node be
recycled. Two workers suffice for the one that leaves and the one that is
created meanwhile; the proofs remove this bound. With MaxRestarts 1 a process
is restarted, and reaches the limit; two messages and two pills leave something
behind the failing message and something for a later batch. In the tree there is a parent that is itself a
child. Four messages allow up to four writers of one address in turn. Two nodes
and two activations suffice for each agent to wait for the other. In Codec values
are chosen per type so that every field is absent, small, or long enough for a
two-byte length. In Membership the third host may be down, listen without a
cluster, or come up late; MaxPending stops the pinger while that many messages wait,
which only removes pings that would find a full queue. In Lifecycle three Starts and
three Stops allow a Stop that waits, one that overlaps it, and a Start after both.

**Fairness.** The Go scheduler runs every goroutine that can run, so every goroutine
has weak fairness for the statements of a call it has begun, and receivers return.
Nobody has to send, spawn, stop, subscribe or panic, and connections need not
break. In Mpsc the consumer polls. In Agent a wait for a response is fair, as
`requestTimeout` is finite, and so are the reliable channels. In
Membership the pinger ticks and writers notice a dead connection, by their timers;
in Provider a select with a closed channel takes that case in the end, since Go
chooses at random among the cases that are ready. Deadlock is not
checked where the system may simply have nothing left to do; Mpsc checks it.

## Proofs

Every invariant, action property and refinement that a passing run checks is also
proved, for all values of the constants, except those of Codec. The constants are
constrained by the `ASSUME` of each module only: sizes are natural numbers, batches
are not empty, sets of names that the code keeps apart are disjoint, and the senders
of an inbox are finitely many. The number of goroutines, messages, pills, actors,
requests, writers, nodes and calls is arbitrary, and so is the shape of the tree.

| module | theorem | states |
|---|---|---|
| MpscProofs | `RecyclingIsSafe`, `MpscRefinesQueue` | RecycleSafe, RefinesQueue |
| InboxProofs | `OneConsumer`, `CountIsExact`, `WakeupNotLost`, `InboxRefinesMailbox`, `ProcIsVisible`, `TypeCorrect` | SingleConsumer, CountExact, NoLostWakeup, RefinesMailbox, ProcVisible, TypeOK |
| ProcessProofs | `ReceivedInOrder`, `PoisonDrains`, `DoneIsGone`, `StartedReceivesOnly`, `ReplayOnlyBehindPill`, `OnePingerRuns`, `ProviderIsProcess` | InOrder, GracefulDrains, DoneMeansGone, OnlyWhileStarted, ReplayBehindPill, OnePinger, Spec of Process |
| SupervisionProofs | `ChildrenStopFirst` | ChildrenFirst |
| MessagingProofs | `OwnReplySafe`, `ReplyNeverBlocksSafe` | OwnReply, ReplyNeverBlocks |
| StreamsProofs | `DeliveredOnceInOrder`, `DeliveredAsSent`, `WritersFollowEachOther`, `EnvelopesAreFaithful` | OnceInOrder, Faithful, OneWriter, FaithInv |
| AgentProofs | `NoPhantoms`, `SequentialActivations` | OnlySpawned, SequentialUnique |
| LifecycleProofs | `StopCloses` | StoppedIsClosed |

Each rests on an inductive invariant, which TLC checked on the instance of the run
before it was proved. One step per action shows that it is kept; what helpers do to
sequences is in lemmas before that. Why the invariants say more than the properties:

* **Mpsc** (`MpscInv`). A state in which a producer owns a node that is also in the
  list satisfies RecycleSafe for one more step. `ChainOK` says that the nodes from
  the sentinel to the tail are a list without repetition in which a link is missing
  only where a producer is between Swap and Store; `PushOK` and `PoolOK` that nodes
  outside are owned by one producer or are in the pool and cleared; `TrailOK` that
  the nodes which PopBatch still has to recycle are those from the old sentinel to
  the new one and nobody else's. The refinement maps the list behind the sentinel
  to slots: the swap is Reserve, the store is Link, the end of the scan is
  Take, the two additions are Count and Settle, and all else stutters.
* **Inbox** (`Inv`). An idle inbox with a worker in `run` satisfies SingleConsumer,
  and the next `schedule` breaks it. `TokenInv` says that `running` is a token
  which exactly one worker holds, and `StartInv` that nobody holds it before Start
  has set `in.proc`. For the lost wake-up, `WakeupInv` says that an idle inbox with
  a message has somebody *awake*: a sender that has yet to call `schedule`, a
  worker that has yet to look at `Len`, or the starter. The critical step is the
  worker that reads `Len() <= 0` and leaves. There `CountExact` is needed: a counter
  that is not positive with a message in the queue means that some sender is still
  inside Push, and that sender will schedule. `BatchInv` adds what the
  refinement needs of the worker's batch.
* **Process** (`ProcessInv`). `ControlInv` is about who does what: as long as the
  inbox was not reopened at most one goroutine is in the process (`OneBusy`), and
  after `inbox.Stop` that one only finishes cleanup. `DataInv` cuts the pushes into
  three parts: given to the receiver, *pending* at the busy goroutine
  (its batch from `nproc` on, or `mbuffer` while it restarts), and queued.
  InOrder is that the first part comes before the others; GracefulDrains and
  ReplayBehindPill follow from where the graceful loop stands in the second
  (`DrainInv`, `ReplayInv`). That picture holds until the inbox is stopped; what
  it gives the properties (`SentInv`, `OrderInv`, `PillInv`) stays until the inbox is
  reopened. Every step of Provider is one of Process (`ProviderIsProcess`), so all
  this holds of the provider; `ProviderInv` adds which of its receivers has a pinger
  that runs, by the phase the receiver is in.
* **Supervision** (`TreeInv`). `ChildInv` says that cleanup misses no child: one that
  is alive is being spawned, in the children map, or in what the loop still has to
  do. The second part of ChildrenFirst supposes that nobody else stops a child
  and no child fails; `QuietInv` then says that a child's only pill is its parent's,
  so that the end of that pill's context means that the child is gone.
* **Messaging** (`ReplyInv`, `SingleInv`). IDs come from the `responseSeq`; whatever
  carries an ID about, registry, envelope, server or responder, carries that of its
  own request (`IdInv`). If the server replies to a request once, the reply finds
  room, because a request is in one place at a time (`OnceInv`).
* **Streams** (`StreamInv`, `FaithInv`). What arrived over a connection, what is on
  the wire, in the writer's batch and in its inbox form one increasing line
  (`LineInv`); messages that were given to some writer, or to the dead letters, are
  older than those on the way to the router and in it (`AgeInv`), and no message is
  with two writers (`ApartInv`). For Faithful, the tables of an envelope only grow
  from one turn of the encoding loop to the next, and every index stays what it
  was: an induction over the turns. The proof states induction as a set of
  numbers, which exists because inclusion is well founded on finite sets, for the
  library's induction theorems have operators as parameters.
* **Agent** (`SpawnedInv`, `InboxOrderInv`). Every message in an inbox or on a link
  is about spawned PIDs. For SequentialUnique, what a call at a node has returned and
  announced to it is listed by the agent, or its Activation is ahead of every later request in the
  agent's inbox (`OrderInv`).
* **Lifecycle** (`StopInv`). A Stop waits on the WaitGroup of a Start that served, and
  the port goes with a Start from Listen until its Serve returns.

Only model-checked:

* liveness, which is out of the prover's reach (Consumed, SentIsHandled,
  AcceptedIsReceived, StopTakesEffect, LonePillCompletes, TreeStops, Notified,
  EventsCease, Settled, Announced, DeactivateStops, DeadIsDropped, Rejoin,
  StopReturns, ClusterStopReturns);
* RoundTrip, CutIsNoticed and Canonical of Codec: the wire format is written with RECURSIVE operators, in whose presence the SMT backend is not
  available.

Membership has no theorem, as its properties are liveness.

## Findings

Two runs violate one property each, quoting the repository's own words.

* `process_two_consumers` — a message panics, the pill behind it goes into
  `mbuffer`; the restarting Start replays it, cleanup stops the inbox, and Start
  then opens it again (`process.go:143`). A new goroutine enters PopBatch while
  the first is still in run, against the comment of `mpsc.go`.
* `membership_discovery` — a bootstrap host that does not answer raises
  RemoteUnreachableEvent; it is no member, `GetByHost` returns nil, and `removeMember`
  passes it on to `Contains` (`selfmanaged.go:110`; `RemoveByHost` of the member set
  has the test that is missing here). The provider restarts, greets the same host
  again, and after MaxRestarts is gone for good. A node that is started later
  never finds it, against "self-discovering" in `README.md:35`.

More configurations show behaviours of the same sort; run them with the module
they belong to.

* `SupervisionChildren.cfg` (ChildrenStopped): cleanup waits for the context of its
  own pill (`process.go:198`). If the child is handling somebody else's pill, the
  parent's stays unread and the parent waits for ever; its other children never
  get the Stopped that `context.go:69` promises.
* `StreamsSender.cfg` (SenderFaithful): index 0 is both *no sender* and the first
  sender of an envelope (`stream_writer.go:209`), so a message without sender
  arrives with somebody else's.
* `StreamsBlackHole.cfg` (StreamsHaveWriters): a writer tells the router of its end
  before it leaves the registry (`stream_writer.go:194`). A message in between makes
  the router spawn a writer that the registry refuses as a duplicate, and the
  address stays without a writer.
* `AgentUnique.cfg` (UniqueActors): an agent checks for a duplicate ID in a map that
  changes only when its own Activation message comes back (`agent.go:147`), so two
  activations in its inbox put the actor on two nodes.
* `ProcessTwoPills.cfg` (PillCompletes): the second of two pills in a batch is
  dropped at `process.go:104`, and its context never ends.
* `ProcessReplay.cfg` (RetryUnprocessed): a panic inside the graceful loop buffers
  messages that the loop has already handled.
* `ProviderCrash.cfg` (StoppedOnce, with module Provider): when a pill replayed from
  `mbuffer` has stopped the provider and Start has opened its inbox again, the next
  panic or pill gives the receiver a second Stopped. It stops its pinger again, which
  closes a closed channel, and the program ends.

Because of these behaviours InOrder and GracefulDrains are stated for inboxes that
were not reopened, and StopTakesEffect for pills that are not graceful: a graceful
pill is lost when a message panics in its loop.

Met while reading the code, and permitted by the models, though no document says
otherwise: a message pushed after `inbox.Stop` and before `Registry.Remove` gets
neither handled nor reported; an activation carried out after the requester's
timeout leaves an actor that no agent lists; a Deactivation that overtakes the
Activation of its actor leaves a stale entry; a member that joins while an
Activation is in the agent's own inbox is not told of that actor; a message that
does not serialize arrives as an empty message of the envelope's first type at its
first target, and one that is no protobuf message ends the sender's program; a Spawn
whose `Members()` times out returns a PID that no agent lists, so that a later
Activate may give the ID to another actor; a subscriber that stops and stays subscribed
keeps the event stream forwarding its own dead letters for ever; a second reply to a request whose caller has given up blocks the
replying actor; `Remote.Stop` after a Start that could not listen waits for ever on
a nil channel, and the caller of a second Stop gets an empty WaitGroup, so that its
Wait returns while the server may still be serving; `Cluster.Stop` leaves the remote
listening, so that the other members go on listing the node.

## Not modelled

* The Consul provider, a client of an external API: its watch plan and TTL rules
  decide what happens, and what reaches the rest is a Members message. mDNS is a
  report that may come at any time; TLS is left out.
* RingBuffer and PIDSet: sequential collections that no other component uses.
* In the generated code: `MarshalToVT` and `CloneMessageVT`, which only wrap
  modelled methods; `MarshalVTStrict`, `MarshalToVTStrict` and
  `MarshalToSizedBufferVTStrict` (the same statements as the modelled methods,
  which nothing here calls); the reflection
  tables of `*.pb.go`, which the protobuf library interprets, and the drpc stubs
  apart from `Send` and `Recv`.
* `ProtoSerializer`, which the writer and the reader use for the payloads, is modelled
  by its outcomes only, since it calls the protobuf library. `VTProtoSerializer` is
  selected nowhere, and only it reads the instances that `RegisterType` stores.
* `RegisterKind`, options and configuration: setters used before anything runs.
* Middleware, tracing, logging, `mcount`; the examples and the benchmark.

## Plan

RingBuffer (growth and wrap-around against a sequence); the composition of
Membership with Agent, so that the views of the agents come from the providers; the
loops of Codec as recursive functions, so that its round trip can be proved by the
induction that StreamsProofs uses for the tables of an envelope.
