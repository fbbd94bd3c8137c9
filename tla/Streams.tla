------------------------------ MODULE Streams ------------------------------
(***************************************************************************)
(* Sending to one remote address: the streamRouter actor                   *)
(* (src/remote/stream_router.go), the streamWriter it spawns for the       *)
(* address (src/remote/stream_writer.go), the connection, and the          *)
(* streamReader on the other node (src/remote/stream_reader.go).           *)
(*                                                                         *)
(* Writers of the same address have the same PID; the registry tells them  *)
(* apart only by which of them is registered.  The inboxes are those of    *)
(* Mailbox: in order, nothing handed over after Stop but a batch already   *)
(* taken.  Dialing is up to three attempts with a delay; only its outcome  *)
(* matters here.                                                           *)
(***************************************************************************)
EXTENDS StreamCodec

CONSTANTS
  Content,     \* [1..n -> delivery]: what Remote.Send is called with, in order
  KnownTypes   \* the types the other node can decode

ASSUME StreamsAssumption ==
  /\ Content \in Seq(Range(Content)) /\ Empty \notin DOMAIN Content
  /\ \A m \in DOMAIN Content :
       /\ Content[m].data = m /\ Content[m].target # Nobody
       /\ Content[m].serializable \in BOOLEAN

Messages == DOMAIN Content
Writers == DOMAIN Content   \* a message creates at most one
Unreachable == 0   \* RemoteUnreachableEvent, in the inbox of the router

VARIABLES
  sent,        \* Remote.Send calls made
  router,      \* the inbox of the router
  rpc,         \* the router: next statement of Receive
  rmsg,        \* the router: the message it is delivering
  proc,        \* the router: what Registry.get returned (0 is nil)
  streams,     \* the router has a PID for the address
  created,     \* streamWriters created
  registered,  \* the writer in the Registry (0 is none)
  wpc,         \* each writer: none, unused, dial, up, the steps of Shutdown, dead
  inbox,       \* each writer: its inbox
  open,        \* each writer: its inbox is not stopped
  batch,       \* each writer: the messages given to Invoke
  conn,        \* each writer: none, open, ended (by the reader), closed
  wire,        \* each writer: envelopes on their way
  reading,     \* each writer: the other node still reads from the connection
  crashed,     \* the program with the router and the writers has panicked
  (* History, read by no action: *)
  delivered,   \* each writer: what the reader has handed to SendLocal
  dead,        \* messages for which a DeadLetterEvent was broadcast
  lost         \* messages of a batch or an envelope that was not transmitted

routerVars == <<rpc, rmsg, proc, streams, created>>
writerVars == <<wpc, inbox, open, batch>>
connVars == <<conn, wire, reading>>
history == <<delivered, dead, lost>>
vars == <<sent, router, registered, routerVars, writerVars, connVars, crashed, history>>

Closing == {"notify", "close", "remove"}

TypeOK ==
  /\ sent \in 0..Len(Content)
  /\ router \in Seq(Messages \cup {Unreachable})
  /\ rpc \in {"idle", "spawn", "start", "get", "push"}
  /\ rmsg \in Messages \cup {0}
  /\ proc \in Writers \cup {0} /\ registered \in Writers \cup {0}
  /\ streams \in BOOLEAN
  /\ created \in 0..Len(Content)
  /\ wpc \in [Writers -> {"none", "unused", "dial", "up", "dead"} \cup Closing]
  /\ inbox \in [Writers -> Seq(Messages)] /\ batch \in [Writers -> Seq(Messages)]
  /\ open \in [Writers -> BOOLEAN] /\ reading \in [Writers -> BOOLEAN]
  /\ conn \in [Writers -> {"none", "open", "ended", "closed"}]
  /\ crashed \in BOOLEAN
  /\ dead \subseteq Messages /\ lost \subseteq Messages
  /\ \A w \in Writers : \A e \in Range(wire[w]) : \A m \in Range(e.messages) :
       /\ m.type < Len(e.types) /\ m.target < Len(e.targets)
       /\ e.senders # <<>> => m.sender < Len(e.senders)

Init ==
  /\ sent = 0 /\ router = <<>>
  /\ rpc = "idle" /\ rmsg = 0 /\ proc = 0 /\ streams = FALSE /\ created = 0
  /\ registered = 0
  /\ wpc = [w \in Writers |-> "none"]
  /\ inbox = [w \in Writers |-> <<>>] /\ batch = [w \in Writers |-> <<>>]
  /\ open = [w \in Writers |-> FALSE]
  /\ conn = [w \in Writers |-> "none"]
  /\ wire = [w \in Writers |-> <<>>]
  /\ reading = [w \in Writers |-> FALSE] /\ crashed = FALSE
  /\ delivered = [w \in Writers |-> <<>>]
  /\ dead = {} /\ lost = {}

----------------------------------------------------------------------------
(* Remote.Send: a streamDeliver for the router *)
Send ==
  /\ sent < Len(Content)
  /\ sent' = sent + 1
  /\ router' = Append(router, sent + 1)
  /\ UNCHANGED <<registered, routerVars, writerVars, connVars, history>>

(* handleTerminateStream *)
HandleTerminate ==
  /\ rpc = "idle"
  /\ router # <<>> /\ Head(router) = Unreachable
  /\ router' = Tail(router)
  /\ streams' = FALSE
  /\ UNCHANGED <<sent, registered, rpc, rmsg, proc, created, writerVars, connVars, history>>

(* deliverStream: swpid, ok = s.streams[address] *)
DeliverStream ==
  /\ rpc = "idle"
  /\ router # <<>> /\ Head(router) # Unreachable
  /\ router' = Tail(router)
  /\ rmsg' = Head(router)
  /\ rpc' = IF streams THEN "get" ELSE "spawn"
  /\ UNCHANGED <<sent, registered, proc, streams, created, writerVars, connVars, history>>

(* Faulty: Registry.add that replaces the process that has the ID *)
SpawnProcReplace ==
  LET w == created + 1
  IN /\ rpc = "spawn"
     /\ created' = w
     /\ registered' = w
     /\ wpc' = [wpc EXCEPT ![w] = "dial"]
     /\ open' = [open EXCEPT ![w] = TRUE]
     /\ rpc' = "start"
     /\ UNCHANGED <<sent, router, rmsg, proc, streams, inbox, batch, connVars, history>>

(* deliverStream: SpawnProc, where Registry.add starts the new writer ... *)
SpawnProc ==
  LET w == created + 1
  IN /\ rpc = "spawn"
     /\ registered = 0
     /\ created' = w
     /\ registered' = w
     /\ wpc' = [wpc EXCEPT ![w] = "dial"]
     /\ open' = [open EXCEPT ![w] = TRUE]
     /\ rpc' = "start"
     /\ UNCHANGED <<sent, router, rmsg, proc, streams, inbox, batch, connVars, history>>

(* ... or finds its PID taken: the new writer is never started, and the    *)
(* PID goes into s.streams all the same.                                   *)
SpawnDuplicate ==
  LET w == created + 1
  IN /\ rpc = "spawn"
     /\ registered # 0
     /\ created' = w
     /\ wpc' = [wpc EXCEPT ![w] = "unused"]
     /\ streams' = TRUE
     /\ rpc' = "get"
     /\ UNCHANGED <<sent, router, registered, rmsg, proc, inbox, open, batch, connVars, history>>

(* streamWriter.init: the connection is there, or Shutdown begins *)
Dial(w) ==
  /\ wpc[w] = "dial"
  /\ \/ /\ wpc' = [wpc EXCEPT ![w] = "up"]
        /\ conn' = [conn EXCEPT ![w] = "open"]
        /\ reading' = [reading EXCEPT ![w] = TRUE]
     \/ /\ wpc' = [wpc EXCEPT ![w] = "notify"]
        /\ UNCHANGED <<conn, reading>>
  /\ UNCHANGED <<sent, router, registered, routerVars, inbox, open, batch, wire, history>>

(* deliverStream: Start has returned; s.streams[address] = swpid *)
Started ==
  /\ rpc = "start"
  /\ wpc[created] # "dial"
  /\ conn[created] = "none" => wpc[created] = "dead"
  /\ streams' = TRUE
  /\ rpc' = "get"
  /\ UNCHANGED <<sent, router, registered, rmsg, proc, created, writerVars, connVars, history>>

(* Faulty: no dead letter for a process that is not registered *)
SendGetSilent ==
  /\ rpc = "get"
  /\ proc' = registered
  /\ IF registered = 0
       THEN rpc' = "idle" /\ rmsg' = 0
       ELSE rpc' = "push" /\ UNCHANGED rmsg
  /\ UNCHANGED <<sent, router, registered, streams, created, writerVars, connVars, history>>

(* deliverStream: engine.Send(swpid, msg): Registry.get ... *)
SendGet ==
  /\ rpc = "get"
  /\ proc' = registered
  /\ IF registered = 0
       THEN rpc' = "idle" /\ rmsg' = 0 /\ dead' = dead \cup {rmsg}
       ELSE rpc' = "push" /\ UNCHANGED <<rmsg, dead>>
  /\ UNCHANGED <<sent, router, registered, streams, created, writerVars, connVars,
                 delivered, lost>>

(* ... and Send, whatever became of the writer in between *)
SendPush ==
  /\ rpc = "push"
  /\ inbox' = [inbox EXCEPT ![proc] = Append(@, rmsg)]
  /\ rpc' = "idle" /\ rmsg' = 0 /\ proc' = 0
  /\ UNCHANGED <<sent, router, registered, streams, created, wpc, open, batch, connVars,
                 history>>

----------------------------------------------------------------------------
(* The inbox of a writer hands everything it holds to Invoke. *)
TakeBatch(w) ==
  /\ open[w] /\ wpc[w] # "dial"
  /\ inbox[w] # <<>> /\ batch[w] = <<>>
  /\ batch' = [batch EXCEPT ![w] = inbox[w]]
  /\ inbox' = [inbox EXCEPT ![w] = <<>>]
  /\ UNCHANGED <<sent, router, registered, routerVars, wpc, open, connVars, history>>

EncodeBatch(ms) == Encode([i \in 1..Len(ms) |-> Content[ms[i]]])

(* The messages in a sequence of encoded messages *)
Payloads(ms) == {m.data : m \in Range(ms)} \ {Empty}

(* Faulty: Invoke that sends the batch again after an error *)
InvokeRetry(w) ==
  /\ batch[w] # <<>>
  /\ conn[w] = "open"
  /\ wire' = [wire EXCEPT ![w] = Append(@, EncodeBatch(batch[w]))]
  /\ Len(wire[w]) < 2
  /\ batch' \in {batch, [batch EXCEPT ![w] = <<>>]}
  /\ UNCHANGED <<sent, router, registered, routerVars, wpc, inbox, open, conn, reading,
                 history>>

(* Invoke: the envelope is sent; on io.EOF the connection is closed, on    *)
(* any other error the batch is only logged.                               *)
Invoke(w) ==
  /\ batch[w] # <<>>
  /\ batch' = [batch EXCEPT ![w] = <<>>]
  /\ \/ /\ conn[w] \in {"open", "ended"}
        /\ wire' = [wire EXCEPT ![w] = Append(@, EncodeBatch(batch[w]))]
        /\ UNCHANGED <<conn, lost>>
     \/ /\ lost' = lost \cup Range(batch[w])
        /\ conn' = [conn EXCEPT ![w] = IF @ = "ended" THEN "closed" ELSE @]
        /\ UNCHANGED wire
  /\ UNCHANGED <<sent, router, registered, routerVars, wpc, inbox, open, reading,
                 delivered, dead>>

(* Invoke with a message that is not serializable because it is no         *)
(* proto.Message at all: the type assertion of TypeName panics, and        *)
(* nothing recovers from it.                                               *)
InvokePanic(w) ==
  /\ ~crashed
  /\ \E m \in Range(batch[w]) : ~Content[m].serializable
  /\ crashed' = TRUE
  /\ UNCHANGED <<sent, router, registered, routerVars, writerVars, connVars, history>>

(* The connection is lost: network, idle deadline, or the other node stops. *)
Cut(w) ==
  /\ conn[w] \in {"open", "ended"}
  /\ conn' = [conn EXCEPT ![w] = "closed"]
  /\ UNCHANGED <<sent, router, registered, routerVars, writerVars, wire, reading, history>>

(* Shutdown after <-conn.Closed(): the router is told first, ... *)
Closed(w) ==
  /\ wpc[w] = "up" /\ conn[w] = "closed"
  /\ wpc' = [wpc EXCEPT ![w] = "notify"]
  /\ UNCHANGED <<sent, router, registered, routerVars, inbox, open, batch, connVars, history>>

ShutdownNotify(w) ==
  /\ wpc[w] = "notify"
  /\ router' = Append(router, Unreachable)
  /\ wpc' = [wpc EXCEPT ![w] = "close"]
  /\ UNCHANGED <<sent, registered, routerVars, inbox, open, batch, connVars, history>>

(* ... then s.stream.Close() and s.inbox.Stop(), ... *)
ShutdownStop(w) ==
  /\ wpc[w] = "close"
  /\ open' = [open EXCEPT ![w] = FALSE]
  /\ wpc' = [wpc EXCEPT ![w] = "remove"]
  /\ UNCHANGED <<sent, router, registered, routerVars, inbox, batch, connVars, history>>

(* ... and Registry.Remove takes out whoever has this PID. *)
ShutdownRemove(w) ==
  /\ wpc[w] = "remove"
  /\ registered' = 0
  /\ wpc' = [wpc EXCEPT ![w] = "dead"]
  /\ UNCHANGED <<sent, router, routerVars, inbox, open, batch, connVars, history>>

----------------------------------------------------------------------------
(* streamReader.Receive: one envelope; a message of an unknown type ends   *)
(* the stream and what follows it in the envelope is not delivered.        *)
Receive(w) ==
  LET env == Head(wire[w])
      n == Len(env.messages)
      Known(i) == Decode(env, env.messages[i]).type \in KnownTypes
  IN /\ reading[w] /\ wire[w] # <<>>
     /\ wire' = [wire EXCEPT ![w] = Tail(@)]
     /\ \E last \in 0..n :
          /\ \A i \in 1..last : Known(i)
          /\ last < n => ~Known(last + 1)
          /\ delivered' = [delivered EXCEPT ![w] =
                             @ \o [i \in 1..last |-> Decode(env, env.messages[i])]]
          /\ lost' = lost \cup Payloads(SubSeq(env.messages, last + 1, n))
          /\ reading' = [reading EXCEPT ![w] = last = n]
          /\ conn' = [conn EXCEPT ![w] = IF last < n /\ @ = "open" THEN "ended" ELSE @]
     /\ UNCHANGED <<sent, router, registered, routerVars, writerVars, dead>>

(* What was on its way when the connection closed, or comes after the      *)
(* reader has ended the stream, may not arrive.                            *)
Drop(w) ==
  /\ wire[w] # <<>>
  /\ conn[w] = "closed" \/ ~reading[w]
  /\ lost' = lost \cup UNION {Payloads(env.messages) : env \in Range(wire[w])}
  /\ wire' = [wire EXCEPT ![w] = <<>>]
  /\ reading' = [reading EXCEPT ![w] = FALSE]
  /\ UNCHANGED <<sent, router, registered, routerVars, writerVars, conn, delivered, dead>>

----------------------------------------------------------------------------
RouterStep ==
  \/ HandleTerminate \/ DeliverStream \/ SpawnProc \/ SpawnDuplicate
  \/ Started \/ SendGet \/ SendPush
WriterStep(w) ==
  \/ Dial(w) \/ TakeBatch(w) \/ Invoke(w)
  \/ Closed(w) \/ ShutdownNotify(w) \/ ShutdownStop(w) \/ ShutdownRemove(w)
ReaderStep(w) == Receive(w) \/ Drop(w)

(* What happens until the program has panicked, and what happens anyway *)
Running(A) == ~crashed /\ A /\ UNCHANGED crashed
Elsewhere(A) == A /\ UNCHANGED crashed

Next ==
  \/ Running(Send)
  \/ Running(RouterStep)
  \/ \E w \in Writers :
       \/ Running(WriterStep(w)) \/ InvokePanic(w)
       \/ Elsewhere(Cut(w)) \/ Elsewhere(ReaderStep(w))

Spec == Init /\ [][Next]_vars

(* The router, the goroutines of a writer and the reader are run; nobody   *)
(* has to send, and connections need not break.                            *)
FairSpec ==
  /\ Spec
  /\ WF_vars(Running(RouterStep))
  /\ \A w \in Writers :
       /\ WF_vars(Running(Dial(w))) /\ WF_vars(Running(TakeBatch(w)))
       /\ WF_vars(Running(Invoke(w)) \/ InvokePanic(w))
       /\ WF_vars(Running(Closed(w) \/ ShutdownNotify(w) \/ ShutdownStop(w) \/ ShutdownRemove(w)))
       /\ WF_vars(Elsewhere(ReaderStep(w)))

----------------------------------------------------------------------------
AsSent(d) ==
  LET c == Content[d.data]
  IN /\ d.type = c.type /\ d.target = c.target
     /\ c.sender # Nobody => d.sender = c.sender

(* What the reader delivers has the type, the target and the payload it    *)
(* was sent with, and the sender when there was one: the tables of an      *)
(* envelope (lookupPIDs, lookupTypeName) mix nothing up.                   *)
Faithful ==
  \A w \in Writers : \A d \in Range(delivered[w]) : d.data # Empty => AsSent(d)

Increasing(ms) ==
  \A i, j \in 1..Len(ms) :
    i < j /\ ms[i].data # Empty /\ ms[j].data # Empty => ms[i].data < ms[j].data

(* Over one connection messages arrive in the order of Remote.Send, over   *)
(* all connections together none arrives twice, and none that was          *)
(* announced as a dead letter arrives: a connection that breaks between    *)
(* any two steps of the router and the writers causes no resend.           *)
OnceInOrder ==
  /\ \A w \in Writers : Increasing(delivered[w])
  /\ \A v, w \in Writers :
       v # w => Payloads(delivered[v]) \cap Payloads(delivered[w]) = {}
  /\ \A w \in Writers : Payloads(delivered[w]) \cap dead = {}

(* A started writer is the registered one until its Shutdown is complete,  *)
(* so a Shutdown never removes another writer (Registry.Remove goes by the *)
(* ID, which all writers of the address share) and two never have a        *)
(* connection at once.                                                     *)
OneWriter ==
  \A w \in Writers : wpc[w] \in {"dial", "up"} \cup Closing => registered = w

(* A message reaches one of its ends: delivered, announced as a dead       *)
(* letter, lost with its batch or connection, replaced by an empty message *)
(* because it does not serialize, or left in the inbox of a stopped writer.*)
(* What the router sends to a PID that has no writer is a dead letter.     *)
Ended(m) ==
  \/ m \in dead \cup lost
  \/ /\ ~Content[m].serializable
     /\ m # rmsg /\ m \notin Range(router)
     /\ \A w \in Writers : m \notin Range(inbox[w]) \cup Range(batch[w])
  \/ \E w \in Writers : m \in Payloads(delivered[w])
  \/ \E w \in Writers : m \in Range(inbox[w]) /\ ~open[w]

(* Nothing sent stays with the router or a writer for ever, whatever       *)
(* connections do: the router never waits on a writer that is gone.  The   *)
(* exception is a message that is no protobuf message, with which all ends *)
(* in a panic.                                                             *)
Settled == \A m \in Messages : (sent >= m) ~> (Ended(m) \/ crashed)

(* src/remote/remote.go, Send: "Optional a "Sender PID" can be given to    *)
(* inform the receiving process who sent the message."  Then a message     *)
(* sent without one does not name somebody else's.                         *)
SenderFaithful ==
  \A w \in Writers : \A d \in Range(delivered[w]) :
    d.data # Empty => d.sender = Content[d.data].sender

(* src/remote/stream_router.go: "streams is a map of remote address to     *)
(* stream writer pid."  A PID whose writer is gone does not stay in it.    *)
StreamsHaveWriters ==
  [](streams /\ registered = 0 => <>(~streams \/ registered # 0 \/ crashed))
=============================================================================
