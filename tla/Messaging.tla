----------------------------- MODULE Messaging -----------------------------
(***************************************************************************)
(* Requests, responses and events on one engine: Engine.Request, send,     *)
(* SendLocal, Subscribe, Unsubscribe (src/actor/engine.go), Response       *)
(* (src/actor/response.go), the Registry (src/actor/registry.go),          *)
(* Context.Respond (src/actor/context.go) and the event stream actor       *)
(* (src/actor/event_stream.go).                                            *)
(*                                                                         *)
(* One actor, the server, answers requests.  Every caller has a goroutine  *)
(* of its own, may call Result late or never, and may time out at any      *)
(* moment.  A subscriber may stop before it unsubscribes (as SelfManaged's *)
(* child and the chat example do), after it, or without it; whoever        *)
(* unsubscribes it does so with the *PID it was subscribed with.           *)
(***************************************************************************)
EXTENDS Integers, Sequences, FiniteSets, SequencesExt

CONSTANTS
  Requests,   \* calls of Engine.Request
  Subs,       \* actors that subscribe to the event stream
  Replies,    \* [Requests -> Nat]: how often the server responds
  Server,     \* the server
  Foreign,    \* a PID of another address; the engine has no remote
  None        \* nil

ASSUME MessagingAssumption ==
  /\ Replies \in [Requests -> Nat]
  /\ Server \notin Subs
  /\ None \notin Requests

VARIABLES
  seq,        \* responseSeq
  rid,        \* each request: the ID of its Response
  caller,     \* each request: where its caller is
  result,     \* each request: the channel of its Response, capacity 1
  returned,   \* each request: what Result returned
  lookup,     \* Registry.lookup: the processes registered
  responses,  \* Registry.responses: pairs of an ID and a Response
  inbox,      \* the server: its inbox
  serving,    \* the server: its inbox is not stopped
  cur,        \* the server: the message in Receive
  left,       \* the server: Respond calls to make for it
  target,     \* the server: the Response that get returned for its reply
  subs,       \* eventStream.subs
  events,     \* the inbox of the event stream
  strays,     \* sends to Foreign; bound: one
  fwd,        \* the subscribers an event is still to be forwarded to
  life,       \* each subscriber: off, on (subscribed), leaving (unsubscribed)
  seen        \* each subscriber: the events received

callerVars == <<seq, rid, caller, returned>>
serverVars == <<inbox, serving, cur, left, target>>
streamVars == <<subs, fwd, seen>>
vars == <<callerVars, result, lookup, responses, serverVars, streamVars, events, strays,
          life>>

NoMsg == [payload |-> None, sender |-> 0]

(* Events: dead letters, a message for a remote that is not there, and the *)
(* eventSub and eventUnsub messages                                        *)
Event(type, about) == [type |-> type, about |-> about]
DeadLetter(about) == Event("dead letter", about)
Events ==
  {DeadLetter(a) : a \in Requests \cup {"reply", "event"}}
    \cup {Event("no remote", Foreign)}
    \cup {Event(t, s) : t \in {"sub", "unsub"}, s \in Subs}

TypeOK ==
  /\ seq \in 0..Cardinality(Requests)
  /\ rid \in [Requests -> 0..Cardinality(Requests)]
  /\ caller \in [Requests -> {"new", "send", "push", "idle", "wait", "remove", "done"}]
  /\ \A r \in Requests : Len(result[r]) <= 1 /\ Range(result[r]) \subseteq Requests
  /\ returned \in [Requests -> Requests \cup {None, "timeout"}]
  /\ lookup \subseteq {Server} \cup Subs
  /\ responses \subseteq (1..Cardinality(Requests)) \X Requests
  /\ serving \in BOOLEAN
  /\ left \in Nat /\ target \in Requests \cup {None}
  /\ subs \subseteq Subs /\ fwd \subseteq subs
  /\ events \in Seq(Events) /\ strays \in 0..1
  /\ life \in [Subs -> {"off", "on", "leaving"}]
  /\ seen \in [Subs -> SUBSET Events]

Init ==
  /\ seq = 0
  /\ rid = [r \in Requests |-> 0]
  /\ caller = [r \in Requests |-> "new"]
  /\ result = [r \in Requests |-> <<>>]
  /\ returned = [r \in Requests |-> None]
  /\ lookup = {Server} \cup Subs /\ responses = {}
  /\ inbox = <<>> /\ serving = TRUE
  /\ cur = NoMsg /\ left = 0 /\ target = None
  /\ subs = {} /\ events = <<>> /\ fwd = {} /\ strays = 0
  /\ life = [s \in Subs |-> "off"]
  /\ seen = [s \in Subs |-> {}]

BroadcastEvent(e) == events' = Append(events, e)

----------------------------------------------------------------------------
(* Faulty: responseSeq is read but not advanced *)
RequestSameID(r) ==
  /\ caller[r] = "new"
  /\ rid' = [rid EXCEPT ![r] = 1]
  /\ responses' = responses \cup {<<1, r>>}
  /\ caller' = [caller EXCEPT ![r] = "send"]
  /\ UNCHANGED <<seq, returned, result, lookup, serverVars, streamVars, events, life, strays>>

(* Engine.Request: NewResponse and registerResponse *)
Request(r) ==
  /\ caller[r] = "new"
  /\ seq' = seq + 1
  /\ rid' = [rid EXCEPT ![r] = seq + 1]
  /\ responses' = responses \cup {<<seq + 1, r>>}
  /\ caller' = [caller EXCEPT ![r] = "send"]
  /\ UNCHANGED <<returned, result, lookup, serverVars, streamVars, events, life, strays>>

(* Engine.Request: SendLocal looks the server up ... *)
RequestGet(r) ==
  /\ caller[r] = "send"
  /\ IF Server \in lookup
       THEN caller' = [caller EXCEPT ![r] = "push"] /\ UNCHANGED events
       ELSE caller' = [caller EXCEPT ![r] = "idle"] /\ BroadcastEvent(DeadLetter(r))
  /\ UNCHANGED <<seq, rid, returned, result, lookup, responses, serverVars, streamVars, life, strays>>

(* ... and sends to what it found *)
RequestPush(r) ==
  /\ caller[r] = "push"
  /\ inbox' = Append(inbox, [payload |-> r, sender |-> rid[r]])
  /\ caller' = [caller EXCEPT ![r] = "idle"]
  /\ UNCHANGED <<seq, rid, returned, result, lookup, responses, serving, cur, left, target,
                 streamVars, events, life, strays>>

(* Response.Result *)
Result(r) ==
  /\ caller[r] = "idle"
  /\ caller' = [caller EXCEPT ![r] = "wait"]
  /\ UNCHANGED <<seq, rid, returned, result, lookup, responses, serverVars, streamVars,
                 events, life, strays>>

ResultReceive(r) ==
  /\ caller[r] = "wait"
  /\ result[r] # <<>>
  /\ returned' = [returned EXCEPT ![r] = Head(result[r])]
  /\ result' = [result EXCEPT ![r] = Tail(@)]
  /\ caller' = [caller EXCEPT ![r] = "remove"]
  /\ UNCHANGED <<seq, rid, lookup, responses, serverVars, streamVars, events, life, strays>>

ResultTimeout(r) ==
  /\ caller[r] = "wait"
  /\ returned' = [returned EXCEPT ![r] = "timeout"]
  /\ caller' = [caller EXCEPT ![r] = "remove"]
  /\ UNCHANGED <<seq, rid, result, lookup, responses, serverVars, streamVars, events, life, strays>>

(* Response.Result: the deferred Registry.Remove *)
ResultRemove(r) ==
  /\ caller[r] = "remove"
  /\ responses' = {p \in responses : p[1] # rid[r]}
  /\ caller' = [caller EXCEPT ![r] = "done"]
  /\ UNCHANGED <<seq, rid, returned, result, lookup, serverVars, streamVars, events, life, strays>>

----------------------------------------------------------------------------
(* Faulty: the message stays in the inbox *)
ReceiveAgain ==
  /\ serving /\ cur = NoMsg /\ inbox # <<>>
  /\ cur' = Head(inbox) /\ left' = 1
  /\ UNCHANGED <<callerVars, result, lookup, responses, inbox, serving, target, streamVars,
                 events, life, strays>>

(* The server receives a request and will respond Replies[r] times. *)
Receive ==
  /\ serving /\ cur = NoMsg /\ inbox # <<>>
  /\ inbox' = Tail(inbox)
  /\ IF Replies[Head(inbox).payload] = 0
       THEN UNCHANGED <<cur, left>>
       ELSE cur' = Head(inbox) /\ left' = Replies[Head(inbox).payload]
  /\ UNCHANGED <<callerVars, result, lookup, responses, serving, target, streamVars, events, life, strays>>

Responded ==
  /\ left' = left - 1
  /\ cur' = IF left = 1 THEN NoMsg ELSE cur
  /\ target' = None

(* Context.Respond: SendLocal to the sender, not registered any more ... *)
RespondDead ==
  /\ cur # NoMsg /\ target = None
  /\ \A p \in responses : p[1] # cur.sender
  /\ BroadcastEvent(DeadLetter("reply"))
  /\ Responded
  /\ UNCHANGED <<callerVars, result, lookup, responses, inbox, serving, streamVars, life, strays>>

(* ... or found *)
RespondGet ==
  /\ cur # NoMsg /\ target = None
  /\ \E p \in responses : p[1] = cur.sender /\ target' = p[2]
  /\ UNCHANGED <<callerVars, result, lookup, responses, inbox, serving, cur, left, streamVars,
                 events, life, strays>>

(* Response.Send: waits while the channel is full *)
RespondPush ==
  /\ target # None
  /\ result[target] = <<>>
  /\ result' = [result EXCEPT ![target] = Append(@, cur.payload)]
  /\ Responded
  /\ UNCHANGED <<callerVars, lookup, responses, inbox, serving, streamVars, events, life, strays>>

(* process.cleanup of the server: inbox.Stop, then Registry.Remove *)
ServerStop ==
  /\ serving /\ cur = NoMsg
  /\ serving' = FALSE
  /\ UNCHANGED <<callerVars, result, lookup, responses, inbox, cur, left, target, streamVars,
                 events, life, strays>>

ServerRemove ==
  /\ ~serving
  /\ Server \in lookup
  /\ lookup' = lookup \ {Server}
  /\ UNCHANGED <<callerVars, result, responses, serverVars, streamVars, events, life, strays>>

----------------------------------------------------------------------------
(* Engine.send to another address, without a remote *)
SendForeign ==
  /\ strays = 0
  /\ strays' = 1
  /\ BroadcastEvent(Event("no remote", Foreign))
  /\ UNCHANGED <<callerVars, result, lookup, responses, serverVars, streamVars, life>>

Subscribe(s) ==
  /\ life[s] = "off"
  /\ BroadcastEvent(Event("sub", s))
  /\ life' = [life EXCEPT ![s] = "on"]
  /\ UNCHANGED <<callerVars, result, lookup, responses, serverVars, streamVars, strays>>

Unsubscribe(s) ==
  /\ life[s] = "on"
  /\ BroadcastEvent(Event("unsub", s))
  /\ life' = [life EXCEPT ![s] = "leaving"]
  /\ UNCHANGED <<callerVars, result, lookup, responses, serverVars, streamVars, strays>>

(* process.cleanup of a subscriber: Registry.Remove *)
SubscriberStop(s) ==
  /\ s \in lookup
  /\ lookup' = lookup \ {s}
  /\ UNCHANGED <<callerVars, result, responses, serverVars, streamVars, events, strays, life>>

(* Faulty: the PID to unsubscribe is never found *)
StreamSubscribeOnly ==
  /\ events # <<>> /\ fwd = {}
  /\ LET e == Head(events)
     IN \/ e.type = "sub" /\ subs' = subs \cup {e.about}
        \/ e.type = "unsub" /\ UNCHANGED subs
  /\ events' = Tail(events)
  /\ UNCHANGED <<callerVars, result, lookup, responses, serverVars, fwd, seen, life, strays>>

(* eventStream.Receive: eventSub and eventUnsub *)
StreamSubscribe ==
  /\ events # <<>> /\ fwd = {}
  /\ LET e == Head(events)
     IN \/ e.type = "sub" /\ subs' = subs \cup {e.about}
        \/ e.type = "unsub" /\ subs' = subs \ {e.about}
  /\ events' = Tail(events)
  /\ UNCHANGED <<callerVars, result, lookup, responses, serverVars, fwd, seen, life, strays>>

(* Faulty: an event that is not an EventLogger goes no further *)
StreamIgnoreUnlogged ==
  /\ events # <<>> /\ Head(events).type \notin {"sub", "unsub"}
  /\ fwd = {}
  /\ subs = {} \/ Head(events).type = "no remote"
  /\ events' = Tail(events)
  /\ UNCHANGED <<callerVars, result, lookup, responses, serverVars, streamVars, life, strays>>

(* eventStream.Receive: any other event, when nobody has subscribed ... *)
StreamIgnore ==
  /\ events # <<>> /\ Head(events).type \notin {"sub", "unsub"}
  /\ fwd = {} /\ subs = {}
  /\ events' = Tail(events)
  /\ UNCHANGED <<callerVars, result, lookup, responses, serverVars, streamVars, life, strays>>

(* ... or for each subscriber, in any order; the event leaves the inbox    *)
(* here with the last Forward.                                             *)
StreamBegin ==
  /\ events # <<>> /\ Head(events).type \notin {"sub", "unsub"}
  /\ fwd = {} /\ subs # {}
  /\ fwd' = subs
  /\ UNCHANGED <<callerVars, result, lookup, responses, serverVars, subs, seen, events, life, strays>>

(* Context.Forward *)
Forward(s) ==
  LET rest == IF fwd = {s} THEN Tail(events) ELSE events
  IN /\ s \in fwd
     /\ fwd' = fwd \ {s}
     /\ IF s \in lookup
          THEN /\ seen' = [seen EXCEPT ![s] = @ \cup {Head(events)}]
               /\ events' = rest
          ELSE /\ events' = Append(rest, DeadLetter("event"))
               /\ UNCHANGED seen
     /\ UNCHANGED <<callerVars, result, lookup, responses, serverVars, subs, life, strays>>

----------------------------------------------------------------------------
CallerStep(r) ==
  \/ RequestGet(r) \/ RequestPush(r)
  \/ ResultReceive(r) \/ ResultTimeout(r) \/ ResultRemove(r)
ServerStep == Receive \/ RespondDead \/ RespondGet \/ RespondPush
StreamStep ==
  \/ StreamSubscribe \/ StreamIgnore \/ StreamBegin
  \/ \E s \in Subs : Forward(s)

Next ==
  \/ \E r \in Requests : Request(r) \/ Result(r) \/ CallerStep(r)
  \/ ServerStep \/ ServerStop \/ ServerRemove
  \/ SendForeign
  \/ \E s \in Subs : Subscribe(s) \/ Unsubscribe(s) \/ SubscriberStop(s)
  \/ StreamStep

Spec == Init /\ [][Next]_vars

(* Goroutines that are not waiting for a user's call run. *)
FairSpec ==
  /\ Spec
  /\ \A r \in Requests : WF_vars(CallerStep(r))
  /\ WF_vars(ServerStep) /\ WF_vars(StreamStep)

----------------------------------------------------------------------------
(* Result returns the reply to its own request or an error, never that of  *)
(* another request in flight: the IDs of responseSeq tell Responses apart. *)
OwnReply ==
  \A r \in Requests : returned[r] \in {None, "timeout", r} /\ Range(result[r]) \subseteq {r}

(* A server that responds once to each request never waits in              *)
(* Response.Send, whether the caller has its reply, has timed out between  *)
(* get and Send, or never calls Result.                                    *)
ReplyNeverBlocks ==
  (\A r \in Requests : Replies[r] <= 1) => (target # None => result[target] = <<>>)

(* A subscriber that stays gets every event that comes after its           *)
(* subscription, dead letters of the requests included.                    *)
Notified ==
  \A s \in Subs, e \in Events :
    (s \in subs /\ e \in Range(events) /\ e.type \notin {"sub", "unsub"})
      ~> (e \in seen[s] \/ life[s] # "on" \/ s \notin lookup)

(* The event stream comes to rest if whoever has stopped is unsubscribed   *)
(* in the end, before or after: an event forwarded to a subscriber that    *)
(* is gone becomes a dead letter, which is an event, which is forwarded to *)
(* it, until the eventUnsub behind it comes.                               *)
EventsCease ==
  <>[](\A s \in Subs : life[s] = "on" => s \in lookup) => <>[](events = <<>>)
=============================================================================
