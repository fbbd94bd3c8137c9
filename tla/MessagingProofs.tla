-------------------------- MODULE MessagingProofs --------------------------
(***************************************************************************)
(* Proofs about the requests and responses of Messaging, for any number of *)
(* requests and replies.  The event stream plays no part in them.          *)
(***************************************************************************)
EXTENDS Messaging, SequenceTheorems, TLAPS

Envelope == [payload : Requests, sender : Nat \ {0}]

(* The type of what a request passes through *)
RequestTypeOK ==
  /\ seq \in Nat
  /\ rid \in [Requests -> Nat]
  /\ caller \in [Requests -> {"new", "send", "push", "idle", "wait", "remove", "done"}]
  /\ result \in [Requests -> Seq(Requests)]
  /\ returned \in [Requests -> Requests \cup {None, "timeout"}]
  /\ responses \subseteq Nat \X Requests
  /\ inbox \in Seq(Envelope)
  /\ cur \in Envelope \cup {NoMsg}
  /\ left \in Nat
  /\ target \in Requests \cup {None}

(* responseSeq: no two requests have an ID in common, and whoever carries  *)
(* an ID about carries the one of its own request.                         *)
IdInv ==
  /\ \A r \in Requests : rid[r] <= seq /\ (caller[r] = "new" <=> rid[r] = 0)
  /\ \A r, q \in Requests : rid[r] = rid[q] /\ rid[r] # 0 => r = q
  /\ \A p \in responses : p[1] = rid[p[2]] /\ rid[p[2]] # 0
  /\ \A i \in 1..Len(inbox) : inbox[i].sender = rid[inbox[i].payload]
  /\ cur # NoMsg => cur.sender = rid[cur.payload] /\ left # 0
  /\ target # None => cur # NoMsg /\ target = cur.payload

(* A channel holds the reply to its own request, or nothing. *)
ChannelInv ==
  \A r \in Requests : result[r] \in {<<>>, <<r>>} /\ returned[r] \in {None, "timeout", r}

(* The inductive invariant behind OwnReply *)
ReplyInv == RequestTypeOK /\ IdInv /\ ChannelInv

(* With one reply to a request at most, the reply in a channel is the last *)
(* trace of its request on the server's side, which comes once: from the   *)
(* caller, in the inbox, then in Receive.                                  *)
Unsent == {"new", "send", "push"}
SingleReply == \A r \in Requests : Replies[r] <= 1
OnceInv ==
  /\ \A r \in Requests : result[r] # <<>> =>
       /\ caller[r] \notin Unsent
       /\ cur # NoMsg => cur.payload # r
       /\ \A i \in 1..Len(inbox) : inbox[i].payload # r
  /\ \A i, j \in 1..Len(inbox) : inbox[i].payload = inbox[j].payload => i = j
  /\ \A i \in 1..Len(inbox) : caller[inbox[i].payload] \notin Unsent
  /\ cur # NoMsg =>
       /\ left = 1
       /\ caller[cur.payload] \notin Unsent
       /\ \A i \in 1..Len(inbox) : inbox[i].payload # cur.payload

(* The inductive invariant behind ReplyNeverBlocks *)
SingleInv == ReplyInv /\ (SingleReply => OnceInv)

----------------------------------------------------------------------------
(* The requests' invariant holds before the first request ... *)
LEMMA ReplyInit == Init => ReplyInv
BY EmptySeq DEF Init, ReplyInv, RequestTypeOK, IdInv, ChannelInv

(* Append adds one element, the new one. *)
LEMMA AppendElements ==
  ASSUME NEW S, NEW s \in Seq(S), NEW e \in S
  PROVE  \A i \in 1..Len(Append(s, e)) :
           \/ Append(s, e)[i] = e
           \/ i \in 1..Len(s) /\ Append(s, e)[i] = s[i]
<1>1. Len(s) \in Nat /\ Len(Append(s, e)) = Len(s) + 1
  BY Zenon, AppendProperties, LenProperties
<1>2. TAKE i \in 1..Len(Append(s, e))
<1>3. CASE i = Len(s) + 1
  BY Zenon, <1>3, AppendProperties
<1>4. CASE i \in 1..Len(s)
  BY ZenonT(30), <1>4, AppendProperties
<1>. QED  BY <1>1, <1>3, <1>4

(* What is in the inbox, and at work, is an envelope. *)
LEMMA Envelopes ==
  ASSUME RequestTypeOK
  PROVE  /\ \A i \in 1..Len(inbox) : inbox[i].payload \in Requests /\ inbox[i].sender \in Nat \ {0}
         /\ cur # NoMsg => cur.payload \in Requests /\ cur.sender \in Nat \ {0}
<1>1. \A i \in 1..Len(inbox) : inbox[i] \in Envelope
  BY Zenon, ElementOfSeq DEF RequestTypeOK
<1>. QED  BY Zenon, <1>1 DEF RequestTypeOK, Envelope

(* ... and every step keeps it. *)
LEMMA ReplyStep == ReplyInv /\ [Next]_vars => ReplyInv'
<1>. SUFFICES ASSUME ReplyInv, [Next]_vars PROVE ReplyInv'
  BY Zenon
<1>. USE DEF ReplyInv
<1>0. USE Envelopes
<1>1. ASSUME NEW r \in Requests, Request(r) PROVE ReplyInv'
  <2>. USE <1>1 DEF Request, serverVars
  <2>1. RequestTypeOK'
    BY DEF RequestTypeOK
  <2>2. rid[r] = 0 /\ rid'[r] = seq + 1 /\ \A q \in Requests \ {r} : rid'[q] = rid[q]
    BY Zenon DEF RequestTypeOK, IdInv
  <2>3. \A p \in responses : p[2] # r /\ p[2] \in Requests
    BY Zenon, <2>2 DEF RequestTypeOK, IdInv
  <2>4. IdInv'
    BY SMTT(30), <2>2, <2>3 DEF RequestTypeOK, IdInv
  <2>. QED  BY ZenonT(30), <2>1, <2>4 DEF ChannelInv
<1>2. ASSUME NEW r \in Requests, RequestGet(r) \/ Result(r) \/ ResultTimeout(r) PROVE ReplyInv'
  <2>. USE <1>2 DEF RequestGet, Result, ResultTimeout, serverVars
  <2>1. RequestTypeOK'
    BY Zenon DEF RequestTypeOK
  <2>2. IdInv'
    BY SMTT(30) DEF RequestTypeOK, IdInv
  <2>. QED  BY ZenonT(30), <2>1, <2>2 DEF ChannelInv, RequestTypeOK
<1>3. ASSUME NEW r \in Requests, RequestPush(r) PROVE ReplyInv'
  <2>. USE <1>3 DEF RequestPush
  <2>. DEFINE e == [payload |-> r, sender |-> rid[r]]
  <2>1. e \in Envelope
    BY Zenon DEF RequestTypeOK, IdInv, Envelope
  <2>2. RequestTypeOK'
    BY Zenon, <2>1, AppendProperties DEF RequestTypeOK
  <2>3. \A i \in 1..Len(inbox') : inbox'[i] = e \/ (i \in 1..Len(inbox) /\ inbox'[i] = inbox[i])
    <3>1. inbox \in Seq(Envelope) /\ inbox' = Append(inbox, e)
      BY Zenon DEF RequestTypeOK
    <3>. HIDE DEF e
    <3>. QED  BY ONLY <2>1, <3>1, AppendElements
  <2>4. IdInv'
    BY SMTT(30), <2>2, <2>3 DEF RequestTypeOK, IdInv
  <2>. QED  BY Zenon, <2>2, <2>4 DEF ChannelInv
<1>4. ASSUME NEW r \in Requests, ResultReceive(r) PROVE ReplyInv'
  <2>. USE <1>4 DEF ResultReceive, serverVars
  <2>0. result[r] = <<r>>
    BY Zenon DEF ChannelInv
  <2>1. result[r] = <<r>> /\ Head(result[r]) = r /\ Tail(result[r]) = <<>>
    BY <2>0
  <2>2. RequestTypeOK'
    BY Zenon, <2>1, EmptySeq DEF RequestTypeOK
  <2>3. IdInv'
    BY Zenon DEF RequestTypeOK, IdInv
  <2>4. ChannelInv'
    BY Zenon, <2>1 DEF ChannelInv, RequestTypeOK
  <2>. QED  BY Zenon, <2>2, <2>3, <2>4
<1>5. ASSUME NEW r \in Requests, ResultRemove(r) PROVE ReplyInv'
  BY Zenon, <1>5 DEF ResultRemove, serverVars, RequestTypeOK, IdInv, ChannelInv
<1>6. CASE Receive
  <2>. USE <1>6 DEF Receive, callerVars
  <2>1. Head(inbox) = inbox[1] /\ 1 \in 1..Len(inbox) /\ inbox[1] \in Envelope /\ Tail(inbox) \in Seq(Envelope)
    BY HeadTailProperties, ElementOfSeq DEF RequestTypeOK
  <2>2. \A i \in 1..Len(Tail(inbox)) : Tail(inbox)[i] = inbox[i + 1] /\ i + 1 \in 1..Len(inbox)
    BY HeadTailProperties DEF RequestTypeOK
  <2>3. Replies[inbox[1].payload] \in Nat
    BY Zenon, <2>1, MessagingAssumption
  <2>4. RequestTypeOK'
    BY ZenonT(30), <2>1, <2>3 DEF RequestTypeOK
  <2>5. IdInv'
    BY SMTT(30), <2>1, <2>2, <2>3 DEF RequestTypeOK, IdInv
  <2>. QED  BY ZenonT(30), <2>4, <2>5 DEF ChannelInv
<1>7. CASE RespondDead
  BY <1>7 DEF RespondDead, Responded, callerVars, RequestTypeOK, IdInv, ChannelInv
<1>8. CASE RespondGet
  <2>. USE <1>8 DEF RespondGet, callerVars
  <2>1. PICK p \in responses : p[1] = cur.sender /\ target' = p[2]
    BY Zenon
  <2>2. p[2] \in Requests /\ p[2] = cur.payload
    BY <2>1 DEF RequestTypeOK, IdInv
  <2>. QED  BY ZenonT(30), <2>1, <2>2 DEF RequestTypeOK, IdInv, ChannelInv
<1>9. CASE RespondPush
  <2>. USE <1>9 DEF RespondPush, Responded, callerVars
  <2>1. target \in Requests /\ cur.payload = target /\ left # 0
    BY Zenon DEF RequestTypeOK, IdInv
  <2>2. Append(result[target], cur.payload) = <<target>> /\ <<target>> \in Seq(Requests)
    BY <2>1
  <2>3. RequestTypeOK'
    BY <2>1, <2>2 DEF RequestTypeOK
  <2>4. IdInv'
    BY <2>1 DEF RequestTypeOK, IdInv
  <2>5. ChannelInv'
    BY Zenon, <2>1, <2>2 DEF ChannelInv, RequestTypeOK
  <2>. QED  BY ZenonT(30), <2>3, <2>4, <2>5
<1>10. CASE UNCHANGED <<callerVars, result, responses, inbox, cur, left, target>>
  BY Zenon, <1>10 DEF callerVars, RequestTypeOK, IdInv, ChannelInv
<1>. QED
  BY Zenon, <1>1, <1>2, <1>3, <1>4, <1>5, <1>6, <1>7, <1>8, <1>9, <1>10
  DEF Next, CallerStep, ServerStep, StreamStep, ServerStop, ServerRemove, SendForeign,
      Subscribe, Unsubscribe, SubscriberStop, StreamSubscribe, StreamIgnore, StreamBegin,
      Forward, serverVars, vars

(* Result returns the reply to its own request, or an error, whatever the  *)
(* interleaving of callers and server: Response IDs are never reused.      *)
THEOREM OwnReplySafe == Spec => []OwnReply
<1>1. ReplyInv => OwnReply
  BY DEF ReplyInv, ChannelInv, OwnReply, Range
<1>. QED  BY <1>1, ReplyInit, ReplyStep, PTL DEF Spec

----------------------------------------------------------------------------
(* With one reply at most, no step lets a request come a second time or    *)
(* leaves a reply behind while its request is still to be served.          *)
LEMMA OnceStep ==
  ASSUME ReplyInv, SingleReply, OnceInv, [Next]_vars
  PROVE  OnceInv'
<1>. USE Envelopes DEF ReplyInv, OnceInv, Unsent
<1>1. ASSUME NEW r \in Requests, Request(r) \/ RequestGet(r) \/ Result(r) \/ ResultTimeout(r)
                                   \/ ResultRemove(r)
      PROVE  OnceInv'
  <2>1. /\ result' = result /\ inbox' = inbox /\ cur' = cur /\ left' = left
        /\ caller[r] \in Unsent \/ caller'[r] \notin Unsent
        /\ \A q \in Requests \ {r} : caller'[q] = caller[q]
    BY ZenonT(30), <1>1 DEF Request, RequestGet, Result, ResultTimeout, ResultRemove, serverVars,
       RequestTypeOK
  <2>. QED  BY ZenonT(30), <2>1 DEF RequestTypeOK
<1>2. ASSUME NEW r \in Requests, RequestPush(r) PROVE OnceInv'
  <2>. DEFINE e == [payload |-> r, sender |-> rid[r]]
  <2>1. /\ inbox' = Append(inbox, e) /\ inbox \in Seq(Envelope) /\ e \in Envelope
        /\ result' = result /\ cur' = cur /\ left' = left
        /\ caller[r] \in Unsent /\ caller'[r] \notin Unsent
        /\ \A q \in Requests \ {r} : caller'[q] = caller[q]
    BY Zenon, <1>2 DEF RequestPush, RequestTypeOK, IdInv, Envelope
  <2>2. /\ Len(inbox') = Len(inbox) + 1 /\ Len(inbox) \in Nat
        /\ inbox'[Len(inbox) + 1].payload = r
        /\ \A i \in 1..Len(inbox) : inbox'[i] = inbox[i] /\ inbox[i].payload # r
    BY <2>1, AppendProperties, LenProperties
  <2>3. \A i \in 1..Len(inbox') : i \in 1..Len(inbox) \/ i = Len(inbox) + 1
    BY <2>2
  <2>4. \A i \in 1..Len(inbox') : i \in 1..Len(inbox) <=> inbox'[i].payload # r
    BY Zenon, <2>2, <2>3
  <2>5. \A q \in Requests : result[q] # <<>> => q # r
    BY Zenon, <2>1
  <2>6. \A i, j \in 1..Len(inbox') : inbox'[i].payload = inbox'[j].payload => i = j
    BY ZenonT(30), <2>2, <2>3, <2>4
  <2>7. \A q \in Requests : result'[q] # <<>> =>
          /\ caller'[q] \notin Unsent
          /\ cur' # NoMsg => cur'.payload # q
          /\ \A i \in 1..Len(inbox') : inbox'[i].payload # q
    <3>. HIDE DEF e
    <3>. QED  BY SMTT(30), <2>1, <2>2, <2>3, <2>5
  <2>8. \A i \in 1..Len(inbox') : caller'[inbox'[i].payload] \notin Unsent
    BY SMTT(30), <2>1, <2>2, <2>3
  <2>9. cur' # NoMsg =>
          /\ left' = 1
          /\ caller'[cur'.payload] \notin Unsent
          /\ \A i \in 1..Len(inbox') : inbox'[i].payload # cur'.payload
    <3>. HIDE DEF e
    <3>. QED  BY <2>1, <2>2, <2>3
  <2>. QED  BY Zenon, <2>6, <2>7, <2>8, <2>9
<1>3. ASSUME NEW r \in Requests, ResultReceive(r) PROVE OnceInv'
  <2>1. /\ inbox' = inbox /\ cur' = cur /\ left' = left
        /\ caller[r] \notin Unsent /\ caller'[r] \notin Unsent
        /\ \A q \in Requests \ {r} : caller'[q] = caller[q] /\ result'[q] = result[q]
        /\ result[r] # <<>>
    BY Zenon, <1>3 DEF ResultReceive, serverVars, RequestTypeOK
  <2>. QED  BY ZenonT(30), <2>1 DEF RequestTypeOK
<1>4. CASE Receive
  <2>. USE <1>4 DEF Receive, callerVars
  <2>1. /\ Head(inbox) = inbox[1] /\ Len(inbox) \in Nat /\ 1 \in 1..Len(inbox) /\ Len(inbox') = Len(inbox) - 1
        /\ \A i \in 1..Len(inbox') : inbox'[i] = inbox[i + 1]
    BY HeadTailProperties, LenProperties DEF RequestTypeOK
  <2>2. \A i \in 1..Len(inbox') : i + 1 \in 1..Len(inbox) /\ i + 1 # 1
    BY <2>1
  <2>3. cur' # NoMsg => cur' = inbox[1] /\ left' = Replies[inbox[1].payload] /\ left' # 0
    BY Zenon, <2>1
  <2>4. inbox[1].payload \in Requests /\ Replies[inbox[1].payload] \in {0, 1}
    BY <2>1, MessagingAssumption DEF SingleReply
  <2>5. cur' # NoMsg => left' = 1 /\ \A i \in 1..Len(inbox') : inbox'[i].payload # cur'.payload
    BY ZenonT(30), <2>1, <2>2, <2>3, <2>4
  <2>6. \A r \in Requests : result'[r] # <<>> /\ cur' # NoMsg => cur'.payload # r
    BY ZenonT(30), <2>1, <2>3
  <2>7. \A i, j \in 1..Len(inbox') : inbox'[i].payload = inbox'[j].payload => i = j
    <3>. SUFFICES ASSUME NEW i \in 1..Len(inbox'), NEW j \in 1..Len(inbox'),
                         inbox'[i].payload = inbox'[j].payload
                  PROVE  i = j
      BY Zenon
    <3>1. i + 1 = j + 1
      BY <2>1, <2>2
    <3>. QED  BY <3>1
  <2>. QED  BY <2>1, <2>2, <2>3, <2>5, <2>6, <2>7
<1>5. CASE RespondDead \/ RespondGet
  BY Zenon, <1>5 DEF RespondDead, RespondGet, Responded, callerVars
<1>6. CASE RespondPush
  <2>1. /\ cur # NoMsg /\ target = cur.payload /\ left = 1 /\ target \in Requests
        /\ cur' = NoMsg /\ inbox' = inbox /\ caller' = caller
        /\ \A q \in Requests \ {target} : result'[q] = result[q]
    BY Zenon, <1>6 DEF RespondPush, Responded, callerVars, RequestTypeOK, IdInv
  <2>2. caller[target] \notin Unsent /\ \A i \in 1..Len(inbox) : inbox[i].payload # target
    BY Zenon, <2>1
  <2>3. \A r \in Requests : result'[r] # <<>> =>
          /\ caller[r] \notin Unsent
          /\ \A i \in 1..Len(inbox) : inbox[i].payload # r
    BY Zenon, <2>1, <2>2
  <2>. QED  BY ZenonT(30), <2>1, <2>2, <2>3
<1>7. CASE UNCHANGED <<callerVars, result, responses, inbox, cur, left, target>>
  BY Zenon, <1>7 DEF callerVars
<1>. QED
  BY ZenonT(30), <1>1, <1>2, <1>3, <1>4, <1>5, <1>6, <1>7
  DEF Next, CallerStep, ServerStep, StreamStep, ServerStop, ServerRemove, SendForeign,
      Subscribe, Unsubscribe, SubscriberStop, StreamSubscribe, StreamIgnore, StreamBegin,
      Forward, serverVars, vars

(* A server that responds once never waits in Response.Send, for any       *)
(* number of requests and at any moment a caller may time out.             *)
THEOREM ReplyNeverBlocksSafe == Spec => []ReplyNeverBlocks
<1>1. Init => SingleInv
  BY ReplyInit DEF SingleInv, OnceInv, Init
<1>2. SingleInv /\ [Next]_vars => SingleInv'
  BY ZenonT(30), ReplyStep, OnceStep DEF SingleInv, SingleReply
<1>3. SingleInv => ReplyNeverBlocks
  BY Zenon DEF SingleInv, SingleReply, OnceInv, ReplyInv, IdInv, RequestTypeOK, ReplyNeverBlocks
<1>. QED  BY <1>1, <1>2, <1>3, PTL DEF Spec
=============================================================================
