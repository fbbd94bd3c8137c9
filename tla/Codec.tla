------------------------------- MODULE Codec --------------------------------
(***************************************************************************)
(* One end marshals messages of one type, a connection carries the bytes,  *)
(* the other end decodes them into a fresh message: the drpc encoding of   *)
(* the stream (remote/remote_drpc.pb.go) on top of the generated code of   *)
(* Wire.  A relay, built from a schema without some of the fields, decodes *)
(* the message and marshals it again.                                      *)
(*                                                                         *)
(* On the stream the encoding is used for the Envelope, with the Messages  *)
(* and PIDs in it, and SendRepeat and engine.go use CloneVT of a PID.  The *)
(* code is generated for the other types all the same; the payload of a    *)
(* Message is marshalled by the protobuf library (ProtoSerializer), and is *)
(* a string of bytes here.                                                 *)
(***************************************************************************)
EXTENDS RemoteWire, ClusterWire

CONSTANTS
    Values,     \* [type name -> the messages of that type that are sent]
    Skew        \* pairs <<t, r>>: r has a subset of the fields of t

VARIABLES
    type,       \* the message type of this behaviour
    pc,         \* "idle", "chosen", "wire" (bytes in flight), "got"
    sent,       \* the message the sender was given
    out,        \* the message it marshals: sent, or a clone of it
    wire,       \* the bytes in flight, an optional value: <<>> is a panic
    cut,        \* the frame was broken off
    got         \* what Recv returned

vars == <<type, pc, sent, out, wire, cut, got>>

Types == DOMAIN Values

-----------------------------------------------------------------------------
(* The methods of the generated types, by type name.                        *)

EmptyOf(t) ==
    CASE t = "PID" -> EmptyPID [] t = "Ping" -> EmptyPing [] t = "Pong" -> EmptyPong
      [] t = "Message" -> EmptyMessage [] t = "Envelope" -> EmptyEnvelope
      [] t = "TestMessage" -> EmptyTestMessage [] t = "CID" -> EmptyCID
      [] t = "Member" -> EmptyMember [] t = "Members" -> EmptyMembers
      [] t = "MembersJoin" -> EmptyMembersJoin
      [] t = "MembersLeave" -> EmptyMembersLeave
      [] t = "Handshake" -> EmptyHandshake [] t = "Topology" -> EmptyTopology
      [] t = "ActorInfo" -> EmptyActorInfo
      [] t = "ActorTopology" -> EmptyActorTopology
      [] t = "Activation" -> EmptyActivation
      [] t = "Deactivation" -> EmptyDeactivation
      [] t = "ActivationRequest" -> EmptyActivationRequest
      [] t = "ActivationResponse" -> EmptyActivationResponse

BodyOf(t, m) ==
    CASE t = "PID" -> MarshalPID(m) [] t = "Ping" -> MarshalPing(m)
      [] t = "Pong" -> MarshalPong(m) [] t = "Message" -> MarshalMessage(m)
      [] t = "Envelope" -> MarshalEnvelope(m)
      [] t = "TestMessage" -> MarshalTestMessage(m) [] t = "CID" -> MarshalCID(m)
      [] t = "Member" -> MarshalMember(m) [] t = "Members" -> MarshalMembers(m)
      [] t = "MembersJoin" -> MarshalMembersJoin(m)
      [] t = "MembersLeave" -> MarshalMembersLeave(m)
      [] t = "Handshake" -> MarshalHandshake(m)
      [] t = "Topology" -> MarshalTopology(m)
      [] t = "ActorInfo" -> MarshalActorInfo(m)
      [] t = "ActorTopology" -> MarshalActorTopology(m)
      [] t = "Activation" -> MarshalActivation(m)
      [] t = "Deactivation" -> MarshalDeactivation(m)
      [] t = "ActivationRequest" -> MarshalActivationRequest(m)
      [] t = "ActivationResponse" -> MarshalActivationResponse(m)

SizeOf(t, m) ==
    CASE t = "PID" -> SizePID(m) [] t = "Ping" -> SizePing(m)
      [] t = "Pong" -> SizePong(m) [] t = "Message" -> SizeMessage(m)
      [] t = "Envelope" -> SizeEnvelope(m)
      [] t = "TestMessage" -> SizeTestMessage(m) [] t = "CID" -> SizeCID(m)
      [] t = "Member" -> SizeMember(m) [] t = "Members" -> SizeMembers(m)
      [] t = "MembersJoin" -> SizeMembersJoin(m)
      [] t = "MembersLeave" -> SizeMembersLeave(m)
      [] t = "Handshake" -> SizeHandshake(m) [] t = "Topology" -> SizeTopology(m)
      [] t = "ActorInfo" -> SizeActorInfo(m)
      [] t = "ActorTopology" -> SizeActorTopology(m)
      [] t = "Activation" -> SizeActivation(m)
      [] t = "Deactivation" -> SizeDeactivation(m)
      [] t = "ActivationRequest" -> SizeActivationRequest(m)
      [] t = "ActivationResponse" -> SizeActivationResponse(m)

DecodeInto(t, m, data) ==
    CASE t = "PID" -> UnmarshalPID(m, data) [] t = "Ping" -> UnmarshalPing(m, data)
      [] t = "Pong" -> UnmarshalPong(m, data)
      [] t = "Message" -> UnmarshalMessage(m, data)
      [] t = "Envelope" -> UnmarshalEnvelope(m, data)
      [] t = "TestMessage" -> UnmarshalTestMessage(m, data)
      [] t = "CID" -> UnmarshalCID(m, data)
      [] t = "Member" -> UnmarshalMember(m, data)
      [] t = "Members" -> UnmarshalMembers(m, data)
      [] t = "MembersJoin" -> UnmarshalMembersJoin(m, data)
      [] t = "MembersLeave" -> UnmarshalMembersLeave(m, data)
      [] t = "Handshake" -> UnmarshalHandshake(m, data)
      [] t = "Topology" -> UnmarshalTopology(m, data)
      [] t = "ActorInfo" -> UnmarshalActorInfo(m, data)
      [] t = "ActorTopology" -> UnmarshalActorTopology(m, data)
      [] t = "Activation" -> UnmarshalActivation(m, data)
      [] t = "Deactivation" -> UnmarshalDeactivation(m, data)
      [] t = "ActivationRequest" -> UnmarshalActivationRequest(m, data)
      [] t = "ActivationResponse" -> UnmarshalActivationResponse(m, data)

EqualVT(t, this, that) ==
    CASE t = "PID" -> EqualPID(this, that) [] t = "Ping" -> EqualPing(this, that)
      [] t = "Pong" -> EqualPong(this, that)
      [] t = "Message" -> EqualMessage(this, that)
      [] t = "Envelope" -> EqualEnvelope(this, that)
      [] t = "TestMessage" -> EqualTestMessage(this, that)
      [] t = "CID" -> EqualCID(this, that)
      [] t = "Member" -> EqualMember(this, that)
      [] t = "Members" -> EqualMembers(this, that)
      [] t = "MembersJoin" -> EqualMembersJoin(this, that)
      [] t = "MembersLeave" -> EqualMembersLeave(this, that)
      [] t = "Handshake" -> EqualHandshake(this, that)
      [] t = "Topology" -> EqualTopology(this, that)
      [] t = "ActorInfo" -> EqualActorInfo(this, that)
      [] t = "ActorTopology" -> EqualActorTopology(this, that)
      [] t = "Activation" -> EqualActivation(this, that)
      [] t = "Deactivation" -> EqualDeactivation(this, that)
      [] t = "ActivationRequest" -> EqualActivationRequest(this, that)
      [] t = "ActivationResponse" -> EqualActivationResponse(this, that)

CloneVT(t, m) ==
    CASE t = "PID" -> ClonePID(m) [] t = "Ping" -> ClonePing(m)
      [] t = "Pong" -> ClonePong(m) [] t = "Message" -> CloneMessage(m)
      [] t = "Envelope" -> CloneEnvelope(m)
      [] t = "TestMessage" -> CloneTestMessage(m) [] t = "CID" -> CloneCID(m)
      [] t = "Member" -> CloneMember(m) [] t = "Members" -> CloneMembers(m)
      [] t = "MembersJoin" -> CloneMembersJoin(m)
      [] t = "MembersLeave" -> CloneMembersLeave(m)
      [] t = "Handshake" -> CloneHandshake(m) [] t = "Topology" -> CloneTopology(m)
      [] t = "ActorInfo" -> CloneActorInfo(m)
      [] t = "ActorTopology" -> CloneActorTopology(m)
      [] t = "Activation" -> CloneActivation(m)
      [] t = "Deactivation" -> CloneDeactivation(m)
      [] t = "ActivationRequest" -> CloneActivationRequest(m)
      [] t = "ActivationResponse" -> CloneActivationResponse(m)

Bytes(t, m) == MarshalVT(SizeOf(t, m), BodyOf(t, m))

-----------------------------------------------------------------------------
Init ==
    /\ type \in Types
    /\ pc = "idle"
    /\ sent = EmptyOf(type)
    /\ out = EmptyOf(type)
    /\ wire = Nil
    /\ cut = FALSE
    /\ got = Nil

Choose ==
    /\ pc = "idle"
    /\ pc' = "chosen"
    /\ \E m \in Values[type] : sent' = m /\ out' = m
    /\ UNCHANGED <<type, wire, cut, got>>

\* SendRepeat keeps a clone of the PID it was given.
Clone ==
    /\ pc = "chosen"
    /\ out' = CloneVT(type, out)
    /\ UNCHANGED <<type, pc, sent, wire, cut, got>>

MsgSend ==
    /\ pc = "chosen"
    /\ pc' = "wire"
    /\ wire' = Bytes(type, out)
    /\ UNCHANGED <<type, sent, out, cut, got>>

\* The frame is broken off.  drpc itself drops a partial frame; a decoder that is
\* handed one has only its own checks of the length to notice it.
CutFrame ==
    /\ pc = "wire"
    /\ wire # Nil
    /\ ~cut
    /\ cut' = TRUE
    /\ \E n \in 0..(Len(wire[1]) - 1) : wire' = <<SubSeq(wire[1], 1, n)>>
    /\ UNCHANGED <<type, pc, sent, out, got>>

\* A node with the older schema passes the message on.
Relay ==
    /\ pc = "wire"
    /\ wire # Nil
    /\ ~cut
    /\ \E r \in Types :
          /\ <<type, r>> \in Skew
          /\ LET m == DecodeInto(r, EmptyOf(r), wire[1])
             IN wire' = IF m = Nil THEN Nil ELSE Bytes(r, m[1])
    /\ UNCHANGED <<type, pc, sent, out, cut, got>>

Recv ==
    /\ pc = "wire"
    /\ pc' = "got"
    /\ got' = IF wire = Nil THEN Nil ELSE DecodeInto(type, EmptyOf(type), wire[1])
    /\ UNCHANGED <<type, sent, out, wire, cut>>

Next == Choose \/ Clone \/ MsgSend \/ CutFrame \/ Relay \/ Recv

Spec == Init /\ [][Next]_vars

-----------------------------------------------------------------------------
\* What is received is EqualVT to what was sent: through a clone or not,
\* straight or by way of a node that does not know some of the fields and keeps
\* them as unknownFields.  SizeVT, MarshalToSizedBufferVT, UnmarshalVT, CloneVT
\* and EqualVT name the fields, tags and lengths independently of each other;
\* a buffer one byte too large or small, or a varint of the wrong width, shifts
\* every byte.
RoundTrip ==
    pc = "got" /\ ~cut => got # Nil /\ EqualVT(type, got[1], sent)

\* UnmarshalVT never takes part of a field: a frame that is broken off is either
\* refused, or ends with a whole field, at every level of nesting, and what was
\* decoded marshals to exactly the bytes that came.
CutIsNoticed ==
    pc = "got" /\ cut /\ got # Nil => Bytes(type, got[1]) = wire

\* The encoding is canonical: two messages marshal to the same bytes exactly
\* when they are EqualVT (a nil element of a repeated field and an empty one,
\* which EqualVT equates, included).
Canonical ==
    pc = "wire" /\ ~cut =>
        \A m \in Values[type] :
            EqualVT(type, sent, m) <=> Bytes(type, sent) = Bytes(type, m)
=============================================================================
