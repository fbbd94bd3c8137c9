----------------------------- MODULE RemoteWire -----------------------------
(***************************************************************************)
(* The messages of remote.proto: the Envelope a stream carries, its        *)
(* Message entries, and TestMessage (remote/remote_vtproto.pb.go).  These  *)
(* are the bytes on the connection: the drpc encoding of the stream calls  *)
(* MarshalVT and UnmarshalVT.                                              *)
(***************************************************************************)
EXTENDS ActorWire

-----------------------------------------------------------------------------
EmptyMessage ==
    [Data |-> <<>>, TargetIndex |-> <<>>, SenderIndex |-> <<>>,
     TypeNameIndex |-> <<>>, unknownFields |-> <<>>]

MarshalMessage(m) ==
    PutString(\h0a, m.Data) \o PutVarint(\h10, m.TargetIndex) \o
    PutVarint(\h18, m.SenderIndex) \o PutVarint(\h20, m.TypeNameIndex) \o
    m.unknownFields

\* A mutant of SizeMessage that leaves a field out.
SizeMessageNoSender(m) ==
    SizeString(m.Data) + SizeVarint(m.TargetIndex) +
    SizeVarint(m.TypeNameIndex) + Len(m.unknownFields)

SizeMessage(m) ==
    SizeString(m.Data) + SizeVarint(m.TargetIndex) + SizeVarint(m.SenderIndex) +
    SizeVarint(m.TypeNameIndex) + Len(m.unknownFields)

UnmarshalMessage(m0, data) ==
    UnmarshalVT(LAMBDA m, e :
        CASE e.num = 1 -> GetString(m, e, "Data")
          [] e.num = 2 -> GetInt32(m, e, "TargetIndex")
          [] e.num = 3 -> GetInt32(m, e, "SenderIndex")
          [] e.num = 4 -> GetInt32(m, e, "TypeNameIndex")
          [] OTHER -> Unknown(m, e), m0, data)

\* A mutant of EqualMessage that does not look at the type.
EqualMessageNoType(this, that) ==
    /\ this.Data = that.Data
    /\ this.TargetIndex = that.TargetIndex
    /\ this.SenderIndex = that.SenderIndex
    /\ this.unknownFields = that.unknownFields

EqualMessage(this, that) ==
    /\ this.Data = that.Data
    /\ this.TargetIndex = that.TargetIndex
    /\ this.SenderIndex = that.SenderIndex
    /\ this.TypeNameIndex = that.TypeNameIndex
    /\ this.unknownFields = that.unknownFields

CloneMessage(m) ==
    [Data |-> m.Data, TargetIndex |-> m.TargetIndex, SenderIndex |-> m.SenderIndex,
     TypeNameIndex |-> m.TypeNameIndex, unknownFields |-> m.unknownFields]

-----------------------------------------------------------------------------
EmptyEnvelope ==
    [TypeNames |-> <<>>, Targets |-> <<>>, Senders |-> <<>>, Messages |-> <<>>,
     unknownFields |-> <<>>]

MarshalEnvelope(m) ==
    PutStrings(\h0a, m.TypeNames) \o PutSubs(\h12, MarshalPID, m.Targets) \o
    PutSubs(\h1a, MarshalPID, m.Senders) \o
    PutSubs(\h22, MarshalMessage, m.Messages) \o m.unknownFields

SizeEnvelope(m) ==
    SizeStrings(m.TypeNames) + SizeSubs(SizePID, m.Targets) +
    SizeSubs(SizePID, m.Senders) + SizeSubs(SizeMessage, m.Messages) +
    Len(m.unknownFields)

UnmarshalEnvelope(m0, data) ==
    UnmarshalVT(LAMBDA m, e :
        CASE e.num = 1 -> GetStrings(m, e, "TypeNames")
          [] e.num = 2 -> GetSubs(m, e, "Targets", UnmarshalPID, EmptyPID)
          [] e.num = 3 -> GetSubs(m, e, "Senders", UnmarshalPID, EmptyPID)
          [] e.num = 4 -> GetSubs(m, e, "Messages", UnmarshalMessage, EmptyMessage)
          [] OTHER -> Unknown(m, e), m0, data)

EqualEnvelope(this, that) ==
    /\ this.TypeNames = that.TypeNames
    /\ EqualSubs(EqualPID, this.Targets, that.Targets, EmptyPID)
    /\ EqualSubs(EqualPID, this.Senders, that.Senders, EmptyPID)
    /\ EqualSubs(EqualMessage, this.Messages, that.Messages, EmptyMessage)
    /\ this.unknownFields = that.unknownFields

CloneEnvelope(m) ==
    [TypeNames |-> m.TypeNames, Targets |-> CloneSubs(ClonePID, m.Targets),
     Senders |-> CloneSubs(ClonePID, m.Senders),
     Messages |-> CloneSubs(CloneMessage, m.Messages),
     unknownFields |-> m.unknownFields]

-----------------------------------------------------------------------------
EmptyTestMessage == [Data |-> <<>>, unknownFields |-> <<>>]

MarshalTestMessage(m) == PutString(\h0a, m.Data) \o m.unknownFields

SizeTestMessage(m) == SizeString(m.Data) + Len(m.unknownFields)

UnmarshalTestMessage(m0, data) ==
    UnmarshalVT(LAMBDA m, e :
        CASE e.num = 1 -> GetString(m, e, "Data")
          [] OTHER -> Unknown(m, e), m0, data)

EqualTestMessage(this, that) ==
    /\ this.Data = that.Data
    /\ this.unknownFields = that.unknownFields

CloneTestMessage(m) == [Data |-> m.Data, unknownFields |-> m.unknownFields]
=============================================================================
