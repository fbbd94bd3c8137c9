----------------------------- MODULE ActorWire ------------------------------
(***************************************************************************)
(* The messages of actor.proto as actor/actor_vtproto.pb.go encodes,       *)
(* measures, decodes, compares and copies them.  Each generated function   *)
(* names its fields, tags and wire types anew, so each has a definition of *)
(* its own here: a field left out of one of the five shows in the          *)
(* properties of Codec.  Marshal<T> is MarshalToSizedBufferVT of a non-nil *)
(* message; MarshalVT around it is in Wire.                                *)
(***************************************************************************)
EXTENDS Wire

-----------------------------------------------------------------------------
EmptyPID == [Address |-> <<>>, ID |-> <<>>, unknownFields |-> <<>>]

MarshalPID(m) ==
    PutString(\h0a, m.Address) \o PutString(\h12, m.ID) \o m.unknownFields

SizePID(m) == SizeString(m.Address) + SizeString(m.ID) + Len(m.unknownFields)

UnmarshalPID(m0, data) ==
    UnmarshalVT(LAMBDA m, e :
        CASE e.num = 1 -> GetString(m, e, "Address")
          [] e.num = 2 -> GetString(m, e, "ID")
          [] OTHER -> Unknown(m, e), m0, data)

EqualPID(this, that) ==
    /\ this.Address = that.Address
    /\ this.ID = that.ID
    /\ this.unknownFields = that.unknownFields

ClonePID(m) ==
    [Address |-> m.Address, ID |-> m.ID, unknownFields |-> m.unknownFields]

-----------------------------------------------------------------------------
EmptyPing == [From |-> Nil, unknownFields |-> <<>>]

MarshalPing(m) == PutSub(\h0a, MarshalPID, m.From) \o m.unknownFields

SizePing(m) == SizeSub(SizePID, m.From) + Len(m.unknownFields)

UnmarshalPing(m0, data) ==
    UnmarshalVT(LAMBDA m, e :
        CASE e.num = 1 -> GetSub(m, e, "From", UnmarshalPID, EmptyPID)
          [] OTHER -> Unknown(m, e), m0, data)

EqualPing(this, that) ==
    /\ EqualSub(EqualPID, this.From, that.From)
    /\ this.unknownFields = that.unknownFields

ClonePing(m) ==
    [From |-> CloneSub(ClonePID, m.From), unknownFields |-> m.unknownFields]

-----------------------------------------------------------------------------
EmptyPong == [From |-> Nil, unknownFields |-> <<>>]

MarshalPong(m) == PutSub(\h0a, MarshalPID, m.From) \o m.unknownFields

SizePong(m) == SizeSub(SizePID, m.From) + Len(m.unknownFields)

UnmarshalPong(m0, data) ==
    UnmarshalVT(LAMBDA m, e :
        CASE e.num = 1 -> GetSub(m, e, "From", UnmarshalPID, EmptyPID)
          [] OTHER -> Unknown(m, e), m0, data)

EqualPong(this, that) ==
    /\ EqualSub(EqualPID, this.From, that.From)
    /\ this.unknownFields = that.unknownFields

ClonePong(m) ==
    [From |-> CloneSub(ClonePID, m.From), unknownFields |-> m.unknownFields]
=============================================================================
