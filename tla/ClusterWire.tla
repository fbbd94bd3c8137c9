---------------------------- MODULE ClusterWire -----------------------------
(***************************************************************************)
(* The messages of cluster.proto (cluster/cluster_vtproto.pb.go): what     *)
(* providers and agents of different nodes say to each other.              *)
(***************************************************************************)
EXTENDS ActorWire

-----------------------------------------------------------------------------
EmptyCID ==
    [PID |-> Nil, ID |-> <<>>, Kind |-> <<>>, Region |-> <<>>,
     unknownFields |-> <<>>]

MarshalCID(m) ==
    PutSub(\h0a, MarshalPID, m.PID) \o PutString(\h12, m.ID) \o
    PutString(\h1a, m.Kind) \o PutString(\h22, m.Region) \o m.unknownFields

SizeCID(m) ==
    SizeSub(SizePID, m.PID) + SizeString(m.ID) + SizeString(m.Kind) +
    SizeString(m.Region) + Len(m.unknownFields)

UnmarshalCID(m0, data) ==
    UnmarshalVT(LAMBDA m, e :
        CASE e.num = 1 -> GetSub(m, e, "PID", UnmarshalPID, EmptyPID)
          [] e.num = 2 -> GetString(m, e, "ID")
          [] e.num = 3 -> GetString(m, e, "Kind")
          [] e.num = 4 -> GetString(m, e, "Region")
          [] OTHER -> Unknown(m, e), m0, data)

EqualCID(this, that) ==
    /\ EqualSub(EqualPID, this.PID, that.PID)
    /\ this.ID = that.ID
    /\ this.Kind = that.Kind
    /\ this.Region = that.Region
    /\ this.unknownFields = that.unknownFields

CloneCID(m) ==
    [PID |-> CloneSub(ClonePID, m.PID), ID |-> m.ID, Kind |-> m.Kind,
     Region |-> m.Region, unknownFields |-> m.unknownFields]

-----------------------------------------------------------------------------
EmptyMember ==
    [ID |-> <<>>, Host |-> <<>>, Region |-> <<>>, Kinds |-> <<>>,
     unknownFields |-> <<>>]

MarshalMember(m) ==
    PutString(\h0a, m.ID) \o PutString(\h12, m.Host) \o PutString(\h1a, m.Region) \o
    PutStrings(\h22, m.Kinds) \o m.unknownFields

SizeMember(m) ==
    SizeString(m.ID) + SizeString(m.Host) + SizeString(m.Region) +
    SizeStrings(m.Kinds) + Len(m.unknownFields)

UnmarshalMember(m0, data) ==
    UnmarshalVT(LAMBDA m, e :
        CASE e.num = 1 -> GetString(m, e, "ID")
          [] e.num = 2 -> GetString(m, e, "Host")
          [] e.num = 3 -> GetString(m, e, "Region")
          [] e.num = 4 -> GetStrings(m, e, "Kinds")
          [] OTHER -> Unknown(m, e), m0, data)

EqualMember(this, that) ==
    /\ this.ID = that.ID
    /\ this.Host = that.Host
    /\ this.Region = that.Region
    /\ this.Kinds = that.Kinds
    /\ this.unknownFields = that.unknownFields

CloneMember(m) ==
    [ID |-> m.ID, Host |-> m.Host, Region |-> m.Region, Kinds |-> m.Kinds,
     unknownFields |-> m.unknownFields]

-----------------------------------------------------------------------------
EmptyMembers == [Members |-> <<>>, unknownFields |-> <<>>]

MarshalMembers(m) == PutSubs(\h0a, MarshalMember, m.Members) \o m.unknownFields

SizeMembers(m) == SizeSubs(SizeMember, m.Members) + Len(m.unknownFields)

UnmarshalMembers(m0, data) ==
    UnmarshalVT(LAMBDA m, e :
        CASE e.num = 1 -> GetSubs(m, e, "Members", UnmarshalMember, EmptyMember)
          [] OTHER -> Unknown(m, e), m0, data)

EqualMembers(this, that) ==
    /\ EqualSubs(EqualMember, this.Members, that.Members, EmptyMember)
    /\ this.unknownFields = that.unknownFields

CloneMembers(m) ==
    [Members |-> CloneSubs(CloneMember, m.Members),
     unknownFields |-> m.unknownFields]

-----------------------------------------------------------------------------
EmptyMembersJoin == [Members |-> <<>>, unknownFields |-> <<>>]

MarshalMembersJoin(m) ==
    PutSubs(\h0a, MarshalMember, m.Members) \o m.unknownFields

SizeMembersJoin(m) == SizeSubs(SizeMember, m.Members) + Len(m.unknownFields)

UnmarshalMembersJoin(m0, data) ==
    UnmarshalVT(LAMBDA m, e :
        CASE e.num = 1 -> GetSubs(m, e, "Members", UnmarshalMember, EmptyMember)
          [] OTHER -> Unknown(m, e), m0, data)

EqualMembersJoin(this, that) ==
    /\ EqualSubs(EqualMember, this.Members, that.Members, EmptyMember)
    /\ this.unknownFields = that.unknownFields

CloneMembersJoin(m) ==
    [Members |-> CloneSubs(CloneMember, m.Members),
     unknownFields |-> m.unknownFields]

-----------------------------------------------------------------------------
EmptyMembersLeave == [Members |-> <<>>, unknownFields |-> <<>>]

MarshalMembersLeave(m) ==
    PutSubs(\h0a, MarshalMember, m.Members) \o m.unknownFields

SizeMembersLeave(m) == SizeSubs(SizeMember, m.Members) + Len(m.unknownFields)

UnmarshalMembersLeave(m0, data) ==
    UnmarshalVT(LAMBDA m, e :
        CASE e.num = 1 -> GetSubs(m, e, "Members", UnmarshalMember, EmptyMember)
          [] OTHER -> Unknown(m, e), m0, data)

EqualMembersLeave(this, that) ==
    /\ EqualSubs(EqualMember, this.Members, that.Members, EmptyMember)
    /\ this.unknownFields = that.unknownFields

CloneMembersLeave(m) ==
    [Members |-> CloneSubs(CloneMember, m.Members),
     unknownFields |-> m.unknownFields]

-----------------------------------------------------------------------------
EmptyHandshake == [Member |-> Nil, unknownFields |-> <<>>]

MarshalHandshake(m) == PutSub(\h0a, MarshalMember, m.Member) \o m.unknownFields

SizeHandshake(m) == SizeSub(SizeMember, m.Member) + Len(m.unknownFields)

UnmarshalHandshake(m0, data) ==
    UnmarshalVT(LAMBDA m, e :
        CASE e.num = 1 -> GetSub(m, e, "Member", UnmarshalMember, EmptyMember)
          [] OTHER -> Unknown(m, e), m0, data)

EqualHandshake(this, that) ==
    /\ EqualSub(EqualMember, this.Member, that.Member)
    /\ this.unknownFields = that.unknownFields

CloneHandshake(m) ==
    [Member |-> CloneSub(CloneMember, m.Member),
     unknownFields |-> m.unknownFields]

-----------------------------------------------------------------------------
EmptyTopology ==
    [Hash |-> <<>>, Members |-> <<>>, Left |-> <<>>, Joined |-> <<>>,
     Blocked |-> <<>>, unknownFields |-> <<>>]

MarshalTopology(m) ==
    PutVarint(\h08, m.Hash) \o PutSubs(\h12, MarshalMember, m.Members) \o
    PutSubs(\h1a, MarshalMember, m.Left) \o
    PutSubs(\h22, MarshalMember, m.Joined) \o
    PutSubs(\h2a, MarshalMember, m.Blocked) \o m.unknownFields

SizeTopology(m) ==
    SizeVarint(m.Hash) + SizeSubs(SizeMember, m.Members) +
    SizeSubs(SizeMember, m.Left) + SizeSubs(SizeMember, m.Joined) +
    SizeSubs(SizeMember, m.Blocked) + Len(m.unknownFields)

UnmarshalTopology(m0, data) ==
    UnmarshalVT(LAMBDA m, e :
        CASE e.num = 1 -> GetUint64(m, e, "Hash")
          [] e.num = 2 -> GetSubs(m, e, "Members", UnmarshalMember, EmptyMember)
          [] e.num = 3 -> GetSubs(m, e, "Left", UnmarshalMember, EmptyMember)
          [] e.num = 4 -> GetSubs(m, e, "Joined", UnmarshalMember, EmptyMember)
          [] e.num = 5 -> GetSubs(m, e, "Blocked", UnmarshalMember, EmptyMember)
          [] OTHER -> Unknown(m, e), m0, data)

EqualTopology(this, that) ==
    /\ this.Hash = that.Hash
    /\ EqualSubs(EqualMember, this.Members, that.Members, EmptyMember)
    /\ EqualSubs(EqualMember, this.Left, that.Left, EmptyMember)
    /\ EqualSubs(EqualMember, this.Joined, that.Joined, EmptyMember)
    /\ EqualSubs(EqualMember, this.Blocked, that.Blocked, EmptyMember)
    /\ this.unknownFields = that.unknownFields

CloneTopology(m) ==
    [Hash |-> m.Hash, Members |-> CloneSubs(CloneMember, m.Members),
     Left |-> CloneSubs(CloneMember, m.Left),
     Joined |-> CloneSubs(CloneMember, m.Joined),
     Blocked |-> CloneSubs(CloneMember, m.Blocked),
     unknownFields |-> m.unknownFields]

-----------------------------------------------------------------------------
EmptyActorInfo == [PID |-> Nil, unknownFields |-> <<>>]

MarshalActorInfo(m) == PutSub(\h12, MarshalPID, m.PID) \o m.unknownFields

SizeActorInfo(m) == SizeSub(SizePID, m.PID) + Len(m.unknownFields)

UnmarshalActorInfo(m0, data) ==
    UnmarshalVT(LAMBDA m, e :
        CASE e.num = 2 -> GetSub(m, e, "PID", UnmarshalPID, EmptyPID)
          [] OTHER -> Unknown(m, e), m0, data)

EqualActorInfo(this, that) ==
    /\ EqualSub(EqualPID, this.PID, that.PID)
    /\ this.unknownFields = that.unknownFields

CloneActorInfo(m) ==
    [PID |-> CloneSub(ClonePID, m.PID), unknownFields |-> m.unknownFields]

-----------------------------------------------------------------------------
EmptyActorTopology == [Actors |-> <<>>, unknownFields |-> <<>>]

MarshalActorTopology(m) ==
    PutSubs(\h0a, MarshalActorInfo, m.Actors) \o m.unknownFields

SizeActorTopology(m) == SizeSubs(SizeActorInfo, m.Actors) + Len(m.unknownFields)

UnmarshalActorTopology(m0, data) ==
    UnmarshalVT(LAMBDA m, e :
        CASE e.num = 1 -> GetSubs(m, e, "Actors", UnmarshalActorInfo, EmptyActorInfo)
          [] OTHER -> Unknown(m, e), m0, data)

EqualActorTopology(this, that) ==
    /\ EqualSubs(EqualActorInfo, this.Actors, that.Actors, EmptyActorInfo)
    /\ this.unknownFields = that.unknownFields

CloneActorTopology(m) ==
    [Actors |-> CloneSubs(CloneActorInfo, m.Actors),
     unknownFields |-> m.unknownFields]

-----------------------------------------------------------------------------
EmptyActivation == [PID |-> Nil, unknownFields |-> <<>>]

MarshalActivation(m) == PutSub(\h0a, MarshalPID, m.PID) \o m.unknownFields

SizeActivation(m) == SizeSub(SizePID, m.PID) + Len(m.unknownFields)

UnmarshalActivation(m0, data) ==
    UnmarshalVT(LAMBDA m, e :
        CASE e.num = 1 -> GetSub(m, e, "PID", UnmarshalPID, EmptyPID)
          [] OTHER -> Unknown(m, e), m0, data)

EqualActivation(this, that) ==
    /\ EqualSub(EqualPID, this.PID, that.PID)
    /\ this.unknownFields = that.unknownFields

CloneActivation(m) ==
    [PID |-> CloneSub(ClonePID, m.PID), unknownFields |-> m.unknownFields]

-----------------------------------------------------------------------------
EmptyDeactivation == [PID |-> Nil, unknownFields |-> <<>>]

MarshalDeactivation(m) == PutSub(\h0a, MarshalPID, m.PID) \o m.unknownFields

SizeDeactivation(m) == SizeSub(SizePID, m.PID) + Len(m.unknownFields)

UnmarshalDeactivation(m0, data) ==
    UnmarshalVT(LAMBDA m, e :
        CASE e.num = 1 -> GetSub(m, e, "PID", UnmarshalPID, EmptyPID)
          [] OTHER -> Unknown(m, e), m0, data)

EqualDeactivation(this, that) ==
    /\ EqualSub(EqualPID, this.PID, that.PID)
    /\ this.unknownFields = that.unknownFields

CloneDeactivation(m) ==
    [PID |-> CloneSub(ClonePID, m.PID), unknownFields |-> m.unknownFields]

-----------------------------------------------------------------------------
EmptyActivationRequest ==
    [Kind |-> <<>>, ID |-> <<>>, Region |-> <<>>, TopologyHash |-> <<>>,
     unknownFields |-> <<>>]

MarshalActivationRequest(m) ==
    PutString(\h0a, m.Kind) \o PutString(\h12, m.ID) \o PutString(\h1a, m.Region) \o
    PutVarint(\h20, m.TopologyHash) \o m.unknownFields

SizeActivationRequest(m) ==
    SizeString(m.Kind) + SizeString(m.ID) + SizeString(m.Region) +
    SizeVarint(m.TopologyHash) + Len(m.unknownFields)

UnmarshalActivationRequest(m0, data) ==
    UnmarshalVT(LAMBDA m, e :
        CASE e.num = 1 -> GetString(m, e, "Kind")
          [] e.num = 2 -> GetString(m, e, "ID")
          [] e.num = 3 -> GetString(m, e, "Region")
          [] e.num = 4 -> GetUint64(m, e, "TopologyHash")
          [] OTHER -> Unknown(m, e), m0, data)

EqualActivationRequest(this, that) ==
    /\ this.Kind = that.Kind
    /\ this.ID = that.ID
    /\ this.Region = that.Region
    /\ this.TopologyHash = that.TopologyHash
    /\ this.unknownFields = that.unknownFields

CloneActivationRequest(m) ==
    [Kind |-> m.Kind, ID |-> m.ID, Region |-> m.Region,
     TopologyHash |-> m.TopologyHash, unknownFields |-> m.unknownFields]

-----------------------------------------------------------------------------
EmptyActivationResponse ==
    [PID |-> Nil, Success |-> FALSE, TopologyHash |-> <<>>, unknownFields |-> <<>>]

MarshalActivationResponse(m) ==
    PutSub(\h0a, MarshalPID, m.PID) \o PutBool(\h10, m.Success) \o
    PutVarint(\h18, m.TopologyHash) \o m.unknownFields

SizeActivationResponse(m) ==
    SizeSub(SizePID, m.PID) + SizeBool(m.Success) + SizeVarint(m.TopologyHash) +
    Len(m.unknownFields)

UnmarshalActivationResponse(m0, data) ==
    UnmarshalVT(LAMBDA m, e :
        CASE e.num = 1 -> GetSub(m, e, "PID", UnmarshalPID, EmptyPID)
          [] e.num = 2 -> GetBool(m, e, "Success")
          [] e.num = 3 -> GetUint64(m, e, "TopologyHash")
          [] OTHER -> Unknown(m, e), m0, data)

EqualActivationResponse(this, that) ==
    /\ EqualSub(EqualPID, this.PID, that.PID)
    /\ this.Success = that.Success
    /\ this.TopologyHash = that.TopologyHash
    /\ this.unknownFields = that.unknownFields

CloneActivationResponse(m) ==
    [PID |-> CloneSub(ClonePID, m.PID), Success |-> m.Success,
     TopologyHash |-> m.TopologyHash, unknownFields |-> m.unknownFields]
=============================================================================
