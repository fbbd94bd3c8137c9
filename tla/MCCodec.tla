------------------------------ MODULE MCCodec -------------------------------
(* Small messages of every type: empty and set fields, a string of 128 bytes *)
(* (its length takes two varint bytes), integers at the ends of their range, *)
(* nil pointers, nil elements, and fields of a later schema.                 *)
EXTENDS Codec

A == <<97>>
Long == [i \in 1..128 |-> 98]
MaxUint64 == [i \in 1..9 |-> 127] \o <<1>>          \* int32: -1
MinInt32 == <<0, 0, 0, 0, 120, 127, 127, 127, 127, 1>>
MaxInt32 == <<127, 127, 127, 127, 7>>

\* Fields 15 and 16 of each wire type: delimited, 64 and 32 bits, a varint
\* behind a two-byte tag, a group around a varint.
Later == <<122, 1, 97>> \o <<121, 1, 2, 3, 4, 5, 6, 7, 8>> \o <<125, 1, 2, 3, 4>>
         \o <<128, 1, 5>> \o <<123, 8, 150, 1, 124>>

Str == {<<>>, A}
New == {<<>>, Later}
Ptr(S) == {Nil} \cup {<<m>> : m \in S}

pid == [Address |-> Long, ID |-> A, unknownFields |-> <<>>]
newPid == [Address |-> A, ID |-> <<>>, unknownFields |-> Later]
member == [ID |-> A, Host |-> A, Region |-> <<>>, Kinds |-> <<A, <<>>>>,
           unknownFields |-> <<>>]
message == [Data |-> A, TargetIndex |-> <<>>, SenderIndex |-> <<1>>,
            TypeNameIndex |-> <<0, 1>>, unknownFields |-> <<>>]

PIDs == Ptr({EmptyPID, pid, newPid})
Lists(m) == {<<>>, <<Nil>>, <<<<m>>, Nil, <<m>>>>}
Ints == {<<>>, <<0, 1>>, MaxInt32, MinInt32, MaxUint64}
Hashes == {<<>>, <<127>>, MaxUint64}
MemberLists == [Members : Lists(member), unknownFields : New]

MCValues == [
    PID |-> [Address : Str \cup {Long}, ID : Str, unknownFields : New],
    Ping |-> [From : PIDs, unknownFields : New],
    Pong |-> [From : PIDs, unknownFields : New],
    Message |-> [Data : Str, TargetIndex : Ints, SenderIndex : {<<>>, <<1>>},
                 TypeNameIndex : {<<>>, MaxInt32}, unknownFields : New],
    Envelope |-> [TypeNames : {<<>>, <<A, <<>>>>}, Targets : Lists(pid),
                  Senders : Lists(newPid), Messages : Lists(message),
                  unknownFields : {<<>>}],
    TestMessage |-> [Data : {<<>>, A, Long}, unknownFields : New],
    CID |-> [PID : PIDs, ID : Str, Kind : Str, Region : Str, unknownFields : {<<>>}],
    Member |-> [ID : Str, Host : Str, Region : Str, Kinds : {<<>>, <<A, <<>>>>},
                unknownFields : {<<>>}],
    Members |-> MemberLists, MembersJoin |-> MemberLists, MembersLeave |-> MemberLists,
    Handshake |-> [Member : Ptr({EmptyMember, member}), unknownFields : New],
    Topology |-> [Hash : Hashes, Members : {<<>>, <<<<member>>>>},
                  Left : {<<>>, <<Nil>>}, Joined : {<<>>, <<<<member>>>>},
                  Blocked : {<<>>, <<<<member>>>>}, unknownFields : {<<>>}],
    ActorInfo |-> [PID : PIDs, unknownFields : New],
    ActorTopology |-> [Actors : Lists([PID |-> <<pid>>, unknownFields |-> <<>>]),
                       unknownFields : New],
    Activation |-> [PID : PIDs, unknownFields : New],
    Deactivation |-> [PID : PIDs, unknownFields : New],
    ActivationRequest |-> [Kind : Str, ID : Str, Region : Str, TopologyHash : Hashes,
                           unknownFields : {<<>>}],
    ActivationResponse |-> [PID : PIDs, Success : BOOLEAN, TopologyHash : Hashes,
                            unknownFields : {<<>>}]]

MCSkew == {<<"CID", "Activation">>, <<"ActivationResponse", "Activation">>,
           <<"Member", "PID">>, <<"ActivationRequest", "PID">>,
           <<"Message", "TestMessage">>}
=============================================================================
