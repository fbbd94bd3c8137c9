---------------------------- MODULE AgentProofs ----------------------------
(***************************************************************************)
(* Proofs about module Agent, for any number of nodes, IDs and calls and   *)
(* any views of the membership: what is in an inbox or on a link names     *)
(* only PIDs that were spawned, so that every view is made of such PIDs,   *)
(* and what a call has announced to its own node is in the view there or   *)
(* ahead of every later call in its inbox.                                 *)
(***************************************************************************)
EXTENDS Agent, SequenceTheorems, TLAPS

(* A set with one PID for each ID, as the map Agent.activated *)
Distinct(S) == \A p, q \in S : p[2] = q[2] => p = q

(* Nothing was deactivated yet, so that no message can say so. *)
NoDeactivate == \A d \in Calls : Op(d) = "deactivate" => call[d] = "new"
Dropped == IF NoDeactivate THEN {} ELSE spawned

(* What agents send each other, and what an agent has in its inbox *)
Shared ==
  [type : {"request"}, about : Calls]
    \cup [type : {"activation"}, about : spawned]
    \cup [type : {"deactivation"}, about : Dropped]
    \cup [type : {"topology"}, about : {S \in SUBSET spawned : Distinct(S)}]

Responses ==
  {r \in [type : {"response"}, about : Calls, pid : spawned \cup {None}] :
     r.pid # None => r.pid[2] = Of(r.about)}

Own(n) ==
  [type : {"activate"}, about : {c \in Calls : At(c) = n}]
    \cup [type : {"getMembers"}, about : {c \in Calls : Op(c) = "spawn"}]
    \cup [type : {"deactivate"}, about : Dropped]
    \cup [type : {"members"}, about : SUBSET Nodes]

OnLink == Shared \cup Responses
InBox(n) == Shared \cup Own(n)

(* Every message names a PID that was spawned, and every view is made of   *)
(* such PIDs.                                                              *)
MessageInv ==
  /\ \A n \in Nodes : inbox[n] \in Seq(InBox(n))
  /\ net \in [Links -> Seq(OnLink)]

ViewInv ==
  /\ activated \in [Nodes -> SUBSET spawned]
  /\ \A n \in Nodes : Distinct(activated[n])
  /\ ret \in [Calls -> spawned \cup {None}]
  /\ \A c \in Calls : ret[c] # None => call[c] = "done" /\ ret[c][2] = Of(c)

(* Cluster.Spawn has spawned its actor before it asks for the members. *)
SpawnInv ==
  \A c \in Calls :
    /\ Op(c) = "spawn" /\ call[c] # "new" => <<At(c), Of(c)>> \in spawned
    /\ call[c] = "tell" => Op(c) = "spawn"

AgentTypeOK ==
  /\ TypeOK
  /\ DOMAIN inbox = Nodes
  /\ spawned \subseteq PIDs
  /\ told \in [Calls -> SUBSET Nodes]
  /\ updates \in [Nodes -> Nat]
  /\ \A n \in Nodes : wait[n] # None => At(wait[n]) = n

SpawnedInv == AgentTypeOK /\ MessageInv /\ ViewInv /\ SpawnInv

----------------------------------------------------------------------------
(* What a plan is made of. *)
LEMMA PlanFacts ==
  TypeOK => \A c \in Calls : /\ At(c) \in Nodes /\ Of(c) \in Ids
                             /\ <<At(c), Of(c)>> \in PIDs
BY ZenonT(30), AgentAssumption DEF TypeOK, At, Of, PIDs

(* The messages that the handlers put together belong to these sets. *)
Formed ==
  /\ \A c \in Calls : /\ Msg("request", c) \in Shared
                      /\ Response(c, None) \in Responses
                      /\ \A p \in spawned : p[2] = Of(c) => Response(c, p) \in Responses
  /\ \A p \in spawned : Msg("activation", p) \in Shared
  /\ \A p \in Dropped : Msg("deactivation", p) \in Shared
  /\ \A S \in SUBSET spawned : Distinct(S) => Msg("topology", S) \in Shared

(* agent.go builds no other messages for its peers. *)
LEMMA MessagesFormed == Formed
<1>1. \A c \in Calls : Msg("request", c) \in Shared
  BY Zenon DEF Msg, Shared
<1>2. \A c \in Calls : Response(c, None) \in Responses
  BY Zenon DEF Response, Responses
<1>3. \A c \in Calls : \A p \in spawned : p[2] = Of(c) => Response(c, p) \in Responses
  BY Zenon DEF Response, Responses
<1>4. /\ \A p \in spawned : Msg("activation", p) \in Shared
      /\ \A p \in Dropped : Msg("deactivation", p) \in Shared
  BY Zenon DEF Msg, Shared
<1>5. \A S \in SUBSET spawned : Distinct(S) => Msg("topology", S) \in Shared
  BY Zenon DEF Msg, Shared
<1>6. QED
  BY Zenon, <1>1, <1>2, <1>3, <1>4, <1>5 DEF Formed

(* The same for the messages from the users and the provider of a node. *)
OwnFormed ==
  \A n \in Nodes :
    /\ \A c \in Calls : At(c) = n => Msg("activate", c) \in Own(n)
    /\ \A c \in Calls : Op(c) = "spawn" => Msg("getMembers", c) \in Own(n)
    /\ \A p \in Dropped : Msg("deactivate", p) \in Own(n)
    /\ \A S \in SUBSET Nodes : Msg("members", S) \in Own(n)

(* cluster.go and the provider build no others for the agent of their node. *)
LEMMA OwnMessagesFormed == OwnFormed
BY Zenon DEF OwnFormed, Msg, Own

(* What the type of a message says about its content. *)
LEMMA Contents ==
  ASSUME NEW n \in Nodes, NEW m \in InBox(n)
  PROVE  /\ m.type # "response"
         /\ m.type = "activate" => m.about \in Calls /\ At(m.about) = n
         /\ m.type = "request" => m.about \in Calls
         /\ m.type = "getMembers" => m.about \in Calls /\ Op(m.about) = "spawn"
         /\ m.type = "activation" => m.about \in spawned
         /\ m.type \in {"deactivate", "deactivation"} => m.about \in Dropped
         /\ m.type = "topology" => m.about \subseteq spawned /\ Distinct(m.about)
         /\ m.type = "members" => m.about \subseteq Nodes
<1>1. CASE m \in Shared
  BY Zenon, <1>1 DEF Shared
<1>2. CASE m \in Own(n)
  BY Zenon, <1>2 DEF Own
<1>3. QED
  BY Zenon, <1>1, <1>2 DEF InBox

(* The same for a message on a link: what is no response is for the inbox. *)
LEMMA LinkContents ==
  ASSUME NEW m \in OnLink
  PROVE  /\ m.type # "response" => m \in Shared
         /\ m.type = "response" => /\ m.about \in Calls
                                   /\ m.pid \in spawned \cup {None}
                                   /\ m.pid # None => m.pid[2] = Of(m.about)
<1>1. CASE m \in Shared
  BY Zenon, <1>1 DEF Shared
<1>2. CASE m \in Responses
  BY Zenon, <1>2 DEF Responses
<1>3. QED
  BY Zenon, <1>1, <1>2 DEF OnLink

(* Taking a message from an inbox or a link. *)
LEMMA HeadAndTail ==
  ASSUME NEW S, NEW s \in Seq(S), s # <<>>
  PROVE  Head(s) \in S /\ Tail(s) \in Seq(S)
BY Zenon, HeadTailProperties

(* Messages stay what they are when more actors are spawned. *)
LEMMA Widened ==
  ASSUME MessageInv, spawned \subseteq spawned', plan' = plan, NoDeactivate' => NoDeactivate
  PROVE  /\ \A n \in Nodes : InBox(n) \subseteq InBox(n)' /\ inbox[n] \in Seq(InBox(n)')
         /\ Shared \subseteq Shared' /\ OnLink \subseteq OnLink'
         /\ net \in [Links -> Seq(OnLink')]
<1>0. Dropped \subseteq Dropped'
  BY Zenon DEF Dropped
<1>1. Shared \subseteq Shared'
  BY Zenon, <1>0 DEF Shared, Distinct
<1>2. Responses \subseteq Responses'
  BY Zenon DEF Responses, Of
<1>3. \A n \in Nodes : Own(n) \subseteq Own(n)'
  BY Zenon, <1>0 DEF Own, At, Op
<1>4. \A n \in Nodes : InBox(n) \subseteq InBox(n)'
  BY Zenon, <1>1, <1>3 DEF InBox
<1>5. OnLink \subseteq OnLink'
  BY Zenon, <1>1, <1>2 DEF OnLink
<1>6. ASSUME NEW S, NEW T, S \subseteq T, NEW s \in Seq(S) PROVE s \in Seq(T)
  BY <1>6
<1>7. QED
  BY Zenon, <1>1, <1>4, <1>5, <1>6 DEF MessageInv

(* Engine.Send to any set of agents. *)
LEMMA SendAllSound ==
  ASSUME NEW n \in Nodes, NEW ms, NEW msg, NEW box, NEW channels,
         DOMAIN inbox = Nodes, \A m \in Nodes : inbox[m] \in Seq(InBox(m)'),
         box \in Seq(InBox(n)'), channels \in [Links -> Seq(OnLink')],
         ms # {} => msg \in Shared',
         SendAll(n, ms, msg, box, channels)
  PROVE  MessageInv' /\ DOMAIN inbox' = Nodes
<1>1. ms # {} => msg \in OnLink' /\ \A m \in Nodes : msg \in InBox(m)'
  BY Zenon DEF OnLink, InBox
<1>2. net' \in [Links -> Seq(OnLink')]
  BY <1>1 DEF SendAll, Links
<1>3. inbox'[n] \in Seq(InBox(n)')
  BY <1>1 DEF SendAll
<1>4. DOMAIN inbox' = Nodes /\ \A m \in Nodes \ {n} : inbox'[m] = inbox[m]
  BY Zenon DEF SendAll
<1>5. QED
  BY Zenon, <1>2, <1>3, <1>4 DEF MessageInv

(* Init: the only message is the one about the own node. *)
LEMMA SpawnedInit == Init => SpawnedInv
<1> SUFFICES ASSUME Init PROVE SpawnedInv
  BY Zenon
<1>1. TypeOK
  BY AgentAssumption DEF Init, TypeOK
<1>2. AgentTypeOK
  BY Zenon, <1>1 DEF Init, AgentTypeOK
<1>3. MessageInv
  BY OwnMessagesFormed DEF Init, MessageInv, OwnFormed, InBox, Links
<1>4. ViewInv /\ SpawnInv
  BY Zenon DEF Init, ViewInv, SpawnInv, Distinct
<1>5. QED
  BY Zenon, <1>2, <1>3, <1>4 DEF SpawnedInv
(* A caller that still waits gets its answer, any other keeps what it has. *)
LEMMA Responded ==
  ASSUME SpawnedInv, NEW c \in Calls, NEW pid \in spawned' \cup {None},
         pid # None => pid[2] = Of(c),
         plan' = plan, spawned \subseteq spawned', spawned' \subseteq PIDs, Respond(c, pid)
  PROVE  /\ ret' \in [Calls -> spawned' \cup {None}] /\ ret' \in [Calls -> PIDs \cup {None}]
         /\ \A d \in Calls : ret'[d] # None => call'[d] = "done" /\ ret'[d][2] = Of(d)'
         /\ call' \in [Calls -> {"new", "waiting", "tell", "done"}]
         /\ \A d \in Calls : (call'[d] = "tell" <=> call[d] = "tell") /\ (call'[d] = "new" <=> call[d] = "new")
<1>1. ret \in [Calls -> spawned \cup {None}] /\ call \in [Calls -> {"new", "waiting", "tell", "done"}]
  BY Zenon DEF SpawnedInv, ViewInv, AgentTypeOK, TypeOK
<1>2. \A d \in Calls : ret[d] # None => call[d] = "done" /\ ret[d][2] = Of(d)
  BY Zenon DEF SpawnedInv, ViewInv
<1>3. \A d \in Calls : Of(d)' = Of(d)
  BY Zenon DEF Of
<1>4. CASE call[c] = "waiting"
  BY Zenon, <1>1, <1>2, <1>3, <1>4 DEF Respond
<1>5. CASE call[c] # "waiting"
  BY Zenon, <1>1, <1>2, <1>3, <1>5 DEF Respond
<1>6. QED
  BY Zenon, <1>4, <1>5

(* The calls keep their plan. *)
LEMMA SamePlan ==
  ASSUME plan' = plan
  PROVE  \A c \in Calls : Op(c)' = Op(c) /\ At(c)' = At(c) /\ Of(c)' = Of(c)
BY Zenon DEF Op, At, Of

(* What a handler finds at the head of its inbox. *)
LEMMA Taken ==
  ASSUME SpawnedInv, NEW n \in Nodes, NEW type, Take(n, type)
  PROVE  /\ Head(inbox[n]) \in InBox(n) /\ Head(inbox[n]).type = type
         /\ Tail(inbox[n]) \in Seq(InBox(n))
         /\ inbox[n] \in Seq(InBox(n)) /\ inbox[n] # <<>>
BY Zenon, HeadAndTail DEF SpawnedInv, MessageInv, Take

(* The head is taken from one inbox and nothing is sent. *)
LEMMA TakenOnly ==
  ASSUME SpawnedInv, NEW n \in Nodes, NEW type, Take(n, type),
         inbox' = [inbox EXCEPT ![n] = Tail(@)],
         UNCHANGED <<plan, net>>, spawned \subseteq spawned', NoDeactivate' => NoDeactivate
  PROVE  MessageInv' /\ DOMAIN inbox' = Nodes
<1>1. MessageInv /\ DOMAIN inbox = Nodes
  BY Zenon DEF SpawnedInv, AgentTypeOK
<1>2. /\ \A m \in Nodes : InBox(m) \subseteq InBox(m)' /\ inbox[m] \in Seq(InBox(m)')
      /\ net \in [Links -> Seq(OnLink')]
  BY Zenon, <1>1, Widened
<1>3. Tail(inbox[n]) \in Seq(InBox(n)')
  BY Zenon, <1>2, HeadAndTail DEF Take
<1>4. QED
  BY Zenon, <1>1, <1>2, <1>3 DEF MessageInv

(* One message is added to one inbox. *)
LEMMA PutOne ==
  ASSUME SpawnedInv, NEW n \in Nodes, NEW m, m \in InBox(n)',
         inbox' = [inbox EXCEPT ![n] = Append(@, m)],
         UNCHANGED <<plan, net>>, spawned \subseteq spawned', NoDeactivate' => NoDeactivate
  PROVE  MessageInv' /\ DOMAIN inbox' = Nodes
<1>1. MessageInv /\ DOMAIN inbox = Nodes
  BY Zenon DEF SpawnedInv, AgentTypeOK
<1>2. /\ \A k \in Nodes : inbox[k] \in Seq(InBox(k)')
      /\ net \in [Links -> Seq(OnLink')]
  BY Zenon, <1>1, Widened
<1>3. Append(inbox[n], m) \in Seq(InBox(n)')
  BY <1>2
<1>4. QED
  BY Zenon, <1>1, <1>2, <1>3 DEF MessageInv

(* Every step keeps SpawnedInv. *)
LEMMA SpawnedStep == SpawnedInv /\ [Next]_vars => SpawnedInv'
<1> SUFFICES ASSUME SpawnedInv, [Next]_vars PROVE SpawnedInv'
  BY Zenon
<1>t. TypeOK /\ AgentTypeOK
  BY Zenon DEF SpawnedInv, AgentTypeOK
<1>m. MessageInv
  BY Zenon DEF SpawnedInv
<1>v. ViewInv /\ SpawnInv
  BY Zenon DEF SpawnedInv
<1>p. \A c \in Calls : At(c) \in Nodes /\ Of(c) \in Ids /\ <<At(c), Of(c)>> \in PIDs
  BY Zenon, <1>t, PlanFacts
<1>f. Formed' /\ OwnFormed'
  BY MessagesFormed, OwnMessagesFormed, PTL
<1>1. ASSUME NEW c \in Calls, Activate(c) PROVE SpawnedInv'
  <2>1. /\ UNCHANGED <<plan, members, activated, wait, net, running, ret, told, updates, spawned>>
        /\ call[c] = "new" /\ call' = [call EXCEPT ![c] = "waiting"]
        /\ Op(c) = "activate"
        /\ inbox' = [inbox EXCEPT ![At(c)] = Append(@, Msg("activate", c))]
    BY Zenon, <1>1 DEF Activate, agentVars, Begin
  <2>2. NoDeactivate' => NoDeactivate
    BY Zenon, <1>t, <2>1 DEF NoDeactivate, Op, TypeOK
  <2>3. MessageInv' /\ DOMAIN inbox' = Nodes
    <3>1. PICK n \in Nodes : n = At(c)
      BY Zenon, <1>p
    <3>2. Msg("activate", c) \in InBox(n)'
      BY Zenon, <1>f, <2>1, <3>1 DEF OwnFormed, InBox, At
    <3>3. inbox' = [inbox EXCEPT ![n] = Append(@, Msg("activate", c))]
      BY Zenon, <2>1, <3>1
    <3>4. QED
      BY Zenon, <2>1, <3>2, <3>3, <2>2, PutOne
  <2>4. AgentTypeOK'
    BY Zenon, <1>t, <2>1, <2>3 DEF AgentTypeOK, TypeOK, At
  <2>5. ViewInv' /\ SpawnInv'
    BY Zenon, <1>t, <1>v, <2>1 DEF AgentTypeOK, TypeOK, ViewInv, SpawnInv, Op, At, Of
  <2>6. QED
    BY Zenon, <2>3, <2>4, <2>5 DEF SpawnedInv
<1>2. ASSUME NEW c \in Calls, Spawn(c) PROVE SpawnedInv'
  <2>1. /\ UNCHANGED <<plan, members, activated, wait, net, ret, told, updates>>
        /\ call[c] = "new" /\ call' = [call EXCEPT ![c] = "waiting"]
        /\ Op(c) = "spawn"
        /\ spawned' = spawned \cup {<<At(c), Of(c)>>} /\ running' = running \cup {<<At(c), Of(c)>>}
        /\ inbox' = [inbox EXCEPT ![At(c)] = Append(@, Msg("getMembers", c))]
    BY Zenon, <1>2 DEF Spawn, agentVars, Begin
  <2>2. NoDeactivate' => NoDeactivate
    BY Zenon, <1>t, <2>1 DEF NoDeactivate, Op, TypeOK
  <2>3. MessageInv' /\ DOMAIN inbox' = Nodes
    <3>1. PICK n \in Nodes : n = At(c)
      BY Zenon, <1>p
    <3>2. Msg("getMembers", c) \in InBox(n)'
      BY Zenon, <1>f, <2>1, <3>1 DEF OwnFormed, InBox, Op
    <3>3. inbox' = [inbox EXCEPT ![n] = Append(@, Msg("getMembers", c))]
      BY Zenon, <2>1, <3>1
    <3>4. QED
      BY Zenon, <2>1, <3>2, <3>3, <2>2, PutOne
  <2>4. AgentTypeOK'
    BY Zenon, <1>t, <2>1, <2>3, <1>p DEF AgentTypeOK, TypeOK, At
  <2>5. ViewInv' /\ SpawnInv'
    BY Zenon, <1>t, <1>v, <2>1 DEF AgentTypeOK, TypeOK, ViewInv, SpawnInv, Op, At, Of
  <2>6. QED
    BY Zenon, <2>3, <2>4, <2>5 DEF SpawnedInv
<1>3. ASSUME NEW c \in Calls, Deactivate(c) PROVE SpawnedInv'
  <2>1. /\ UNCHANGED <<plan, members, activated, wait, net, running, ret, told, updates, spawned>>
        /\ call[c] = "new" /\ call' = [call EXCEPT ![c] = "done"]
        /\ Op(c) = "deactivate"
        /\ \E p \in {ret[d] : d \in Calls} \ {None} :
             inbox' = [inbox EXCEPT ![At(c)] = Append(@, Msg("deactivate", p))]
    BY Zenon, <1>3 DEF Deactivate, agentVars, history
  <2>2. NoDeactivate' => NoDeactivate
    BY Zenon, <1>t, <2>1 DEF NoDeactivate, Op, TypeOK
  <2>3. MessageInv' /\ DOMAIN inbox' = Nodes
    <3>1. PICK n \in Nodes : n = At(c)
      BY Zenon, <1>p
    <3>2. PICK p \in {ret[d] : d \in Calls} \ {None} :
             inbox' = [inbox EXCEPT ![n] = Append(@, Msg("deactivate", p))]
      BY Zenon, <2>1, <3>1
    <3>3. p \in Dropped'
      BY <1>t, <1>v, <2>1 DEF ViewInv, TypeOK, Dropped, NoDeactivate, Op
    <3>4. Msg("deactivate", p) \in InBox(n)'
      BY Zenon, <1>f, <2>1, <3>3 DEF OwnFormed, InBox
    <3>5. QED
      BY Zenon, <2>1, <3>2, <3>4, <2>2, PutOne
  <2>4. AgentTypeOK'
    BY Zenon, <1>t, <2>1, <2>3 DEF AgentTypeOK, TypeOK, At
  <2>5. ViewInv' /\ SpawnInv'
    BY Zenon, <1>t, <1>v, <2>1 DEF AgentTypeOK, TypeOK, ViewInv, SpawnInv, Op, At, Of
  <2>6. QED
    BY Zenon, <2>3, <2>4, <2>5 DEF SpawnedInv
<1>4. ASSUME NEW c \in Calls, CallTimeout(c) PROVE SpawnedInv'
  <2>1. /\ UNCHANGED <<plan, members, activated, inbox, wait, net, running, told, updates, spawned>>
        /\ call[c] = "waiting" /\ call' = [call EXCEPT ![c] = "done"]
        /\ ret' = [ret EXCEPT ![c] = IF Op(c) = "spawn" THEN <<At(c), Of(c)>> ELSE None]
    BY Zenon, <1>4 DEF CallTimeout, agentVars, history
  <2>2. NoDeactivate' => NoDeactivate
    BY Zenon, <1>t, <2>1 DEF NoDeactivate, Op, TypeOK
  <2>3. MessageInv' /\ DOMAIN inbox' = Nodes
    BY Zenon, <1>t, <1>m, <2>1, <2>2, Widened DEF MessageInv, AgentTypeOK
  <2>4. ret'[c] \in spawned \cup {None} /\ (ret'[c] # None => ret'[c][2] = Of(c))
    BY Zenon, <1>v, <2>1 DEF SpawnInv, ViewInv
  <2>5. ret' \in [Calls -> spawned \cup {None}] /\ \A d \in Calls \ {c} : ret'[d] = ret[d]
    BY Zenon, <1>v, <2>1, <2>4 DEF ViewInv
  <2>6. AgentTypeOK'
    BY Zenon, <1>t, <2>1, <2>3, <2>5 DEF AgentTypeOK, TypeOK, At
  <2>7. ViewInv' /\ SpawnInv'
    BY Zenon, <1>t, <1>v, <2>1, <2>4, <2>5 DEF AgentTypeOK, TypeOK, ViewInv, SpawnInv, Op, At, Of
  <2>8. QED
    BY Zenon, <2>3, <2>6, <2>7 DEF SpawnedInv
<1>5. ASSUME NEW c \in Calls, SpawnTell(c) PROVE SpawnedInv'
  <2>1. /\ UNCHANGED <<plan, members, activated, wait, running, told, updates, spawned>>
        /\ call[c] = "tell" /\ call' = [call EXCEPT ![c] = "done"]
        /\ ret' = [ret EXCEPT ![c] = <<At(c), Of(c)>>]
        /\ SendAll(At(c), told[c], Msg("activation", <<At(c), Of(c)>>), inbox[At(c)], net)
    BY Zenon, <1>5 DEF SpawnTell, agentVars, history
  <2>2. NoDeactivate' => NoDeactivate
    BY Zenon, <1>t, <2>1 DEF NoDeactivate, Op, TypeOK
  <2>3. <<At(c), Of(c)>> \in spawned
    BY Zenon, <1>v, <2>1 DEF SpawnInv
  <2>4. MessageInv' /\ DOMAIN inbox' = Nodes
    <3>1. /\ \A b \in Nodes : inbox[b] \in Seq(InBox(b)')
          /\ net \in [Links -> Seq(OnLink')]
      BY Zenon, <1>m, <2>1, <2>2, Widened
    <3>2. Msg("activation", <<At(c), Of(c)>>) \in Shared'
      BY Zenon, <1>f, <2>1, <2>3 DEF Formed
    <3>3. At(c) \in Nodes
      BY Zenon, <1>p
    <3>4. QED
      BY Zenon, <1>t, <2>1, <3>1, <3>2, <3>3, SendAllSound DEF AgentTypeOK
  <2>5. AgentTypeOK'
    BY Zenon, <1>t, <2>1, <2>4, <1>p DEF AgentTypeOK, TypeOK, At
  <2>6. ViewInv' /\ SpawnInv'
    BY Zenon, <1>t, <1>v, <2>1, <2>3 DEF AgentTypeOK, TypeOK, ViewInv, SpawnInv, Op, At, Of
  <2>7. QED
    BY Zenon, <2>4, <2>5, <2>6 DEF SpawnedInv
<1>6. ASSUME NEW n \in Nodes, ActivateRefused(n) PROVE SpawnedInv'
  <2>1. PICK c : c = Head(inbox[n]).about
    BY Zenon
  <2>2. /\ UNCHANGED <<plan, members, activated, wait, net, running, told, updates, spawned>>
        /\ Take(n, "activate") /\ inbox' = [inbox EXCEPT ![n] = Tail(@)]
        /\ Respond(c, None)
    BY Zenon, <1>6, <2>1 DEF ActivateRefused, agentVars, history
  <2>3. NoDeactivate' => NoDeactivate
    BY Zenon, <1>t, <2>2 DEF NoDeactivate, Op, TypeOK, Respond
  <2>4. c \in Calls
    BY Zenon, <2>1, <2>2, Taken, Contents
  <2>5. MessageInv' /\ DOMAIN inbox' = Nodes
    BY Zenon, <2>2, <2>3, TakenOnly
  <2>6. /\ ret' \in [Calls -> spawned' \cup {None}] /\ ret' \in [Calls -> PIDs \cup {None}]
        /\ \A d \in Calls : ret'[d] # None => call'[d] = "done" /\ ret'[d][2] = Of(d)'
        /\ call' \in [Calls -> {"new", "waiting", "tell", "done"}]
        /\ \A d \in Calls : /\ call'[d] = "tell" <=> call[d] = "tell"
                            /\ call'[d] = "new" <=> call[d] = "new"
    <3>1. spawned' \subseteq PIDs
      BY Zenon, <1>t, <1>p, <2>2 DEF AgentTypeOK
    <3>2. QED
      BY Zenon, <2>2, <2>4, <3>1, Responded
  <2>7. AgentTypeOK'
    BY Zenon, <1>t, <2>2, <2>5, <2>6 DEF AgentTypeOK, TypeOK, At
  <2>8. ViewInv' /\ SpawnInv'
    BY Zenon, <1>t, <1>v, <2>2, <2>6 DEF AgentTypeOK, TypeOK, ViewInv, SpawnInv, Op, At, Of
  <2>9. QED
    BY Zenon, <2>5, <2>7, <2>8 DEF SpawnedInv
<1>7. ASSUME NEW n \in Nodes, ActivateLocal(n) PROVE SpawnedInv'
  <2>1. PICK c : c = Head(inbox[n]).about
    BY Zenon
  <2>2. /\ UNCHANGED <<plan, members, activated, wait, updates>>
        /\ Take(n, "activate")
        /\ spawned' = spawned \cup {<<n, Of(c)>>} /\ running' = running \cup {<<n, Of(c)>>}
        /\ told' = [told EXCEPT ![c] = members[n]]
        /\ SendAll(n, members[n], Msg("activation", <<n, Of(c)>>), Tail(inbox[n]), net)
        /\ Respond(c, <<n, Of(c)>>)
    BY Zenon, <1>7, <2>1 DEF ActivateLocal, agentVars
  <2>3. NoDeactivate' => NoDeactivate
    BY Zenon, <1>t, <2>2 DEF NoDeactivate, Op, TypeOK, Respond
  <2>4. c \in Calls /\ <<n, Of(c)>> \in PIDs
    BY Zenon, <1>p, <2>1, <2>2, Taken, Contents DEF PIDs
  <2>5. MessageInv' /\ DOMAIN inbox' = Nodes
    <3>1. /\ \A b \in Nodes : inbox[b] \in Seq(InBox(b)')
          /\ net \in [Links -> Seq(OnLink')]
      BY Zenon, <1>m, <2>2, <2>3, Widened
    <3>2. Msg("activation", <<n, Of(c)>>) \in Shared'
      BY Zenon, <1>f, <2>2 DEF Formed
    <3>3. Tail(inbox[n]) \in Seq(InBox(n)')
      BY Zenon, <3>1, <2>2, HeadAndTail DEF Take
    <3>4. QED
      BY Zenon, <1>t, <2>2, <3>1, <3>2, <3>3, SendAllSound DEF AgentTypeOK
  <2>6. /\ ret' \in [Calls -> spawned' \cup {None}] /\ ret' \in [Calls -> PIDs \cup {None}]
        /\ \A d \in Calls : ret'[d] # None => call'[d] = "done" /\ ret'[d][2] = Of(d)'
        /\ call' \in [Calls -> {"new", "waiting", "tell", "done"}]
        /\ \A d \in Calls : /\ call'[d] = "tell" <=> call[d] = "tell"
                            /\ call'[d] = "new" <=> call[d] = "new"
    <3>1. spawned' \subseteq PIDs
      BY Zenon, <1>t, <1>p, <2>2, <2>4 DEF AgentTypeOK
    <3>2. QED
      BY Zenon, <2>2, <2>4, <3>1, Responded
  <2>7. AgentTypeOK'
    BY Zenon, <1>t, <2>2, <2>5, <2>4, <2>6 DEF AgentTypeOK, TypeOK, At
  <2>8. ViewInv' /\ SpawnInv'
    BY Zenon, <1>t, <1>v, <2>2, <2>6 DEF AgentTypeOK, TypeOK, ViewInv, SpawnInv, Op, At, Of
  <2>9. QED
    BY Zenon, <2>5, <2>7, <2>8 DEF SpawnedInv
<1>8. ASSUME NEW n \in Nodes, ActivateRequest(n) PROVE SpawnedInv'
  <2>1. PICK c : c = Head(inbox[n]).about
    BY Zenon
  <2>2. /\ UNCHANGED <<plan, members, activated, running, call, ret, told, updates, spawned>>
        /\ Take(n, "activate")
        /\ wait' = [wait EXCEPT ![n] = c]
        /\ \E m \in Candidates(n) \ {n} : SendAll(n, {m}, Msg("request", c), Tail(inbox[n]), net)
    BY Zenon, <1>8, <2>1 DEF ActivateRequest, agentVars, history
  <2>3. NoDeactivate' => NoDeactivate
    BY Zenon, <1>t, <2>2 DEF NoDeactivate, Op, TypeOK
  <2>4. c \in Calls /\ At(c) = n
    BY Zenon, <2>1, <2>2, Taken, Contents
  <2>5. MessageInv' /\ DOMAIN inbox' = Nodes
    <3>1. /\ \A b \in Nodes : inbox[b] \in Seq(InBox(b)')
          /\ net \in [Links -> Seq(OnLink')]
      BY Zenon, <1>m, <2>2, <2>3, Widened
    <3>2. Msg("request", c) \in Shared'
      BY Zenon, <1>f, <2>4 DEF Formed
    <3>3. Tail(inbox[n]) \in Seq(InBox(n)')
      BY Zenon, <3>1, <2>2, HeadAndTail DEF Take
    <3>4. QED
      BY Zenon, <1>t, <2>2, <3>1, <3>2, <3>3, SendAllSound DEF AgentTypeOK
  <2>6. AgentTypeOK'
    BY Zenon, <1>t, <2>2, <2>5, <2>4 DEF AgentTypeOK, TypeOK, At
  <2>7. ViewInv' /\ SpawnInv'
    BY Zenon, <1>t, <1>v, <2>2 DEF AgentTypeOK, TypeOK, ViewInv, SpawnInv, Op, At, Of
  <2>8. QED
    BY Zenon, <2>5, <2>6, <2>7 DEF SpawnedInv
<1>9. ASSUME NEW n \in Nodes, ActivationRequest(n) PROVE SpawnedInv'
  <2>1. PICK c : c = Head(inbox[n]).about
    BY Zenon
  <2>2. /\ UNCHANGED <<plan, members, activated, wait, call, ret, told, updates>>
        /\ Take(n, "request") /\ inbox' = [inbox EXCEPT ![n] = Tail(@)]
        /\ spawned \subseteq spawned' /\ spawned' \subseteq spawned \cup {<<n, Of(c)>>}
        /\ running' \subseteq running \cup {<<n, Of(c)>>}
        /\ \/ /\ <<n, Of(c)>> \in spawned'
              /\ net' = [net EXCEPT ![<<n, At(c)>>] = Append(@, Response(c, <<n, Of(c)>>))]
           \/ net' = [net EXCEPT ![<<n, At(c)>>] = Append(@, Response(c, None))]
    BY Zenon, <1>9, <2>1 DEF ActivationRequest, agentVars
  <2>3. NoDeactivate' => NoDeactivate
    BY Zenon, <1>t, <2>2 DEF NoDeactivate, Op, TypeOK
  <2>4. c \in Calls /\ <<n, Of(c)>> \in PIDs /\ <<n, At(c)>> \in Links
    BY Zenon, <1>p, <2>1, <2>2, Taken, Contents DEF PIDs, Links
  <2>5. MessageInv' /\ DOMAIN inbox' = Nodes
    <3>1. /\ \A b \in Nodes : inbox[b] \in Seq(InBox(b)')
          /\ net \in [Links -> Seq(OnLink')]
      BY Zenon, <1>m, <2>2, <2>3, Widened
    <3>2. PICK r \in Responses' : net' = [net EXCEPT ![<<n, At(c)>>] = Append(@, r)]
      <4>1. Of(c)' = Of(c)
        BY Zenon, <2>2 DEF Of
      <4>2. Response(c, None) \in Responses'
        BY Zenon, <1>f, <2>4 DEF Formed
      <4>3. <<n, Of(c)>> \in spawned' => Response(c, <<n, Of(c)>>) \in Responses'
        BY Zenon, <1>f, <2>4, <4>1 DEF Formed
      <4>4. QED
        BY Zenon, <2>2, <4>2, <4>3
    <3>3. Append(net[<<n, At(c)>>], r) \in Seq(OnLink')
      BY Zenon, <2>4, <3>1, <3>2, AppendProperties DEF OnLink
    <3>4. net' \in [Links -> Seq(OnLink')]
      BY Zenon, <2>4, <3>1, <3>2, <3>3
    <3>5. Tail(inbox[n]) \in Seq(InBox(n)')
      BY Zenon, <2>2, <3>1, HeadAndTail DEF Take
    <3>6. QED
      BY Zenon, <1>t, <2>2, <3>1, <3>4, <3>5 DEF MessageInv, AgentTypeOK
  <2>6. AgentTypeOK'
    BY Zenon, <1>t, <2>2, <2>5, <2>4 DEF AgentTypeOK, TypeOK, At
  <2>7. ViewInv' /\ SpawnInv'
    BY Zenon, <1>t, <1>v, <2>2 DEF AgentTypeOK, TypeOK, ViewInv, SpawnInv, Op, At, Of
  <2>8. QED
    BY Zenon, <2>5, <2>6, <2>7 DEF SpawnedInv
<1>10. ASSUME NEW n \in Nodes, HandleActivation(n) PROVE SpawnedInv'
  <2>1. PICK m : m = Head(inbox[n]).about
    BY Zenon
  <2>2. /\ UNCHANGED <<plan, members, wait, net, running, call, ret, told, updates, spawned>>
        /\ Take(n, "activation") /\ inbox' = [inbox EXCEPT ![n] = Tail(@)]
        /\ activated' = [activated EXCEPT ![n] = AddAll(@, {m})]
    BY Zenon, <1>10, <2>1 DEF HandleActivation, history
  <2>3. NoDeactivate' => NoDeactivate
    BY Zenon, <1>t, <2>2 DEF NoDeactivate, Op, TypeOK
  <2>4. m \in spawned
    BY Zenon, <2>1, <2>2, Taken, Contents
  <2>5. MessageInv' /\ DOMAIN inbox' = Nodes
    BY Zenon, <2>2, <2>3, TakenOnly
  <2>6. activated' \in [Nodes -> SUBSET spawned] /\ \A k \in Nodes : Distinct(activated'[k])
    BY ZenonT(30), <1>v, <2>2, <2>4 DEF AddAll, ViewInv, Distinct
  <2>7. AgentTypeOK'
    BY Zenon, <1>t, <2>2, <2>5, <2>6 DEF AgentTypeOK, TypeOK, At, Distinct
  <2>8. ViewInv' /\ SpawnInv'
    BY Zenon, <1>t, <1>v, <2>2, <2>6 DEF AgentTypeOK, TypeOK, ViewInv, SpawnInv, Op, At, Of,
       Distinct
  <2>9. QED
    BY Zenon, <2>5, <2>7, <2>8 DEF SpawnedInv
<1>11. ASSUME NEW n \in Nodes, HandleTopology(n) PROVE SpawnedInv'
  <2>1. PICK m : m = Head(inbox[n]).about
    BY Zenon
  <2>2. /\ UNCHANGED <<plan, members, wait, net, running, call, ret, told, updates, spawned>>
        /\ Take(n, "topology") /\ inbox' = [inbox EXCEPT ![n] = Tail(@)]
        /\ activated' = [activated EXCEPT ![n] = AddAll(@, m)]
    BY Zenon, <1>11, <2>1 DEF HandleTopology, history
  <2>3. NoDeactivate' => NoDeactivate
    BY Zenon, <1>t, <2>2 DEF NoDeactivate, Op, TypeOK
  <2>4. m \subseteq spawned /\ Distinct(m)
    BY Zenon, <2>1, <2>2, Taken, Contents
  <2>5. MessageInv' /\ DOMAIN inbox' = Nodes
    BY Zenon, <2>2, <2>3, TakenOnly
  <2>6. activated' \in [Nodes -> SUBSET spawned] /\ \A k \in Nodes : Distinct(activated'[k])
    BY ZenonT(30), <1>v, <2>2, <2>4 DEF AddAll, ViewInv, Distinct
  <2>7. AgentTypeOK'
    BY Zenon, <1>t, <2>2, <2>5, <2>6 DEF AgentTypeOK, TypeOK, At, Distinct
  <2>8. ViewInv' /\ SpawnInv'
    BY Zenon, <1>t, <1>v, <2>2, <2>6 DEF AgentTypeOK, TypeOK, ViewInv, SpawnInv, Op, At, Of, Distinct
  <2>9. QED
    BY Zenon, <2>5, <2>7, <2>8 DEF SpawnedInv
<1>12. ASSUME NEW n \in Nodes, HandleDeactivate(n) PROVE SpawnedInv'
  <2>1. PICK m : m = Head(inbox[n]).about
    BY Zenon
  <2>2. /\ UNCHANGED <<plan, members, activated, wait, running, call, ret, told, updates, spawned>>
        /\ Take(n, "deactivate")
        /\ SendAll(n, members[n], Msg("deactivation", m), Tail(inbox[n]), net)
    BY Zenon, <1>12, <2>1 DEF HandleDeactivate, agentVars, history
  <2>3. NoDeactivate' => NoDeactivate
    BY Zenon, <1>t, <2>2 DEF NoDeactivate, Op, TypeOK
  <2>4. m \in Dropped'
    BY Zenon, <2>1, <2>2, Taken, Contents DEF Dropped, NoDeactivate, Op
  <2>5. MessageInv' /\ DOMAIN inbox' = Nodes
    <3>1. /\ \A b \in Nodes : inbox[b] \in Seq(InBox(b)')
          /\ net \in [Links -> Seq(OnLink')]
      BY Zenon, <1>m, <2>2, <2>3, Widened
    <3>2. Msg("deactivation", m) \in Shared'
      BY Zenon, <1>f, <2>2, <2>4 DEF Formed
    <3>3. Tail(inbox[n]) \in Seq(InBox(n)')
      BY Zenon, <3>1, <2>2, HeadAndTail DEF Take
    <3>4. QED
      BY Zenon, <1>t, <2>2, <3>1, <3>2, <3>3, SendAllSound DEF AgentTypeOK
  <2>6. AgentTypeOK'
    BY Zenon, <1>t, <2>2, <2>5 DEF AgentTypeOK, TypeOK, At
  <2>7. ViewInv' /\ SpawnInv'
    BY Zenon, <1>t, <1>v, <2>2 DEF AgentTypeOK, TypeOK, ViewInv, SpawnInv, Op, At, Of
  <2>8. QED
    BY Zenon, <2>5, <2>6, <2>7 DEF SpawnedInv
<1>13. ASSUME NEW n \in Nodes, HandleDeactivation(n) PROVE SpawnedInv'
  <2>1. PICK id : id = Head(inbox[n]).about[2]
    BY Zenon
  <2>2. /\ UNCHANGED <<plan, members, wait, net, call, ret, told, updates, spawned>>
        /\ Take(n, "deactivation") /\ inbox' = [inbox EXCEPT ![n] = Tail(@)]
        /\ running' \subseteq running
        /\ activated' = [activated EXCEPT ![n] = {p \in @ : p[2] # id}]
    BY Zenon, <1>13, <2>1 DEF HandleDeactivation, history
  <2>3. NoDeactivate' => NoDeactivate
    BY Zenon, <1>t, <2>2 DEF NoDeactivate, Op, TypeOK
  <2>4. MessageInv' /\ DOMAIN inbox' = Nodes
    BY Zenon, <2>2, <2>3, TakenOnly
  <2>5. activated' \in [Nodes -> SUBSET spawned] /\ \A k \in Nodes : Distinct(activated'[k])
    BY Zenon, <1>v, <2>2 DEF ViewInv, Distinct
  <2>6. AgentTypeOK'
    BY Zenon, <1>t, <2>2, <2>4, <2>5 DEF AgentTypeOK, TypeOK, At, Distinct
  <2>7. ViewInv' /\ SpawnInv'
    BY Zenon, <1>t, <1>v, <2>2, <2>5 DEF AgentTypeOK, TypeOK, ViewInv, SpawnInv, Op, At, Of, Distinct
  <2>8. QED
    BY Zenon, <2>4, <2>6, <2>7 DEF SpawnedInv
<1>14. ASSUME NEW n \in Nodes, HandleMembers(n) PROVE SpawnedInv'
  <2>1. PICK S : S = Head(inbox[n]).about
    BY Zenon
  <2>2. /\ UNCHANGED <<plan, wait, running, call, ret, told, updates, spawned>>
        /\ Take(n, "members") /\ members' = [members EXCEPT ![n] = S]
        /\ activated' = [activated EXCEPT ![n] = {p \in @ : p[1] \notin members[n] \ S}]
        /\ SendAll(n, IF activated[n] = {} THEN {} ELSE S \ members[n], Msg("topology", activated[n]),
                   Tail(inbox[n]), net)
    BY Zenon, <1>14, <2>1 DEF HandleMembers
  <2>3. NoDeactivate' => NoDeactivate
    BY Zenon, <1>t, <2>2 DEF NoDeactivate, Op, TypeOK
  <2>4. S \subseteq Nodes
    BY Zenon, <2>1, <2>2, Taken, Contents
  <2>5. MessageInv' /\ DOMAIN inbox' = Nodes
    <3>1. /\ \A b \in Nodes : inbox[b] \in Seq(InBox(b)')
          /\ net \in [Links -> Seq(OnLink')]
      BY Zenon, <1>m, <2>2, <2>3, Widened
    <3>2. Msg("topology", activated[n]) \in Shared'
      BY Zenon, <1>f, <1>v, <2>2 DEF Formed, ViewInv
    <3>3. Tail(inbox[n]) \in Seq(InBox(n)')
      BY Zenon, <3>1, <2>2, HeadAndTail DEF Take
    <3>4. QED
      BY Zenon, <1>t, <2>2, <3>1, <3>2, <3>3, SendAllSound DEF AgentTypeOK
  <2>6. activated' \in [Nodes -> SUBSET spawned] /\ \A k \in Nodes : Distinct(activated'[k])
    BY Zenon, <1>v, <2>2 DEF ViewInv, Distinct
  <2>7. AgentTypeOK'
    BY Zenon, <1>t, <2>2, <2>5, <2>4, <2>6 DEF AgentTypeOK, TypeOK, At, Distinct
  <2>8. ViewInv' /\ SpawnInv'
    BY Zenon, <1>t, <1>v, <2>2, <2>6 DEF AgentTypeOK, TypeOK, ViewInv, SpawnInv, Op, At, Of,
       Distinct
  <2>9. QED
    BY Zenon, <2>5, <2>7, <2>8 DEF SpawnedInv
<1>15. ASSUME NEW n \in Nodes, HandleGetMembers(n) PROVE SpawnedInv'
  <2>1. PICK c : c = Head(inbox[n]).about
    BY Zenon
  <2>2. /\ UNCHANGED <<plan, members, activated, wait, net, running, ret, updates, spawned>>
        /\ Take(n, "getMembers") /\ inbox' = [inbox EXCEPT ![n] = Tail(@)]
        /\ \/ /\ call[c] = "waiting" /\ call' = [call EXCEPT ![c] = "tell"]
              /\ told' = [told EXCEPT ![c] = members[n]]
           \/ UNCHANGED <<call, told>>
    BY Zenon, <1>15, <2>1 DEF HandleGetMembers, agentVars, history
  <2>3. NoDeactivate' => NoDeactivate
    BY Zenon, <1>t, <2>2 DEF NoDeactivate, Op, TypeOK
  <2>4. c \in Calls /\ Op(c) = "spawn"
    BY Zenon, <2>1, <2>2, Taken, Contents
  <2>5. MessageInv' /\ DOMAIN inbox' = Nodes
    BY Zenon, <2>2, <2>3, TakenOnly
  <2>6. /\ call' \in [Calls -> {"new", "waiting", "tell", "done"}] /\ told' \in [Calls -> SUBSET Nodes]
        /\ \A d \in Calls : /\ call'[d] = "new" <=> call[d] = "new"
                            /\ call'[d] = "done" <=> call[d] = "done"
                            /\ call'[d] = "tell" => call[d] = "tell" \/ d = c
    BY Zenon, <1>t, <2>2, <2>4 DEF AgentTypeOK, TypeOK
  <2>7. AgentTypeOK'
    BY Zenon, <1>t, <2>2, <2>5, <2>6 DEF AgentTypeOK, TypeOK, At
  <2>8. ViewInv' /\ SpawnInv'
    BY Zenon, <1>t, <1>v, <2>2, <2>4, <2>6 DEF AgentTypeOK, TypeOK, ViewInv, SpawnInv, Op, At, Of
  <2>9. QED
    BY Zenon, <2>5, <2>7, <2>8 DEF SpawnedInv
<1>16. ASSUME NEW n \in Nodes, RequestTimeout(n) PROVE SpawnedInv'
  <2>1. PICK c : c = wait[n]
    BY Zenon
  <2>2. /\ UNCHANGED <<plan, members, activated, inbox, net, running, told, updates, spawned>>
        /\ c # None /\ wait' = [wait EXCEPT ![n] = None]
        /\ Respond(c, None)
    BY Zenon, <1>16, <2>1 DEF RequestTimeout, agentVars, history
  <2>3. NoDeactivate' => NoDeactivate
    BY Zenon, <1>t, <2>2 DEF NoDeactivate, Op, TypeOK, Respond
  <2>4. c \in Calls
    BY Zenon, <1>t, <2>1, <2>2 DEF TypeOK
  <2>5. MessageInv' /\ DOMAIN inbox' = Nodes
    BY Zenon, <1>t, <1>m, <2>2, <2>3, Widened DEF MessageInv, AgentTypeOK
  <2>6. /\ ret' \in [Calls -> spawned' \cup {None}] /\ ret' \in [Calls -> PIDs \cup {None}]
        /\ \A d \in Calls : ret'[d] # None => call'[d] = "done" /\ ret'[d][2] = Of(d)'
        /\ call' \in [Calls -> {"new", "waiting", "tell", "done"}]
        /\ \A d \in Calls : /\ call'[d] = "tell" <=> call[d] = "tell"
                            /\ call'[d] = "new" <=> call[d] = "new"
    <3>1. spawned' \subseteq PIDs
      BY Zenon, <1>t, <1>p, <2>2 DEF AgentTypeOK
    <3>2. QED
      BY Zenon, <2>2, <2>4, <3>1, Responded
  <2>7. AgentTypeOK'
    BY Zenon, <1>t, <2>2, <2>5, <2>6 DEF AgentTypeOK, TypeOK, At
  <2>8. ViewInv' /\ SpawnInv'
    BY Zenon, <1>t, <1>v, <2>2, <2>6 DEF AgentTypeOK, TypeOK, ViewInv, SpawnInv, Op, At, Of
  <2>9. QED
    BY Zenon, <2>5, <2>7, <2>8 DEF SpawnedInv
<1>17. ASSUME NEW n \in Nodes, Update(n) PROVE SpawnedInv'
  <2>1. /\ UNCHANGED <<plan, members, activated, wait, net, running, call, ret, told, spawned>>
        /\ updates[n] < Len(Views[n]) /\ updates' = [updates EXCEPT ![n] = @ + 1]
        /\ inbox' = [inbox EXCEPT ![n] = Append(@, Msg("members", Views[n][updates[n] + 1]))]
    BY Zenon, <1>17 DEF Update, agentVars, history
  <2>2. NoDeactivate' => NoDeactivate
    BY Zenon, <1>t, <2>1 DEF NoDeactivate, Op, TypeOK
  <2>3. Views[n] \in Seq(SUBSET Nodes) /\ updates[n] + 1 \in 1..Len(Views[n])
    BY <1>t, <2>1, AgentAssumption DEF TypeOK
  <2>4. Views[n][updates[n] + 1] \subseteq Nodes
    BY <2>3, ElementOfSeq
  <2>5. MessageInv' /\ DOMAIN inbox' = Nodes
    <3>1. Msg("members", Views[n][updates[n] + 1]) \in InBox(n)'
      BY Zenon, <1>f, <2>4 DEF OwnFormed, InBox
    <3>2. QED
      BY Zenon, <2>1, <3>1, <2>2, PutOne
  <2>6. updates' \in [Nodes -> Nat] /\ \A m \in Nodes : updates'[m] \in 0..Len(Views[m])
    BY <1>t, <2>1, <2>3, AgentAssumption DEF AgentTypeOK, TypeOK
  <2>7. AgentTypeOK'
    BY Zenon, <1>t, <2>1, <2>5, <2>6 DEF AgentTypeOK, TypeOK, At
  <2>8. ViewInv' /\ SpawnInv'
    BY Zenon, <1>t, <1>v, <2>1 DEF AgentTypeOK, TypeOK, ViewInv, SpawnInv, Op, At, Of
  <2>9. QED
    BY Zenon, <2>5, <2>7, <2>8 DEF SpawnedInv
<1>18. ASSUME NEW l \in Links, Arrive(l) PROVE SpawnedInv'
  <2>1. /\ UNCHANGED <<plan, members, activated, wait, running, call, ret, told, updates, spawned>>
        /\ net[l] # <<>> /\ Head(net[l]).type # "response"
        /\ net' = [net EXCEPT ![l] = Tail(@)]
        /\ inbox' = [inbox EXCEPT ![l[2]] = Append(@, Head(net[l]))]
    BY Zenon, <1>18 DEF Arrive, agentVars, history
  <2>2. NoDeactivate' => NoDeactivate
    BY Zenon, <1>t, <2>1 DEF NoDeactivate, Op, TypeOK
  <2>3. l[2] \in Nodes /\ Head(net[l]) \in Shared
    BY Zenon, <1>m, <2>1, HeadAndTail, LinkContents DEF Links, MessageInv
  <2>4. MessageInv' /\ DOMAIN inbox' = Nodes
    <3>1. /\ \A m \in Nodes : inbox[m] \in Seq(InBox(m)')
          /\ net \in [Links -> Seq(OnLink')] /\ Shared \subseteq Shared'
      BY Zenon, <1>m, <2>1, <2>2, Widened
    <3>2. PICK n \in Nodes : n = l[2]
      BY Zenon, <2>3
    <3>3. Head(net[l]) \in InBox(n)'
      BY Zenon, <2>3, <3>1 DEF InBox
    <3>4. Append(inbox[n], Head(net[l])) \in Seq(InBox(n)')
      BY Zenon, <3>1, <3>3, AppendProperties
    <3>5. DOMAIN inbox' = Nodes /\ \A m \in Nodes : inbox'[m] \in Seq(InBox(m)')
      BY Zenon, <1>t, <2>1, <3>1, <3>2, <3>4 DEF AgentTypeOK
    <3>6. net' \in [Links -> Seq(OnLink')]
      BY Zenon, <2>1, <3>1, HeadAndTail
    <3>7. QED
      BY Zenon, <3>5, <3>6 DEF MessageInv
  <2>5. AgentTypeOK'
    BY Zenon, <1>t, <2>1, <2>4 DEF AgentTypeOK, TypeOK, At
  <2>6. ViewInv' /\ SpawnInv'
    BY Zenon, <1>t, <1>v, <2>1 DEF AgentTypeOK, TypeOK, ViewInv, SpawnInv, Op, At, Of
  <2>7. QED
    BY Zenon, <2>4, <2>5, <2>6 DEF SpawnedInv
<1>19. ASSUME NEW l \in Links, ActivateResponse(l) PROVE SpawnedInv'
  <2>1. PICK n : n = l[2]
    BY Zenon
  <2>2. PICK c : c = wait[n]
    BY Zenon
  <2>3. PICK r : r = Head(net[l])
    BY Zenon
  <2>4. /\ UNCHANGED <<plan, members, activated, running, updates, spawned>>
        /\ net[l] # <<>> /\ r = Head(net[l]) /\ r.type = "response"
        /\ c # None /\ r.about = c
        /\ wait' = [wait EXCEPT ![n] = None]
        /\ told' = [told EXCEPT ![c] = IF r.pid = None THEN {} ELSE members[n]]
        /\ SendAll(n, told'[c], Msg("activation", r.pid), inbox[n], [net EXCEPT ![l] = Tail(@)])
        /\ Respond(c, r.pid)
    BY Zenon, <1>19, <2>1, <2>2, <2>3 DEF ActivateResponse, agentVars
  <2>5. NoDeactivate' => NoDeactivate
    BY Zenon, <1>t, <2>4 DEF NoDeactivate, Op, TypeOK, Respond
  <2>6. /\ n \in Nodes /\ c \in Calls
        /\ r.pid \in spawned \cup {None} /\ (r.pid # None => r.pid[2] = Of(c))
    <3>1. n \in Nodes /\ c \in Calls
      BY Zenon, <1>t, <2>1, <2>2, <2>4 DEF Links, TypeOK
    <3>2. r \in OnLink
      BY Zenon, <1>m, <2>4, HeadAndTail DEF MessageInv
    <3>3. QED
      BY Zenon, <2>4, <3>1, <3>2, LinkContents
  <2>7. told' \in [Calls -> SUBSET Nodes] /\ (told'[c] # {} => r.pid # None)
    BY Zenon, <1>t, <2>4, <2>6 DEF AgentTypeOK, TypeOK
  <2>8. MessageInv' /\ DOMAIN inbox' = Nodes
    <3>1. /\ \A b \in Nodes : inbox[b] \in Seq(InBox(b)')
          /\ net \in [Links -> Seq(OnLink')]
      BY Zenon, <1>m, <2>4, <2>5, Widened
    <3>2. told'[c] # {} => Msg("activation", r.pid) \in Shared'
      BY Zenon, <1>f, <2>4, <2>6, <2>7 DEF Formed
    <3>3. [net EXCEPT ![l] = Tail(@)] \in [Links -> Seq(OnLink')]
      BY Zenon, <2>4, <3>1, HeadAndTail
    <3>4. QED
      BY Zenon, <1>t, <2>4, <2>6, <3>1, <3>2, <3>3, SendAllSound DEF AgentTypeOK
  <2>9. /\ ret' \in [Calls -> spawned' \cup {None}] /\ ret' \in [Calls -> PIDs \cup {None}]
        /\ \A d \in Calls : ret'[d] # None => call'[d] = "done" /\ ret'[d][2] = Of(d)'
        /\ call' \in [Calls -> {"new", "waiting", "tell", "done"}]
        /\ \A d \in Calls : /\ call'[d] = "tell" <=> call[d] = "tell"
                            /\ call'[d] = "new" <=> call[d] = "new"
    <3>1. spawned' \subseteq PIDs
      BY Zenon, <1>t, <1>p, <2>4 DEF AgentTypeOK
    <3>2. QED
      BY Zenon, <2>4, <2>6, <3>1, Responded
  <2>10. AgentTypeOK'
    BY Zenon, <1>t, <2>4, <2>8, <2>6, <2>7, <2>9 DEF AgentTypeOK, TypeOK, At
  <2>11. ViewInv' /\ SpawnInv'
    BY Zenon, <1>t, <1>v, <2>4, <2>9 DEF AgentTypeOK, TypeOK, ViewInv, SpawnInv, Op, At, Of
  <2>12. QED
    BY Zenon, <2>8, <2>10, <2>11 DEF SpawnedInv
<1>20. ASSUME NEW l \in Links, LateResponse(l) PROVE SpawnedInv'
  <2>1. /\ UNCHANGED <<plan, members, activated, inbox, wait, running, call, ret, told, updates, spawned>>
        /\ net[l] # <<>> /\ net' = [net EXCEPT ![l] = Tail(@)]
    BY Zenon, <1>20 DEF LateResponse, agentVars, history
  <2>2. NoDeactivate' => NoDeactivate
    BY Zenon, <1>t, <2>1 DEF NoDeactivate, Op, TypeOK
  <2>3. MessageInv' /\ DOMAIN inbox' = Nodes
    <3>1. /\ \A b \in Nodes : inbox[b] \in Seq(InBox(b)')
          /\ net \in [Links -> Seq(OnLink')]
      BY Zenon, <1>m, <2>1, <2>2, Widened
    <3>2. net' \in [Links -> Seq(OnLink')]
      BY Zenon, <2>1, <3>1, HeadAndTail
    <3>3. QED
      BY Zenon, <1>t, <2>1, <3>1, <3>2 DEF MessageInv, AgentTypeOK
  <2>4. AgentTypeOK'
    BY Zenon, <1>t, <2>1, <2>3 DEF AgentTypeOK, TypeOK, At
  <2>5. ViewInv' /\ SpawnInv'
    BY Zenon, <1>t, <1>v, <2>1 DEF AgentTypeOK, TypeOK, ViewInv, SpawnInv, Op, At, Of
  <2>6. QED
    BY Zenon, <2>3, <2>4, <2>5 DEF SpawnedInv
<1>21. CASE UNCHANGED vars
  <2>1. UNCHANGED <<plan, spawned, inbox, net>>
    BY Zenon, <1>21 DEF vars, history
  <2>2. MessageInv'
    <3>1. NoDeactivate' => NoDeactivate
      BY Zenon, <1>21 DEF NoDeactivate, Op, vars
    <3>2. QED
      BY Zenon, <1>m, <2>1, <3>1, Widened DEF MessageInv
  <2>3. \A d \in Calls : Op(d)' = Op(d) /\ At(d)' = At(d) /\ Of(d)' = Of(d)
    BY Zenon, <2>1, SamePlan
  <2>4. AgentTypeOK' /\ ViewInv' /\ SpawnInv'
    BY Zenon, <1>t, <1>v, <1>21, <2>3 DEF AgentTypeOK, TypeOK, ViewInv, SpawnInv, vars, agentVars,
       history
  <2>5. QED
    BY Zenon, <2>2, <2>4 DEF SpawnedInv
<1>22. QED
  BY Zenon, <1>1, <1>2, <1>3, <1>4, <1>5, <1>6, <1>7, <1>8, <1>9, <1>10, <1>11, <1>12, <1>13, <1>14,
     <1>15,
     <1>16, <1>17, <1>18, <1>19, <1>20, <1>21 DEF Next, Handle

(* The agents are always in a state that SpawnedInv describes. *)
THEOREM AgentInvariant == Spec => []SpawnedInv
BY SpawnedInit, SpawnedStep, PTL DEF Spec

(* agent.go: however Activation, ActorTopology and ActivationResponse are  *)
(* interleaved and whichever requests time out, no agent lists and no call *)
(* returns a PID that was not spawned at the node it names.                *)
THEOREM NoPhantoms == Spec => []OnlySpawned
<1>1. SpawnedInv => OnlySpawned
  BY Zenon DEF SpawnedInv, ViewInv, OnlySpawned
<1>2. QED
  BY <1>1, AgentInvariant, PTL

----------------------------------------------------------------------------
(* The order of the inbox of an agent makes the activations at one node    *)
(* unique.                                                                 *)

(* Nothing was deactivated, and no member has left the view of n. *)
Settled(n) == left[n] = {} /\ NoDeactivate

(* The agent of n lists the ID, or will when it has handled the messages   *)
(* in front of position i of its inbox.                                    *)
ListedBy(n, id, i) ==
  \/ Known(n, id)
  \/ \E j \in 1..Len(inbox[n]) : j < i /\ inbox[n][j].type = "activation"
                                       /\ inbox[n][j].about[2] = id

(* A call that announced an actor at its own node has its Activation there. *)
Announces(d) == At(d) \in told[d] /\ call[d] # "tell"
ToldInv ==
  \A d \in Calls : Announces(d) /\ Settled(At(d))
                      => ListedBy(At(d), Of(d), Len(inbox[At(d)]) + 1)

(* What was returned before a call began, and announced to its node, is    *)
(* handled before its message.                                             *)
OrderAt(n, i) ==
  inbox[n][i].type = "activate" =>
    /\ call[inbox[n][i].about] # "new"
    /\ Settled(n) => \A e \in earlier[inbox[n][i].about] :
                       n \in e.told => ListedBy(n, e.pid[2], i)
OrderInv == \A n \in Nodes : \A i \in 1..Len(inbox[n]) : OrderAt(n, i)

(* No PID returned earlier, and announced, has the ID of the call. *)
Fresh(c) == \A e \in earlier[c] : At(c) \in e.told => e.pid[2] # Of(c)

WaitInv ==
  \A n \in Nodes : wait[n] # None =>
    call[wait[n]] # "new" /\ (Settled(n) => Fresh(wait[n]))

FreshInv ==
  \A c \in Calls : Op(c) = "activate" /\ ret[c] # None /\ Settled(At(c)) => Fresh(c)

(* Every call and every node has its history. *)
HistoryInv == DOMAIN earlier = Calls /\ DOMAIN left = Nodes

InboxOrderInv == SpawnedInv /\ HistoryInv /\ ToldInv /\ OrderInv /\ WaitInv /\ FreshInv

----------------------------------------------------------------------------
(* What every step leaves of the calls and the views, ... *)
CallsKept ==
  /\ plan' = plan
  /\ \A d \in Calls : /\ call'[d] = "new" => call[d] = "new"
                      /\ call[d] # "new" => earlier'[d] = earlier[d]
  /\ \A n \in Nodes : left'[n] = {} => left[n] = {}
  /\ DOMAIN earlier' = Calls /\ DOMAIN left' = Nodes

(* ... and of an inbox: k messages were taken from the front, and what was *)
(* added at the end is in order.  A view loses nothing, and has the ID of  *)
(* the Activation that was taken.                                          *)
Moved(n, k) ==
  /\ k <= Len(inbox[n]) /\ Len(inbox[n]) - k <= Len(inbox'[n])
  /\ \A j \in 1..Len(inbox[n]) : j > k => inbox'[n][j - k] = inbox[n][j]
  /\ \A i \in 1..Len(inbox'[n]) : i > Len(inbox[n]) - k => OrderAt(n, i)'
  /\ Settled(n)' => \A id : \/ Known(n, id)
                            \/ k = 1 /\ inbox[n][1].type = "activation"
                                     /\ inbox[n][1].about[2] = id
                            => Known(n, id)'

AllMoved == \A n \in Nodes : \E k \in 0..1 : Moved(n, k)

(* A call announces its actor only with an Activation in the inbox, ... *)
Heard ==
  \A d \in Calls, n \in Nodes :
    n = At(d) /\ n \in told'[d] /\ call'[d] # "tell" /\ Settled(n)'
      => \/ n \in told[d] /\ call[d] # "tell"
         \/ ListedBy(n, Of(d), Len(inbox[n]) + 1)'

(* ... an agent waits for, and a call is answered with, new IDs only. *)
WaitsFresh ==
  \A n \in Nodes :
    \/ wait'[n] \in {None, wait[n]}
    \/ \E c \in Calls : wait'[n] = c /\ call'[c] # "new" /\ (Settled(n)' => Fresh(c)')

AnswersFresh ==
  \A c \in Calls, n \in Nodes :
    n = At(c) /\ Op(c) = "activate" /\ ret'[c] \notin {None, ret[c]} /\ Settled(n)' => Fresh(c)'

----------------------------------------------------------------------------
(* What was not settled before is not settled now. *)
LEMMA SettledBefore ==
  ASSUME CallsKept, NEW n \in Nodes, Settled(n)'
  PROVE  Settled(n)
BY Zenon DEF CallsKept, Settled, NoDeactivate, Op

(* What an agent lists, or will list, it still lists or will list. *)
LEMMA StillListed ==
  ASSUME SpawnedInv, SpawnedInv', NEW n \in Nodes, NEW k \in 0..1, Moved(n, k), Settled(n)',
         NEW id, NEW i \in Int, ListedBy(n, id, i), NEW h \in Int, h >= i - k
  PROVE  ListedBy(n, id, h)'
<1>1. Len(inbox[n]) \in Nat /\ Len(inbox'[n]) \in Nat
  BY DEF SpawnedInv, MessageInv
<1>2. CASE Known(n, id)
  BY Zenon, <1>2 DEF Moved, ListedBy
<1>3. CASE \E j \in 1..Len(inbox[n]) : j < i /\ inbox[n][j].type = "activation"
                                             /\ inbox[n][j].about[2] = id
  <2>1. PICK j \in 1..Len(inbox[n]) : j < i /\ inbox[n][j].type = "activation"
                                            /\ inbox[n][j].about[2] = id
    BY Zenon, <1>3
  <2>2. CASE j > k
    <3>1. j - k \in 1..Len(inbox'[n]) /\ j - k < h /\ inbox'[n][j - k] = inbox[n][j]
      BY <1>1, <2>1, <2>2 DEF Moved
    <3>2. QED
      BY Zenon, <2>1, <3>1 DEF ListedBy
  <2>3. CASE ~(j > k)
    <3>1. j = 1 /\ k = 1
      BY <1>1, <2>1, <2>3
    <3>2. Known(n, id)'
      BY Zenon, <2>1, <3>1 DEF Moved
    <3>3. QED
      BY Zenon, <3>2 DEF ListedBy
  <2>4. QED
    BY Zenon, <2>2, <2>3
<1>4. QED
  BY Zenon, <1>2, <1>3 DEF ListedBy

(* What was in order stays in order as the inboxes move. *)
LEMMA OrderKept ==
  ASSUME SpawnedInv, SpawnedInv', OrderInv, CallsKept, AllMoved
  PROVE  OrderInv'
<1> SUFFICES ASSUME NEW n \in Nodes, NEW i \in 1..Len(inbox'[n]) PROVE OrderAt(n, i)'
  BY Zenon DEF OrderInv
<1>1. PICK k \in 0..1 : Moved(n, k)
  BY Zenon DEF AllMoved
<1>2. Len(inbox[n]) \in Nat /\ Len(inbox'[n]) \in Nat
  BY DEF SpawnedInv, MessageInv
<1>3. CASE i > Len(inbox[n]) - k
  BY Zenon, <1>1, <1>3 DEF Moved
<1>4. CASE ~(i > Len(inbox[n]) - k)
  <2>1. PICK h : h = i + k
    BY Zenon
  <2>2. h \in 1..Len(inbox[n]) /\ h > k /\ h - k = i
    BY <1>2, <1>4, <2>1
  <2>3. inbox'[n][i] = inbox[n][h]
    BY Zenon, <1>1, <2>2 DEF Moved
  <2>4. SUFFICES ASSUME inbox[n][h].type = "activate"
                 PROVE  /\ call'[inbox[n][h].about] # "new"
                        /\ Settled(n)' => \A e \in earlier'[inbox[n][h].about] :
                                             n \in e.told => ListedBy(n, e.pid[2], i)'
    BY Zenon, <2>3 DEF OrderAt
  <2>5. inbox[n][h].about \in Calls
    <3>1. inbox[n] \in Seq(InBox(n))
      BY Zenon DEF SpawnedInv, MessageInv
    <3>2. inbox[n][h] \in InBox(n)
      BY Zenon, <2>2, <3>1, ElementOfSeq
    <3>3. QED
      BY Zenon, <2>4, <3>2, Contents
  <2>6. /\ call[inbox[n][h].about] # "new"
        /\ Settled(n) => \A e \in earlier[inbox[n][h].about] :
                            n \in e.told => ListedBy(n, e.pid[2], h)
    BY Zenon, <2>2, <2>4 DEF OrderInv, OrderAt
  <2>7. call'[inbox[n][h].about] # "new" /\ earlier'[inbox[n][h].about] = earlier[inbox[n][h].about]
    BY Zenon, <2>5, <2>6 DEF CallsKept
  <2>8. ASSUME Settled(n)', NEW e \in earlier'[inbox[n][h].about], n \in e.told
        PROVE  ListedBy(n, e.pid[2], i)'
    <3>1. PICK id : id = e.pid[2]
      BY Zenon
    <3>2. Settled(n)
      BY Zenon, <2>8, SettledBefore
    <3>3. ListedBy(n, id, h)
      BY Zenon, <2>6, <2>7, <2>8, <3>1, <3>2
    <3>4. ListedBy(n, id, i)'
      BY <1>1, <2>2, <2>8, <3>3, StillListed
    <3>5. QED
      BY Zenon, <3>1, <3>4
  <2>9. QED
    BY Zenon, <2>7, <2>8
<1>5. QED
  BY Zenon, <1>3, <1>4

(* What a call has announced stays listed, or ahead in the inbox. *)
LEMMA ToldKept ==
  ASSUME SpawnedInv, SpawnedInv', ToldInv, CallsKept, AllMoved, Heard
  PROVE  ToldInv'
<1>1. \A d \in Calls : At(d) \in Nodes /\ At(d)' = At(d) /\ Of(d)' = Of(d)
  BY Zenon, PlanFacts, SamePlan DEF CallsKept, SpawnedInv, AgentTypeOK
<1> SUFFICES ASSUME NEW d \in Calls, Announces(d)', Settled(At(d))'
             PROVE  ListedBy(At(d), Of(d), Len(inbox[At(d)]) + 1)'
  BY Zenon DEF ToldInv
<1>2. PICK n \in Nodes : n = At(d)
  BY Zenon, <1>1
<1>3. PICK id : id = Of(d)
  BY Zenon
<1>4. At(d)' = n /\ Of(d)' = id
  BY Zenon, <1>1, <1>2, <1>3
<1>5. SUFFICES ListedBy(n, id, Len(inbox[n]) + 1)'
  BY Zenon, <1>4
<1>6. Settled(n)' /\ n \in told'[d] /\ call'[d] # "tell"
  BY Zenon, <1>4 DEF Announces
<1>7. CASE ListedBy(n, Of(d), Len(inbox[n]) + 1)'
  BY Zenon, <1>4, <1>7
<1>8. CASE n \in told[d] /\ call[d] # "tell"
  <2>1. Settled(n)
    BY Zenon, <1>6, SettledBefore
  <2>2. ListedBy(n, id, Len(inbox[n]) + 1)
    BY Zenon, <1>2, <1>3, <1>8, <2>1 DEF ToldInv, Announces
  <2>3. Len(inbox[n]) \in Nat /\ Len(inbox'[n]) \in Nat
    BY DEF SpawnedInv, MessageInv
  <2>4. PICK k \in 0..1 : Moved(n, k)
    BY Zenon DEF AllMoved
  <2>5. Len(inbox'[n]) + 1 >= Len(inbox[n]) + 1 - k
    BY <2>3, <2>4 DEF Moved
  <2>6. PICK h \in Int : h = Len(inbox'[n]) + 1
    BY <2>3
  <2>7. ListedBy(n, id, h)'
    BY <1>6, <2>2, <2>3, <2>4, <2>5, <2>6, StillListed
  <2>8. QED
    BY Zenon, <2>6, <2>7
<1>9. QED
  BY Zenon, <1>2, <1>6, <1>7, <1>8 DEF Heard

(* The ID an agent waits for, or has answered with, stays new. *)
LEMMA FreshKept ==
  ASSUME SpawnedInv, SpawnedInv', WaitInv, FreshInv, CallsKept, WaitsFresh, AnswersFresh
  PROVE  WaitInv' /\ FreshInv'
<1>1. \A d \in Calls : At(d) \in Nodes /\ At(d)' = At(d) /\ Of(d)' = Of(d) /\ Op(d)' = Op(d)
  BY Zenon, PlanFacts, SamePlan DEF CallsKept, SpawnedInv, AgentTypeOK
<1>2. \A d \in Calls : call[d] # "new" => call'[d] # "new" /\ (Fresh(d) => Fresh(d)')
  BY Zenon, <1>1 DEF CallsKept, Fresh
<1>3. WaitInv'
  <2> SUFFICES ASSUME NEW n \in Nodes, wait'[n] # None
               PROVE  call'[wait'[n]] # "new" /\ (Settled(n)' => Fresh(wait[n])')
    BY Zenon DEF WaitInv
  <2>1. PICK c \in Calls : c = wait'[n]
    BY Zenon DEF SpawnedInv, AgentTypeOK, TypeOK
  <2>2. SUFFICES call'[c] # "new" /\ (Settled(n)' => Fresh(c)')
    BY Zenon, <2>1
  <2>3. CASE c = wait[n]
    <3>1. call[c] # "new" /\ (Settled(n) => Fresh(c))
      BY Zenon, <2>1, <2>3 DEF WaitInv
    <3>2. QED
      BY Zenon, <1>2, <3>1, SettledBefore
  <2>4. CASE c # wait[n]
    BY Zenon, <2>1, <2>4 DEF WaitsFresh
  <2>5. QED
    BY Zenon, <2>3, <2>4
<1>4. FreshInv'
  <2> SUFFICES ASSUME NEW c \in Calls, Op(c)' = "activate", ret'[c] # None, Settled(At(c))'
               PROVE  Fresh(c)'
    BY Zenon DEF FreshInv
  <2>1. PICK n \in Nodes : n = At(c)
    BY Zenon, <1>1
  <2>2. Settled(n)' /\ Op(c) = "activate"
    BY Zenon, <1>1, <2>1
  <2>3. CASE ret'[c] = ret[c]
    <3>1. call[c] # "new"
      BY Zenon, <2>3 DEF SpawnedInv, ViewInv
    <3>2. Settled(n)
      BY Zenon, <2>2, SettledBefore
    <3>3. QED
      BY Zenon, <1>2, <2>1, <2>2, <2>3, <3>1, <3>2 DEF FreshInv
  <2>4. CASE ret'[c] # ret[c]
    BY Zenon, <2>1, <2>2, <2>4 DEF AnswersFresh
  <2>5. QED
    BY Zenon, <2>3, <2>4
<1>5. QED
  BY Zenon, <1>3, <1>4

(* One inbox has moved and the others are as they were. *)
LEMMA OneMoved ==
  ASSUME SpawnedInv, NEW n \in Nodes, NEW k \in 0..1, Moved(n, k),
         \A b \in Nodes \ {n} : inbox'[b] = inbox[b] /\ activated'[b] = activated[b]
  PROVE  AllMoved
<1> SUFFICES ASSUME NEW b \in Nodes, b # n PROVE Moved(b, 0)
  BY DEF AllMoved
<1>1. inbox'[b] = inbox[b] /\ activated'[b] = activated[b]
  BY Zenon
<1>2. Len(inbox[b]) \in Nat
  BY DEF SpawnedInv, MessageInv
<1>3. \A id : Known(b, id) <=> Known(b, id)'
  BY Zenon, <1>1 DEF Known
<1>4. QED
  BY <1>1, <1>2, <1>3 DEF Moved

(* A message was added, or none. *)
LEMMA PushMoves ==
  ASSUME SpawnedInv, NEW n \in Nodes, NEW m, activated' = activated,
         m.type = "activate" => OrderAt(n, Len(inbox[n]))',
         inbox'[n] \in {inbox[n], Append(inbox[n], m)},
         \A b \in Nodes \ {n} : inbox'[b] = inbox[b]
  PROVE  AllMoved
<1>1. inbox[n] \in Seq(InBox(n)) /\ Len(inbox[n]) \in Nat
  BY DEF SpawnedInv, MessageInv
<1>2. \A id : Known(n, id) <=> Known(n, id)'
  BY Zenon DEF Known
<1>3. Len(inbox[n]) <= Len(inbox'[n]) /\ \A j \in 1..Len(inbox[n]) : inbox'[n][j] = inbox[n][j]
  BY <1>1
<1>4. ASSUME NEW i \in 1..Len(inbox'[n]), i > Len(inbox[n]) PROVE OrderAt(n, i)'
  <2>1. i = Len(inbox'[n]) /\ inbox'[n][i] = m
    BY <1>1, <1>4
  <2>2. CASE m.type = "activate"
    BY Zenon, <2>1, <2>2
  <2>3. CASE m.type # "activate"
    BY Zenon, <2>1, <2>3 DEF OrderAt
  <2>4. QED
    BY Zenon, <2>2, <2>3
<1>5. Moved(n, 0)
  BY <1>1, <1>2, <1>3, <1>4 DEF Moved
<1>6. QED
  BY <1>5, OneMoved

(* The first message was taken; a message was added, or none. *)
LEMMA PopMoves ==
  ASSUME SpawnedInv, NEW n \in Nodes, NEW m, m.type # "activate", inbox[n] # <<>>,
         inbox'[n] \in {Tail(inbox[n]), Append(Tail(inbox[n]), m)},
         \A b \in Nodes \ {n} : inbox'[b] = inbox[b] /\ activated'[b] = activated[b],
         Settled(n)' => \A id : \/ Known(n, id)
                                \/ Head(inbox[n]).type = "activation" /\ Head(inbox[n]).about[2] = id
                                => Known(n, id)'
  PROVE  AllMoved
<1>1. inbox[n] \in Seq(InBox(n)) /\ Len(inbox[n]) \in Nat \ {0}
  BY Zenon, EmptySeq DEF SpawnedInv, MessageInv
<1>2. Tail(inbox[n]) \in Seq(InBox(n)) /\ Len(Tail(inbox[n])) = Len(inbox[n]) - 1
  BY Zenon, <1>1, HeadTailProperties
<1>3. \A j \in 1..Len(Tail(inbox[n])) : Tail(inbox[n])[j] = inbox[n][j + 1]
  BY Zenon, <1>1, HeadTailProperties
<1>4. /\ Len(inbox'[n]) \in Nat /\ Len(inbox[n]) - 1 <= Len(inbox'[n])
      /\ \A j \in 1..Len(inbox[n]) : j > 1 => inbox'[n][j - 1] = inbox[n][j]
  BY SMTT(30), <1>1, <1>2, <1>3
<1>5. ASSUME NEW i \in 1..Len(inbox'[n]), i > Len(inbox[n]) - 1 PROVE OrderAt(n, i)'
  <2>1. inbox'[n][i] = m
    BY <1>1, <1>2, <1>5
  <2>2. QED
    BY Zenon, <2>1 DEF OrderAt
<1>6. inbox[n][1] = Head(inbox[n])
  BY <1>1
<1>7. Moved(n, 1)
  BY <1>1, <1>4, <1>5, <1>6 DEF Moved
<1>8. QED
  BY <1>7, OneMoved

(* What SendAll leaves in the inboxes. *)
LEMMA SendAllInbox ==
  ASSUME SpawnedInv, NEW n \in Nodes, NEW ms, NEW msg, NEW box, NEW channels,
         SendAll(n, ms, msg, box, channels)
  PROVE  /\ inbox'[n] = IF n \in ms THEN Append(box, msg) ELSE box
         /\ \A b \in Nodes \ {n} : inbox'[b] = inbox[b]
BY Zenon DEF SendAll, SpawnedInv, AgentTypeOK

(* The last message of an inbox is an Activation. *)
LEMMA LastListed ==
  ASSUME NEW n \in Nodes, NEW S, NEW box \in Seq(S), NEW p,
         inbox'[n] = Append(box, Msg("activation", p)), inbox'[n] \in Seq(InBox(n)')
  PROVE  ListedBy(n, p[2], Len(inbox[n]) + 1)'
<1>1. Len(inbox'[n]) = Len(box) + 1 /\ Len(box) \in Nat /\ inbox'[n][Len(box) + 1] = Msg("activation", p)
  <2>1. PICK T : T = S \cup {Msg("activation", p)}
    BY Zenon
  <2>2. box \in Seq(T) /\ Msg("activation", p) \in T
    BY <2>1
  <2>3. QED
    BY <2>2, AppendProperties
<1>2. Msg("activation", p).type = "activation" /\ Msg("activation", p).about = p
  BY Zenon DEF Msg
<1>3. QED
  BY <1>1, <1>2 DEF ListedBy

(* The agent handles the message of a call: what was returned before the   *)
(* call began is listed, so that the call is refused unless its ID is new. *)
LEMMA NotKnownIsFresh ==
  ASSUME SpawnedInv, OrderInv, NEW n \in Nodes, Take(n, "activate"),
         NEW c, c = Head(inbox[n]).about, ~Known(n, Of(c))
  PROVE  call[c] # "new" /\ (Settled(n) => Fresh(c))
<1>1. inbox[n] \in Seq(InBox(n)) /\ Len(inbox[n]) \in Nat \ {0}
  BY Zenon, EmptySeq DEF SpawnedInv, MessageInv, Take
<1>2. inbox[n][1] = Head(inbox[n]) /\ inbox[n][1].type = "activate"
  BY <1>1 DEF Take
<1>3. At(c) = n
  <2>1. inbox[n][1] \in InBox(n)
    BY <1>1
  <2>2. QED
    BY Zenon, <1>2, <2>1, Contents
<1>4. /\ call[c] # "new"
      /\ Settled(n) => \A e \in earlier[c] : n \in e.told => ListedBy(n, e.pid[2], 1)
  BY <1>1, <1>2 DEF OrderInv, OrderAt
<1>5. \A id : ListedBy(n, id, 1) => Known(n, id)
  BY <1>1 DEF ListedBy
<1>6. QED
  BY Zenon, <1>3, <1>4, <1>5 DEF Fresh

(* A step that leaves the calls and the waits alone. *)
LEMMA Quietly ==
  ASSUME HistoryInv, UNCHANGED <<plan, call, told, wait, ret, earlier>>,
         DOMAIN left' = Nodes, \A n \in Nodes : left[n] \subseteq left'[n]
  PROVE  CallsKept /\ Heard /\ WaitsFresh /\ AnswersFresh
<1>1. CallsKept
  BY Zenon DEF CallsKept, HistoryInv
<1>2. Heard
  BY Zenon DEF Heard
<1>3. WaitsFresh /\ AnswersFresh
  BY Zenon DEF WaitsFresh, AnswersFresh
<1>4. QED
  BY Zenon, <1>1, <1>2, <1>3

(* A step that answers a call. *)
LEMMA Answered ==
  ASSUME SpawnedInv, HistoryInv, UNCHANGED <<plan, earlier, left>>, NEW c \in Calls, NEW pid, Respond(c, pid),
         NEW n \in Nodes, pid = None \/ (n = At(c) /\ (Settled(n) => Fresh(c)))
  PROVE  /\ CallsKept /\ AnswersFresh
         /\ \A d \in Calls : call'[d] # "tell" => call[d] # "tell"
<1>1. call \in [Calls -> {"new", "waiting", "tell", "done"}] /\ ret \in [Calls -> PIDs \cup {None}]
  BY Zenon DEF SpawnedInv, AgentTypeOK, TypeOK
<1>2. /\ \A d \in Calls : (call'[d] = "new" => call[d] = "new") /\ (call'[d] # "tell" => call[d] # "tell")
      /\ \A d \in Calls : ret'[d] = ret[d] \/ (d = c /\ ret'[d] = pid)
  BY Zenon, <1>1 DEF Respond
<1>3. CallsKept
  BY Zenon, <1>2 DEF CallsKept, HistoryInv
<1>4. Fresh(c)' <=> Fresh(c)
  BY Zenon DEF Fresh, At, Of
<1>5. AnswersFresh
  <2> SUFFICES ASSUME NEW d \in Calls, NEW m \in Nodes, m = At(d), ret'[d] \notin {None, ret[d]}, Settled(m)'
               PROVE  Fresh(d)'
    BY Zenon DEF AnswersFresh
  <2>1. d = c /\ pid # None
    BY Zenon, <1>2
  <2>2. Settled(n)
    BY Zenon, <1>3, <2>1, SettledBefore
  <2>3. QED
    BY Zenon, <1>4, <2>1, <2>2
<1>6. QED
  BY Zenon, <1>2, <1>3, <1>5

(* Every step moves the inboxes, the calls and the waits as stated above. *)
Calm == CallsKept /\ AllMoved /\ Heard /\ WaitsFresh /\ AnswersFresh

(* <1>x is for the steps that add no message. *)
LEMMA CalmStep ==
  ASSUME InboxOrderInv, SpawnedInv, SpawnedInv', Next
  PROVE  Calm
<1>h. HistoryInv /\ SpawnedInv
  BY Zenon DEF InboxOrderInv
<1>t. TypeOK /\ AgentTypeOK
  BY Zenon, <1>h DEF SpawnedInv, AgentTypeOK
<1>m. MessageInv /\ MessageInv'
  BY Zenon, <1>h DEF SpawnedInv
<1>v. ViewInv /\ SpawnInv
  BY Zenon, <1>h DEF SpawnedInv
<1>i. ToldInv /\ OrderInv /\ WaitInv
  BY Zenon DEF InboxOrderInv
<1>p. \A c \in Calls : At(c) \in Nodes
  BY Zenon, <1>t, PlanFacts
<1>x. [type |-> "request"].type # "activate"
  BY Zenon
<1>1. ASSUME NEW c \in Calls, Activate(c) PROVE Calm
  <2>1. /\ UNCHANGED <<plan, activated, wait, ret, told, left>>
        /\ call[c] = "new" /\ call' = [call EXCEPT ![c] = "waiting"]
        /\ Op(c) = "activate"
        /\ earlier' = [earlier EXCEPT ![c] =
                        {[pid |-> ret[d], told |-> told[d]] :
                           d \in {e \in Calls : At(e) = At(c) /\ ret[e] # None}}]
        /\ inbox' = [inbox EXCEPT ![At(c)] = Append(@, Msg("activate", c))]
    BY Zenon, <1>1 DEF Activate, agentVars, Begin
  <2>2. PICK n \in Nodes : n = At(c)
    BY Zenon, <1>p
  <2>3. CallsKept /\ Heard /\ WaitsFresh /\ AnswersFresh
    <3>1. CallsKept
      BY Zenon, <1>t, <1>h, <2>1 DEF CallsKept, HistoryInv, TypeOK
    <3>2. Heard
      BY Zenon, <1>t, <2>1 DEF Heard, TypeOK
    <3>3. WaitsFresh /\ AnswersFresh
      BY Zenon, <2>1 DEF WaitsFresh, AnswersFresh
    <3>4. QED
      BY Zenon, <3>1, <3>2, <3>3
  <2>4. /\ inbox'[n] = Append(inbox[n], Msg("activate", c)) /\ inbox[n] \in Seq(InBox(n))
        /\ \A b \in Nodes \ {n} : inbox'[b] = inbox[b]
    BY Zenon, <1>t, <1>m, <2>1, <2>2 DEF AgentTypeOK, MessageInv
  <2>5. Len(inbox'[n]) = Len(inbox[n]) + 1 /\ Len(inbox[n]) \in Nat /\ inbox'[n][Len(inbox'[n])] = Msg("activate", c)
    <3>1. PICK T : T = InBox(n) \cup {Msg("activate", c)}
      BY Zenon
    <3>2. inbox[n] \in Seq(T) /\ Msg("activate", c) \in T
      BY <2>4, <3>1
    <3>3. QED
      BY <2>4, <3>2, AppendProperties
  <2>6. OrderAt(n, Len(inbox[n]))'
    <3>1. Msg("activate", c).about = c
      BY Zenon DEF Msg
    <3>2. call'[c] # "new"
      BY Zenon, <1>t, <2>1 DEF TypeOK
    <3>3. ASSUME Settled(n)', NEW e \in earlier'[c], n \in e.told
          PROVE  ListedBy(n, e.pid[2], Len(inbox[n]))'
      <4>1. PICK d \in Calls : At(d) = n /\ n \in told[d] /\ e.pid = ret[d] /\ ret[d] # None
        <5>1. PICK d \in Calls : At(d) = n /\ ret[d] # None /\ e = [pid |-> ret[d], told |-> told[d]]
          BY Zenon, <1>h, <2>1, <2>2, <3>3 DEF HistoryInv
        <5>2. QED
          BY Zenon, <3>3, <5>1
      <4>2. PICK id : id = e.pid[2]
        BY Zenon
      <4>3. call[d] = "done" /\ id = Of(d)
        BY Zenon, <1>v, <4>1, <4>2 DEF ViewInv
      <4>4. Settled(n)
        BY Zenon, <2>3, <3>3, SettledBefore
      <4>5. ListedBy(n, id, Len(inbox[n]) + 1)
        BY Zenon, <1>i, <4>1, <4>3, <4>4 DEF ToldInv, Announces
      <4>6. QED
        <5>1. CASE Known(n, id)
          BY Zenon, <2>1, <4>2, <5>1 DEF ListedBy, Known
        <5>2. CASE ~Known(n, id)
          <6>1. PICK j \in 1..Len(inbox[n]) : inbox[n][j].type = "activation" /\ inbox[n][j].about[2] = id
            BY Zenon, <4>5, <5>2 DEF ListedBy
          <6>2. j \in 1..Len(inbox'[n]) /\ j < Len(inbox'[n]) /\ inbox'[n][j] = inbox[n][j]
            BY <2>4, <2>5, <6>1
          <6>3. QED
            BY Zenon, <4>2, <6>1, <6>2 DEF ListedBy
        <5>3. QED
          BY Zenon, <5>1, <5>2
    <3>4. QED
      BY Zenon, <2>5, <3>1, <3>2, <3>3 DEF OrderAt
  <2>7. AllMoved
    BY Zenon, <2>1, <2>4, <2>6, PushMoves
  <2>8. QED
    BY Zenon, <2>3, <2>7 DEF Calm
<1>2. ASSUME NEW c \in Calls, Spawn(c) PROVE Calm
  <2>1. /\ UNCHANGED <<plan, activated, wait, ret, told, left>>
        /\ call[c] = "new" /\ call' = [call EXCEPT ![c] = "waiting"]
        /\ Op(c) = "spawn"
        /\ earlier' = [earlier EXCEPT ![c] =
                        {[pid |-> ret[d], told |-> told[d]] :
                           d \in {e \in Calls : At(e) = At(c) /\ ret[e] # None}}]
        /\ inbox' = [inbox EXCEPT ![At(c)] = Append(@, Msg("getMembers", c))]
    BY Zenon, <1>2 DEF Spawn, agentVars, Begin
  <2>2. PICK n \in Nodes : n = At(c)
    BY Zenon, <1>p
  <2>3. CallsKept /\ Heard /\ WaitsFresh /\ AnswersFresh
    <3>1. CallsKept
      BY Zenon, <1>t, <1>h, <2>1 DEF CallsKept, HistoryInv, TypeOK
    <3>2. Heard
      BY Zenon, <1>t, <2>1 DEF Heard, TypeOK
    <3>3. WaitsFresh /\ AnswersFresh
      BY Zenon, <2>1 DEF WaitsFresh, AnswersFresh
    <3>4. QED
      BY Zenon, <3>1, <3>2, <3>3
  <2>4. AllMoved
    <3>1. Msg("getMembers", c).type # "activate"
      BY Zenon DEF Msg
    <3>2. inbox'[n] = Append(inbox[n], Msg("getMembers", c)) /\ \A b \in Nodes \ {n} : inbox'[b] = inbox[b]
      BY Zenon, <1>t, <2>1, <2>2 DEF AgentTypeOK
    <3>3. QED
      BY Zenon, <2>1, <3>1, <3>2, PushMoves
  <2>5. QED
    BY Zenon, <2>3, <2>4 DEF Calm
<1>3. ASSUME NEW c \in Calls, Deactivate(c) PROVE Calm
  <2>1. /\ UNCHANGED <<plan, activated, wait, ret, told, earlier, left>>
        /\ call[c] = "new" /\ call' = [call EXCEPT ![c] = "done"]
        /\ Op(c) = "deactivate"
        /\ \E p : inbox' = [inbox EXCEPT ![At(c)] = Append(@, Msg("deactivate", p))]
    BY Zenon, <1>3 DEF Deactivate, agentVars, history
  <2>2. PICK n \in Nodes : n = At(c)
    BY Zenon, <1>p
  <2>3. PICK p : inbox' = [inbox EXCEPT ![n] = Append(@, Msg("deactivate", p))]
    BY Zenon, <2>1, <2>2
  <2>4. CallsKept /\ Heard /\ WaitsFresh /\ AnswersFresh
    <3>1. CallsKept
      BY Zenon, <1>t, <1>h, <2>1 DEF CallsKept, HistoryInv, TypeOK
    <3>2. Heard
      BY Zenon, <1>t, <2>1 DEF Heard, TypeOK
    <3>3. WaitsFresh /\ AnswersFresh
      BY Zenon, <2>1 DEF WaitsFresh, AnswersFresh
    <3>4. QED
      BY Zenon, <3>1, <3>2, <3>3
  <2>5. AllMoved
    <3>1. Msg("deactivate", p).type # "activate"
      BY Zenon DEF Msg
    <3>2. inbox'[n] = Append(inbox[n], Msg("deactivate", p)) /\ \A b \in Nodes \ {n} : inbox'[b] = inbox[b]
      BY Zenon, <1>t, <2>1, <2>3 DEF AgentTypeOK
    <3>3. QED
      BY Zenon, <2>1, <3>1, <3>2, PushMoves
  <2>6. QED
    BY Zenon, <2>4, <2>5 DEF Calm
<1>4. ASSUME NEW c \in Calls, CallTimeout(c) PROVE Calm
  <2>1. /\ UNCHANGED <<plan, activated, inbox, wait, told, earlier, left>>
        /\ call[c] = "waiting" /\ call' = [call EXCEPT ![c] = "done"]
        /\ ret' = [ret EXCEPT ![c] = IF Op(c) = "spawn" THEN <<At(c), Of(c)>> ELSE None]
    BY Zenon, <1>4 DEF CallTimeout, agentVars, history
  <2>2. AllMoved
    <3>1. PICK n \in Nodes : n = At(c)
      BY Zenon, <1>p
    <3>2. QED
      BY Zenon, <2>1, <3>1, PushMoves, <1>x
  <2>3. CallsKept /\ Heard /\ WaitsFresh /\ AnswersFresh
    <3>1. CallsKept
      BY Zenon, <1>t, <1>h, <2>1 DEF CallsKept, HistoryInv, TypeOK
    <3>2. Heard
      BY Zenon, <1>t, <2>1 DEF Heard, TypeOK
    <3>3. WaitsFresh
      BY Zenon, <2>1 DEF WaitsFresh
    <3>4. AnswersFresh
      BY Zenon, <1>t, <2>1 DEF AnswersFresh, TypeOK
    <3>5. QED
      BY Zenon, <3>1, <3>2, <3>3, <3>4
  <2>4. QED
    BY Zenon, <2>3, <2>2 DEF Calm
<1>5. ASSUME NEW c \in Calls, SpawnTell(c) PROVE Calm
  <2>1. /\ UNCHANGED <<plan, activated, wait, told, earlier, left>>
        /\ call[c] = "tell" /\ call' = [call EXCEPT ![c] = "done"]
        /\ ret' = [ret EXCEPT ![c] = <<At(c), Of(c)>>]
        /\ SendAll(At(c), told[c], Msg("activation", <<At(c), Of(c)>>), inbox[At(c)], net)
    BY Zenon, <1>5 DEF SpawnTell, agentVars, history
  <2>2. PICK n \in Nodes : n = At(c)
    BY Zenon, <1>p
  <2>3. PICK p : p = <<At(c), Of(c)>>
    BY Zenon
  <2>4. /\ inbox'[n] = IF n \in told[c] THEN Append(inbox[n], Msg("activation", p)) ELSE inbox[n]
        /\ \A b \in Nodes \ {n} : inbox'[b] = inbox[b]
    <3>1. SendAll(n, told[c], Msg("activation", p), inbox[n], net)
      BY Zenon, <2>1, <2>2, <2>3
    <3>2. QED
      BY Zenon, <3>1, SendAllInbox
  <2>5. AllMoved
    <3>1. Msg("activation", p).type # "activate"
      BY Zenon DEF Msg
    <3>2. QED
      BY Zenon, <2>1, <2>4, <3>1, PushMoves
  <2>6. Heard
    <3>1. n \in told[c] => ListedBy(n, p[2], Len(inbox[n]) + 1)'
      BY Zenon, <1>m, <2>4, LastListed DEF MessageInv
    <3>2. p[2] = Of(c) /\ Of(c)' = Of(c)
      BY Zenon, <2>1, <2>3 DEF Of
    <3>3. n \in told[c] => ListedBy(n, Of(c), Len(inbox[n]) + 1)'
      BY Zenon, <3>1, <3>2
    <3>4. \A d \in Calls \ {c} : call'[d] = call[d]
      BY Zenon, <1>t, <2>1 DEF TypeOK
    <3>5. QED
      BY Zenon, <2>1, <2>2, <3>3, <3>4 DEF Heard
  <2>7. CallsKept /\ WaitsFresh /\ AnswersFresh
    <3>1. CallsKept
      BY Zenon, <1>t, <1>h, <2>1 DEF CallsKept, HistoryInv, TypeOK
    <3>2. WaitsFresh
      BY Zenon, <2>1 DEF WaitsFresh
    <3>3. Op(c) = "spawn"
      BY Zenon, <1>v, <2>1 DEF SpawnInv
    <3>4. AnswersFresh
      BY Zenon, <1>t, <2>1, <3>3 DEF AnswersFresh, TypeOK
    <3>5. QED
      BY Zenon, <3>1, <3>2, <3>4
  <2>8. QED
    BY Zenon, <2>7, <2>5, <2>6 DEF Calm
<1>6. ASSUME NEW n \in Nodes, ActivateRefused(n) PROVE Calm
  <2>1. PICK c : c = Head(inbox[n]).about
    BY Zenon
  <2>2. /\ UNCHANGED <<plan, activated, wait, told, earlier, left>>
        /\ Take(n, "activate") /\ inbox' = [inbox EXCEPT ![n] = Tail(@)]
        /\ Respond(c, None)
    BY Zenon, <1>6, <2>1 DEF ActivateRefused, agentVars, history
  <2>3. c \in Calls
    BY Zenon, <2>1, <2>2, Taken, Contents
  <2>4. AllMoved
    <3>1. /\ inbox[n] # <<>> /\ Head(inbox[n]).type = "activate"
          /\ inbox'[n] = Tail(inbox[n]) /\ \A b \in Nodes \ {n} : inbox'[b] = inbox[b]
      BY Zenon, <1>t, <2>2 DEF AgentTypeOK, Take
    <3>2. Settled(n)' => \A id : \/ Known(n, id)
                                 \/ Head(inbox[n]).type = "activation" /\ Head(inbox[n]).about[2] = id
                                 => Known(n, id)'
      BY Zenon, <2>2, <3>1 DEF Known
    <3>3. \A b \in Nodes \ {n} : activated'[b] = activated[b]
      BY Zenon, <1>t, <2>2 DEF TypeOK
    <3>4. QED
      BY Zenon, <1>x, <3>1, <3>2, <3>3, PopMoves
  <2>5. CallsKept /\ AnswersFresh /\ \A d \in Calls : call'[d] # "tell" => call[d] # "tell"
    BY Zenon, <1>h, <2>2, <2>3, Answered
  <2>6. Heard /\ WaitsFresh
    BY Zenon, <2>2, <2>5 DEF Heard, WaitsFresh
  <2>7. QED
    BY Zenon, <2>5, <2>4, <2>6 DEF Calm
<1>7. ASSUME NEW n \in Nodes, ActivateLocal(n) PROVE Calm
  <2>1. PICK c : c = Head(inbox[n]).about
    BY Zenon
  <2>2. /\ UNCHANGED <<plan, activated, wait, earlier, left>>
        /\ Take(n, "activate") /\ ~Known(n, Of(c))
        /\ told' = [told EXCEPT ![c] = members[n]]
        /\ SendAll(n, members[n], Msg("activation", <<n, Of(c)>>), Tail(inbox[n]), net)
        /\ Respond(c, <<n, Of(c)>>)
    BY Zenon, <1>7, <2>1 DEF ActivateLocal, agentVars
  <2>3. c \in Calls /\ n = At(c)
    BY Zenon, <2>1, <2>2, Taken, Contents
  <2>4. PICK p : p = <<n, Of(c)>>
    BY Zenon
  <2>5. SendAll(n, members[n], Msg("activation", p), Tail(inbox[n]), net) /\ Respond(c, p)
    BY Zenon, <2>2, <2>4
  <2>6. /\ inbox'[n] = IF n \in members[n] THEN Append(Tail(inbox[n]), Msg("activation", p)) ELSE Tail(inbox[n])
        /\ \A b \in Nodes \ {n} : inbox'[b] = inbox[b]
    BY Zenon, <2>5, SendAllInbox
  <2>7. AllMoved
    <3>1. inbox[n] # <<>> /\ Head(inbox[n]).type = "activate" /\ Msg("activation", p).type # "activate"
      BY Zenon, <2>2 DEF Take, Msg
    <3>2. Settled(n)' => \A id : \/ Known(n, id)
                                 \/ Head(inbox[n]).type = "activation" /\ Head(inbox[n]).about[2] = id
                                 => Known(n, id)'
      BY Zenon, <2>2, <3>1 DEF Known
    <3>3. \A b \in Nodes \ {n} : activated'[b] = activated[b]
      BY Zenon, <1>t, <2>2 DEF TypeOK
    <3>4. QED
      BY Zenon, <2>6, <3>1, <3>2, <3>3, PopMoves
  <2>8. call[c] # "new" /\ (Settled(n) => Fresh(c))
    BY Zenon, <1>i, <2>1, <2>2, NotKnownIsFresh
  <2>9. CallsKept /\ AnswersFresh /\ \A d \in Calls : call'[d] # "tell" => call[d] # "tell"
    BY Zenon, <1>h, <2>2, <2>5, <2>3, <2>8, Answered
  <2>10. Heard
    <3>1. n \in members[n] => ListedBy(n, p[2], Len(inbox[n]) + 1)'
      <4>1. Tail(inbox[n]) \in Seq(InBox(n))
        BY Zenon, <2>2, Taken
      <4>2. inbox'[n] \in Seq(InBox(n)')
        BY Zenon, <1>m DEF MessageInv
      <4>3. QED
        BY Zenon, <2>6, <4>1, <4>2, LastListed
    <3>2. p[2] = Of(c) /\ Of(c)' = Of(c)
      BY Zenon, <2>2, <2>4 DEF Of
    <3>3. n \in members[n] => ListedBy(n, Of(c), Len(inbox[n]) + 1)'
      BY Zenon, <3>1, <3>2
    <3>4. told'[c] = members[n] /\ \A d \in Calls : d # c => told'[d] = told[d]
      BY Zenon, <1>t, <2>2, <2>3 DEF AgentTypeOK
    <3>5. QED
      BY Zenon, <2>3, <2>9, <3>3, <3>4 DEF Heard
  <2>11. WaitsFresh
    BY Zenon, <2>2 DEF WaitsFresh
  <2>12. QED
    BY Zenon, <2>9, <2>7, <2>10, <2>11 DEF Calm
<1>8. ASSUME NEW n \in Nodes, ActivateRequest(n) PROVE Calm
  <2>1. PICK c : c = Head(inbox[n]).about
    BY Zenon
  <2>2. /\ UNCHANGED <<plan, activated, call, ret, told, earlier, left>>
        /\ Take(n, "activate") /\ ~Known(n, Of(c))
        /\ wait' = [wait EXCEPT ![n] = c]
        /\ \E m : SendAll(n, {m}, Msg("request", c), Tail(inbox[n]), net)
    BY Zenon, <1>8, <2>1 DEF ActivateRequest, agentVars, history
  <2>3. c \in Calls
    BY Zenon, <2>1, <2>2, Taken, Contents
  <2>4. PICK m : SendAll(n, {m}, Msg("request", c), Tail(inbox[n]), net)
    BY Zenon, <2>2
  <2>5. /\ inbox'[n] = IF n \in {m} THEN Append(Tail(inbox[n]), Msg("request", c)) ELSE Tail(inbox[n])
        /\ \A b \in Nodes \ {n} : inbox'[b] = inbox[b]
    BY Zenon, <2>4, SendAllInbox
  <2>6. AllMoved
    <3>1. inbox[n] # <<>> /\ Head(inbox[n]).type = "activate" /\ Msg("request", c).type # "activate"
      BY Zenon, <2>2 DEF Take, Msg
    <3>2. Settled(n)' => \A id : \/ Known(n, id)
                                 \/ Head(inbox[n]).type = "activation" /\ Head(inbox[n]).about[2] = id
                                 => Known(n, id)'
      BY Zenon, <2>2, <3>1 DEF Known
    <3>3. \A b \in Nodes \ {n} : activated'[b] = activated[b]
      BY Zenon, <1>t, <2>2 DEF TypeOK
    <3>4. QED
      BY Zenon, <2>5, <3>1, <3>2, <3>3, PopMoves
  <2>7. call[c] # "new" /\ (Settled(n) => Fresh(c))
    BY Zenon, <1>i, <2>1, <2>2, NotKnownIsFresh
  <2>8. CallsKept /\ Heard /\ AnswersFresh
    <3>1. CallsKept
      BY Zenon, <1>h, <2>2 DEF CallsKept, HistoryInv
    <3>2. Heard
      BY Zenon, <2>2 DEF Heard
    <3>3. AnswersFresh
      BY Zenon, <2>2 DEF AnswersFresh
    <3>4. QED
      BY Zenon, <3>1, <3>2, <3>3
  <2>9. WaitsFresh
    <3>1. Settled(n)' => Settled(n)
      BY Zenon, <2>8, SettledBefore
    <3>2. Fresh(c) => Fresh(c)'
      BY Zenon, <2>2 DEF Fresh, At, Of
    <3>3. \A b \in Nodes \ {n} : wait'[b] = wait[b]
      BY Zenon, <1>t, <2>2 DEF TypeOK
    <3>4. wait'[n] = c /\ call'[c] = call[c]
      BY Zenon, <1>t, <2>2 DEF TypeOK
    <3>5. QED
      BY Zenon, <2>3, <2>7, <3>1, <3>2, <3>3, <3>4 DEF WaitsFresh
  <2>10. QED
    BY Zenon, <2>8, <2>6, <2>9 DEF Calm
<1>9. ASSUME NEW n \in Nodes, ActivationRequest(n) PROVE Calm
  <2>1. /\ UNCHANGED <<plan, activated, wait, call, ret, told, earlier, left>>
        /\ Take(n, "request") /\ inbox' = [inbox EXCEPT ![n] = Tail(@)]
    BY Zenon, <1>9 DEF ActivationRequest, agentVars
  <2>2. CallsKept /\ Heard /\ WaitsFresh /\ AnswersFresh
    BY Zenon, <1>h, <2>1, Quietly DEF HistoryInv
  <2>3. AllMoved
    <3>1. /\ inbox[n] # <<>> /\ Head(inbox[n]).type = "request"
          /\ inbox'[n] = Tail(inbox[n]) /\ \A b \in Nodes \ {n} : inbox'[b] = inbox[b]
      BY Zenon, <1>t, <2>1 DEF AgentTypeOK, Take
    <3>2. Settled(n)' => \A id : \/ Known(n, id)
                                 \/ Head(inbox[n]).type = "activation" /\ Head(inbox[n]).about[2] = id
                                 => Known(n, id)'
      BY Zenon, <2>1, <3>1 DEF Known
    <3>3. \A b \in Nodes \ {n} : activated'[b] = activated[b]
      BY Zenon, <1>t, <2>1 DEF TypeOK
    <3>4. QED
      BY Zenon, <1>x, <3>1, <3>2, <3>3, PopMoves
  <2>4. QED
    BY Zenon, <2>2, <2>3 DEF Calm
<1>10. ASSUME NEW n \in Nodes, HandleActivation(n) PROVE Calm
  <2>1. /\ UNCHANGED <<plan, wait, call, ret, told, earlier, left>>
        /\ Take(n, "activation") /\ inbox' = [inbox EXCEPT ![n] = Tail(@)]
        /\ activated' = [activated EXCEPT ![n] = AddAll(@, {Head(inbox[n]).about})]
    BY Zenon, <1>10 DEF HandleActivation, history
  <2>2. CallsKept /\ Heard /\ WaitsFresh /\ AnswersFresh
    BY Zenon, <1>h, <2>1, Quietly DEF HistoryInv
  <2>3. \A id : Known(n, id) \/ Head(inbox[n]).about[2] = id => Known(n, id)'
    <3>1. activated'[n] = AddAll(activated[n], {Head(inbox[n]).about})
      BY Zenon, <1>t, <2>1 DEF TypeOK
    <3>2. QED
      BY Zenon, <3>1 DEF AddAll, Known
  <2>4. AllMoved
    <3>1. /\ inbox[n] # <<>> /\ Head(inbox[n]).type = "activation"
          /\ inbox'[n] = Tail(inbox[n]) /\ \A b \in Nodes \ {n} : inbox'[b] = inbox[b]
      BY Zenon, <1>t, <2>1 DEF AgentTypeOK, Take
    <3>2. Settled(n)' => \A id : \/ Known(n, id)
                                 \/ Head(inbox[n]).type = "activation" /\ Head(inbox[n]).about[2] = id
                                 => Known(n, id)'
      BY Zenon, <2>3
    <3>3. \A b \in Nodes \ {n} : activated'[b] = activated[b]
      BY Zenon, <1>t, <2>1 DEF TypeOK
    <3>4. QED
      BY Zenon, <1>x, <3>1, <3>2, <3>3, PopMoves
  <2>5. QED
    BY Zenon, <2>2, <2>4 DEF Calm
<1>11. ASSUME NEW n \in Nodes, HandleTopology(n) PROVE Calm
  <2>1. /\ UNCHANGED <<plan, wait, call, ret, told, earlier, left>>
        /\ Take(n, "topology") /\ inbox' = [inbox EXCEPT ![n] = Tail(@)]
        /\ activated' = [activated EXCEPT ![n] = AddAll(@, Head(inbox[n]).about)]
    BY Zenon, <1>11 DEF HandleTopology, history
  <2>2. CallsKept /\ Heard /\ WaitsFresh /\ AnswersFresh
    BY Zenon, <1>h, <2>1, Quietly DEF HistoryInv
  <2>3. \A id : Known(n, id) => Known(n, id)'
    <3>1. activated'[n] = AddAll(activated[n], Head(inbox[n]).about)
      BY Zenon, <1>t, <2>1 DEF TypeOK
    <3>2. QED
      BY Zenon, <3>1 DEF AddAll, Known
  <2>4. AllMoved
    <3>1. /\ inbox[n] # <<>> /\ Head(inbox[n]).type = "topology"
          /\ inbox'[n] = Tail(inbox[n]) /\ \A b \in Nodes \ {n} : inbox'[b] = inbox[b]
      BY Zenon, <1>t, <2>1 DEF AgentTypeOK, Take
    <3>2. Settled(n)' => \A id : \/ Known(n, id)
                                 \/ Head(inbox[n]).type = "activation" /\ Head(inbox[n]).about[2] = id
                                 => Known(n, id)'
      BY Zenon, <2>3, <3>1
    <3>3. \A b \in Nodes \ {n} : activated'[b] = activated[b]
      BY Zenon, <1>t, <2>1 DEF TypeOK
    <3>4. QED
      BY Zenon, <1>x, <3>1, <3>2, <3>3, PopMoves
  <2>5. QED
    BY Zenon, <2>2, <2>4 DEF Calm
<1>12. ASSUME NEW n \in Nodes, HandleDeactivate(n) PROVE Calm
  <2>1. PICK m : m = Head(inbox[n]).about
    BY Zenon
  <2>2. /\ UNCHANGED <<plan, activated, wait, call, ret, told, earlier, left>>
        /\ Take(n, "deactivate")
        /\ SendAll(n, members[n], Msg("deactivation", m), Tail(inbox[n]), net)
    BY Zenon, <1>12, <2>1 DEF HandleDeactivate, agentVars, history
  <2>3. CallsKept /\ Heard /\ WaitsFresh /\ AnswersFresh
    BY Zenon, <1>h, <2>2, Quietly DEF HistoryInv
  <2>4. /\ inbox'[n] = IF n \in members[n] THEN Append(Tail(inbox[n]), Msg("deactivation", m)) ELSE Tail(inbox[n])
        /\ \A b \in Nodes \ {n} : inbox'[b] = inbox[b]
    BY Zenon, <2>2, SendAllInbox
  <2>5. AllMoved
    <3>1. inbox[n] # <<>> /\ Head(inbox[n]).type = "deactivate" /\ Msg("deactivation", m).type # "activate"
      BY Zenon, <2>2 DEF Take, Msg
    <3>2. Settled(n)' => \A id : \/ Known(n, id)
                                 \/ Head(inbox[n]).type = "activation" /\ Head(inbox[n]).about[2] = id
                                 => Known(n, id)'
      BY Zenon, <2>2, <3>1 DEF Known
    <3>3. \A b \in Nodes \ {n} : activated'[b] = activated[b]
      BY Zenon, <1>t, <2>2 DEF TypeOK
    <3>4. QED
      BY Zenon, <2>4, <3>1, <3>2, <3>3, PopMoves
  <2>6. QED
    BY Zenon, <2>3, <2>5 DEF Calm
<1>13. ASSUME NEW n \in Nodes, HandleDeactivation(n) PROVE Calm
  <2>1. /\ UNCHANGED <<plan, wait, call, ret, told, earlier, left>>
        /\ Take(n, "deactivation") /\ inbox' = [inbox EXCEPT ![n] = Tail(@)]
        /\ \E S : activated' = [activated EXCEPT ![n] = S]
    BY Zenon, <1>13 DEF HandleDeactivation, history
  <2>2. CallsKept /\ Heard /\ WaitsFresh /\ AnswersFresh
    BY Zenon, <1>h, <2>1, Quietly DEF HistoryInv
  <2>3. Head(inbox[n]).about \in Dropped
    BY Zenon, <2>1, Taken, Contents
  <2>4. ~Settled(n)'
    <3>1. ~Settled(n)
      BY Zenon, <2>3 DEF Dropped, Settled
    <3>2. QED
      BY Zenon, <2>2, <3>1, SettledBefore
  <2>5. AllMoved
    <3>1. /\ inbox[n] # <<>> /\ Head(inbox[n]).type = "deactivation"
          /\ inbox'[n] = Tail(inbox[n]) /\ \A b \in Nodes \ {n} : inbox'[b] = inbox[b]
      BY Zenon, <1>t, <2>1 DEF AgentTypeOK, Take
    <3>2. Settled(n)' => \A id : \/ Known(n, id)
                                 \/ Head(inbox[n]).type = "activation" /\ Head(inbox[n]).about[2] = id
                                 => Known(n, id)'
      BY Zenon, <2>4
    <3>3. \A b \in Nodes \ {n} : activated'[b] = activated[b]
      BY Zenon, <1>t, <2>1 DEF TypeOK
    <3>4. QED
      BY Zenon, <1>x, <3>1, <3>2, <3>3, PopMoves
  <2>6. QED
    BY Zenon, <2>2, <2>5 DEF Calm
<1>14. ASSUME NEW n \in Nodes, HandleMembers(n) PROVE Calm
  <2>1. PICK S : S = Head(inbox[n]).about
    BY Zenon
  <2>2. /\ UNCHANGED <<plan, wait, call, ret, told, earlier>>
        /\ Take(n, "members")
        /\ left' = [left EXCEPT ![n] = @ \cup (members[n] \ S)]
        /\ activated' = [activated EXCEPT ![n] = {p \in @ : p[1] \notin members[n] \ S}]
        /\ SendAll(n, IF activated[n] = {} THEN {} ELSE S \ members[n], Msg("topology", activated[n]),
                   Tail(inbox[n]), net)
    BY Zenon, <1>14, <2>1 DEF HandleMembers
  <2>3. CallsKept /\ Heard /\ WaitsFresh /\ AnswersFresh
    BY Zenon, <1>h, <2>2, Quietly DEF HistoryInv
  <2>4. PICK ms : ms = IF activated[n] = {} THEN {} ELSE S \ members[n]
    BY Zenon
  <2>5. /\ inbox'[n] = IF n \in ms THEN Append(Tail(inbox[n]), Msg("topology", activated[n])) ELSE Tail(inbox[n])
        /\ \A b \in Nodes \ {n} : inbox'[b] = inbox[b]
    <3>1. SendAll(n, ms, Msg("topology", activated[n]), Tail(inbox[n]), net)
      BY Zenon, <2>2, <2>4
    <3>2. QED
      BY Zenon, <3>1, SendAllInbox
  <2>6. AllMoved
    <3>1. inbox[n] # <<>> /\ Head(inbox[n]).type = "members" /\ Msg("topology", activated[n]).type # "activate"
      BY Zenon, <2>2 DEF Take, Msg
    <3>2. Settled(n)' => \A id : \/ Known(n, id)
                                 \/ Head(inbox[n]).type = "activation" /\ Head(inbox[n]).about[2] = id
                                 => Known(n, id)'
      <4>1. ASSUME Settled(n)' PROVE activated'[n] = activated[n]
        <5>1. members[n] \ S = {}
          BY Zenon, <1>h, <2>2, <4>1 DEF Settled, HistoryInv
        <5>2. QED
          BY Zenon, <1>t, <2>2, <5>1 DEF TypeOK
      <4>2. QED
        BY Zenon, <3>1, <4>1 DEF Known
    <3>3. \A b \in Nodes \ {n} : activated'[b] = activated[b]
      BY Zenon, <1>t, <2>2 DEF TypeOK
    <3>4. QED
      BY Zenon, <2>5, <3>1, <3>2, <3>3, PopMoves
  <2>7. QED
    BY Zenon, <2>3, <2>6 DEF Calm
<1>15. ASSUME NEW n \in Nodes, HandleGetMembers(n) PROVE Calm
  <2>1. PICK c : c = Head(inbox[n]).about
    BY Zenon
  <2>2. /\ UNCHANGED <<plan, activated, wait, ret, earlier, left>>
        /\ Take(n, "getMembers") /\ inbox' = [inbox EXCEPT ![n] = Tail(@)]
        /\ \/ /\ call[c] = "waiting" /\ call' = [call EXCEPT ![c] = "tell"]
              /\ told' = [told EXCEPT ![c] = members[n]]
           \/ UNCHANGED <<call, told>>
    BY Zenon, <1>15, <2>1 DEF HandleGetMembers, agentVars, history
  <2>3. c \in Calls
    BY Zenon, <2>1, <2>2, Taken, Contents
  <2>4. AllMoved
    <3>1. /\ inbox[n] # <<>> /\ Head(inbox[n]).type = "getMembers"
          /\ inbox'[n] = Tail(inbox[n]) /\ \A b \in Nodes \ {n} : inbox'[b] = inbox[b]
      BY Zenon, <1>t, <2>2 DEF AgentTypeOK, Take
    <3>2. Settled(n)' => \A id : \/ Known(n, id)
                                 \/ Head(inbox[n]).type = "activation" /\ Head(inbox[n]).about[2] = id
                                 => Known(n, id)'
      BY Zenon, <2>2, <3>1 DEF Known
    <3>3. \A b \in Nodes \ {n} : activated'[b] = activated[b]
      BY Zenon, <1>t, <2>2 DEF TypeOK
    <3>4. QED
      BY Zenon, <1>x, <3>1, <3>2, <3>3, PopMoves
  <2>5. \A d \in Calls : /\ call'[d] = "new" => call[d] = "new"
                         /\ call'[d] # "tell" => told'[d] = told[d] /\ call[d] # "tell"
    BY ZenonT(30), <1>t, <2>2, <2>3 DEF AgentTypeOK, TypeOK
  <2>6. CallsKept /\ Heard /\ WaitsFresh /\ AnswersFresh
    <3>1. CallsKept
      BY Zenon, <1>h, <2>2, <2>5 DEF CallsKept, HistoryInv
    <3>2. Heard
      BY Zenon, <2>5 DEF Heard
    <3>3. WaitsFresh /\ AnswersFresh
      BY Zenon, <2>2 DEF WaitsFresh, AnswersFresh
    <3>4. QED
      BY Zenon, <3>1, <3>2, <3>3
  <2>7. QED
    BY Zenon, <2>6, <2>4 DEF Calm
<1>16. ASSUME NEW n \in Nodes, RequestTimeout(n) PROVE Calm
  <2>1. PICK c : c = wait[n]
    BY Zenon
  <2>2. /\ UNCHANGED <<plan, activated, inbox, told, earlier, left>>
        /\ c # None /\ wait' = [wait EXCEPT ![n] = None]
        /\ Respond(c, None)
    BY Zenon, <1>16, <2>1 DEF RequestTimeout, agentVars, history
  <2>3. c \in Calls
    BY Zenon, <1>t, <2>1, <2>2 DEF TypeOK
  <2>4. AllMoved
    BY Zenon, <2>2, PushMoves, <1>x
  <2>5. CallsKept /\ AnswersFresh /\ \A d \in Calls : call'[d] # "tell" => call[d] # "tell"
    BY Zenon, <1>h, <2>2, <2>3, Answered
  <2>6. Heard
    BY Zenon, <2>2, <2>5 DEF Heard
  <2>7. WaitsFresh
    BY Zenon, <1>t, <2>2 DEF WaitsFresh, TypeOK
  <2>8. QED
    BY Zenon, <2>5, <2>4, <2>6, <2>7 DEF Calm
<1>17. ASSUME NEW n \in Nodes, Update(n) PROVE Calm
  <2>1. /\ UNCHANGED <<plan, activated, wait, call, ret, told, earlier, left>>
        /\ inbox' = [inbox EXCEPT ![n] = Append(@, Msg("members", Views[n][updates[n] + 1]))]
    BY Zenon, <1>17 DEF Update, agentVars, history
  <2>2. CallsKept /\ Heard /\ WaitsFresh /\ AnswersFresh
    BY Zenon, <1>h, <2>1, Quietly DEF HistoryInv
  <2>3. AllMoved
    <3>1. Msg("members", Views[n][updates[n] + 1]).type # "activate"
      BY Zenon DEF Msg
    <3>2. inbox'[n] = Append(inbox[n], Msg("members", Views[n][updates[n] + 1])) /\ \A b \in Nodes \ {n} : inbox'[b] = inbox[b]
      BY Zenon, <1>t, <2>1 DEF AgentTypeOK
    <3>3. QED
      BY Zenon, <2>1, <3>1, <3>2, PushMoves
  <2>4. QED
    BY Zenon, <2>2, <2>3 DEF Calm
<1>18. ASSUME NEW l \in Links, Arrive(l) PROVE Calm
  <2>1. PICK m : m = Head(net[l])
    BY Zenon
  <2>2. /\ UNCHANGED <<plan, activated, wait, call, ret, told, earlier, left>>
        /\ net[l] # <<>> /\ Head(net[l]).type # "response"
        /\ inbox' = [inbox EXCEPT ![l[2]] = Append(@, m)]
    BY Zenon, <1>18, <2>1 DEF Arrive, agentVars, history
  <2>3. CallsKept /\ Heard /\ WaitsFresh /\ AnswersFresh
    BY Zenon, <1>h, <2>2, Quietly DEF HistoryInv
  <2>4. PICK n \in Nodes : n = l[2]
    BY Zenon DEF Links
  <2>5. m.type # "activate"
    <3>1. m \in OnLink
      BY Zenon, <1>m, <2>1, <2>2, HeadAndTail DEF MessageInv
    <3>2. m \in Shared
      BY Zenon, <2>1, <2>2, <3>1, LinkContents
    <3>3. QED
      BY Zenon, <3>2 DEF Shared
  <2>6. AllMoved
    <3>1. inbox'[n] = Append(inbox[n], m) /\ \A b \in Nodes \ {n} : inbox'[b] = inbox[b]
      BY Zenon, <1>t, <2>2, <2>4 DEF AgentTypeOK
    <3>2. QED
      BY Zenon, <2>2, <2>5, <3>1, PushMoves
  <2>7. QED
    BY Zenon, <2>3, <2>6 DEF Calm
<1>19. ASSUME NEW l \in Links, ActivateResponse(l) PROVE Calm
  <2>1. PICK n : n = l[2]
    BY Zenon
  <2>2. PICK c : c = wait[n]
    BY Zenon
  <2>3. PICK r : r = Head(net[l])
    BY Zenon
  <2>4. /\ UNCHANGED <<plan, activated, earlier, left>>
        /\ net[l] # <<>> /\ r.type = "response"
        /\ c # None /\ r.about = c
        /\ wait' = [wait EXCEPT ![n] = None]
        /\ told' = [told EXCEPT ![c] = IF r.pid = None THEN {} ELSE members[n]]
        /\ SendAll(n, told'[c], Msg("activation", r.pid), inbox[n], [net EXCEPT ![l] = Tail(@)])
        /\ Respond(c, r.pid)
    BY Zenon, <1>19, <2>1, <2>2, <2>3 DEF ActivateResponse, agentVars
  <2>5. n \in Nodes /\ c \in Calls /\ n = At(c)
    BY ZenonT(30), <1>t, <2>1, <2>2, <2>4 DEF Links, AgentTypeOK, TypeOK
  <2>6. r.pid # None => r.pid[2] = Of(c)
    <3>1. r \in OnLink
      BY Zenon, <1>m, <2>3, <2>4, HeadAndTail DEF MessageInv
    <3>2. QED
      BY Zenon, <2>4, <3>1, LinkContents
  <2>7. PICK p : p = r.pid
    BY Zenon
  <2>8. /\ inbox'[n] = IF n \in told'[c] THEN Append(inbox[n], Msg("activation", p)) ELSE inbox[n]
        /\ \A b \in Nodes \ {n} : inbox'[b] = inbox[b]
    BY <2>4, <2>5, <2>7, SendAllInbox
  <2>9. AllMoved
    <3>1. Msg("activation", p).type # "activate"
      BY Zenon DEF Msg
    <3>2. QED
      BY Zenon, <2>4, <2>5, <2>8, <3>1, PushMoves
  <2>10. Settled(n) => Fresh(c)
    BY Zenon, <1>i, <2>2, <2>4, <2>5 DEF WaitInv
  <2>11. CallsKept /\ AnswersFresh /\ \A d \in Calls : call'[d] # "tell" => call[d] # "tell"
    BY Zenon, <1>h, <2>4, <2>5, <2>10, Answered
  <2>12. Heard
    <3>1. n \in told'[c] => ListedBy(n, p[2], Len(inbox[n]) + 1)'
      BY Zenon, <1>m, <2>5, <2>8, LastListed DEF MessageInv
    <3>2. (n \in told'[c] => p[2] = Of(c)) /\ Of(c)' = Of(c)
      BY Zenon, <1>t, <2>4, <2>5, <2>6, <2>7 DEF Of, AgentTypeOK
    <3>3. n \in told'[c] => ListedBy(n, Of(c), Len(inbox[n]) + 1)'
      BY Zenon, <3>1, <3>2
    <3>4. \A d \in Calls : d # c => told'[d] = told[d]
      BY Zenon, <1>t, <2>4, <2>5 DEF AgentTypeOK
    <3>5. QED
      BY Zenon, <2>5, <2>11, <3>3, <3>4 DEF Heard
  <2>13. WaitsFresh
    BY Zenon, <1>t, <2>4, <2>5 DEF WaitsFresh, TypeOK
  <2>14. QED
    BY Zenon, <2>11, <2>9, <2>12, <2>13 DEF Calm
<1>20. ASSUME NEW l \in Links, LateResponse(l) PROVE Calm
  <2>1. UNCHANGED <<plan, activated, inbox, wait, call, ret, told, earlier, left>>
    BY Zenon, <1>20 DEF LateResponse, agentVars, history
  <2>2. CallsKept /\ Heard /\ WaitsFresh /\ AnswersFresh
    BY Zenon, <1>h, <2>1, Quietly DEF HistoryInv
  <2>3. AllMoved
    <3>1. PICK n \in Nodes : n = l[2]
      BY Zenon DEF Links
    <3>2. QED
      BY Zenon, <2>1, <3>1, <1>x, PushMoves
  <2>4. QED
    BY Zenon, <2>2, <2>3 DEF Calm
<1>21. QED
  BY Zenon, <1>1, <1>2, <1>3, <1>4, <1>5, <1>6, <1>7, <1>8, <1>9, <1>10, <1>11, <1>12, <1>13, <1>14,
     <1>15, <1>16, <1>17, <1>18, <1>19, <1>20 DEF Next, Handle

(* Init: no call was made and every inbox has the one message. *)
LEMMA OrderInit == Init => InboxOrderInv
<1> SUFFICES ASSUME Init PROVE InboxOrderInv
  BY Zenon
<1>1. SpawnedInv /\ HistoryInv
  BY Zenon, SpawnedInit DEF Init, HistoryInv
<1>2. ToldInv
  BY Zenon DEF Init, ToldInv, Announces
<1>3. OrderInv
  <2>1. \A n \in Nodes : Len(inbox[n]) = 1 /\ inbox[n][1].type = "members"
    BY Zenon DEF Init, Msg
  <2>2. QED
    BY <2>1 DEF OrderInv, OrderAt
<1>4. WaitInv /\ FreshInv
  BY Zenon DEF Init, WaitInv, FreshInv
<1>5. QED
  BY Zenon, <1>1, <1>2, <1>3, <1>4 DEF InboxOrderInv

(* Every step keeps InboxOrderInv. *)
LEMMA OrderStep == InboxOrderInv /\ [Next]_vars => InboxOrderInv'
<1> SUFFICES ASSUME InboxOrderInv, [Next]_vars PROVE InboxOrderInv'
  BY Zenon
<1>1. SpawnedInv /\ SpawnedInv'
  BY Zenon, SpawnedStep DEF InboxOrderInv
<1>2. CASE Next
  <2>1. CallsKept /\ AllMoved /\ Heard /\ WaitsFresh /\ AnswersFresh
    BY Zenon, <1>1, <1>2, CalmStep DEF Calm
  <2>2. OrderInv' /\ ToldInv'
    BY Zenon, <1>1, <2>1, OrderKept, ToldKept DEF InboxOrderInv
  <2>3. WaitInv' /\ FreshInv'
    BY Zenon, <1>1, <2>1, FreshKept DEF InboxOrderInv
  <2>4. HistoryInv'
    BY Zenon, <2>1 DEF CallsKept, HistoryInv
  <2>5. QED
    BY Zenon, <1>1, <2>2, <2>3, <2>4 DEF InboxOrderInv
<1>3. CASE UNCHANGED vars
  <2>1. UNCHANGED <<plan, activated, inbox, wait, call, ret, told, earlier, left>>
    BY Zenon, <1>3 DEF vars, agentVars, history
  <2>2. /\ \A n : Settled(n)' <=> Settled(n)
        /\ \A n, id, i : ListedBy(n, id, i)' <=> ListedBy(n, id, i)
    BY Zenon, <2>1 DEF Settled, NoDeactivate, Op, ListedBy, Known
  <2>3. ToldInv' /\ OrderInv'
    BY Zenon, <2>1, <2>2 DEF InboxOrderInv, ToldInv, Announces, OrderInv, OrderAt, At, Of
  <2>4. WaitInv' /\ FreshInv' /\ HistoryInv'
    BY Zenon, <2>1, <2>2 DEF InboxOrderInv, WaitInv, FreshInv, Fresh, HistoryInv, Op, At, Of
  <2>5. QED
    BY Zenon, <1>1, <2>3, <2>4 DEF InboxOrderInv
<1>4. QED
  BY Zenon, <1>2, <1>3

(* The inboxes stay in order: what a call has announced to its own node is *)
(* in the view of its agent, or ahead of every later call in its inbox.    *)
THEOREM OrderInvariant == Spec => []InboxOrderInv
BY OrderInit, OrderStep, PTL DEF Spec

(* activate refuses an ID that a call at the same node has returned, and   *)
(* announced to that node, before the call began, for any nodes, plans and *)
(* views: the Activation is in the agent's inbox before the caller has the *)
(* PID.                                                                    *)
THEOREM SequentialActivations == Spec => []SequentialUnique
<1>1. InboxOrderInv => SequentialUnique
  BY Zenon DEF InboxOrderInv, FreshInv, SequentialUnique, Settled, NoDeactivate, Fresh
<1>2. QED
  BY <1>1, OrderInvariant, PTL
=============================================================================
