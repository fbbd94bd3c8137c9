------------------------------- MODULE Agent -------------------------------
(***************************************************************************)
(* The agents of a cluster (src/cluster/agent.go) and the calls of the     *)
(* users of Cluster (src/cluster/cluster.go): activating, spawning and     *)
(* deactivating actors of one kind by ID, membership as the provider       *)
(* reports it, and the view each agent keeps of what is active where.      *)
(*                                                                         *)
(* An agent is an actor: it takes one message at a time from its inbox,    *)
(* and takes none while it waits for the answer to an ActivationRequest.   *)
(* Agents are connected by channels that are reliable and in order, one    *)
(* per direction; a node reaches itself without one.  A PID is the pair of *)
(* an address, which is a node, and an ID.                                 *)
(***************************************************************************)
EXTENDS Integers, Sequences, Functions

CONSTANTS
  Nodes,
  Ids,         \* IDs of actors, of one kind
  Kinds,       \* the nodes at which the kind is registered
  Calls,       \* calls of the API
  Plans,       \* sets of calls to consider: for each call [op, at, id]
  Views,       \* [Nodes -> Seq(SUBSET Nodes)]: what the provider at a node sends
  None         \* nil

ASSUME AgentAssumption ==
  /\ Kinds \subseteq Nodes
  /\ Plans \subseteq [Calls -> [op : {"activate", "spawn", "deactivate"}, at : Nodes, id : Ids]]
  /\ Views \in [Nodes -> Seq(SUBSET Nodes)]

VARIABLES
  plan,       \* the element of Plans at work
  members,    \* each agent: Agent.members
  activated,  \* each agent: Agent.activated, a set of PIDs with distinct IDs
  inbox,      \* each agent: its inbox
  wait,       \* each agent: the call whose ActivationRequest is not answered
  net,        \* [Nodes \X Nodes -> Seq]: messages under way
  running,    \* the actors running
  call,       \* each call: new, waiting, tell or done
  ret,        \* each call: the PID or nil it returned
  told,       \* each call: the nodes its Activation is sent to
  updates,    \* each node: how much of Views[n] was sent
  (* History, read by no action: *)
  spawned,    \* PIDs ever spawned
  earlier,    \* each call: what calls at its node had returned when it began, and
              \* the nodes that was announced to
  left        \* each node: what was removed from its view

agentVars == <<members, activated>>
history == <<spawned, earlier, left>>
vars == <<plan, agentVars, inbox, wait, net, running, call, ret, told, updates, history>>

PIDs == Nodes \X Ids

Op(c) == plan[c].op
At(c) == plan[c].at   \* the node the call is made at
Of(c) == plan[c].id   \* the ID it is about

Msg(type, about) == [type |-> type, about |-> about]
Response(c, pid) == [type |-> "response", about |-> c, pid |-> pid]

TypeOK ==
  /\ plan \in Plans
  /\ members \in [Nodes -> SUBSET Nodes]
  /\ activated \in [Nodes -> SUBSET PIDs]
  /\ \A n \in Nodes : \A p, q \in activated[n] : p[2] = q[2] => p = q
  /\ wait \in [Nodes -> Calls \cup {None}]
  /\ running \subseteq PIDs
  /\ call \in [Calls -> {"new", "waiting", "tell", "done"}]
  /\ ret \in [Calls -> PIDs \cup {None}]
  /\ \A n \in Nodes : updates[n] \in 0..Len(Views[n])

Init ==
  /\ plan \in Plans
  /\ members = [n \in Nodes |-> {}]
  /\ activated = [n \in Nodes |-> {}]
  /\ inbox = [n \in Nodes |-> <<Msg("members", {n})>>]   \* its own node
  /\ wait = [n \in Nodes |-> None]
  /\ net = [l \in Nodes \X Nodes |-> <<>>]
  /\ running = {}
  /\ call = [c \in Calls |-> "new"] /\ ret = [c \in Calls |-> None]
  /\ updates = [n \in Nodes |-> 0]
  /\ spawned = {}
  /\ told = [c \in Calls |-> {}]
  /\ earlier = [c \in Calls |-> {}]
  /\ left = [n \in Nodes |-> {}]

----------------------------------------------------------------------------
(* Faulty: a broadcast that leaves out the node itself *)
SendOthers(n, ms, msg, box, channels) ==
  /\ inbox' = [inbox EXCEPT ![n] = box]
  /\ net' = [l \in Nodes \X Nodes |->
               IF l[1] = n /\ l[2] \in ms \ {n} THEN Append(channels[l], msg) ELSE channels[l]]

(* Engine.Send from node n to the agents of the nodes ms; box is the inbox *)
(* of n and channels the network without what this step takes from them    *)
SendAll(n, ms, msg, box, channels) ==
  /\ inbox' = [inbox EXCEPT ![n] = IF n \in ms THEN Append(box, msg) ELSE box]
  /\ net' = [l \in Nodes \X Nodes |->
               IF l[1] = n /\ l[2] \in ms \ {n} THEN Append(channels[l], msg) ELSE channels[l]]

Take(n, type) ==
  /\ wait[n] = None
  /\ inbox[n] # <<>>
  /\ Head(inbox[n]).type = type

(* The reader of the stream hands a message to the agent; a response goes  *)
(* to the Response that waits for it.                                      *)
Arrive(l) ==
  /\ net[l] # <<>> /\ Head(net[l]).type # "response"
  /\ net' = [net EXCEPT ![l] = Tail(@)]
  /\ inbox' = [inbox EXCEPT ![l[2]] = Append(@, Head(net[l]))]
  /\ UNCHANGED <<plan, agentVars, wait, running, call, ret, told, updates, history>>

(* The provider at n has another view of the membership. *)
Update(n) ==
  /\ updates[n] < Len(Views[n])
  /\ updates' = [updates EXCEPT ![n] = @ + 1]
  /\ inbox' = [inbox EXCEPT ![n] = Append(@, Msg("members", Views[n][updates[n] + 1]))]
  /\ UNCHANGED <<plan, agentVars, wait, net, running, call, ret, told, history>>

----------------------------------------------------------------------------
(* Cluster.Activate, Deactivate and Spawn; Deactivate is for a PID that    *)
(* another call has returned.                                              *)
Begin(c) ==
  /\ call[c] = "new"
  /\ call' = [call EXCEPT ![c] = "waiting"]
  /\ earlier' = [earlier EXCEPT ![c] =
                   {[pid |-> ret[d], told |-> told[d]] :
                      d \in {e \in Calls : At(e) = At(c) /\ ret[e] # None}}]

Activate(c) ==
  /\ Op(c) = "activate"
  /\ Begin(c)
  /\ inbox' = [inbox EXCEPT ![At(c)] = Append(@, Msg("activate", c))]
  /\ UNCHANGED <<plan, agentVars, wait, net, running, ret, told, updates, spawned, left>>

(* Engine.Spawn returns the PID also when it is taken *)
Spawn(c) ==
  LET pid == <<At(c), Of(c)>>
  IN /\ Op(c) = "spawn"
     /\ Begin(c)
     /\ running' = running \cup {pid}
     /\ spawned' = spawned \cup {pid}
     /\ inbox' = [inbox EXCEPT ![At(c)] = Append(@, Msg("getMembers", c))]
     /\ UNCHANGED <<plan, agentVars, wait, net, ret, told, updates, left>>

Deactivate(c) ==
  /\ Op(c) = "deactivate"
  /\ call[c] = "new"
  /\ call' = [call EXCEPT ![c] = "done"]
  /\ \E p \in {ret[d] : d \in Calls} \ {None} :
       /\ p[2] = Of(c)
       /\ inbox' = [inbox EXCEPT ![At(c)] = Append(@, Msg("deactivate", p))]
  /\ UNCHANGED <<plan, agentVars, wait, net, running, ret, told, updates, history>>

(* The requestTimeout of Activate, which returns nil, or of Members, which *)
(* returns no member                                                       *)
CallTimeout(c) ==
  /\ call[c] = "waiting"
  /\ call' = [call EXCEPT ![c] = "done"]
  /\ ret' = [ret EXCEPT ![c] = IF Op(c) = "spawn" THEN <<At(c), Of(c)>> ELSE None]
  /\ UNCHANGED <<plan, agentVars, inbox, wait, net, running, told, updates, history>>

(* Context.Respond to a caller that may have given up *)
Respond(c, pid) ==
  IF call[c] = "waiting"
    THEN call' = [call EXCEPT ![c] = "done"] /\ ret' = [ret EXCEPT ![c] = pid]
    ELSE UNCHANGED <<call, ret>>

----------------------------------------------------------------------------
Known(n, id) == \E p \in activated[n] : p[2] = id
Candidates(n) == members[n] \cap Kinds

(* activate: the ID is taken, no member has the kind, or the selectMember  *)
(* of the caller's config, which may always do so, selects none            *)
ActivateRefused(n) ==
  LET c == Head(inbox[n]).about
  IN /\ Take(n, "activate")
     /\ Respond(c, None)
     /\ inbox' = [inbox EXCEPT ![n] = Tail(@)]
     /\ UNCHANGED <<plan, agentVars, wait, net, running, told, updates, history>>

(* activate, handleActivationRequest: the actor is spawned at this node *)
ActivateLocal(n) ==
  LET c == Head(inbox[n]).about
      pid == <<n, Of(c)>>
  IN /\ Take(n, "activate")
     /\ ~Known(n, Of(c)) /\ n \in Candidates(n)
     /\ running' = running \cup {pid}
     /\ spawned' = spawned \cup {pid}
     /\ SendAll(n, members[n], Msg("activation", pid), Tail(inbox[n]), net)
     /\ told' = [told EXCEPT ![c] = members[n]]
     /\ Respond(c, pid)
     /\ UNCHANGED <<plan, agentVars, wait, updates, earlier, left>>

(* activate: the request to the member selected *)
ActivateRequest(n) ==
  LET c == Head(inbox[n]).about
  IN /\ Take(n, "activate")
     /\ ~Known(n, Of(c))
     /\ \E m \in Candidates(n) \ {n} :
          SendAll(n, {m}, Msg("request", c), Tail(inbox[n]), net)
     /\ wait' = [wait EXCEPT ![n] = c]
     /\ UNCHANGED <<plan, agentVars, running, call, ret, told, updates, history>>

(* Faulty: the PID in the response has the address of the requester *)
ActivationRequestAddress(n) ==
  LET c == Head(inbox[n]).about
  IN /\ Take(n, "request")
     /\ running' = running \cup {<<n, Of(c)>>}
     /\ spawned' = spawned \cup {<<n, Of(c)>>}
     /\ net' = [net EXCEPT ![<<n, At(c)>>] = Append(@, Response(c, <<At(c), Of(c)>>))]
     /\ inbox' = [inbox EXCEPT ![n] = Tail(@)]
     /\ UNCHANGED <<plan, agentVars, wait, call, ret, told, updates, earlier, left>>

(* handleActivationRequest, at the node At(c) has selected *)
ActivationRequest(n) ==
  LET c == Head(inbox[n]).about
      pid == <<n, Of(c)>>
  IN /\ Take(n, "request")
     /\ IF n \in Kinds
          THEN /\ running' = running \cup {pid}
               /\ spawned' = spawned \cup {pid}
               /\ net' = [net EXCEPT ![<<n, At(c)>>] = Append(@, Response(c, pid))]
          ELSE /\ net' = [net EXCEPT ![<<n, At(c)>>] = Append(@, Response(c, None))]
               /\ UNCHANGED <<running, spawned>>
     /\ inbox' = [inbox EXCEPT ![n] = Tail(@)]
     /\ UNCHANGED <<plan, agentVars, wait, call, ret, told, updates, earlier, left>>

(* activate: the response to the request *)
ActivateResponse(l) ==
  LET n == l[2]
      c == wait[n]
      r == Head(net[l])
  IN /\ net[l] # <<>> /\ r.type = "response"
     /\ c # None /\ r.about = c
     /\ wait' = [wait EXCEPT ![n] = None]
     /\ Respond(c, r.pid)
     /\ told' = [told EXCEPT ![c] = IF r.pid = None THEN {} ELSE members[n]]
     /\ SendAll(n, told'[c], Msg("activation", r.pid), inbox[n], [net EXCEPT ![l] = Tail(@)])
     /\ UNCHANGED <<plan, agentVars, running, updates, spawned, earlier, left>>

(* activate: the requestTimeout; the Response is removed ... *)
RequestTimeout(n) ==
  /\ wait[n] # None
  /\ Respond(wait[n], None)
  /\ wait' = [wait EXCEPT ![n] = None]
  /\ UNCHANGED <<plan, agentVars, inbox, net, running, told, updates, history>>

(* ... and what comes after that is a dead letter. *)
LateResponse(l) ==
  /\ net[l] # <<>> /\ Head(net[l]).type = "response"
  /\ Head(net[l]).about # wait[l[2]]
  /\ net' = [net EXCEPT ![l] = Tail(@)]
  /\ UNCHANGED <<plan, agentVars, inbox, wait, running, call, ret, told, updates, history>>

----------------------------------------------------------------------------
(* addActivated: the first PID with an ID stays *)
AddAll(view, pids) ==
  view \cup {p \in pids : \A q \in view : q[2] # p[2]}

(* Faulty: the agent lists only the actors of its own node *)
HandleActivationOwn(n) ==
  /\ Take(n, "activation")
  /\ activated' = [activated EXCEPT ![n] =
                     IF Head(inbox[n]).about[1] # n THEN @ ELSE AddAll(@, {Head(inbox[n]).about})]
  /\ inbox' = [inbox EXCEPT ![n] = Tail(@)]
  /\ UNCHANGED <<plan, members, wait, net, running, call, ret, told, updates, history>>

HandleActivation(n) ==
  /\ Take(n, "activation")
  /\ activated' = [activated EXCEPT ![n] = AddAll(@, {Head(inbox[n]).about})]
  /\ inbox' = [inbox EXCEPT ![n] = Tail(@)]
  /\ UNCHANGED <<plan, members, wait, net, running, call, ret, told, updates, history>>

HandleTopology(n) ==
  /\ Take(n, "topology")
  /\ activated' = [activated EXCEPT ![n] = AddAll(@, Head(inbox[n]).about)]
  /\ inbox' = [inbox EXCEPT ![n] = Tail(@)]
  /\ UNCHANGED <<plan, members, wait, net, running, call, ret, told, updates, history>>

(* deactivate: bcast *)
HandleDeactivate(n) ==
  /\ Take(n, "deactivate")
  /\ SendAll(n, members[n], Msg("deactivation", Head(inbox[n]).about), Tail(inbox[n]), net)
  /\ UNCHANGED <<plan, agentVars, wait, running, call, ret, told, updates, history>>

(* Faulty: only actors that are listed are poisoned *)
HandleDeactivationKnown(n) ==
  LET id == Head(inbox[n]).about[2]
  IN /\ Take(n, "deactivation")
     /\ activated' = [activated EXCEPT ![n] = {p \in @ : p[2] # id}]
     /\ running' = IF Known(n, id) THEN running \ {<<n, id>>} ELSE running
     /\ inbox' = [inbox EXCEPT ![n] = Tail(@)]
     /\ UNCHANGED <<plan, members, wait, net, call, ret, told, updates, history>>

(* handleDeactivation: removeActivated and Poison go by the ID *)
HandleDeactivation(n) ==
  LET id == Head(inbox[n]).about[2]
  IN /\ Take(n, "deactivation")
     /\ activated' = [activated EXCEPT ![n] = {p \in @ : p[2] # id}]
     /\ running' = running \ {<<n, id>>}
     /\ inbox' = [inbox EXCEPT ![n] = Tail(@)]
     /\ UNCHANGED <<plan, members, wait, net, call, ret, told, updates, history>>

(* handleMembers: memberJoin sends the view to each member that joins,     *)
(* memberLeave drops what runs on a member that left.                      *)
HandleMembers(n) ==
  LET S == Head(inbox[n]).about
      gone == members[n] \ S
      joined == S \ members[n]
  IN /\ Take(n, "members")
     /\ members' = [members EXCEPT ![n] = S]
     /\ activated' = [activated EXCEPT ![n] = {p \in @ : p[1] \notin gone}]
     /\ SendAll(n, IF activated[n] = {} THEN {} ELSE joined, Msg("topology", activated[n]),
                Tail(inbox[n]), net)
     /\ left' = [left EXCEPT ![n] = @ \cup gone]
     /\ UNCHANGED <<plan, wait, running, call, ret, told, updates, spawned, earlier>>

(* getMembers, for Cluster.Spawn *)
HandleGetMembers(n) ==
  LET c == Head(inbox[n]).about
  IN /\ Take(n, "getMembers")
     /\ IF call[c] = "waiting"
          THEN call' = [call EXCEPT ![c] = "tell"] /\ told' = [told EXCEPT ![c] = members[n]]
          ELSE UNCHANGED <<call, told>>
     /\ inbox' = [inbox EXCEPT ![n] = Tail(@)]
     /\ UNCHANGED <<plan, agentVars, wait, net, running, ret, updates, history>>

(* Cluster.Spawn sends the Activation itself. *)
SpawnTell(c) ==
  LET pid == <<At(c), Of(c)>>
  IN /\ call[c] = "tell"
     /\ SendAll(At(c), told[c], Msg("activation", pid), inbox[At(c)], net)
     /\ call' = [call EXCEPT ![c] = "done"] /\ ret' = [ret EXCEPT ![c] = pid]
     /\ UNCHANGED <<plan, agentVars, wait, running, told, updates, history>>

----------------------------------------------------------------------------
Links == Nodes \X Nodes

Handle(n) ==
  \/ ActivateRefused(n) \/ ActivateLocal(n) \/ ActivateRequest(n) \/ ActivationRequest(n)
  \/ HandleActivation(n) \/ HandleTopology(n) \/ HandleDeactivate(n) \/ HandleDeactivation(n)
  \/ HandleMembers(n) \/ HandleGetMembers(n)

Next ==
  \/ \E c \in Calls : Activate(c) \/ Spawn(c) \/ Deactivate(c) \/ CallTimeout(c) \/ SpawnTell(c)
  \/ \E n \in Nodes : Handle(n) \/ RequestTimeout(n) \/ Update(n)
  \/ \E l \in Links : Arrive(l) \/ ActivateResponse(l) \/ LateResponse(l)

Spec == Init /\ [][Next]_vars

(* Agents take their messages, messages arrive, and a wait ends. *)
FairSpec ==
  /\ Spec
  /\ \A c \in Calls : WF_vars(SpawnTell(c))
  /\ \A n \in Nodes : WF_vars(Handle(n)) /\ WF_vars(RequestTimeout(n))
  /\ \A l \in Links : WF_vars(Arrive(l)) /\ WF_vars(ActivateResponse(l) \/ LateResponse(l))

----------------------------------------------------------------------------
(* No phantoms: an agent lists, and a call returns, only PIDs that were    *)
(* spawned at the node they name, whichever of the messages Activation,    *)
(* ActorTopology and ActivationResponse brought them.                      *)
OnlySpawned ==
  /\ \A n \in Nodes : activated[n] \subseteq spawned
  /\ \A c \in Calls : ret[c] \in spawned \cup {None}

(* activate refuses an ID in a call made after another call at the same    *)
(* node has returned a PID with it and announced it to that node, while    *)
(* nothing is deactivated and no member leaves: the Activation is in the   *)
(* agent's inbox before the caller has the PID.  A Spawn whose Members()   *)
(* has timed out returns a PID too, but announces it to nobody; a later    *)
(* Activate may then return another with its ID.                           *)
SequentialUnique ==
  \A c \in Calls :
    Op(c) = "activate" /\ ret[c] # None /\ left[At(c)] = {}
      /\ (\A d \in Calls : Op(d) = "deactivate" => call[d] = "new")
    => \A e \in earlier[c] : At(c) \in e.told => e.pid[2] # Of(c)

(* Whoever was a member for the agent or the caller that announced an      *)
(* actor comes to list the ID, unless something is deactivated or the node *)
(* of the actor leaves.                                                    *)
Announced ==
  \A id \in Ids, m \in Nodes :
    (\E c \in Calls : ret[c] # None /\ Of(c) = id /\ m \in told[c])
      ~> \/ Known(m, id)
         \/ \E d \in Calls : Op(d) = "deactivate" /\ call[d] # "new"
         \/ \E n \in Nodes : left[n] # {}

(* A deactivate message stops the actor if its node is a member for the    *)
(* agent that handles it, also when an agent on the way is waiting for an  *)
(* activation.                                                             *)
DeactivateStops ==
  \A n \in Nodes, p \in PIDs :
    (Msg("deactivate", p) \in Range(inbox[n])) ~> (p \notin running \/ p[1] \notin members[n])

(* src/cluster/agent.go, activate: "Make sure actors are unique across the *)
(* whole cluster."                                                         *)
UniqueActors == \A p, q \in running : p[2] = q[2] => p = q
=============================================================================
