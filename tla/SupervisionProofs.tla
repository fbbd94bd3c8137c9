------------------------- MODULE SupervisionProofs -------------------------
(***************************************************************************)
(* Proofs about module Supervision, for a tree of any size and shape and   *)
(* any number of callers: the invariant of the tree, and from it that a    *)
(* parent is told Stopped only after its children.                         *)
(***************************************************************************)
EXTENDS Supervision, SequenceTheorems, TLAPS

(* Where cleanup has got to: the process has left the registry, ... *)
Unlisted == {"stopped", "cancel", "gone"}

(* ... or the children were asked for, so that pills may be on their way *)
Reaping == {"poison", "remove"} \cup Unlisted

(* cleanup removes the process from the registry, then tells it Stopped. *)
RegistryInv ==
  /\ registered = {a \in Actors : pc[a] \notin {"absent"} \cup Unlisted}
  /\ stopped = {a \in Actors : pc[a] \in {"cancel", "gone"}}

(* A pill is in the inbox of its target, and was pushed there. *)
AddressInv ==
  \A a \in Actors :
    /\ \A i \in 1..Len(inbox[a]) : inbox[a][i][2] = a /\ pills[inbox[a][i]] = "sent"
    /\ current[a] # None => current[a][2] = a /\ pills[current[a]] = "sent"

(* Only an actor that is alive is in SpawnChild, and only one that runs    *)
(* the loop over its children has any left to wait for.                    *)
SpawnInv ==
  \A a \in Actors :
    /\ spawning[a] # None => /\ pc[a] = "alive"
                             /\ spawning[a] \in Kids(a)
                             /\ pc[spawning[a]] # "absent"
    /\ todo[a] # {} => pc[a] = "poison"

(* What a parent a knows of its child c: a child that is alive is being    *)
(* spawned, or is a child that cleanup has yet to see or to wait for.      *)
Known(a, c) ==
  \/ pc[a] = "alive" /\ spawning[a] = c
  \/ pc[a] \in {"alive", "delete", "children"} /\ c \in children[a]
  \/ pc[a] = "poison" /\ c \in todo[a]

ChildInv ==
  \A c \in Actors \ {Root} :
    LET a == Parent[c] IN
    /\ c \in children[a] \cup todo[a] => pc[c] # "absent"
    /\ pc[c] # "absent" => pc[a] # "absent"
    /\ pc[c] = "alive" => Known(a, c)
    /\ pills[<<a, c>>] # "new" => pc[a] \in Reaping
    /\ <<a, c>> \in cancelled => pc[c] \in Unlisted /\ pills[<<a, c>>] # "new"

(* As long as nobody else stops a child and no child dies, a child ends    *)
(* because of its parent's pill, which the parent waits for.               *)
Quiet ==
  \A c \in Actors \ {Root} :
    LET a == Parent[c] IN
    /\ \A p \in Calls : p[2] = c => pills[p] = "new"
    /\ pc[c] \notin {"absent", "alive"} => /\ pills[<<a, c>>] = "sent"
                                           /\ current[c] = <<a, c>>
    /\ <<a, c>> \in cancelled => pc[c] = "gone"
    /\ pc[c] # "absent" /\ pc[a] \in Reaping =>
         (pc[a] = "poison" /\ c \in todo[a]) \/ <<a, c>> \in cancelled

QuietInv == ~disturbed => Quiet

TreeInv ==
  TypeOK /\ RegistryInv /\ AddressInv /\ SpawnInv /\ ChildInv /\ QuietInv

----------------------------------------------------------------------------
(* A pill is either one a caller sends or the one of a parent. *)
LEMMA PillFacts ==
  /\ \A c \in Actors \ {Root} : /\ Parent[c] \in Actors
                               /\ <<Parent[c], c>> \in Pills
                               /\ <<Parent[c], c>> \notin Calls
  /\ \A p \in Pills : /\ p[2] \in Actors
                      /\ p \notin Calls => p[2] # Root /\ p = <<Parent[p[2]], p[2]>>
  /\ None \notin Actors
  /\ Root \in Actors
BY TreeAssumption DEF Pills

(* Init: only the root is alive and it has no children yet. *)
LEMMA TreeInit == Init => TreeInv
<1> SUFFICES ASSUME Init PROVE TreeInv
  BY Zenon
<1>1. TypeOK
  <2>1. <<>> \in Seq(Pills)
    OBVIOUS
  <2>2. inbox \in [Actors -> Seq(Pills)]
    BY Zenon, <2>1 DEF Init
  <2>3. QED
    BY Zenon, <2>2, PillFacts DEF Init, TypeOK, Cleaning
<1>2. RegistryInv /\ AddressInv /\ SpawnInv
  BY PillFacts DEF Init, RegistryInv, AddressInv, SpawnInv, Unlisted
<1>3. ChildInv
  BY Zenon, PillFacts DEF Init, ChildInv
<1>4. Quiet
  BY Zenon, PillFacts DEF Init, Quiet, Pills
<1>5. QED
  BY Zenon, <1>1, <1>2, <1>3, <1>4 DEF TreeInv, QuietInv

(* Every step of an actor, a caller or a pill on its way keeps TreeInv. *)
LEMMA TreeStep == TreeInv /\ [Next]_vars => TreeInv'
<1> SUFFICES ASSUME TreeInv, [Next]_vars PROVE TreeInv'
  BY Zenon
<1>1. ASSUME NEW c \in Actors \ {Root}, SpawnProc(c)
     PROVE  TreeInv'
  <2>1. TypeOK'
    BY ZenonT(30), <1>1, PillFacts DEF TreeInv, TypeOK, Kids, Cleaning, SpawnProc, Goto
  <2>2. RegistryInv'
    BY <1>1, PillFacts DEF TreeInv, TypeOK, RegistryInv, Unlisted, SpawnProc, Goto
  <2>3. AddressInv'
    BY <1>1, PillFacts DEF TreeInv, TypeOK, AddressInv, SpawnProc, Goto
  <2>4. SpawnInv'
    BY <1>1, PillFacts DEF TreeInv, TypeOK, SpawnInv, Kids, SpawnProc, Goto
  <2>5. ChildInv'
    BY <1>1, PillFacts DEF TreeInv, TypeOK, ChildInv, RegistryInv, AddressInv, SpawnInv,
       Known, Kids, Reaping, Unlisted, SpawnProc, Goto
  <2>6. QuietInv'
    BY <1>1, PillFacts DEF TreeInv, TypeOK, QuietInv, RegistryInv, AddressInv, SpawnInv,
       ChildInv, Quiet, Known, Reaping, Unlisted, Kids, SpawnProc, Goto
  <2>7. QED
    BY Zenon, <2>1, <2>2, <2>3, <2>4, <2>5, <2>6 DEF TreeInv
<1>2. ASSUME NEW p \in Pills, Call(p)
     PROVE  TreeInv'
  <2>1. TypeOK'
    <3>1. pills' \in [Pills -> {"new", "checked", "found", "sent", "dead"}] /\ cancelled' \subseteq Pills
      BY Zenon, <1>2 DEF TreeInv, TypeOK, Call, Check
    <3>2. disturbed' \in BOOLEAN
      BY Zenon, <1>2 DEF Call
    <3>3. QED
      BY Zenon, <1>2, <3>1, <3>2 DEF TreeInv, TypeOK, Call
  <2>2. RegistryInv'
    BY Zenon, <1>2, PillFacts DEF TreeInv, TypeOK, RegistryInv, Unlisted, Call, Check
  <2>3. AddressInv'
    BY <1>2, PillFacts DEF TreeInv, TypeOK, AddressInv, Call, Check
  <2>4. SpawnInv'
    BY Zenon, <1>2, PillFacts DEF TreeInv, TypeOK, SpawnInv, Kids, Call, Check
  <2>5. ChildInv'
    BY <1>2, PillFacts DEF TreeInv, TypeOK, ChildInv, RegistryInv, AddressInv, SpawnInv,
       Known, Kids, Reaping, Unlisted, Call, Check
  <2>6. QuietInv'
    <3>1. SUFFICES ASSUME ~disturbed' PROVE Quiet'
      BY Zenon DEF QuietInv
    <3>2. ~disturbed /\ p[2] = Root
      BY Zenon, <1>2, <3>1 DEF Call
    <3>3. Quiet
      BY Zenon, <3>2 DEF TreeInv, QuietInv
    <3>4. \A q \in Pills \ {p} : pills'[q] = pills[q] /\ (q \in cancelled' <=> q \in cancelled)
      BY Zenon, <1>2 DEF TreeInv, TypeOK, Call, Check
    <3>5. p \in Calls /\ Calls \subseteq Pills
      BY Zenon, <1>2 DEF Call, Pills
    <3>6. QED
      BY <1>2, <3>2, <3>3, <3>4, <3>5, PillFacts DEF Quiet, Call
  <2>7. QED
    BY Zenon, <2>1, <2>2, <2>3, <2>4, <2>5, <2>6 DEF TreeInv
<1>3. ASSUME NEW p \in Pills, Lookup(p)
     PROVE  TreeInv'
  <2>1. TypeOK'
    BY Zenon, <1>3, PillFacts DEF TreeInv, TypeOK, Kids, Cleaning, Lookup
  <2>2. RegistryInv'
    BY Zenon, <1>3, PillFacts DEF TreeInv, TypeOK, RegistryInv, Unlisted, Lookup
  <2>3. AddressInv'
    BY <1>3, PillFacts DEF TreeInv, TypeOK, AddressInv, Lookup
  <2>4. SpawnInv'
    BY Zenon, <1>3, PillFacts DEF TreeInv, TypeOK, SpawnInv, Kids, Lookup
  <2>5. ChildInv'
    BY <1>3, PillFacts DEF TreeInv, TypeOK, ChildInv, RegistryInv, AddressInv, SpawnInv,
       Known, Kids, Reaping, Unlisted, Lookup
  <2>6. QuietInv'
    BY <1>3, PillFacts DEF TreeInv, TypeOK, QuietInv, RegistryInv, AddressInv, SpawnInv,
       ChildInv, Quiet, Known, Reaping, Unlisted, Kids, Lookup
  <2>7. QED
    BY Zenon, <2>1, <2>2, <2>3, <2>4, <2>5, <2>6 DEF TreeInv
<1>4. ASSUME NEW p \in Pills, Push(p)
     PROVE  TreeInv'
  <2>1. TypeOK'
    BY <1>4, PillFacts DEF TreeInv, TypeOK, Kids, Cleaning, Push
  <2>2. RegistryInv'
    BY Zenon, <1>4, PillFacts DEF TreeInv, TypeOK, RegistryInv, Unlisted, Push
  <2>3. AddressInv'
    BY SMTT(30), <1>4, PillFacts DEF TreeInv, TypeOK, AddressInv, Push
  <2>4. SpawnInv'
    BY Zenon, <1>4, PillFacts DEF TreeInv, TypeOK, SpawnInv, Kids, Push
  <2>5. ChildInv'
    BY <1>4, PillFacts DEF TreeInv, TypeOK, ChildInv, RegistryInv, AddressInv, SpawnInv,
       Known, Kids, Reaping, Unlisted, Push
  <2>6. QuietInv'
    BY <1>4, PillFacts DEF TreeInv, TypeOK, QuietInv, RegistryInv, AddressInv, SpawnInv,
       ChildInv, Quiet, Known, Reaping, Unlisted, Kids, Push
  <2>7. QED
    BY Zenon, <2>1, <2>2, <2>3, <2>4, <2>5, <2>6 DEF TreeInv
<1>5. ASSUME NEW a \in Actors, MaxRestarts(a)
     PROVE  TreeInv'
  <2>1. TypeOK'
    BY <1>5, PillFacts DEF TreeInv, TypeOK, Kids, Cleaning, MaxRestarts, Goto
  <2>2. RegistryInv'
    BY Zenon, <1>5, PillFacts DEF TreeInv, TypeOK, RegistryInv, Unlisted, MaxRestarts, Goto
  <2>3. AddressInv'
    BY SMTT(30), <1>5, PillFacts DEF TreeInv, TypeOK, AddressInv, MaxRestarts, Goto
  <2>4. SpawnInv'
    BY <1>5, PillFacts DEF TreeInv, TypeOK, SpawnInv, Kids, MaxRestarts, Goto
  <2>5. ChildInv'
    BY <1>5, PillFacts DEF TreeInv, TypeOK, ChildInv, RegistryInv, AddressInv, SpawnInv,
       Known, Kids, Reaping, Unlisted, MaxRestarts, Goto
  <2>6. QuietInv'
    <3>1. SUFFICES ASSUME ~disturbed' PROVE Quiet'
      BY Zenon DEF QuietInv
    <3>2. ~disturbed /\ a = Root
      BY Zenon, <1>5, <3>1 DEF MaxRestarts
    <3>3. QED
      BY SMTT(30), <1>5, <3>2, PillFacts DEF TreeInv, TypeOK, QuietInv, Quiet, Reaping, Unlisted,
         MaxRestarts, Goto
  <2>7. QED
    BY Zenon, <2>1, <2>2, <2>3, <2>4, <2>5, <2>6 DEF TreeInv
<1>6. ASSUME NEW a \in Actors, SpawnSet(a)
     PROVE  TreeInv'
  <2>1. TypeOK'
    BY <1>6, PillFacts DEF TreeInv, TypeOK, SpawnInv, Kids, Cleaning, SpawnSet
  <2>2. RegistryInv'
    BY Zenon, <1>6, PillFacts DEF TreeInv, TypeOK, RegistryInv, Unlisted, SpawnSet
  <2>3. AddressInv'
    BY <1>6, PillFacts DEF TreeInv, TypeOK, AddressInv, SpawnSet
  <2>4. SpawnInv'
    BY <1>6, PillFacts DEF TreeInv, TypeOK, SpawnInv, Kids, SpawnSet
  <2>5. ChildInv'
    BY <1>6, PillFacts DEF TreeInv, TypeOK, ChildInv, RegistryInv, AddressInv, SpawnInv,
       Known, Kids, Reaping, Unlisted, SpawnSet
  <2>6. QuietInv'
    BY <1>6, PillFacts DEF TreeInv, TypeOK, QuietInv, RegistryInv, AddressInv, SpawnInv,
       ChildInv, Quiet, Known, Reaping, Unlisted, Kids, SpawnSet
  <2>7. QED
    BY Zenon, <2>1, <2>2, <2>3, <2>4, <2>5, <2>6 DEF TreeInv
<1>7. ASSUME NEW a \in Actors, TakePill(a)
     PROVE  TreeInv'
  <2>1. TypeOK'
    BY <1>7, PillFacts DEF TreeInv, TypeOK, Kids, Cleaning, TakePill, Goto
  <2>2. RegistryInv'
    BY Zenon, <1>7, PillFacts DEF TreeInv, TypeOK, RegistryInv, Unlisted, TakePill, Goto
  <2>3. AddressInv'
    BY <1>7, PillFacts DEF TreeInv, TypeOK, AddressInv, TakePill, Goto
  <2>4. SpawnInv'
    BY <1>7, PillFacts DEF TreeInv, TypeOK, SpawnInv, Kids, TakePill, Goto
  <2>5. ChildInv'
    BY <1>7, PillFacts DEF TreeInv, TypeOK, ChildInv, RegistryInv, AddressInv, SpawnInv,
       Known, Kids, Reaping, Unlisted, TakePill, Goto
  <2>6. QuietInv'
    <3>1. SUFFICES ASSUME ~disturbed PROVE Quiet'
      BY Zenon, <1>7 DEF QuietInv, TakePill
    <3>2. Quiet
      BY Zenon, <3>1 DEF TreeInv, QuietInv
    <3>3. Head(inbox[a]) \in Pills /\ Head(inbox[a])[2] = a /\ pills[Head(inbox[a])] = "sent"
      <4>1. inbox[a] \in Seq(Pills) /\ Len(inbox[a]) >= 1 /\ Head(inbox[a]) = inbox[a][1]
        BY <1>7 DEF TreeInv, TypeOK, TakePill
      <4>2. QED
        BY <4>1 DEF TreeInv, AddressInv
    <3>4. a # Root => Head(inbox[a]) = <<Parent[a], a>>
      BY ZenonT(30), <3>2, <3>3, PillFacts DEF Quiet
    <3>5. QED
      <4>1. pc' = [pc EXCEPT ![a] = "delete"] /\ current' = [current EXCEPT ![a] = Head(inbox[a])]
        BY Zenon, <1>7 DEF TakePill, Goto
      <4>2. pc[a] = "alive" /\ UNCHANGED <<pills, cancelled, todo>>
        BY Zenon, <1>7 DEF TakePill
      <4>3. QED
        <5>1. \A b \in Actors \ {a} : pc'[b] = pc[b] /\ current'[b] = current[b]
          BY Zenon, <4>1 DEF TreeInv, TypeOK
        <5>2. pc'[a] = "delete" /\ current'[a] = Head(inbox[a])
          BY Zenon, <4>1 DEF TreeInv, TypeOK
        <5>3. SUFFICES ASSUME NEW c \in Actors \ {Root}, NEW b \in Actors, b = Parent[c]
                       PROVE  /\ \A p \in Calls : p[2] = c => pills[p] = "new"
                              /\ pc'[c] \notin {"absent", "alive"} => pills[<<b, c>>] = "sent" /\ current'[c] = <<b, c>>
                              /\ <<b, c>> \in cancelled => pc'[c] = "gone"
                              /\ pc'[c] # "absent" /\ pc'[b] \in Reaping =>
                                   (pc'[b] = "poison" /\ c \in todo[b]) \/ <<b, c>> \in cancelled
          BY <4>2, PillFacts DEF Quiet
        <5>4. pc'[b] \in Reaping => pc'[b] = pc[b]
          BY Zenon, <5>1, <5>2 DEF Reaping, Unlisted
        <5>5. CASE c = a
          BY Zenon, <3>2, <3>3, <3>4, <4>2, <5>1, <5>2, <5>3, <5>4, <5>5 DEF Quiet
        <5>6. CASE c # a
          BY ZenonT(30), <3>2, <5>1, <5>3, <5>4, <5>6 DEF Quiet
        <5>7. QED
          BY Zenon, <5>5, <5>6
  <2>7. QED
    BY Zenon, <2>1, <2>2, <2>3, <2>4, <2>5, <2>6 DEF TreeInv
<1>8. ASSUME NEW a \in Actors, CleanupDelete(a)
     PROVE  TreeInv'
  <2>1. TypeOK'
    <3>1. children' \in [Actors -> SUBSET Actors] /\ \A b \in Actors : children'[b] \subseteq children[b]
      BY Zenon, <1>8, PillFacts DEF TreeInv, TypeOK, CleanupDelete
    <3>2. QED
      BY Zenon, <1>8, <3>1 DEF TreeInv, TypeOK, Cleaning, CleanupDelete, Goto
  <2>2. RegistryInv'
    BY Zenon, <1>8, PillFacts DEF TreeInv, TypeOK, RegistryInv, Unlisted, CleanupDelete, Goto
  <2>3. AddressInv'
    BY <1>8, PillFacts DEF TreeInv, TypeOK, AddressInv, CleanupDelete, Goto
  <2>4. SpawnInv'
    BY <1>8, PillFacts DEF TreeInv, TypeOK, SpawnInv, Kids, CleanupDelete, Goto
  <2>5. ChildInv'
    BY <1>8, PillFacts DEF TreeInv, TypeOK, ChildInv, RegistryInv, AddressInv, SpawnInv,
       Known, Kids, Reaping, Unlisted, CleanupDelete, Goto
  <2>6. QuietInv'
    BY <1>8, PillFacts DEF TreeInv, TypeOK, QuietInv, RegistryInv, AddressInv, SpawnInv,
       ChildInv, Quiet, Known, Reaping, Unlisted, Kids, CleanupDelete, Goto
  <2>7. QED
    BY Zenon, <2>1, <2>2, <2>3, <2>4, <2>5, <2>6 DEF TreeInv
<1>9. ASSUME NEW a \in Actors, CleanupChildren(a)
     PROVE  TreeInv'
  <2>1. TypeOK'
    BY <1>9, PillFacts DEF TreeInv, TypeOK, Kids, Cleaning, CleanupChildren, Goto
  <2>2. RegistryInv'
    BY Zenon, <1>9, PillFacts DEF TreeInv, TypeOK, RegistryInv, Unlisted, CleanupChildren, Goto
  <2>3. AddressInv'
    BY <1>9, PillFacts DEF TreeInv, TypeOK, AddressInv, CleanupChildren, Goto
  <2>4. SpawnInv'
    BY <1>9, PillFacts DEF TreeInv, TypeOK, SpawnInv, Kids, CleanupChildren, Goto
  <2>5. ChildInv'
    BY <1>9, PillFacts DEF TreeInv, TypeOK, ChildInv, RegistryInv, AddressInv, SpawnInv,
       Known, Kids, Reaping, Unlisted, CleanupChildren, Goto
  <2>6. QuietInv'
    BY <1>9, PillFacts DEF TreeInv, TypeOK, QuietInv, RegistryInv, AddressInv, SpawnInv,
       ChildInv, Quiet, Known, Reaping, Unlisted, Kids, CleanupChildren, Goto
  <2>7. QED
    BY Zenon, <2>1, <2>2, <2>3, <2>4, <2>5, <2>6 DEF TreeInv
<1>10. ASSUME NEW a \in Actors, NEW c \in Kids(a), PoisonChild(a, c)
     PROVE  TreeInv'
  <2>1. TypeOK'
    <3>1. <<a, c>> \in Pills
      BY Zenon, <1>10, PillFacts DEF Kids
    <3>2. pills' \in [Pills -> {"new", "checked", "found", "sent", "dead"}] /\ cancelled' \subseteq Pills
      BY Zenon, <1>10, <3>1 DEF TreeInv, TypeOK, PoisonChild, Check
    <3>3. QED
      BY Zenon, <1>10, <3>2 DEF TreeInv, TypeOK, PoisonChild
  <2>2. RegistryInv'
    BY <1>10, PillFacts DEF TreeInv, TypeOK, RegistryInv, Unlisted, PoisonChild, Check, Kids
  <2>3. AddressInv'
    BY <1>10, PillFacts DEF TreeInv, TypeOK, AddressInv, PoisonChild, Check, Kids
  <2>4. SpawnInv'
    BY Zenon, <1>10, PillFacts DEF TreeInv, TypeOK, SpawnInv, PoisonChild, Check, Kids
  <2>5. ChildInv'
    <3>1. c \in Actors \ {Root} /\ a = Parent[c] /\ <<a, c>> \in Pills /\ pc[a] = "poison"
      BY Zenon, <1>10, PillFacts DEF PoisonChild, Kids
    <3>2. /\ \A p \in Pills \ {<<a, c>>} : pills'[p] = pills[p] /\ (p \in cancelled' <=> p \in cancelled)
          /\ pills'[<<a, c>>] # "new"
          /\ <<a, c>> \in cancelled' => c \notin registered \/ <<a, c>> \in cancelled
      BY ZenonT(30), <1>10, <3>1 DEF TreeInv, TypeOK, PoisonChild, Check
    <3>3. c \notin registered => pc[c] \in Unlisted
      BY Zenon, <1>10, <3>1 DEF TreeInv, RegistryInv, ChildInv, PoisonChild
    <3>4. QED
      BY <1>10, <3>1, <3>2, <3>3, PillFacts DEF TreeInv, ChildInv, Known, Reaping, PoisonChild
  <2>6. QuietInv'
    <3>1. SUFFICES ASSUME ~disturbed PROVE Quiet'
      BY Zenon, <1>10 DEF QuietInv, PoisonChild
    <3>2. Quiet
      BY Zenon, <3>1 DEF TreeInv, QuietInv
    <3>3. c \in Actors \ {Root} /\ a = Parent[c] /\ <<a, c>> \in Pills /\ <<a, c>> \notin Calls
      BY Zenon, <1>10, PillFacts DEF Kids
    <3>4. pills[<<a, c>>] = "new" /\ pc[c] # "absent"
      BY Zenon, <1>10, <3>3 DEF TreeInv, ChildInv, PoisonChild, Check
    <3>5. pc[c] \in {"absent", "alive"}
      BY Zenon, <3>2, <3>3, <3>4 DEF Quiet
    <3>6. c \in registered
      BY Zenon, <3>3, <3>4, <3>5 DEF TreeInv, RegistryInv, Unlisted
    <3>7. pills' = [pills EXCEPT ![<<a, c>>] = "checked"] /\ cancelled' = cancelled
      BY Zenon, <1>10, <3>6 DEF PoisonChild, Check
    <3>8. \A p \in Pills \ {<<a, c>>} : pills'[p] = pills[p]
      BY Zenon, <3>7 DEF TreeInv, TypeOK
    <3>9. QED
      BY <1>10, <3>2, <3>3, <3>5, <3>7, <3>8, PillFacts DEF Quiet, PoisonChild, Pills
  <2>7. QED
    BY Zenon, <2>1, <2>2, <2>3, <2>4, <2>5, <2>6 DEF TreeInv
<1>11. ASSUME NEW a \in Actors, NEW c \in Kids(a), ChildDone(a, c)
     PROVE  TreeInv'
  <2>1. TypeOK'
    BY <1>11, PillFacts DEF TreeInv, TypeOK, Cleaning, ChildDone, Kids
  <2>2. RegistryInv'
    BY <1>11, PillFacts DEF TreeInv, TypeOK, RegistryInv, Unlisted, ChildDone, Kids
  <2>3. AddressInv'
    BY <1>11, PillFacts DEF TreeInv, TypeOK, AddressInv, ChildDone, Kids
  <2>4. SpawnInv'
    BY <1>11, PillFacts DEF TreeInv, TypeOK, SpawnInv, ChildDone, Kids
  <2>5. ChildInv'
    BY <1>11, PillFacts DEF TreeInv, TypeOK, ChildInv, RegistryInv, AddressInv, SpawnInv,
       Known, Reaping, Unlisted, ChildDone, Kids
  <2>6. QuietInv'
    <3>1. SUFFICES ASSUME ~disturbed PROVE Quiet'
      BY Zenon, <1>11 DEF QuietInv, ChildDone
    <3>2. Quiet
      BY Zenon, <3>1 DEF TreeInv, QuietInv
    <3>3. c \in Actors \ {Root} /\ a = Parent[c]
      BY Zenon, <1>11 DEF Kids
    <3>4. \A d \in Actors \ {Root} : d # c => (d \in todo'[Parent[d]] <=> d \in todo[Parent[d]])
      BY Zenon, <1>11, <3>3, PillFacts DEF TreeInv, TypeOK, ChildDone
    <3>5. QED
      BY <1>11, <3>2, <3>3, <3>4 DEF Quiet, ChildDone
  <2>7. QED
    BY Zenon, <2>1, <2>2, <2>3, <2>4, <2>5, <2>6 DEF TreeInv
<1>12. ASSUME NEW a \in Actors, CleanupStop(a)
     PROVE  TreeInv'
  <2>1. TypeOK'
    BY Zenon, <1>12, PillFacts DEF TreeInv, TypeOK, Kids, Cleaning, CleanupStop, Goto
  <2>2. RegistryInv'
    BY Zenon, <1>12, PillFacts DEF TreeInv, TypeOK, RegistryInv, Unlisted, CleanupStop, Goto
  <2>3. AddressInv'
    BY <1>12, PillFacts DEF TreeInv, TypeOK, AddressInv, CleanupStop, Goto
  <2>4. SpawnInv'
    BY <1>12, PillFacts DEF TreeInv, TypeOK, SpawnInv, Kids, CleanupStop, Goto
  <2>5. ChildInv'
    BY SMTT(30), <1>12, PillFacts DEF TreeInv, TypeOK, ChildInv, RegistryInv, AddressInv, SpawnInv,
       Known, Kids, Reaping, Unlisted, CleanupStop, Goto
  <2>6. QuietInv'
    BY <1>12, PillFacts DEF TreeInv, TypeOK, QuietInv, RegistryInv, AddressInv, SpawnInv,
       ChildInv, Quiet, Known, Reaping, Unlisted, Kids, CleanupStop, Goto
  <2>7. QED
    BY Zenon, <2>1, <2>2, <2>3, <2>4, <2>5, <2>6 DEF TreeInv
<1>13. ASSUME NEW a \in Actors, CleanupRemove(a)
     PROVE  TreeInv'
  <2>1. TypeOK'
    BY Zenon, <1>13, PillFacts DEF TreeInv, TypeOK, Kids, Cleaning, CleanupRemove, Goto
  <2>2. RegistryInv'
    BY Zenon, <1>13, PillFacts DEF TreeInv, TypeOK, RegistryInv, Unlisted, CleanupRemove, Goto
  <2>3. AddressInv'
    BY <1>13, PillFacts DEF TreeInv, TypeOK, AddressInv, CleanupRemove, Goto
  <2>4. SpawnInv'
    BY SMTT(30), <1>13, PillFacts DEF TreeInv, TypeOK, SpawnInv, Kids, CleanupRemove, Goto
  <2>5. ChildInv'
    BY SMTT(30), <1>13, PillFacts DEF TreeInv, TypeOK, ChildInv, RegistryInv, AddressInv, SpawnInv,
       Known, Kids, Reaping, Unlisted, CleanupRemove, Goto
  <2>6. QuietInv'
    BY <1>13, PillFacts DEF TreeInv, TypeOK, QuietInv, RegistryInv, AddressInv, SpawnInv,
       ChildInv, Quiet, Known, Reaping, Unlisted, Kids, CleanupRemove, Goto
  <2>7. QED
    BY Zenon, <2>1, <2>2, <2>3, <2>4, <2>5, <2>6 DEF TreeInv
<1>14. ASSUME NEW a \in Actors, CleanupStopped(a)
     PROVE  TreeInv'
  <2>1. TypeOK'
    BY ZenonT(30), <1>14, PillFacts DEF TreeInv, TypeOK, Kids, Cleaning, CleanupStopped, Goto
  <2>2. RegistryInv'
    BY <1>14, PillFacts DEF TreeInv, TypeOK, RegistryInv, Unlisted, CleanupStopped, Goto
  <2>3. AddressInv'
    BY <1>14, PillFacts DEF TreeInv, TypeOK, AddressInv, CleanupStopped, Goto
  <2>4. SpawnInv'
    BY SMTT(30), <1>14, PillFacts DEF TreeInv, TypeOK, SpawnInv, Kids, CleanupStopped, Goto
  <2>5. ChildInv'
    BY SMTT(30), <1>14, PillFacts DEF TreeInv, TypeOK, ChildInv, RegistryInv, AddressInv, SpawnInv,
       Known, Kids, Reaping, Unlisted, CleanupStopped, Goto
  <2>6. QuietInv'
    BY <1>14, PillFacts DEF TreeInv, TypeOK, QuietInv, RegistryInv, AddressInv, SpawnInv,
       ChildInv, Quiet, Known, Reaping, Unlisted, Kids, CleanupStopped, Goto
  <2>7. QED
    BY Zenon, <2>1, <2>2, <2>3, <2>4, <2>5, <2>6 DEF TreeInv
<1>15. ASSUME NEW a \in Actors, CleanupCancel(a)
     PROVE  TreeInv'
  <2>1. TypeOK'
    BY <1>15, PillFacts DEF TreeInv, TypeOK, Kids, Cleaning, CleanupCancel, Goto
  <2>2. RegistryInv'
    BY Zenon, <1>15, PillFacts DEF TreeInv, TypeOK, RegistryInv, Unlisted, CleanupCancel, Goto
  <2>3. AddressInv'
    BY <1>15, PillFacts DEF TreeInv, TypeOK, AddressInv, CleanupCancel, Goto
  <2>4. SpawnInv'
    BY <1>15, PillFacts DEF TreeInv, TypeOK, SpawnInv, Kids, CleanupCancel, Goto
  <2>5. ChildInv'
    <3>1. \A c \in Actors \ {Root} : <<Parent[c], c>> \in cancelled' =>
            <<Parent[c], c>> \in cancelled \/ (c = a /\ pills[<<Parent[c], c>>] = "sent")
      BY <1>15 DEF TreeInv, AddressInv, CleanupCancel
    <3>2. QED
      BY SMTT(30), <1>15, <3>1, PillFacts DEF TreeInv, TypeOK, ChildInv, Known, Reaping, Unlisted,
         CleanupCancel, Goto
  <2>6. QuietInv'
    <3>1. SUFFICES ASSUME ~disturbed PROVE Quiet'
      BY Zenon, <1>15 DEF QuietInv, CleanupCancel
    <3>2. Quiet
      BY Zenon, <3>1 DEF TreeInv, QuietInv
    <3>3. \A c \in Actors \ {Root} : <<Parent[c], c>> \in cancelled' =>
            <<Parent[c], c>> \in cancelled \/ c = a
      BY SMTT(30), <1>15 DEF TreeInv, AddressInv, CleanupCancel
    <3>4. QED
      <4>1. pc[a] = "cancel" /\ pc' = [pc EXCEPT ![a] = "gone"] /\ cancelled \subseteq cancelled'
        BY Zenon, <1>15 DEF CleanupCancel, Goto
      <4>2. UNCHANGED <<pills, current, todo>>
        BY Zenon, <1>15 DEF CleanupCancel
      <4>3. QED
        <5>1. \A b \in Actors \ {a} : pc'[b] = pc[b]
          BY Zenon, <4>1 DEF TreeInv, TypeOK
        <5>2. pc'[a] = "gone"
          BY Zenon, <4>1 DEF TreeInv, TypeOK
        <5>3. SUFFICES ASSUME NEW c \in Actors \ {Root}, NEW b \in Actors, b = Parent[c]
                       PROVE  /\ \A p \in Calls : p[2] = c => pills[p] = "new"
                              /\ pc'[c] \notin {"absent", "alive"} => pills[<<b, c>>] = "sent" /\ current[c] = <<b, c>>
                              /\ <<b, c>> \in cancelled' => pc'[c] = "gone"
                              /\ pc'[c] # "absent" /\ pc'[b] \in Reaping =>
                                   (pc'[b] = "poison" /\ c \in todo[b]) \/ <<b, c>> \in cancelled'
          BY <4>2, PillFacts DEF Quiet
        <5>4. (pc'[b] \in Reaping => pc[b] \in Reaping) /\ (pc[b] = "poison" => pc'[b] = "poison")
          BY Zenon, <4>1, <5>1, <5>2 DEF Reaping, Unlisted
        <5>5. CASE c = a
          BY ZenonT(30), <3>2, <3>3, <4>1, <4>2, <5>1, <5>2, <5>3, <5>4, <5>5 DEF Quiet
        <5>6. CASE c # a
          BY <3>2, <3>3, <4>1, <5>1, <5>3, <5>4, <5>6 DEF Quiet
        <5>7. QED
          BY Zenon, <5>5, <5>6
  <2>7. QED
    BY Zenon, <2>1, <2>2, <2>3, <2>4, <2>5, <2>6 DEF TreeInv
<1>16. CASE UNCHANGED vars
  BY <1>16 DEF TreeInv, TypeOK, RegistryInv, AddressInv, SpawnInv, ChildInv, QuietInv,
     Quiet, Known, vars
<1>17. QED
  BY Zenon, <1>1, <1>2, <1>3, <1>4, <1>5, <1>6, <1>7, <1>8, <1>9, <1>10, <1>11, <1>12, <1>13, <1>14,
     <1>15, <1>16 DEF Next, Deliver, Step

(* Supervision is always in a state that TreeInv describes. *)
THEOREM TreeInvariant == Spec => []TreeInv
BY TreeInit, TreeStep, PTL DEF Spec

(* process.go cleanup: whatever the tree, the callers and the panics, a    *)
(* parent is told Stopped when no child of it is alive, and when nobody    *)
(* else has stopped a child, each of its children was told Stopped before. *)
THEOREM ChildrenStopFirst == Spec => []ChildrenFirst
<1>1. TreeInv => ChildrenFirst
  <2> SUFFICES ASSUME TreeInv, NEW a \in stopped, NEW c \in Kids(a)
               PROVE  pc[c] # "alive" /\ (~disturbed /\ pc[c] # "absent" => c \in stopped)
    BY Zenon DEF ChildrenFirst
  <2>1. a \in Actors /\ pc[a] \in {"cancel", "gone"} /\ c \in Actors \ {Root} /\ a = Parent[c]
    BY Zenon DEF TreeInv, RegistryInv, Kids
  <2>2. pc[c] # "alive"
    BY Zenon, <2>1 DEF TreeInv, ChildInv, Known
  <2>3. ASSUME ~disturbed, pc[c] # "absent" PROVE c \in stopped
    <3>1. Quiet
      BY Zenon, <2>3 DEF TreeInv, QuietInv
    <3>2. pc[c] = "gone"
      BY Zenon, <2>1, <2>3, <3>1 DEF Quiet, Reaping, Unlisted
    <3>3. QED
      BY Zenon, <2>1, <3>2 DEF TreeInv, RegistryInv
  <2>4. QED
    BY Zenon, <2>2, <2>3
<1>2. QED
  BY <1>1, TreeInvariant, PTL
=============================================================================
