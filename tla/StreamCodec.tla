---------------------------- MODULE StreamCodec ----------------------------
(***************************************************************************)
(* The envelope that streamWriter.Invoke builds from a batch               *)
(* (src/remote/stream_writer.go) and what streamReader.Receive makes of it *)
(* on the other side (src/remote/stream_reader.go): PIDs and type names    *)
(* are sent once, in tables, and a message refers to them by index.        *)
(***************************************************************************)
EXTENDS Integers, Sequences, Functions

CONSTANTS Nobody,   \* the nil *PID
          Empty     \* the payload that decodes from no bytes

(* lookupTypeName: the index of a key in its table, which grows on demand. *)
(* Indexes start at 0.  LookupKey is taken to be injective.                *)
lookup(table, key) ==
  IF \E i \in 1..Len(table) : table[i] = key
    THEN [id |-> (CHOOSE i \in 1..Len(table) : table[i] = key) - 1, table |-> table]
    ELSE [id |-> Len(table), table |-> Append(table, key)]

(* Faulty: the first PID found stands for all *)
lookupPIDsFirst(table, pid) ==
  IF pid = Nobody \/ table # <<>> THEN [id |-> 0, table |-> table] ELSE lookup(table, pid)

(* lookupPIDs: a nil PID is index 0 and enters no table. *)
lookupPIDs(table, pid) ==
  IF pid = Nobody THEN [id |-> 0, table |-> table] ELSE lookup(table, pid)

(* One turn of the loop of Invoke: the tables grow, ... *)
EncodeNext(tables, d) ==
  [types   |-> lookup(tables.types, d.type).table,
   senders |-> lookupPIDs(tables.senders, d.sender).table,
   targets |-> lookupPIDs(tables.targets, d.target).table]

(* ... and messages[i] refers to them.  A message for which Serialize      *)
(* returns an error leaves its place nil, which travels as a Message of    *)
(* zeros; one that makes it panic is not encoded (InvokePanic of Streams). *)
EncodeMessage(tables, d) ==
  IF d.serializable
    THEN [data   |-> d.data,
          type   |-> lookup(tables.types, d.type).id,
          sender |-> lookupPIDs(tables.senders, d.sender).id,
          target |-> lookupPIDs(tables.targets, d.target).id]
    ELSE [data |-> Empty, type |-> 0, sender |-> 0, target |-> 0]

NoTables == [types |-> <<>>, senders |-> <<>>, targets |-> <<>>]

(* The tables after each turn *)
Tables(batch) ==
  LET tables[i \in 0..Len(batch)] ==
        IF i = 0 THEN NoTables ELSE EncodeNext(tables[i - 1], batch[i])
  IN tables

Encode(batch) ==
  LET n == Len(batch)
      tables == Tables(batch)
  IN [types    |-> tables[n].types,
      senders  |-> tables[n].senders,
      targets  |-> tables[n].targets,
      messages |-> [i \in 1..n |-> EncodeMessage(tables[i - 1], batch[i])]]

(* Receive: what the reader hands to SendLocal for a message *)
Decode(env, msg) ==
  [data   |-> msg.data,
   type   |-> env.types[msg.type + 1],
   target |-> env.targets[msg.target + 1],
   sender |-> IF env.senders # <<>> THEN env.senders[msg.sender + 1] ELSE Nobody]
=============================================================================
