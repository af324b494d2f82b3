---------------------------- MODULE MCPersistent ----------------------------
(***************************************************************************)
(* An instance of Persistent: a memory of four smallest blocks, the entry  *)
(* of the firmware and two of a script.                                    *)
(***************************************************************************)
EXTENDS Persistent

CONSTANTS A, B

MCWidth == [l \in Levels |-> 2 ^ (SEEPROM_SIZE2 - l)]

\* A long string (data 2 or 3) takes twice the space of any other value, and
\* "last_host_port" twice the space of the other names.
MCNeed ==
  [e \in Names \X Values |->
     (IF e[1] = First THEN 1 ELSE 0)
     + (IF e[2][1] = "TSTRING" /\ e[2][2] > 1 THEN 1 ELSE 0)]

MCRequests ==
  {[call |-> "nil", name |-> n, data |-> 1] : n \in Names}
  \cup {[call |-> "set", name |-> First, data |-> 1],
        [call |-> "float", name |-> First, data |-> 1],
        [call |-> "int", name |-> A, data |-> 1],
        [call |-> "string", name |-> A, data |-> 2],
        [call |-> "string", name |-> B, data |-> 1]}
=============================================================================
