----------------------------- MODULE NameValues -----------------------------
(***************************************************************************)
(* What persistent storage promises to the firmware and to Lua scripts,    *)
(* without blocks, headers or buffers: a map from names to values and a    *)
(* saved copy of it.  An operation changes the value of one name; a power  *)
(* loss takes the map back to the saved copy, and the map is emptied only  *)
(* at a boot that does not find the entry it is recognised by (First).     *)
(* Nothing is promised any more once a power loss has torn an entry.       *)
(***************************************************************************)

CONSTANTS
  Names,
  Values,
  First,    (* the entry a store is recognised by  *)
  NoValue   (* the name is not in the map          *)

VARIABLES
  map,      (* what a reader finds                               *)
  known,    (* First is in its place                             *)
  saved,    (* the map and known, as they survive a power loss   *)
  torn      (* a power loss has cut short the making of an entry *)

vars == <<map, known, saved, torn>>

Empty == [n \in Names |-> NoValue]

Init ==
  /\ map = Empty
  /\ known = FALSE
  /\ saved = [map |-> Empty, known |-> FALSE]
  /\ torn = FALSE

(* Putting First into its place is possible, pushing it out is not.        *)
Put(n, v) ==
  /\ map' = [map EXCEPT ![n] = v]
  /\ known => known'
  /\ n # First => known' = known
  /\ UNCHANGED <<saved, torn>>

Delete(n) ==
  /\ map' = [map EXCEPT ![n] = NoValue]
  /\ known' = (known /\ n # First)
  /\ UNCHANGED <<saved, torn>>

Save ==
  /\ saved' = [map |-> map, known |-> known]
  /\ UNCHANGED <<map, known, torn>>

Boot ==
  /\ IF saved.known
     THEN map' = saved.map /\ known' = TRUE
     ELSE map' = Empty /\ known' = FALSE
  /\ UNCHANGED <<saved, torn>>

Next ==
  \/ torn \/ torn'
  \/ \E n \in Names : Delete(n) \/ \E v \in Values : Put(n, v)
  \/ Save
  \/ Boot

Spec == Init /\ [][Next]_vars
=============================================================================
