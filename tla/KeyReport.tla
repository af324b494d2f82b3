----------------------------- MODULE KeyReport -----------------------------
(***************************************************************************)
(* The keyboard report as data: a set of pressed keycodes, how one key     *)
(* event changes it, and what a run of events adds up to.  The byte layout *)
(* (modifier bits, six-key array, key bitmap) is abstracted to the set it  *)
(* encodes; ReportRoom is how many non-modifier keys the layout can hold:  *)
(* SKRO_KEYS_SIZE for the 6KRO layout, all of them for the NKRO layout.    *)
(***************************************************************************)
EXTENDS Naturals, Sequences, FiniteSets

CONSTANTS
  Keys,         (* non-modifier keycodes, below KC_LCTRL   *)
  Mods,         (* modifier keycodes, KC_LCTRL and above   *)
  ReportRoom    (* non-modifier keys that fit in a report  *)

ASSUME KeysAssumption ==
  /\ IsFiniteSet(Keys)
  /\ IsFiniteSet(Mods)
  /\ Keys \cap Mods = {}
  /\ ReportRoom \in Nat

KeyCode == Keys \cup Mods
KeyEvent == [key : KeyCode, press : BOOLEAN]

Press(k) == [key |-> k, press |-> TRUE]
Release(k) == [key |-> k, press |-> FALSE]

(* Would update_report() return true?  A press needs the key up and room   *)
(* for it, a release needs the key down; anything else leaves the report.  *)
CanUpdate(report, e) ==
  IF e.press
  THEN /\ e.key \notin report
       /\ e.key \in Keys => Cardinality(report \cap Keys) < ReportRoom
  ELSE e.key \in report

(* The report after a successful update_report().                          *)
Updated(report, e) ==
  IF e.press THEN report \cup {e.key} ELSE report \ {e.key}

(* The keys down after the events of es, in order, starting from down: the *)
(* last event of a key decides, a key without one keeps its state.         *)
Effect(down, es) ==
  {k \in KeyCode :
    \E i \in 0 .. Len(es) :
      /\ IF i = 0 THEN k \in down ELSE es[i] = Press(k)
      /\ \A j \in i + 1 .. Len(es) : es[j].key # k}

=============================================================================
