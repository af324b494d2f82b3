------------------------------ MODULE MCKeymap ------------------------------
(***************************************************************************)
(* Three keys after user_logic/keymap.extended.lua: its tSPACE, its tFN,   *)
(* and its m1 with the outer ModIf of mLSHFT inside and UNDO_MODIFIER      *)
(* outside.                                                                *)
(*                                                                         *)
(*   tSPACE = TapSeq(tSpace, tSpace, Lit("SPACE")), where                  *)
(*   tSpace = TapHold(Lit("SPACE"), Lit("RSHFT"),                          *)
(*                    HoldOnRelease|QuickRelease)                          *)
(*   tFN    = TapHold(Lit("ESC"), FN, HoldOnPress)                         *)
(*   m1     = ModIf(FN, Lit("F1"), mS, UNDO_MODIFIER), where               *)
(*   mS     = ModIf(tSPACE, Lit("SPACE"), t1) and                          *)
(*   t1     = TapHold(Lit("1"), Lit("F1"),                                 *)
(*                    TapOnPress|TapOnRelease|HoldIsTap)                   *)
(*                                                                         *)
(* Lit() makes one keymap of a key, and HoldIsTap makes a OneShot.  The    *)
(* keymaps are strings, as names of the fields of these records.           *)
(***************************************************************************)
EXTENDS Keymap

MCChild ==
  [tSPACE |-> <<"tSpace", "tSpace", "SPACE">>,
   tSpace |-> <<"SPACE", "RSHFT">>,
   tFN    |-> <<"ESC", "FN">>,
   m1     |-> <<"FN", "F1", "mS">>,
   mS     |-> <<"tSPACE", "SPACE", "t1">>,
   t1     |-> <<"ONE", "shotF1">>,
   shotF1 |-> <<"F1">>,
   FN     |-> <<>>,
   SPACE |-> <<>>, RSHFT |-> <<>>, F1 |-> <<>>, ONE |-> <<>>, ESC |-> <<>>]

MCMaps == DOMAIN MCChild

\* How deep the keymaps in it are nested.
MCMade ==
  [m \in MCMaps |->
    CASE m = "tSPACE" -> 2
      [] m \in {"tSpace", "tFN", "shotF1"} -> 1
      [] m = "t1" -> 2
      [] m = "mS" -> 3
      [] m = "m1" -> 4
      [] OTHER -> 0]

MCClass ==
  [m \in MCMaps |->
    CASE m = "tSPACE" -> "TapSeq"
      [] m \in {"tSpace", "tFN", "t1"} -> "TapHold"
      [] m \in {"m1", "mS"} -> "ModIf"
      [] m = "shotF1" -> "OneShot"
      [] m = "FN" -> "Pseudo"
      [] OTHER -> "Lit"]

MCFlavor ==
  [m \in MCMaps |->
    CASE m = "tSpace" -> {"HoldOnRelease", "QuickRelease"}
      [] m = "tFN" -> {"HoldOnPress"}
      [] m = "m1" -> {"UNDO_MODIFIER"}
      [] m = "t1" -> {"TapOnPress", "TapOnRelease"}
      [] OTHER -> {}]

MCTable == <<"tSPACE", "m1", "tFN">>

MCNoMap == "false"

\* The same with HoldOnPress for the TapHold inside the TapSeq.
MCHoldOnPress ==
  [MCFlavor EXCEPT !["tSpace"] = {"HoldOnPress"}]

(* These keymaps are calm, as all of the repository's are.  They are not   *)
(* with HoldOnPress inside the TapSeq: one press may end the TapSeq and    *)
(* the TapHold that it had started.                                        *)
ASSUME CalmAsInTheRepository == Calm <=> Flavor = MCFlavor
=============================================================================
