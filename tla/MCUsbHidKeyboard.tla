--------------------------- MODULE MCUsbHidKeyboard ---------------------------
(***************************************************************************)
(* Model values for TLC: the configurations choose among these keycodes.   *)
(***************************************************************************)
EXTENDS UsbHidKeyboard

CONSTANTS
  a, b,   (* non-modifier keycodes *)
  m       (* a modifier keycode    *)

ASSUME KeycodesAssumption == Cardinality({a, b, m}) = 3

=============================================================================
