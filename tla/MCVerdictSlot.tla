--------------------------- MODULE MCVerdictSlot ---------------------------
(***************************************************************************)
(* TLC instances of VerdictSlot: three jewije invocations and two slots,   *)
(* one of which takes overlapping invocations.                             *)
(***************************************************************************)
EXTENDS VerdictSlot, TLC

CONSTANTS call1, call2, call3

Calls == Permutations({call1, call2, call3})
=============================================================================
