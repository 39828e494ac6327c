----------------------------- MODULE MCSlotKey ------------------------------
(* Instance of SlotKey for TLC. *)
EXTENDS SlotKey

CONSTANTS mint1, mint2, mint3, child, nudge

Mints    == {mint1, mint2, mint3}
Children == {child, nudge}
=============================================================================
