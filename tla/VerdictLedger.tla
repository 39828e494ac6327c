---------------------------- MODULE VerdictLedger ----------------------------
(***************************************************************************)
(* What the registration of verdicts promises, without files: a slot's     *)
(* first verdict is its last, and only a verdict that is in its slot ever  *)
(* gets a receipt. These are the steps Register and AppendReceipt that     *)
(* GoalRound takes for granted; VerdictSlot implements them.               *)
(***************************************************************************)
CONSTANTS
  Slots,     \* the slots of the goal
  Callers,   \* who registers
  Null       \* the spawn-time placeholder

VARIABLES
  owner,     \* owner[v]: the caller whose verdict is in slot v, or Null
  receipted  \* the callers that have a receipt

ledger == <<owner, receipted>>

Init ==
  /\ owner = [v \in Slots |-> Null]
  /\ receipted = {}

Register(v, c) ==
  /\ owner[v] = Null
  /\ owner' = [owner EXCEPT ![v] = c]
  /\ UNCHANGED receipted

Acknowledge(v) ==
  /\ owner[v] # Null
  /\ receipted' = receipted \cup {owner[v]}
  /\ UNCHANGED owner

Next == \E v \in Slots : Acknowledge(v) \/ \E c \in Callers : Register(v, c)

Spec == Init /\ [][Next]_ledger
==============================================================================
