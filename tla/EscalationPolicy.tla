--------------------------- MODULE EscalationPolicy ---------------------------
(***************************************************************************)
(* What escalation promises, without counters, files, rounds or crashes:   *)
(* whether a goal's next invocation runs the escalated pipeline (PL-E) or  *)
(* the default one (PL-D) follows from the outcomes of the earlier ones.   *)
(* PipelineRound implements this with two counters in state.json.          *)
(*                                                                         *)
(* The design (D5), the comments of esca.rs and its code are read together *)
(* here. Where they disagree the policy leaves both answers open:          *)
(*   - a rejection by Gate between two by Confirm: the streak survives it  *)
(*     (the comment on the outcome), or it ends (apply_outcome);           *)
(*   - a goal that has used up its escalations: it stops (the design), or  *)
(*     it is run with PL-D (the code); that it never escalates again is    *)
(*     common ground;                                                      *)
(*   - the escalations that are used up: all (the design) or those that    *)
(*     failed (the code), and whether a limit of 0 means none or no limit. *)
(***************************************************************************)
EXTENDS Integers, Sequences, FiniteSets

VARIABLES
  conf,   \* the escalation settings
  log     \* outcomes of the invocations so far, the oldest first

DefaultOutcomes   == {"default_approve", "gate_reject", "confirm_reject"}
EscalatedOutcomes == {"escalated_approve", "mixed_reject", "final_reject"}
Outcomes          == DefaultOutcomes \cup EscalatedOutcomes
FailedEscalation  == {"mixed_reject", "final_reject"}

Escalations(l) == {i \in DOMAIN l : l[i] \in EscalatedOutcomes}
Failures(l)    == {i \in DOMAIN l : l[i] \in FailedEscalation}

\* Whether the last k outcomes are refusals by the Confirm phase.
Streak(l, k) ==
  /\ k <= Len(l)
  /\ \A i \in (Len(l) - k + 1) .. Len(l) : l[i] = "confirm_reject"

\* The refusals by Confirm since the last outcome that ends a streak for sure.
Refusals(l) ==
  {i \in DOMAIN l : /\ l[i] = "confirm_reject"
                    /\ \A j \in i .. Len(l) : l[j] \in {"confirm_reject", "gate_reject"}}

\* A threshold of 0, or fewer than two slots, switches escalation off.
Enabled(c) == c.threshold > 0 /\ c.m >= 2

MustEscalate(c, l) ==
  /\ Enabled(c)
  /\ Streak(l, c.threshold)
  /\ Cardinality(Escalations(l)) < c.retries

MayEscalate(c, l) ==
  /\ Enabled(c)
  /\ Cardinality(Refusals(l)) >= c.threshold
  /\ c.retries > 0 => Cardinality(Failures(l)) < c.retries

Init == log = <<>>

Next ==
  /\ \/ MayEscalate(conf, log) /\ \E o \in EscalatedOutcomes : log' = Append(log, o)
     \/ ~MustEscalate(conf, log) /\ \E o \in DefaultOutcomes : log' = Append(log, o)
  /\ UNCHANGED conf

Spec == Init /\ [][Next]_<<conf, log>>
===============================================================================
