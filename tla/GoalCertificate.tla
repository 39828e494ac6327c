--------------------------- MODULE GoalCertificate ---------------------------
(***************************************************************************)
(* What verifier-loop promises of one goal, without processes, locks,      *)
(* files or sessions: in every round each verifier slot takes at most one  *)
(* ballot, which is then final, and a certificate (completion.json) is     *)
(* issued only for a set of slots that all carry an APPROVE ballot of its  *)
(* round and that is at least as large as the requirement in force.        *)
(* GoalRound implements this specification.                                *)
(***************************************************************************)
EXTENDS Naturals, FiniteSets

CONSTANTS
  Rounds,        \* round numbers, from 1
  Slots,         \* verifier slots of a round
  Requirements   \* the values the requirement n may take

VARIABLES
  ballot,        \* ballot[r][v]: the verdict of slot v in round r
  certificate    \* the completion record

vars == <<ballot, certificate>>

NoCertificate == [round |-> 0, matching |-> {}, need |-> 0]

Init ==
  /\ ballot = [r \in Rounds |-> [v \in Slots |-> "none"]]
  /\ certificate = NoCertificate

\* A slot's first ballot is its last.
Cast(r, v) ==
  /\ ballot[r][v] = "none"
  /\ \E b \in {"approve", "reject"} : ballot' = [ballot EXCEPT ![r][v] = b]
  /\ UNCHANGED certificate

Approvals(r) == {v \in Slots : ballot[r][v] = "approve"}

\* A later round, or the same round read again, may issue a new certificate.
Certify(r) ==
  /\ \E S \in SUBSET Approvals(r), n \in Requirements :
        /\ Cardinality(S) >= n
        /\ certificate' = [round |-> r, matching |-> S, need |-> n]
  /\ UNCHANGED ballot

Next == \E r \in Rounds : Certify(r) \/ \E v \in Slots : Cast(r, v)

Spec == Init /\ [][Next]_vars
==============================================================================
