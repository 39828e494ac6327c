----------------------------- MODULE PipelineRound -----------------------------
(***************************************************************************)
(* One goal under a configuration with a dump or a smart adapter: NEW and  *)
(* RESUME run a pipeline of two phases in one invocation, each a vote of   *)
(* its own, and two counters in state.json decide whether the default      *)
(* (PL-D) or the escalated pipeline (PL-E) is run. RECOVER and STATUS read *)
(* the slots that such an invocation has left behind.                      *)
(*                                                                         *)
(* Simplifications. One command at a time: the goal lock is module         *)
(* GoalRound, and so are the pipes of a killed child and the receipts.     *)
(* What goes on between a verifier's launch and its exit is module         *)
(* VerifierSession; here a session ends with its verdict or without one.   *)
(* The slots are those of the current round: only prompts read earlier     *)
(* ones. The verdicts of a batch are read in one step, which sees nothing  *)
(* that reading them one by one could not see: they are final, and do not  *)
(* depend on each other. Signatures verify. config.json is not edited.     *)
(***************************************************************************)
EXTENDS Integers, Sequences, FiniteSets

CONSTANTS
  Configs,    \* records [n, m, confirm, threshold, retries] to consider
  MaxNum,     \* bound: the largest number in a verifier id
  MaxRound,   \* bound: rounds a run may reach
  MaxAborts   \* bound: kills, failures and writes cut short

ASSUME BoundAssumption ==
  MaxNum \in Nat /\ MaxRound \in Nat /\ MaxAborts \in Nat
\* Config::validate refuses anything else.
ASSUME ConfigAssumption ==
  \A c \in Configs :
    /\ c = [n |-> c.n, m |-> c.m, confirm |-> c.confirm,
            threshold |-> c.threshold, retries |-> c.retries]
    /\ c.n \in Nat \ {0} /\ c.m \in Nat /\ c.n <= c.m
    /\ c.confirm \in Nat \ {0} /\ c.m + c.confirm <= MaxNum
    /\ c.threshold \in Nat /\ c.retries \in Nat

\* A verifier's directory: phase 1a or 1b, role dump or smart, and number.
Slots == (1..2) \X {"d", "s"} \X (1..MaxNum)

VARIABLES
  conf,        \* config.json
  state,       \* state.json: round (0 before NEW), escaCount, escalationDepth
  torn,        \* whether its last rewrite was cut short: then it does not parse
  verdict,     \* verdict[s], s in the current round: "none" without a directory
  session,     \* session[s]: the verifier that works for slot s
  completion,  \* completion.json; NoCompletion when absent
  cmd,         \* the command that holds the goal lock
  log,         \* history: outcomes written to state.json, the oldest first
  aborts       \* commands killed or failed, and writes cut short

vars == <<conf, state, torn, verdict, session, completion, cmd, log, aborts>>

NoCompletion == [round |-> 0, matching |-> {}, tag |-> "none", depth |-> 0]
Fresh        == [s \in Slots |-> "none"]
Idle == [pc |-> "idle", saved |-> [round |-> 0, esca |-> 0, depth |-> 0],
         tag |-> "none", phase |-> 1, role |-> "d", ok |-> {}, union |-> {},
         passed |-> FALSE]

Init ==
  /\ conf \in Configs
  /\ state = [round |-> 0, esca |-> 0, depth |-> 0]
  /\ torn = FALSE
  /\ verdict = Fresh
  /\ session = Fresh
  /\ completion = NoCompletion
  /\ cmd = Idle
  /\ log = <<>>
  /\ aborts = 0

-------------------------------------------------------------------------------
\* The pipelines

Phase(dump, smart, threshold) == [d |-> dump, s |-> smart, threshold |-> threshold]

\* Mutant: the Mixed phase asks for n approvals, as Gate does.
PipelineLax(tag) ==
  IF tag = "PL-E"
    THEN <<Phase(conf.m \div 2, conf.m - conf.m \div 2, conf.n),
           Phase(0, conf.confirm, conf.confirm)>>
    ELSE <<Phase(conf.m, 0, conf.n), Phase(0, conf.confirm, conf.confirm)>>

\* PL-D is Gate then Confirm, PL-E is Mixed (unanimous) then Final.
Pipeline(tag) ==
  IF tag = "PL-E"
    THEN <<Phase(conf.m \div 2, conf.m - conf.m \div 2, conf.m),
           Phase(0, conf.confirm, conf.confirm)>>
    ELSE <<Phase(conf.m, 0, conf.n), Phase(0, conf.confirm, conf.confirm)>>

\* Mutant: each phase numbers its verifiers from 1.
OffsetZero(tag, phase, role) == 0

\* Verifier numbers go on from the invocation's earlier phase.
Offset(tag, phase, role) == IF phase = 1 THEN 0 ELSE Pipeline(tag)[1][role]

\* The slots of one call of spawn_round or spawn_resume.
Batch(tag, phase, role) ==
  LET first == Offset(tag, phase, role)
  IN  {<<phase, role, first + k>> : k \in 1..Pipeline(tag)[phase][role]}

PhaseSlots(tag, phase) == Batch(tag, phase, "d") \cup Batch(tag, phase, "s")

-------------------------------------------------------------------------------
\* The escalation counters

ShouldEscalate(st) ==
  /\ conf.threshold # 0 /\ conf.m >= 2
  /\ st.esca >= conf.threshold
  /\ ~(conf.retries > 0 /\ st.depth >= conf.retries)

Outcome(c) ==
  CASE c.tag = "PL-D" /\ c.passed                -> "default_approve"
    [] c.tag = "PL-D" /\ ~c.passed /\ c.phase = 1 -> "gate_reject"
    [] c.tag = "PL-D" /\ ~c.passed /\ c.phase = 2 -> "confirm_reject"
    [] c.tag = "PL-E" /\ c.passed                -> "escalated_approve"
    [] c.tag = "PL-E" /\ ~c.passed /\ c.phase = 1 -> "mixed_reject"
    [] c.tag = "PL-E" /\ ~c.passed /\ c.phase = 2 -> "final_reject"

\* Only a rejection by Confirm keeps the streak; a failed escalation counts.
ApplyOutcome(st, out) ==
  IF out = "confirm_reject"
    THEN [st EXCEPT !.esca = IF conf.m >= 2 /\ conf.threshold > 0 THEN @ + 1 ELSE @]
    ELSE [st EXCEPT !.esca = 0,
                    !.depth = IF out \in {"mixed_reject", "final_reject"}
                                THEN @ + 1 ELSE @]

-------------------------------------------------------------------------------
\* What STATUS sees

SlotDirs  == {s \in Slots : verdict[s] # "none"}
Approvals == {s \in Slots : verdict[s] = "approve"}
Nulls     == {s \in Slots : verdict[s] = "null"}

Needs ==
  IF completion # NoCompletion THEN "done"
  ELSE IF SlotDirs # {} /\ Nulls = {} /\ Cardinality(Approvals) < conf.n
         THEN "resume" ELSE "recover"

-------------------------------------------------------------------------------
\* NEW and RESUME: the run of a pipeline

\* state.json is rewritten in place: a kill or a full disk cuts it short.
Whole == torn' = FALSE /\ aborts' = aborts
Tear  == torn' = TRUE /\ aborts < MaxAborts /\ aborts' = aborts + 1

\* goal::new and goal::resume; a write cut short is the end of the command.
Begin(st) ==
  /\ cmd.pc = "idle"
  /\ st.round < MaxRound
  /\ state' = [st EXCEPT !.round = @ + 1]
  /\ verdict' = Fresh
  /\ session' = Fresh
  /\ \/ Whole /\ cmd' = [Idle EXCEPT !.pc = "pick"]
     \/ Tear /\ cmd' = Idle
  /\ UNCHANGED <<conf, completion, log>>

\* StateRecord::default()
DefaultState == [round |-> 1, esca |-> 0, depth |-> 0]

New == state.round = 0 /\ Begin(state)

\* Mutant: RESUME takes a state.json that does not parse for an absent one.
ResumeLenient ==
  /\ state.round > 0
  /\ Begin(IF torn THEN DefaultState ELSE state)

\* goal::resume refuses a state.json that does not parse.
Resume == state.round > 0 /\ ~torn /\ Begin(state)

\* The health log of the store says so: the fallback hash, no pipeline.
Cooldown ==
  /\ cmd.pc = "pick"
  /\ cmd' = Idle
  /\ UNCHANGED <<conf, state, torn, verdict, session, completion, log, aborts>>

\* All of state.json is read here, and written back by Record. Unlike RESUME,
\* this reader takes a file that does not parse for the default.
Pick ==
  LET read == IF torn THEN DefaultState ELSE state IN
  /\ cmd.pc = "pick"
  /\ cmd' = [cmd EXCEPT !.pc = "create", !.saved = read,
               !.tag = IF ShouldEscalate(read) THEN "PL-E" ELSE "PL-D"]
  /\ UNCHANGED <<conf, state, torn, verdict, session, completion, log, aborts>>

Current == Batch(cmd.tag, cmd.phase, cmd.role)
Missing == {s \in Current : verdict[s] = "none"}

\* Directories, keys and placeholders come first, in the order of the ids.
Create ==
  /\ cmd.pc = "create"
  /\ \E s \in Missing :
        /\ \A t \in Missing : s[3] <= t[3]
        /\ verdict' = [verdict EXCEPT ![s] = "null"]
  /\ UNCHANGED <<conf, state, torn, session, completion, cmd, log, aborts>>

\* Then every child is started. A launch that breaks off is one whose
\* remaining sessions end at once.
Launch ==
  /\ cmd.pc = "create"
  /\ Missing = {}
  /\ session' = [s \in Slots |-> IF s \in Current THEN "live" ELSE session[s]]
  /\ cmd' = [cmd EXCEPT !.pc = "gather"]
  /\ UNCHANGED <<conf, state, torn, verdict, completion, log, aborts>>

\* verifier_timeout_sec: the child is killed, what it has started may go on.
Timeout(s) ==
  /\ cmd.pc = "gather"
  /\ s \in Current
  /\ session[s] = "live"
  /\ \E after \in {"stray", "ended"} : session' = [session EXCEPT ![s] = after]
  /\ UNCHANGED <<conf, state, torn, verdict, completion, cmd, log, aborts>>

\* All children of the batch are reaped, its verdicts are read, and the smart
\* batch follows the dump batch.
Gather ==
  /\ cmd.pc = "gather"
  /\ \A s \in Current : session[s] # "live"
  /\ cmd' = [cmd EXCEPT !.ok = @ \cup (Current \cap Approvals),
                        !.role = "s",
                        !.pc = IF cmd.role = "d" THEN "create" ELSE "evaluate"]
  /\ UNCHANGED <<conf, state, torn, verdict, session, completion, log, aborts>>

\* Mutant: the loop over the phases runs once too often.
LastNever(phase) == FALSE

LastPhase(phase) == phase = 2

\* Mutant: a phase that rejects does not end the invocation.
GoOnAlways(passed) == ~LastPhase(cmd.phase)

GoOn(passed) == passed /\ ~LastPhase(cmd.phase)

\* consensus::evaluate with the phase's threshold; its size condition holds,
\* as every slot of the phase is handed in. A rejection ends the invocation.
Evaluate ==
  LET passed == Cardinality(cmd.ok) >= Pipeline(cmd.tag)[cmd.phase].threshold
      won    == IF passed THEN cmd.union \cup cmd.ok ELSE cmd.union IN
  /\ cmd.pc = "evaluate"
  /\ cmd' = IF GoOn(passed)
              THEN [cmd EXCEPT !.phase = @ + 1, !.role = "d", !.pc = "create",
                               !.union = won, !.ok = {}]
              ELSE [cmd EXCEPT !.passed = passed, !.pc = "record", !.union = won]
  /\ UNCHANGED <<conf, state, torn, verdict, session, completion, log, aborts>>

\* The counters are saved first; a rejection ends the command here. An error
\* of this write is dropped, so that only a kill in it ends a passed command.
Record ==
  /\ cmd.pc = "record"
  /\ state' = ApplyOutcome(cmd.saved, Outcome(cmd))
  /\ log' = Append(log, Outcome(cmd))
  /\ \/ /\ Whole \/ Tear
        /\ cmd' = IF cmd.passed THEN [cmd EXCEPT !.pc = "write"] ELSE Idle
     \/ Tear /\ cmd' = Idle
  /\ UNCHANGED <<conf, verdict, session, completion>>

\* write_completion, over the approvals of all phases.
Write ==
  /\ cmd.pc = "write"
  /\ completion' = [NoCompletion EXCEPT !.round = cmd.saved.round,
                                        !.matching = cmd.union]
  /\ cmd' = [cmd EXCEPT !.pc = "patch"]
  /\ UNCHANGED <<conf, state, torn, verdict, session, log, aborts>>

\* completion.json is read back and gets its pipeline and depth.
Patch ==
  /\ cmd.pc = "patch"
  /\ completion' = [completion EXCEPT !.tag = cmd.tag, !.depth = state.depth]
  /\ cmd' = Idle
  /\ UNCHANGED <<conf, state, torn, verdict, session, log, aborts>>

-------------------------------------------------------------------------------
\* RECOVER

Recover ==
  /\ cmd.pc = "idle"
  /\ state.round > 0 /\ ~torn
  /\ Needs = "recover"
  /\ cmd' = [Idle EXCEPT !.pc = "scan"]
  /\ UNCHANGED <<conf, state, torn, verdict, session, completion, log, aborts>>

\* The slots of all phases make one vote of n; until it is won RECOVER polls.
Won == Cardinality(Approvals) >= conf.n /\ Cardinality(SlotDirs) >= conf.m

\* finish_pass: no pipeline, no depth, no phase in a verdict (phase 0 here),
\* and the counters stay as they are.
Harvest ==
  /\ cmd.pc = "scan"
  /\ Won
  /\ completion' = [NoCompletion EXCEPT !.round = state.round,
                                        !.matching = {<<0, s[2], s[3]>> : s \in Approvals}]
  /\ cmd' = Idle
  /\ UNCHANGED <<conf, state, torn, verdict, session, log, aborts>>

\* Mutant: RECOVER has no deadline.
GiveUpDecided ==
  /\ cmd.pc = "scan"
  /\ ~Won
  /\ SlotDirs # {} /\ Nulls = {}
  /\ cmd' = Idle
  /\ UNCHANGED <<conf, state, torn, verdict, session, completion, log, aborts>>

\* Nothing is null any more, or the deadline has passed.
GiveUp ==
  /\ cmd.pc = "scan"
  /\ ~Won
  /\ cmd' = Idle
  /\ UNCHANGED <<conf, state, torn, verdict, session, completion, log, aborts>>

-------------------------------------------------------------------------------
\* AUDIT

\* AUDIT's second check: approvals without a phase are one vote of n of m;
\* otherwise their sum, over two phases or more, is held to the sums of the
\* phases' thresholds and sizes.
AuditCount ==
  LET count  == Cardinality(completion.matching)
      phases == {s[1] : s \in completion.matching}
      gate   == IF completion.tag = "PL-E" THEN conf.m ELSE conf.n
  IN  IF phases \subseteq {0}
        THEN count \in conf.n .. conf.m
        ELSE /\ count \in (gate + conf.confirm) .. (conf.m + conf.confirm)
             /\ \E p, q \in phases : p # q

-------------------------------------------------------------------------------
\* Verifiers and the environment

\* jewije, told its phase by VERIFIER_LOOP_PHASE; the verifier then ends.
Register(s) ==
  /\ session[s] \in {"live", "stray"}
  /\ verdict[s] = "null"
  /\ \E b \in {"approve", "reject"} : verdict' = [verdict EXCEPT ![s] = b]
  /\ session' = [session EXCEPT ![s] = "ended"]
  /\ UNCHANGED <<conf, state, torn, completion, cmd, log, aborts>>

Die(s) ==
  /\ session[s] \in {"live", "stray"}
  /\ session' = [session EXCEPT ![s] = "ended"]
  /\ UNCHANGED <<conf, state, torn, verdict, completion, cmd, log, aborts>>

\* An error return or a kill: what is on disk stays, and so may the verifiers.
Abort ==
  /\ cmd.pc # "idle"
  /\ aborts < MaxAborts
  /\ aborts' = aborts + 1
  /\ cmd' = Idle
  /\ UNCHANGED <<conf, state, torn, verdict, session, completion, log>>

RunPhase == Create \/ Launch \/ Gather \/ Evaluate \/ \E s \in Slots : Timeout(s)
Command  == \/ Cooldown \/ Pick \/ RunPhase \/ Record \/ Write \/ Patch
            \/ Harvest \/ GiveUp

Next ==
  \/ New \/ Resume \/ Recover \/ Command \/ Abort
  \/ \E s \in Slots : Register(s) \/ Die(s)

Spec == Init /\ [][Next]_vars

\* A running command takes its steps, and its clocks advance. Verifiers owe
\* nothing.
FairSpec == Spec /\ WF_vars(Command)

-------------------------------------------------------------------------------
\* Properties

Policy == INSTANCE EscalationPolicy

Verdicts == {"none", "null", "approve", "reject"}
Tags     == {"none", "PL-D", "PL-E"}
States   == [round : 0..MaxRound, esca : Nat, depth : Nat]
PCs      == {"idle", "pick", "create", "gather", "evaluate", "record", "write",
             "patch", "scan"}

\* Types of the goal's files, of the verifiers and of the command.
TypeOK ==
  /\ conf \in Configs
  /\ state \in States
  /\ torn \in BOOLEAN
  /\ verdict \in [Slots -> Verdicts]
  /\ session \in [Slots -> {"none", "live", "stray", "ended"}]
  /\ completion \in [round : 0..MaxRound,
                     matching : SUBSET ((0..2) \X {"d", "s"} \X (1..MaxNum)),
                     tag : Tags, depth : Nat]
  /\ cmd \in [pc : PCs, saved : States, tag : Tags, phase : 1..2,
              role : {"d", "s"}, ok : SUBSET Slots, union : SUBSET Slots,
              passed : BOOLEAN]
  /\ log \in Seq(Policy!Outcomes)
  /\ aborts \in 0..MaxAborts

\* A completion that names a pipeline rests on a vote that each phase of that
\* pipeline has won on its own threshold, and, while its round is current, on
\* approvals that are on disk.
EveryPhasePassed ==
  completion.tag # "none" =>
    /\ \A p \in 1..2 :
         Cardinality(completion.matching \cap PhaseSlots(completion.tag, p))
           >= Pipeline(completion.tag)[p].threshold
    /\ completion.round = state.round => completion.matching \subseteq Approvals

\* Verifiers of the second phase are spawned only after the first phase was
\* won: whatever has been killed since, its approvals are on disk.
PhasesInOrder ==
  (\E s \in SlotDirs : s[1] = 2) =>
    LET first == {s \in Approvals : s[1] = 1}
        mixed == \E s \in SlotDirs : s[1] = 1 /\ s[2] = "s"
    IN  Cardinality(first) >= IF mixed THEN conf.m ELSE conf.n

\* A verifier id names one slot of a round: RECOVER, the receipts and the
\* digest tell slots apart by their ids, not by their phases.
IdsDistinct ==
  \A s, t \in SlotDirs : s[2] = t[2] /\ s[3] = t[3] => s = t

\* The counters of state.json, over kills, cooldowns and recoveries, escalate
\* when the outcomes so far call for it, by every reading of the design, the
\* comments and the code, and never when no reading allows it.
EscalatesByPolicy == Policy!Spec

\* AUDIT, which adds the phases up, accepts whatever a pipeline has completed,
\* tagged or cut off before Patch, and refuses a completion only where RECOVER
\* has pooled the approvals of both phases into more than m.
AuditAccepts ==
  completion # NoCompletion =>
    (AuditCount <=> \/ \E s \in completion.matching : s[1] # 0
                    \/ Cardinality(completion.matching) <= conf.m)

\* Every command ends, whatever its verifiers do.
CommandEnds == cmd.pc # "idle" ~> cmd.pc = "idle"

\* Claimed by pipeline/mod.rs: a rejection in the unanimous second phase is
\* the end of its round, so a round with one has no completion.
RejectIsFinal ==
  completion.round = state.round =>
    \A s \in SlotDirs : s[1] = 2 => verdict[s] # "reject"
================================================================================
