------------------------- MODULE PipelineRound_proofs -------------------------
(***************************************************************************)
(* A completion rests on both phases, the phases keep their order, ids are *)
(* unique in a round, and the counters follow the escalation policy, for   *)
(* every configuration and any number of rounds and kills.                 *)
(***************************************************************************)
EXTENDS PipelineRound, FiniteSetTheorems, TLAPS

-------------------------------------------------------------------------------
(***************************************************************************)
(* The slots of a pipeline                                                 *)
(***************************************************************************)

Tagged   == {"PL-D", "PL-E"}
All(tag) == PhaseSlots(tag, 1) \cup PhaseSlots(tag, 2)

LEMMA SlotsFinite == IsFiniteSet(Slots)
<1> DEFINE P == (1..2) \X {"d", "s"}
           f == [q \in P \X (1..MaxNum) |-> <<q[1][1], q[1][2], q[2]>>]
<1>1. IsFiniteSet(P \X (1..MaxNum))
  <2>1. IsFiniteSet(1..2) /\ IsFiniteSet(1..MaxNum)
    <3>1. 1 \in Int /\ 2 \in Int /\ MaxNum \in Int
      BY BoundAssumption
    <3> QED BY ONLY <3>1, FS_Interval
  <2>2. IsFiniteSet({"d"} \cup {"s"})
    BY FS_Singleton, FS_Union
  <2>3. {"d", "s"} = {"d"} \cup {"s"}
    OBVIOUS
  <2> QED BY <2>1, <2>2, <2>3, FS_Product
<1>2. f \in Surjection(P \X (1..MaxNum), Slots)
  <2>1. ASSUME NEW s \in Slots
        PROVE  \E q \in P \X (1..MaxNum) : f[q] = s
    <3>1. <<<<s[1], s[2]>>, s[3]>> \in P \X (1..MaxNum)
      BY DEF Slots
    <3>2. f[<<<<s[1], s[2]>>, s[3]>>] = s
      BY <3>1 DEF Slots
    <3> QED BY <3>1, <3>2
  <2>2. f \in [P \X (1..MaxNum) -> Slots]
    BY DEF Slots
  <2> QED BY <2>1, <2>2 DEF Surjection
<1> QED BY <1>1, <1>2, FS_Surjection

LEMMA Size ==
  ASSUME NEW S \in SUBSET Slots, NEW T \in SUBSET S
  PROVE  /\ IsFiniteSet(S)
         /\ Cardinality(S) \in Nat /\ Cardinality(T) \in Nat
         /\ Cardinality(T) <= Cardinality(S)
BY SlotsFinite, FS_Subset, FS_CardinalityType

LEMMA Config ==
  ASSUME conf \in Configs
  PROVE  /\ conf.n \in Nat \ {0} /\ conf.m \in Nat /\ conf.n <= conf.m
         /\ conf.confirm \in Nat \ {0} /\ conf.m + conf.confirm <= MaxNum
         /\ conf.threshold \in Nat /\ conf.retries \in Nat
         /\ conf.m \div 2 \in Nat /\ conf.m - conf.m \div 2 \in Nat
BY ConfigAssumption

\* How many verifiers of a role a phase has, and what it asks for.
LEMMA Counts ==
  ASSUME conf \in Configs
  PROVE  /\ Pipeline("PL-D")[1]["d"] = conf.m
         /\ Pipeline("PL-D")[1]["s"] = 0
         /\ Pipeline("PL-E")[1]["d"] = conf.m \div 2
         /\ Pipeline("PL-E")[1]["s"] = conf.m - conf.m \div 2
         /\ \A tag \in Tagged : /\ Pipeline(tag)[2]["d"] = 0
                                /\ Pipeline(tag)[2]["s"] = conf.confirm
         /\ Pipeline("PL-D")[1].threshold = conf.n
         /\ Pipeline("PL-E")[1].threshold = conf.m
         /\ \A tag \in Tagged : Pipeline(tag)[2].threshold = conf.confirm
BY Config DEF Pipeline, Phase, Tagged

LEMMA BatchSlot ==
  ASSUME conf \in Configs, NEW tag \in Tagged, NEW p \in 1..2,
         NEW r \in {"d", "s"}, NEW s \in Batch(tag, p, r)
  PROVE  /\ s \in Slots /\ s[1] = p /\ s[2] = r
         /\ p = 1 => s[3] <= Pipeline(tag)[1][r]
         /\ p = 2 => s[3] > Pipeline(tag)[1][r]
         /\ tag = "PL-D" /\ p = 1 => r = "d"
<1>1. PICK k \in 1..Pipeline(tag)[p][r] : s = <<p, r, Offset(tag, p, r) + k>>
  BY DEF Batch
<1>2. CASE p = 1
  <2>1. Offset(tag, p, r) = 0 /\ Pipeline(tag)[1][r] \in 0..conf.m
    BY <1>2, Counts, Config DEF Offset, Tagged
  <2>2. tag = "PL-D" => r = "d"
    BY <1>1, <1>2, Counts DEF Tagged
  <2> QED BY <1>1, <1>2, <2>1, <2>2, Config, BoundAssumption DEF Slots
<1>3. CASE p = 2
  <2>1. r = "s" /\ k \in 1..conf.confirm
    BY <1>1, <1>3, Counts DEF Tagged
  <2>2. Offset(tag, p, r) = Pipeline(tag)[1][r] /\ Pipeline(tag)[1][r] \in 0..conf.m
    BY <1>3, Counts, Config DEF Offset, Tagged
  <2> QED BY <1>1, <1>3, <2>1, <2>2, Config, BoundAssumption DEF Slots
<1> QED BY <1>2, <1>3

LEMMA PhaseSlot ==
  ASSUME conf \in Configs, NEW tag \in Tagged, NEW p \in 1..2
  PROVE  /\ PhaseSlots(tag, p) \subseteq Slots
         /\ \A s \in PhaseSlots(tag, p) :
              s[1] = p /\ (tag = "PL-D" /\ p = 1 => s[2] = "d")
         /\ \A r \in {"d", "s"} : Batch(tag, p, r) \subseteq PhaseSlots(tag, p)
         /\ PhaseSlots(tag, p) \subseteq All(tag)
BY BatchSlot DEF PhaseSlots, All

\* Of two slots of a pipeline with the same id, none is in another phase.
LEMMA IdsApart ==
  ASSUME conf \in Configs, NEW tag \in Tagged,
         NEW s \in All(tag), NEW t \in All(tag), s[2] = t[2], s[3] = t[3]
  PROVE  s = t
<1>1. PICK p \in 1..2, q \in {"d", "s"} : s \in Batch(tag, p, q)
  BY DEF All, PhaseSlots
<1>2. PICK u \in 1..2, v \in {"d", "s"} : t \in Batch(tag, u, v)
  BY DEF All, PhaseSlots
<1>3. s \in Slots /\ t \in Slots /\ s[1] = p /\ t[1] = u /\ q = v
  BY <1>1, <1>2, BatchSlot
<1>4. Pipeline(tag)[1][q] \in Nat
  BY Counts, Config DEF Tagged
<1>5. s[3] \in Nat
  BY <1>3 DEF Slots
<1>6. p = u
  BY <1>1, <1>2, <1>3, <1>4, <1>5, BatchSlot
<1> QED BY <1>3, <1>6 DEF Slots

-------------------------------------------------------------------------------
(***************************************************************************)
(* The invariant                                                           *)
(***************************************************************************)

\* A pipeline is under way; its outcome is still to be saved.
Busy     == {"create", "gather", "evaluate", "record", "write", "patch"}
Deciding == {"create", "gather", "evaluate", "record"}

\* The command has the state that is on disk and the pipeline it calls for.
CmdInv ==
  /\ cmd.pc = "pick" => cmd = [Idle EXCEPT !.pc = "pick"] /\ ~torn
  /\ cmd.pc \in Busy => cmd.tag \in Tagged
  /\ cmd.pc \in Deciding =>
       /\ cmd.saved = state
       /\ cmd.tag = IF ShouldEscalate(state) THEN "PL-E" ELSE "PL-D"
  /\ cmd.pc \in {"write", "patch"} => cmd.passed /\ cmd.saved.round = state.round
  /\ cmd.pc \in {"record", "write", "patch"} /\ cmd.passed => cmd.phase = 2

\* The slots on disk belong to one pipeline, and to the phases begun so far.
DirsInv ==
  /\ cmd.pc = "pick" => SlotDirs = {}
  /\ cmd.pc \in Busy => SlotDirs \subseteq All(cmd.tag)
  /\ cmd.pc \in Busy /\ cmd.phase = 1 => \A s \in SlotDirs : s[1] = 1
  /\ \E tag \in Tagged : SlotDirs \subseteq All(tag)

Votes(tag, p, S) ==
  Cardinality(S \cap PhaseSlots(tag, p)) >= Pipeline(tag)[p].threshold

\* The approvals that the command has collected are on disk, and enough of
\* them for the phases that it has behind it.
VotesInv ==
  /\ cmd.pc \in Busy =>
       /\ cmd.ok \subseteq PhaseSlots(cmd.tag, cmd.phase) \cap Approvals
       /\ cmd.union \subseteq Approvals
       /\ cmd.phase = 2 => Votes(cmd.tag, 1, cmd.union)
  /\ cmd.pc \in {"record", "write", "patch"} /\ cmd.passed =>
       Votes(cmd.tag, 2, cmd.union)
  /\ cmd.pc = "patch" =>
       completion.matching = cmd.union /\ completion.round = state.round
  /\ completion.round <= state.round

\* A completion is RECOVER's, which knows no phases, or that of a pipeline.
AuditInv ==
  completion # NoCompletion =>
    \/ /\ \A s \in completion.matching : s[1] = 0
       /\ Cardinality(completion.matching) >= conf.n
    \/ \E tag \in Tagged :
         /\ completion.tag \in {"none", tag}
         /\ completion.matching \subseteq All(tag)
         /\ \A p \in 1..2 : Votes(tag, p, completion.matching)

\* What the counters say of the outcomes so far.
CountInv ==
  /\ state.depth = Cardinality(Policy!Failures(log))
  /\ state.esca <= Len(log)
  /\ \A i \in 1..Len(log) : i > Len(log) - state.esca => log[i] = "confirm_reject"
  /\ conf.m >= 2 /\ conf.threshold > 0 /\ state.esca < Len(log) =>
       log[Len(log) - state.esca] # "confirm_reject"

Inv == /\ TypeOK /\ CmdInv /\ DirsInv /\ VotesInv /\ CountInv /\ AuditInv
       /\ EveryPhasePassed /\ PhasesInOrder

\* The code's own choice, as a statement about the history: PL-E after a full
\* streak of refusals by Confirm, which any other outcome ends, as long as fewer
\* escalations than the retries have failed; otherwise, and from the last retry
\* on, PL-D.
Due(c, l) ==
  /\ c.threshold > 0 /\ c.m >= 2
  /\ Policy!Streak(l, c.threshold)
  /\ c.retries = 0 \/ Cardinality(Policy!Failures(l)) < c.retries

\* The policy's Cardinality is the one of FiniteSets.
LEMMA PolicyCardinality == \A S : Policy!Cardinality(S) = Cardinality(S)
BY DEF Cardinality, Policy!Cardinality

\* The pipeline that is running is the one that is due.
LEMMA ChoiceDue ==
  ASSUME TypeOK, CountInv
  PROVE  ShouldEscalate(state) <=> Due(conf, log)
<1>1. /\ Len(log) \in Nat /\ state.esca \in Nat /\ state.depth \in Nat
      /\ log \in Seq(Policy!Outcomes)
  BY DEF TypeOK, States
<1>2. conf.threshold \in Nat /\ conf.m \in Nat /\ conf.retries \in Nat
  BY Config DEF TypeOK
<1>3. ASSUME conf.threshold > 0, conf.m >= 2
      PROVE  state.esca >= conf.threshold <=> Policy!Streak(log, conf.threshold)
  <2>1. CASE state.esca >= conf.threshold
    BY <1>1, <1>2, <2>1 DEF CountInv, Policy!Streak
  <2>2. CASE state.esca < conf.threshold
    <3>1. CASE conf.threshold <= Len(log)
      <4>1. Len(log) - state.esca \in (Len(log) - conf.threshold + 1) .. Len(log)
        BY <1>1, <1>2, <2>2, <3>1
      <4>2. log[Len(log) - state.esca] # "confirm_reject"
        BY <1>1, <1>2, <1>3, <2>2, <3>1 DEF CountInv
      <4> QED BY <1>1, <1>2, <2>2, <4>1, <4>2 DEF Policy!Streak
    <3>2. CASE ~(conf.threshold <= Len(log))
      BY <1>1, <1>2, <2>2, <3>2 DEF Policy!Streak
    <3> QED BY <3>1, <3>2
  <2> QED BY <1>1, <1>2, <2>1, <2>2
<1>4. ~(conf.retries > 0 /\ state.depth >= conf.retries)
        <=> conf.retries = 0 \/ state.depth < conf.retries
  BY <1>1, <1>2
<1>5. conf.threshold # 0 <=> conf.threshold > 0
  BY <1>2
<1>6. state.depth = Cardinality(Policy!Failures(log))
  BY DEF CountInv
<1>7. Due(conf, log) <=>
        /\ conf.threshold > 0 /\ conf.m >= 2
        /\ Policy!Streak(log, conf.threshold)
        /\ conf.retries = 0 \/ state.depth < conf.retries
  BY <1>6 DEF Due
<1> QED BY <1>3, <1>4, <1>5, <1>7 DEF ShouldEscalate
LEMMA InitPipeline == Init => Inv
<1> SUFFICES ASSUME Init PROVE Inv
  OBVIOUS
<1>1. TypeOK
  <2>1. torn \in BOOLEAN
    BY Zenon DEF Init
  <2> QED
    BY <2>1, BoundAssumption
    DEF Init, TypeOK, States, NoCompletion, Fresh, Idle, Tags, Verdicts, PCs
<1>2. SlotDirs = {}
  BY DEF Init, SlotDirs, Fresh
<1>3. CmdInv /\ DirsInv /\ VotesInv /\ AuditInv
  BY <1>2 DEF Init, Idle, NoCompletion, CmdInv, DirsInv, VotesInv, AuditInv, Busy,
             Deciding, Tagged
<1>4. CountInv
  <2>1. Policy!Failures(log) = {} /\ Len(log) = 0
    BY DEF Init, Policy!Failures
  <2>2. Cardinality({}) = 0
    BY FS_EmptySet
  <2>3. state.esca = 0 /\ state.depth = 0
    BY DEF Init
  <2> QED BY <2>1, <2>2, <2>3 DEF CountInv
<1>5. EveryPhasePassed /\ PhasesInOrder
  BY <1>2 DEF Init, NoCompletion, EveryPhasePassed, PhasesInOrder
<1> QED BY <1>1, <1>3, <1>4, <1>5 DEF Inv

-------------------------------------------------------------------------------
(***************************************************************************)
(* Types                                                                   *)
(***************************************************************************)

LEMMA IdleType ==
  Idle \in [pc : PCs, saved : States, tag : Tags, phase : 1..2,
            role : {"d", "s"}, ok : SUBSET Slots, union : SUBSET Slots,
            passed : BOOLEAN]
BY BoundAssumption DEF Idle, PCs, States, Tags

\* The type of cmd, and the steps of a command within a phase.
Commands == [pc : PCs, saved : States, tag : Tags, phase : 1..2,
             role : {"d", "s"}, ok : SUBSET Slots, union : SUBSET Slots,
             passed : BOOLEAN]

LEMMA CmdType ==
  TypeOK => cmd \in Commands
BY DEF TypeOK, Commands

LEMMA PcType ==
  ASSUME NEW p \in Commands, NEW q \in PCs
  PROVE  [p EXCEPT !.pc = q] \in Commands
BY DEF Commands

LEMMA LaunchOrGather ==
  ASSUME TypeOK, Launch \/ Gather
  PROVE  /\ cmd.pc \in {"create", "gather"} /\ cmd'.pc \in {"create", "gather", "evaluate"}
         /\ cmd'.saved = cmd.saved /\ cmd'.tag = cmd.tag
<1>1. CASE Launch
  BY <1>1, CmdType DEF Launch, Commands
<1>2. CASE Gather
  BY <1>2, CmdType DEF Gather, Commands
<1> QED BY <1>1, <1>2

LEMMA RewriteType ==
  ASSUME TypeOK, Whole \/ Tear
  PROVE  torn' \in BOOLEAN /\ aborts' \in 0..MaxAborts
<1>1. torn' \in BOOLEAN
  BY Zenon DEF Whole, Tear
<1>2. aborts' \in 0..MaxAborts
  <2>1. CASE aborts' = aborts
    BY <2>1 DEF TypeOK
  <2>2. CASE aborts < MaxAborts /\ aborts' = aborts + 1
    BY <2>2, BoundAssumption DEF TypeOK
  <2>3. CASE Whole
    BY <2>1, <2>3, Zenon DEF Whole
  <2>4. CASE Tear
    BY <2>2, <2>4, Zenon DEF Tear
  <2> QED BY <2>3, <2>4
<1> QED BY <1>1, <1>2

LEMMA TypeStep == Inv /\ [Next]_vars => TypeOK'
<1> SUFFICES ASSUME Inv, [Next]_vars PROVE TypeOK'
  OBVIOUS
<1> USE BoundAssumption, IdleType DEF Inv, TypeOK, States, Verdicts, Tags, PCs
<1>1. CASE New \/ Resume
  <2>1. Begin(state)
    BY <1>1 DEF New, Resume
  <2>2. state.round + 1 \in 0..MaxRound
    BY <2>1, SMTT(30) DEF Begin
  <2>3. state' \in States
    BY <2>1, <2>2 DEF Begin
  <2>4. verdict' \in [Slots -> Verdicts]
        /\ session' \in [Slots -> {"none", "live", "stray", "ended"}]
    BY <2>1 DEF Begin, Fresh
  <2>5. torn' \in BOOLEAN /\ aborts' \in 0..MaxAborts
    BY <2>1, RewriteType DEF Begin
  <2>6. cmd' \in {Idle, [Idle EXCEPT !.pc = "pick"]}
        /\ UNCHANGED <<conf, completion, log>>
    BY <2>1 DEF Begin
  <2>7. cmd' \in [pc : PCs, saved : States, tag : Tags, phase : 1..2,
                 role : {"d", "s"}, ok : SUBSET Slots, union : SUBSET Slots,
                 passed : BOOLEAN]
    <3>1. Idle \in Commands /\ "pick" \in PCs
      BY DEF Commands
    <3> HIDE DEF States, Verdicts, Tags, PCs, TypeOK, Inv
    <3> QED BY <2>6, <3>1, PcType DEF Commands
  <2> HIDE DEF States, Verdicts, Tags, PCs
  <2> QED BY <2>3, <2>4, <2>5, <2>6, <2>7
<1>2. CASE Cooldown \/ GiveUp \/ Recover \/ Abort
  <2>1. cmd' \in {Idle, [Idle EXCEPT !.pc = "scan"]} /\ aborts' \in 0..MaxAborts
    BY <1>2, SMTT(30) DEF Cooldown, GiveUp, Recover, Abort
  <2>2. UNCHANGED <<conf, state, torn, verdict, session, completion, log>>
    BY <1>2 DEF Cooldown, GiveUp, Recover, Abort
  <2> QED BY <2>1, <2>2
<1>3. CASE Pick
  <2>1. ~torn
    BY <1>3 DEF Pick, CmdInv
  <2> QED BY <1>3, <2>1 DEF Pick
<1>4. CASE Create
  BY <1>4 DEF Create, Missing, Current
<1>5. CASE Launch
  BY <1>5 DEF Launch
<1>6. CASE Gather
  BY <1>6 DEF Gather, Current, Approvals
<1>7. CASE Evaluate
  <2>1. cmd.phase # 2 => cmd.phase + 1 \in 1..2
    OBVIOUS
  <2> DEFINE won == Cardinality(cmd.ok) >= Pipeline(cmd.tag)[cmd.phase].threshold
  <2>2. won \in BOOLEAN
    OBVIOUS
  <2>3. cmd.union \cup cmd.ok \in SUBSET Slots
    OBVIOUS
  <2> HIDE DEF won
  <2>4. \/ /\ cmd.phase # 2
           /\ cmd' = [cmd EXCEPT !.phase = @ + 1, !.role = "d", !.pc = "create",
                          !.union = cmd.union \cup cmd.ok, !.ok = {}]
        \/ \E u \in {cmd.union, cmd.union \cup cmd.ok} :
             cmd' = [cmd EXCEPT !.passed = won, !.pc = "record", !.union = u]
    BY <1>7 DEF Evaluate, GoOn, LastPhase, won
  <2>5. cmd' \in [pc : PCs, saved : States, tag : Tags, phase : 1..2,
                 role : {"d", "s"}, ok : SUBSET Slots, union : SUBSET Slots,
                 passed : BOOLEAN]
    <3>1. cmd \in Commands /\ {"create", "record"} \subseteq PCs
      BY DEF Commands
    <3> HIDE DEF States, Verdicts, Tags, PCs, TypeOK, Inv
    <3>2. CASE /\ cmd.phase # 2
               /\ cmd' = [cmd EXCEPT !.phase = @ + 1, !.role = "d", !.pc = "create",
                              !.union = cmd.union \cup cmd.ok, !.ok = {}]
      BY <2>1, <2>3, <3>1, <3>2 DEF Commands
    <3>3. ASSUME NEW u \in {cmd.union, cmd.union \cup cmd.ok},
                 cmd' = [cmd EXCEPT !.passed = won, !.pc = "record", !.union = u]
          PROVE  cmd' \in Commands
      BY <2>2, <2>3, <3>1, <3>3 DEF Commands
    <3> QED BY <2>4, <3>2, <3>3 DEF Commands
  <2>6. UNCHANGED <<conf, state, torn, verdict, session, completion, log, aborts>>
    BY <1>7 DEF Evaluate
  <2> HIDE DEF States, Verdicts, Tags, PCs
  <2> QED BY <2>5, <2>6
<1>8. CASE Record
  <2>1. Outcome(cmd) \in Policy!Outcomes
    BY <1>8 DEF Record, Outcome, CmdInv, Busy, Tagged, Policy!Outcomes,
                Policy!DefaultOutcomes, Policy!EscalatedOutcomes
  <2>2. ApplyOutcome(cmd.saved, Outcome(cmd)) \in States
    <3>1. cmd.saved.esca + 1 \in Nat /\ cmd.saved.depth + 1 \in Nat
      OBVIOUS
    <3> QED BY <3>1 DEF ApplyOutcome
  <2> HIDE DEF States
  <2>3. cmd' \in [pc : PCs, saved : States, tag : Tags, phase : 1..2,
                 role : {"d", "s"}, ok : SUBSET Slots, union : SUBSET Slots,
                 passed : BOOLEAN]
    BY <1>8, SMTT(30) DEF Record
  <2>4. log' \in Seq(Policy!Outcomes)
    BY <1>8, <2>1 DEF Record
  <2>5. torn' \in BOOLEAN /\ aborts' \in 0..MaxAborts
    BY <1>8, RewriteType DEF Record
  <2> QED BY <1>8, <2>2, <2>3, <2>4, <2>5 DEF Record
<1>9. CASE Write
  <2>1. cmd.union \subseteq (0..2) \X {"d", "s"} \X (1..MaxNum)
    BY DEF Slots
  <2> QED BY <1>9, <2>1 DEF Write, NoCompletion
<1>10. CASE Patch
  BY <1>10 DEF Patch
<1>11. CASE Harvest
  <2>1. {<<0, s[2], s[3]>> : s \in Approvals} \subseteq (0..2) \X {"d", "s"} \X (1..MaxNum)
    BY SMTT(30) DEF Slots, Approvals
  <2> QED BY <1>11, <2>1 DEF Harvest, NoCompletion
<1>12. ASSUME NEW s \in Slots, Timeout(s) \/ Register(s) \/ Die(s)
       PROVE  TypeOK'
  BY <1>12, SMTT(30) DEF Timeout, Register, Die
<1>13. CASE UNCHANGED vars
  BY <1>13, SMTT(30) DEF vars
<1> QED BY <1>1, <1>2, <1>3, <1>4, <1>5, <1>6, <1>7, <1>8, <1>9, <1>10, <1>11,
           <1>12, <1>13 DEF Next, Command, RunPhase

-------------------------------------------------------------------------------
(***************************************************************************)
(* What a step does to the slots on disk                                   *)
(***************************************************************************)

LEMMA Rigid ==
  ASSUME conf' = conf
  PROVE  /\ \A tag : Pipeline(tag)' = Pipeline(tag)
         /\ \A tag, p : PhaseSlots(tag, p)' = PhaseSlots(tag, p)
         /\ \A tag : All(tag)' = All(tag)
BY DEF Pipeline, PhaseSlots, Batch, Offset, All

\* The slots of the batch that is being created.
LEMMA CurrentSlots ==
  ASSUME TypeOK, CmdInv, cmd.pc \in Busy
  PROVE  /\ cmd.tag \in Tagged
         /\ Current \subseteq PhaseSlots(cmd.tag, cmd.phase)
         /\ PhaseSlots(cmd.tag, cmd.phase) \subseteq All(cmd.tag)
         /\ \A s \in PhaseSlots(cmd.tag, cmd.phase) : s \in Slots /\ s[1] = cmd.phase
<1>1. cmd.tag \in Tagged /\ cmd.phase \in 1..2 /\ cmd.role \in {"d", "s"}
      /\ conf \in Configs
  BY DEF TypeOK, CmdInv
<1> QED BY <1>1, PhaseSlot DEF Current

\* A round begins with an empty directory, Create adds a slot of the current
\* batch, Register a verdict, and all other steps leave the directory alone.
LEMMA BeginDisk ==
  ASSUME New \/ Resume
  PROVE  conf' = conf /\ SlotDirs' = {} /\ Approvals' = {}
BY DEF New, Resume, Begin, Fresh, SlotDirs, Approvals

LEMMA CreateDisk ==
  ASSUME Inv, Create
  PROVE  /\ conf' = conf /\ Approvals' = Approvals
         /\ \E s \in Current : SlotDirs' = SlotDirs \cup {s}
<1> USE DEF Inv, TypeOK, Verdicts
<1>1. PICK s \in Missing : verdict' = [verdict EXCEPT ![s] = "null"]
  BY DEF Create
<1>2. s \in Current /\ s \in Slots /\ verdict[s] = "none"
  BY <1>1, CurrentSlots DEF Missing, Create, Busy
<1>3. Approvals' = Approvals
  BY <1>1, <1>2 DEF Approvals
<1>4. SlotDirs' = SlotDirs \cup {s}
  BY <1>1, <1>2 DEF SlotDirs
<1> QED BY <1>2, <1>3, <1>4 DEF Create

LEMMA RegisterDisk ==
  ASSUME TypeOK, NEW s \in Slots, Register(s)
  PROVE  conf' = conf /\ SlotDirs' = SlotDirs /\ Approvals \subseteq Approvals'
<1> USE DEF TypeOK, Verdicts
<1>1. PICK b \in {"approve", "reject"} : verdict' = [verdict EXCEPT ![s] = b]
  BY DEF Register
<1>2. verdict[s] = "null" /\ conf' = conf
  BY DEF Register
<1>3. SlotDirs' = SlotDirs
  BY <1>1, <1>2 DEF SlotDirs
<1>4. Approvals \subseteq Approvals'
  BY <1>1, <1>2 DEF Approvals
<1> QED BY <1>2, <1>3, <1>4

LEMMA SameDisk ==
  ASSUME \/ Recover \/ Abort \/ Cooldown \/ Pick \/ Launch \/ Gather \/ Evaluate
         \/ Record \/ Write \/ Patch \/ Harvest \/ GiveUp
         \/ \E s \in Slots : Timeout(s) \/ Die(s)
  PROVE  conf' = conf /\ SlotDirs' = SlotDirs /\ Approvals' = Approvals
<1>1. UNCHANGED <<conf, verdict>>
  BY DEF Recover, Abort, Cooldown, Pick, Launch, Gather, Evaluate, Record, Write,
         Patch, Harvest, GiveUp, Timeout, Die
<1> QED BY <1>1 DEF SlotDirs, Approvals

-------------------------------------------------------------------------------
(***************************************************************************)
(* The command                                                             *)
(***************************************************************************)

LEMMA CmdStep ==
  ASSUME Inv, Next, TypeOK'
  PROVE  CmdInv'
<1> USE DEF Inv, CmdInv, Busy, Deciding, Idle
<1>1. CASE New \/ Resume
  BY <1>1 DEF New, Resume, Begin, Whole
<1>2. CASE Cooldown \/ GiveUp \/ Recover \/ Abort \/ Patch \/ Harvest
  BY <1>2 DEF Cooldown, GiveUp, Recover, Abort, Patch, Harvest
<1>3. CASE Pick
  <2>1. state' = state /\ conf' = conf
    BY <1>3 DEF Pick
  <2>2. ShouldEscalate(state)' <=> ShouldEscalate(state)
    BY <2>1 DEF ShouldEscalate
  <2>3. /\ cmd'.pc = "create" /\ cmd'.saved = state
        /\ cmd'.tag = IF ShouldEscalate(state) THEN "PL-E" ELSE "PL-D"
    <3>1. ~torn
      BY <1>3 DEF Pick
    <3> QED BY <1>3, <3>1 DEF Pick, TypeOK
  <2> QED BY <2>1, <2>2, <2>3 DEF Tagged
<1>4. CASE Create \/ Launch \/ Gather \/ Evaluate
  <2>1. state' = state /\ conf' = conf
    BY <1>4 DEF Create, Launch, Gather, Evaluate
  <2>2. ShouldEscalate(state)' <=> ShouldEscalate(state)
    BY <2>1 DEF ShouldEscalate
  <2>3. /\ cmd.pc \in Deciding /\ cmd'.pc \in Deciding
        /\ cmd'.saved = cmd.saved /\ cmd'.tag = cmd.tag
    <3>1. CASE Create
      BY <3>1 DEF Create, TypeOK
    <3>2. CASE Launch \/ Gather
      BY <3>2, LaunchOrGather DEF Deciding
    <3>3. CASE Evaluate
      BY <3>3 DEF Evaluate, TypeOK
    <3> QED BY <1>4, <3>1, <3>2, <3>3
  <2>4. cmd'.pc = "record" /\ cmd'.passed => cmd'.phase = 2
    <3>1. CASE Create
      BY <3>1 DEF Create, TypeOK
    <3>3. CASE Launch \/ Gather
      BY <3>3, LaunchOrGather
    <3>2. CASE Evaluate
      <4> DEFINE won == Cardinality(cmd.ok) >= Pipeline(cmd.tag)[cmd.phase].threshold
      <4>1. CASE cmd.phase = 2
        BY <3>2, <4>1 DEF Evaluate, GoOn, LastPhase, TypeOK
      <4>2. CASE won /\ cmd.phase # 2
        BY <3>2, <4>2 DEF Evaluate, GoOn, LastPhase, TypeOK
      <4>3. CASE ~won
        BY <3>2, <4>3 DEF Evaluate, GoOn, LastPhase, TypeOK
      <4> QED BY <4>1, <4>2, <4>3
    <3> QED BY <1>4, <3>1, <3>2, <3>3
  <2> QED BY <2>1, <2>2, <2>3, <2>4
<1>5. CASE Record
  <2>1. state'.round = state.round
    BY <1>5 DEF Record, ApplyOutcome, TypeOK, States
  <2>2. \/ cmd'.pc = "idle"
        \/ cmd'.pc = "write" /\ cmd.passed /\ cmd' = [cmd EXCEPT !.pc = "write"]
    BY <1>5 DEF Record, TypeOK
  <2> QED BY <1>5, <2>1, <2>2 DEF Record, TypeOK
<1>6. CASE Write
  BY <1>6 DEF Write, TypeOK
<1>7. ASSUME NEW s \in Slots, Timeout(s) \/ Register(s) \/ Die(s)
      PROVE  CmdInv'
  <2>1. UNCHANGED <<conf, state, torn, cmd>>
    BY <1>7 DEF Timeout, Register, Die
  <2> QED BY <2>1 DEF ShouldEscalate
<1> QED BY <1>1, <1>2, <1>3, <1>4, <1>5, <1>6, <1>7 DEF Next, Command, RunPhase

LEMMA DirsStep ==
  ASSUME Inv, Next, TypeOK'
  PROVE  DirsInv'
<1> USE DEF Inv, DirsInv, Busy, Idle
<1>1. CASE New \/ Resume
  <2>1. SlotDirs' = {} /\ cmd'.pc \in {"pick", "idle"}
    BY <1>1, BeginDisk DEF New, Resume, Begin
  <2> QED BY <2>1 DEF Tagged
<1>2. CASE Create
  <2>1. PICK s \in Current : SlotDirs' = SlotDirs \cup {s}
    BY <1>2, CreateDisk
  <2>2. cmd.pc = "create" /\ cmd' = cmd /\ conf' = conf
    BY <1>2 DEF Create
  <2>3. s \in All(cmd.tag) /\ s[1] = cmd.phase /\ cmd.tag \in Tagged
    BY <2>1, <2>2, CurrentSlots
  <2> QED BY <2>1, <2>2, <2>3, Rigid
<1>3. ASSUME conf' = conf, SlotDirs' = SlotDirs,
             cmd'.pc \in Busy => /\ cmd.pc \in Busy /\ cmd'.tag = cmd.tag
                                 /\ cmd'.phase = 1 => cmd.phase = 1,
             cmd'.pc # "pick"
      PROVE  DirsInv'
  BY <1>3, Rigid
<1>4. CASE Cooldown \/ GiveUp \/ Recover \/ Abort \/ Patch \/ Harvest
  <2>1. cmd'.pc \in {"idle", "scan"}
    BY <1>4 DEF Cooldown, GiveUp, Recover, Abort, Patch, Harvest
  <2> QED BY <1>3, <1>4, <2>1, SameDisk
<1>5. CASE Pick
  <2>1. SlotDirs' = {} /\ cmd'.pc = "create"
    BY <1>5, SameDisk DEF Pick, TypeOK
  <2> QED BY <2>1 DEF Tagged
<1>6. CASE Launch \/ Gather \/ Record \/ Write
  <2>1. /\ cmd'.pc \in Busy => /\ cmd.pc \in Busy /\ cmd'.tag = cmd.tag
                               /\ cmd'.phase = 1 => cmd.phase = 1
        /\ cmd'.pc # "pick"
    <3>1. CASE Launch BY <3>1 DEF Launch, TypeOK
    <3>2. CASE Gather BY <3>2 DEF Gather, TypeOK
    <3>3. CASE Record BY <3>3 DEF Record, TypeOK
    <3>4. CASE Write BY <3>4 DEF Write, TypeOK
    <3> QED BY <1>6, <3>1, <3>2, <3>3, <3>4
  <2> QED BY <1>3, <1>6, <2>1, SameDisk
<1>7. CASE Evaluate
  <2>1. /\ cmd.pc = "evaluate" /\ cmd'.pc \in {"create", "record"}
        /\ cmd'.tag = cmd.tag /\ cmd'.phase \in {cmd.phase, cmd.phase + 1}
    BY <1>7 DEF Evaluate, TypeOK
  <2>2. cmd'.phase = 1 => cmd.phase = 1
    BY <2>1 DEF TypeOK
  <2> QED BY <1>3, <1>7, <2>1, <2>2, SameDisk
<1>8. ASSUME NEW s \in Slots, Timeout(s) \/ Register(s) \/ Die(s)
      PROVE  DirsInv'
  <2>1. cmd' = cmd /\ conf' = conf /\ SlotDirs' = SlotDirs
    BY <1>8, SameDisk, RegisterDisk DEF Timeout, Register, Die
  <2> QED BY <2>1, Rigid
<1> QED BY <1>1, <1>2, <1>4, <1>5, <1>6, <1>7, <1>8 DEF Next, Command, RunPhase

-------------------------------------------------------------------------------
(***************************************************************************)
(* The votes                                                               *)
(***************************************************************************)

LEMMA MoreVotes ==
  ASSUME conf \in Configs, NEW tag \in Tagged, NEW p \in 1..2,
         NEW T \in SUBSET Slots, NEW S \in SUBSET T, Votes(tag, p, S)
  PROVE  Votes(tag, p, T)
<1>1. Pipeline(tag)[p].threshold \in Nat
  BY Counts, Config DEF Tagged
<1>2. /\ T \cap PhaseSlots(tag, p) \in SUBSET Slots
      /\ S \cap PhaseSlots(tag, p) \in SUBSET (T \cap PhaseSlots(tag, p))
  OBVIOUS
<1>3. /\ Cardinality(S \cap PhaseSlots(tag, p)) \in Nat
      /\ Cardinality(T \cap PhaseSlots(tag, p)) \in Nat
      /\ Cardinality(S \cap PhaseSlots(tag, p)) <= Cardinality(T \cap PhaseSlots(tag, p))
  BY <1>2, Size
<1> QED BY <1>1, <1>3 DEF Votes

LEMMA RigidVotes ==
  ASSUME conf' = conf
  PROVE  \A tag, p, S : Votes(tag, p, S)' = Votes(tag, p, S)
BY Rigid DEF Votes

LEMMA VotesStep ==
  ASSUME Inv, Next, TypeOK'
  PROVE  VotesInv'
<1> USE DEF Inv, VotesInv, Busy
<1>1. CASE New \/ Resume
  <2>1. cmd'.pc \in {"pick", "idle"} /\ completion' = completion
    BY <1>1 DEF New, Resume, Begin, Idle
  <2>2. state'.round >= state.round
    BY <1>1 DEF New, Resume, Begin, TypeOK, States
  <2> QED BY <2>1, <2>2, BoundAssumption, SMTT(30) DEF TypeOK, States
<1>2. CASE Cooldown \/ GiveUp \/ Recover \/ Abort \/ Patch \/ Harvest
  <2>1. cmd'.pc \in {"idle", "scan"} /\ state' = state
    BY <1>2 DEF Cooldown, GiveUp, Recover, Abort, Patch, Harvest, Idle
  <2>2. completion'.round \in {completion.round, state.round}
    BY <1>2 DEF Cooldown, GiveUp, Recover, Abort, Patch, Harvest, NoCompletion, TypeOK
  <2> QED BY <2>1, <2>2, BoundAssumption, SMTT(30) DEF TypeOK, States
\* Collected votes stay votes while the pipeline stays where it is.
<1>3. ASSUME conf' = conf, completion' = completion, Approvals \subseteq Approvals',
             state'.round = state.round, cmd'.pc # "patch",
             cmd'.pc \in Busy => /\ cmd.pc \in Busy
                                 /\ cmd'.tag = cmd.tag /\ cmd'.phase = cmd.phase
                                 /\ cmd'.union = cmd.union
                                 /\ cmd'.ok \subseteq cmd.ok \cup
                                      (PhaseSlots(cmd.tag, cmd.phase) \cap Approvals),
             cmd'.pc \in {"record", "write"} /\ cmd'.passed =>
               cmd.pc \in {"record", "write"} /\ cmd.passed
      PROVE  VotesInv'
  BY <1>3, Rigid, RigidVotes
<1>4. CASE Pick
  <2>1. cmd = [Idle EXCEPT !.pc = "pick"]
    BY <1>4 DEF Pick, CmdInv
  <2>2. /\ cmd'.pc = "create" /\ cmd'.ok = {} /\ cmd'.union = {} /\ cmd'.phase = 1
        /\ UNCHANGED <<state, completion>>
    BY <1>4, <2>1 DEF Pick, Idle
  <2> QED BY <2>2
<1>5. CASE Create \/ Launch
  <2>1. /\ cmd.pc = "create" /\ cmd' \in {cmd, [cmd EXCEPT !.pc = "gather"]}
        /\ UNCHANGED <<conf, state, completion>>
    BY <1>5 DEF Create, Launch
  <2>2. Approvals' = Approvals
    BY <1>5, CreateDisk, SameDisk
  <2>3. /\ cmd'.pc \in {"create", "gather"} /\ cmd'.tag = cmd.tag
        /\ cmd'.phase = cmd.phase /\ cmd'.union = cmd.union /\ cmd'.ok = cmd.ok
    BY <2>1, CmdType DEF Commands
  <2> QED BY <1>3, <2>1, <2>2, <2>3
<1>6. CASE Gather
  <2>1. /\ cmd.pc = "gather" /\ cmd'.pc \in {"create", "evaluate"}
        /\ cmd'.tag = cmd.tag /\ cmd'.phase = cmd.phase /\ cmd'.union = cmd.union
        /\ cmd'.ok = cmd.ok \cup (Current \cap Approvals)
        /\ UNCHANGED <<conf, state, completion>>
    BY <1>6 DEF Gather, TypeOK
  <2>2. Current \subseteq PhaseSlots(cmd.tag, cmd.phase)
    BY <2>1, CurrentSlots
  <2> QED BY <1>3, <1>6, <2>1, <2>2, SameDisk
<1>7. CASE Evaluate
  <2> DEFINE won == Cardinality(cmd.ok) >= Pipeline(cmd.tag)[cmd.phase].threshold
  <2>1. /\ cmd.pc = "evaluate" /\ Approvals' = Approvals
        /\ UNCHANGED <<conf, state, completion>>
    BY <1>7, SameDisk DEF Evaluate
  <2>2. /\ conf \in Configs /\ cmd.tag \in Tagged /\ cmd.phase \in 1..2
        /\ cmd.ok \subseteq PhaseSlots(cmd.tag, cmd.phase) \cap Approvals
        /\ cmd.union \subseteq Approvals /\ Approvals \subseteq Slots
    BY <2>1 DEF TypeOK, CmdInv, Approvals
  <2>3. CASE ~won
    <3>1. cmd'.pc = "record" /\ ~cmd'.passed /\ cmd'.tag = cmd.tag
          /\ cmd'.phase = cmd.phase /\ cmd'.union = cmd.union /\ cmd'.ok = cmd.ok
      BY <1>7, <2>3 DEF Evaluate, GoOn, TypeOK
    <3> QED BY <1>3, <2>1, <3>1
  <2>4. CASE won
    <3>1. Votes(cmd.tag, cmd.phase, cmd.ok)
      <4>1. cmd.ok \cap PhaseSlots(cmd.tag, cmd.phase) = cmd.ok
        BY <2>2
      <4> QED BY <2>4, <4>1 DEF Votes
    <3>2. Votes(cmd.tag, cmd.phase, cmd.union \cup cmd.ok)
      BY <2>2, <3>1, MoreVotes
    <3>3. cmd.phase = 2 => Votes(cmd.tag, 1, cmd.union \cup cmd.ok)
      BY <2>1, <2>2, MoreVotes
    <3>4. cmd'.tag = cmd.tag /\ cmd'.union = cmd.union \cup cmd.ok
          /\ \/ cmd.phase = 1 /\ cmd'.pc = "create" /\ cmd'.phase = 2 /\ cmd'.ok = {}
             \/ cmd.phase = 2 /\ cmd'.pc = "record" /\ cmd'.phase = 2 /\ cmd'.ok = cmd.ok
      BY <1>7, <2>2, <2>4 DEF Evaluate, GoOn, LastPhase, TypeOK
    <3> QED BY <2>1, <2>2, <3>2, <3>3, <3>4, Rigid, RigidVotes
  <2> QED BY <2>3, <2>4
<1>8. CASE Record
  <2>1. state'.round = state.round
    BY <1>8 DEF Record, ApplyOutcome, TypeOK, States, CmdInv, Deciding
  <2>2. \/ cmd'.pc = "idle"
        \/ cmd.pc = "record" /\ cmd.passed /\ cmd' = [cmd EXCEPT !.pc = "write"]
    BY <1>8 DEF Record, Idle
  <2>3. conf' = conf /\ completion' = completion /\ Approvals' = Approvals
    BY <1>8, SameDisk DEF Record
  <2> QED BY <1>3, <2>1, <2>2, <2>3 DEF TypeOK
<1>9. CASE Write
  <2>1. /\ cmd.pc = "write" /\ cmd' = [cmd EXCEPT !.pc = "patch"]
        /\ completion'.matching = cmd.union /\ completion'.round = cmd.saved.round
        /\ UNCHANGED <<conf, state>>
    BY <1>9 DEF Write, NoCompletion
  <2>2. cmd.saved.round = state.round /\ Approvals' = Approvals
    BY <1>9, <2>1, SameDisk DEF CmdInv
  <2>3. cmd' = [pc |-> "patch", saved |-> cmd.saved, tag |-> cmd.tag,
                phase |-> cmd.phase, role |-> cmd.role, ok |-> cmd.ok,
                union |-> cmd.union, passed |-> cmd.passed]
    BY <2>1 DEF TypeOK
  <2> QED BY <2>1, <2>2, <2>3, Rigid, RigidVotes, BoundAssumption, SMTT(30) DEF TypeOK, States
<1>10. ASSUME NEW s \in Slots, Timeout(s) \/ Register(s) \/ Die(s)
       PROVE  VotesInv'
  <2>1. UNCHANGED <<conf, state, completion, cmd>>
    BY <1>10 DEF Timeout, Register, Die
  <2>2. Approvals \subseteq Approvals'
    BY <1>10, SameDisk, RegisterDisk
  <2> QED BY <2>1, <2>2, Rigid, RigidVotes
<1> QED BY <1>1, <1>2, <1>4, <1>5, <1>6, <1>7, <1>8, <1>9, <1>10
        DEF Next, Command, RunPhase

-------------------------------------------------------------------------------
(***************************************************************************)
(* The counters                                                            *)
(***************************************************************************)

\* One more outcome is one more failure or none.
LEMMA FailuresGrow ==
  ASSUME log \in Seq(Policy!Outcomes), NEW o \in Policy!Outcomes
  PROVE  Cardinality(Policy!Failures(Append(log, o))) =
           IF o \in Policy!FailedEscalation
             THEN Cardinality(Policy!Failures(log)) + 1
             ELSE Cardinality(Policy!Failures(log))
<1> DEFINE F == Policy!Failures(log)
           more == Append(log, o)
<1>1. /\ Len(log) \in Nat /\ DOMAIN log = 1..Len(log)
      /\ DOMAIN more = 1..(Len(log) + 1)
      /\ more[Len(log) + 1] = o
      /\ \A i \in 1..Len(log) : more[i] = log[i]
  OBVIOUS
<1>2. F \subseteq 1..Len(log)
  BY <1>1 DEF Policy!Failures
<1>3. IsFiniteSet(F)
  <2>1. IsFiniteSet(1..Len(log))
    <3>1. 1 \in Int /\ Len(log) \in Int
      BY <1>1
    <3> QED BY ONLY <3>1, FS_Interval
  <2> QED BY <1>2, <2>1, FS_Subset
<1>4. Policy!Failures(more) =
        IF o \in Policy!FailedEscalation THEN F \cup {Len(log) + 1} ELSE F
  BY <1>1 DEF Policy!Failures
<1>5. Len(log) + 1 \notin F
  BY <1>1, <1>2
<1>6. Cardinality(F \cup {Len(log) + 1}) = Cardinality(F) + 1
  BY <1>3, <1>5, FS_AddElement
<1> QED BY <1>4, <1>6

\* What Record does to state.json and to the history.
LEMMA Recorded ==
  ASSUME Inv, Record
  PROVE  /\ conf' = conf /\ Outcome(cmd) \in Policy!Outcomes
         /\ log' = Append(log, Outcome(cmd))
         /\ state'.esca = IF Outcome(cmd) # "confirm_reject" THEN 0
                          ELSE IF conf.m >= 2 /\ conf.threshold > 0
                            THEN state.esca + 1 ELSE state.esca
         /\ state'.depth = IF Outcome(cmd) \in Policy!FailedEscalation
                             THEN state.depth + 1 ELSE state.depth
         /\ Outcome(cmd) \in IF cmd.tag = "PL-E" THEN Policy!EscalatedOutcomes
                                                 ELSE Policy!DefaultOutcomes
<1>1. cmd.tag \in Tagged /\ cmd.saved = state /\ cmd.phase \in 1..2
      /\ cmd.passed \in BOOLEAN
  BY DEF Inv, TypeOK, CmdInv, Record, Busy, Deciding
<1>2. Outcome(cmd) \in IF cmd.tag = "PL-E" THEN Policy!EscalatedOutcomes
                                           ELSE Policy!DefaultOutcomes
  BY <1>1 DEF Outcome, Tagged, Policy!EscalatedOutcomes, Policy!DefaultOutcomes
<1>3. state' = ApplyOutcome(state, Outcome(cmd)) /\ log' = Append(log, Outcome(cmd))
      /\ conf' = conf
  BY <1>1 DEF Record
<1>4. state = [round |-> state.round, esca |-> state.esca, depth |-> state.depth]
  BY DEF Inv, TypeOK, States
<1>5. /\ state'.esca = IF Outcome(cmd) # "confirm_reject" THEN 0
                       ELSE IF conf.m >= 2 /\ conf.threshold > 0
                         THEN state.esca + 1 ELSE state.esca
      /\ state'.depth = IF Outcome(cmd) \in Policy!FailedEscalation
                          THEN state.depth + 1 ELSE state.depth
  BY <1>3, <1>4 DEF ApplyOutcome, Policy!FailedEscalation
<1> QED BY <1>2, <1>3, <1>5 DEF Policy!Outcomes

LEMMA CountStep ==
  ASSUME Inv, Next
  PROVE  CountInv'
<1>1. /\ Len(log) \in Nat /\ state.esca \in Nat /\ log \in Seq(Policy!Outcomes)
  BY DEF Inv, TypeOK, States
<1>2. CASE Record
  <2> DEFINE o == Outcome(cmd)
  <2>1. /\ conf' = conf /\ o \in Policy!Outcomes /\ log' = Append(log, o)
        /\ state'.esca = IF o # "confirm_reject" THEN 0
                         ELSE IF conf.m >= 2 /\ conf.threshold > 0
                           THEN state.esca + 1 ELSE state.esca
        /\ state'.depth = IF o \in Policy!FailedEscalation
                            THEN state.depth + 1 ELSE state.depth
    BY <1>2, Recorded
  <2> HIDE DEF o
  <2>2. /\ Len(log') = Len(log) + 1 /\ log'[Len(log) + 1] = o
        /\ \A i \in 1..Len(log) : log'[i] = log[i]
    BY <1>1, <2>1
  <2>3. state'.depth = Cardinality(Policy!Failures(log'))
    BY <1>1, <2>1, FailuresGrow DEF Inv, CountInv
  <2>4. CASE o # "confirm_reject"
    BY <1>1, <2>1, <2>2, <2>3, <2>4 DEF CountInv
  <2>5. CASE o = "confirm_reject"
    <3>1. state'.esca <= Len(log')
      BY <1>1, <2>1, <2>2, <2>5 DEF Inv, CountInv
    <3>2. \A i \in 1..Len(log') :
            i > Len(log') - state'.esca => log'[i] = "confirm_reject"
      BY <1>1, <2>1, <2>2, <2>5 DEF Inv, CountInv
    <3>3. conf'.m >= 2 /\ conf'.threshold > 0 /\ state'.esca < Len(log') =>
            log'[Len(log') - state'.esca] # "confirm_reject"
      BY <1>1, <2>1, <2>2, <2>5 DEF Inv, CountInv
    <3> QED BY <2>3, <3>1, <3>2, <3>3 DEF CountInv
  <2> QED BY <2>4, <2>5
<1>3. CASE ~Record
  <2>1. UNCHANGED <<conf, log>> /\ state'.esca = state.esca
        /\ state'.depth = state.depth
    BY <1>3 DEF Inv, TypeOK, States, Next, Command, RunPhase, New, Resume, Begin,
       Recover, Abort, Cooldown, Pick, Create, Launch, Gather, Evaluate, Write,
       Patch, Harvest, GiveUp, Timeout, Register, Die
  <2> QED BY <2>1 DEF Inv, CountInv
<1> QED BY <1>2, <1>3

-------------------------------------------------------------------------------
(***************************************************************************)
(* The properties                                                          *)
(***************************************************************************)

LEMMA PassedStep ==
  ASSUME Inv, Next, TypeOK', VotesInv'
  PROVE  EveryPhasePassed'
<1> USE DEF Inv
<1>1. conf \in Configs /\ (completion.tag # "none" => completion.tag \in Tagged)
      /\ state.round \in Nat /\ completion.round \in Nat
      /\ completion.round <= state.round
  BY BoundAssumption DEF TypeOK, Tags, Tagged, States, VotesInv
<1>2. EveryPhasePassed <=>
        completion.tag # "none" =>
          /\ \A p \in 1..2 : Votes(completion.tag, p, completion.matching)
          /\ completion.round = state.round => completion.matching \subseteq Approvals
  BY DEF EveryPhasePassed, Votes
<1>3. ASSUME conf' = conf,
             completion'.tag # "none" =>
               /\ \A p \in 1..2 : Votes(completion'.tag, p, completion'.matching)
               /\ completion'.round = state'.round
                    => completion'.matching \subseteq Approvals'
      PROVE  EveryPhasePassed'
  BY <1>3, Rigid DEF EveryPhasePassed, Votes
<1>4. CASE Patch
  <2>1. /\ cmd.pc = "patch" /\ UNCHANGED <<conf, state>>
        /\ completion' = [completion EXCEPT !.tag = cmd.tag, !.depth = state.depth]
    BY <1>4 DEF Patch
  <2>2. completion'.tag = cmd.tag /\ completion'.matching = cmd.union
    BY <2>1 DEF TypeOK, VotesInv
  <2>3. /\ Votes(cmd.tag, 1, cmd.union) /\ Votes(cmd.tag, 2, cmd.union)
        /\ cmd.union \subseteq Approvals
    BY <2>1 DEF CmdInv, VotesInv, Busy
  <2>4. Approvals' = Approvals
    BY <1>4, SameDisk
  <2>5. \A p \in 1..2 : Votes(completion'.tag, p, completion'.matching)
    BY <2>2, <2>3
  <2>6. completion'.matching \subseteq Approvals'
    BY <2>2, <2>3, <2>4
  <2> QED BY <1>3, <2>1, <2>5, <2>6
<1>5. CASE Write \/ Harvest
  <2>1. completion'.tag = "none" /\ conf' = conf
    BY <1>5 DEF Write, Harvest, NoCompletion
  <2> QED BY <1>3, <2>1
<1>6. CASE New \/ Resume
  <2>1. conf' = conf /\ completion' = completion /\ state'.round = state.round + 1
    BY <1>6 DEF New, Resume, Begin, TypeOK, States
  <2>2. completion'.round # state'.round
    BY <1>1, <2>1
  <2> QED BY <1>2, <1>3, <2>1, <2>2
<1>7. CASE \/ Create \/ \E s \in Slots : Register(s) \/ Timeout(s) \/ Die(s)
           \/ Recover \/ Abort \/ Cooldown \/ Pick \/ Launch \/ Gather
           \/ Evaluate \/ Record \/ GiveUp
  <2>1. Approvals \subseteq Approvals' /\ conf' = conf
    BY <1>7, CreateDisk, RegisterDisk, SameDisk
  <2>2. completion' = completion
    BY <1>7 DEF Create, Register, Timeout, Die, Recover, Abort, Cooldown, Pick,
                Launch, Gather, Evaluate, Record, GiveUp
  <2>3. state'.round = state.round
    <3>1. CASE Record
      BY <3>1 DEF Record, ApplyOutcome, CmdInv, Deciding, TypeOK, States
    <3>2. CASE ~Record
      BY <1>7, <3>2 DEF Create, Register, Timeout, Die, Recover, Abort, Cooldown,
                        Pick, Launch, Gather, Evaluate, GiveUp
    <3> QED BY <3>1, <3>2
  <2> QED BY <1>2, <1>3, <2>1, <2>2, <2>3
<1> QED BY <1>4, <1>5, <1>6, <1>7 DEF Next, Command, RunPhase

\* Directories of the second phase appear when the first has been won.
LEMMA OrderStep ==
  ASSUME Inv, Next, TypeOK'
  PROVE  PhasesInOrder'
<1> USE DEF Inv
<1> DEFINE first == {s \in Approvals : s[1] = 1}
           mixed == \E s \in SlotDirs : s[1] = 1 /\ s[2] = "s"
<1>1. conf \in Configs /\ Approvals \subseteq Slots /\ Approvals' \subseteq Slots
  BY DEF TypeOK, Approvals
<1>2. CASE New \/ Resume
  BY <1>2, BeginDisk DEF PhasesInOrder
<1>3. CASE Create
  <2>1. PICK s \in Current : SlotDirs' = SlotDirs \cup {s}
    BY <1>3, CreateDisk
  <2>2. cmd.pc = "create" /\ conf' = conf /\ Approvals' = Approvals
    BY <1>3, CreateDisk DEF Create
  <2>3. /\ cmd.tag \in Tagged /\ s \in All(cmd.tag) /\ s[1] = cmd.phase
        /\ SlotDirs \subseteq All(cmd.tag)
    BY <2>1, <2>2, CurrentSlots DEF DirsInv, Busy
  <2>4. CASE cmd.phase = 1
    BY <2>1, <2>2, <2>3, <2>4 DEF DirsInv, Busy, PhasesInOrder
  <2>5. CASE cmd.phase = 2
    <3>1. Votes(cmd.tag, 1, cmd.union) /\ cmd.union \subseteq Approvals
      BY <2>2, <2>5 DEF VotesInv, Busy
    <3>2. cmd.union \cap PhaseSlots(cmd.tag, 1) \in SUBSET first /\ first \in SUBSET Slots
      BY <1>1, <2>3, <3>1, PhaseSlot
    <3>3. /\ Cardinality(first) \in Nat
          /\ Cardinality(first) >= Cardinality(cmd.union \cap PhaseSlots(cmd.tag, 1))
      BY <3>2, Size
    <3>4. Cardinality(first) >= Pipeline(cmd.tag)[1].threshold
      <4>1. Cardinality(cmd.union \cap PhaseSlots(cmd.tag, 1)) \in Nat
        BY <3>2, Size
      <4>2. Pipeline(cmd.tag)[1].threshold \in Nat
        BY <1>1, <2>3, Counts, Config DEF Tagged
      <4> QED BY <3>1, <3>3, <4>1, <4>2 DEF Votes
    <3>5. mixed' => cmd.tag = "PL-E"
      <4>1. SlotDirs' \subseteq PhaseSlots(cmd.tag, 1) \cup PhaseSlots(cmd.tag, 2)
        BY <2>1, <2>3 DEF All
      <4>2. /\ \A t \in PhaseSlots(cmd.tag, 2) : t[1] = 2
            /\ \A t \in PhaseSlots(cmd.tag, 1) : cmd.tag = "PL-D" => t[2] = "d"
        BY <1>1, <2>3, PhaseSlot
      <4> QED BY <2>3, <4>1, <4>2 DEF Tagged
    <3>6. Cardinality(first) >= conf.n /\ (cmd.tag = "PL-E" => Cardinality(first) >= conf.m)
      BY <1>1, <2>3, <3>3, <3>4, Counts, Config DEF Tagged
    <3> QED BY <2>2, <3>5, <3>6 DEF PhasesInOrder
  <2> QED BY <2>4, <2>5 DEF TypeOK
<1>4. CASE conf' = conf /\ SlotDirs' = SlotDirs /\ Approvals \subseteq Approvals'
  <2>1. first \in SUBSET first' /\ first' \in SUBSET Slots
    BY <1>1, <1>4
  <2>2. /\ Cardinality(first) <= Cardinality(first')
        /\ Cardinality(first) \in Nat /\ Cardinality(first') \in Nat
    BY <2>1, Size
  <2>3. conf.n \in Nat /\ conf.m \in Nat
    BY <1>1, Config
  <2> QED BY <1>4, <2>2, <2>3 DEF PhasesInOrder
<1> QED BY <1>2, <1>3, <1>4, SameDisk, RegisterDisk DEF Next, Command, RunPhase

\* RECOVER's approvals keep their number when they lose their phases.
LEMMA Pooled ==
  ASSUME Inv
  PROVE  Cardinality({<<0, s[2], s[3]>> : s \in Approvals}) = Cardinality(Approvals)
<1> DEFINE Pool == {<<0, s[2], s[3]>> : s \in Approvals}
           f    == [s \in Approvals |-> <<0, s[2], s[3]>>]
<1>1. Approvals \in SUBSET Slots /\ IsFiniteSet(Approvals)
  BY SlotsFinite, FS_Subset DEF Approvals
<1>2. PICK tag \in Tagged : Approvals \subseteq All(tag)
  BY DEF Inv, DirsInv, Approvals, SlotDirs
<1>3. \A s, t \in Approvals : f[s] = f[t] => s = t
  BY <1>2, IdsApart DEF Inv, TypeOK
<1>4. f \in Bijection(Approvals, Pool)
  <2>1. f \in [Approvals -> Pool] /\ \A t \in Pool : \E s \in Approvals : f[s] = t
    OBVIOUS
  <2> QED BY <1>3, <2>1 DEF Bijection, Injection, Surjection, IsInjective
<1>5. ExistsBijection(Approvals, Pool)
  BY <1>4 DEF ExistsBijection
<1> QED BY <1>1, <1>5, FS_Bijection

\* Who completes a goal: Write and Patch for a pipeline, RECOVER without one.
LEMMA AuditStep ==
  ASSUME Inv, Next, TypeOK'
  PROVE  AuditInv'
<1> USE DEF Inv
<1>1. ASSUME UNCHANGED <<conf, completion>>
      PROVE  AuditInv'
  BY <1>1, Rigid, RigidVotes DEF AuditInv
<1>2. CASE Write \/ Patch
  <2>1. /\ cmd.pc \in {"write", "patch"} /\ conf' = conf
        /\ completion'.matching = cmd.union /\ completion'.tag \in {"none", cmd.tag}
    BY <1>2 DEF Write, Patch, NoCompletion, VotesInv, TypeOK
  <2>2. /\ cmd.tag \in Tagged /\ cmd.union \subseteq All(cmd.tag)
        /\ Votes(cmd.tag, 1, cmd.union) /\ Votes(cmd.tag, 2, cmd.union)
    BY <2>1 DEF CmdInv, DirsInv, VotesInv, Busy, Approvals, SlotDirs
  <2> QED BY <2>1, <2>2, Rigid, RigidVotes DEF AuditInv
<1>3. CASE Harvest
  <2>1. /\ conf' = conf /\ Cardinality(Approvals) >= conf.n
        /\ completion'.matching = {<<0, s[2], s[3]>> : s \in Approvals}
    BY <1>3 DEF Harvest, Won, NoCompletion
  <2>2. Cardinality(completion'.matching) >= conf'.n
    BY <2>1, Pooled
  <2>3. \A s \in completion'.matching : s[1] = 0
    BY <2>1
  <2> QED BY <2>2, <2>3 DEF AuditInv
<1> QED BY <1>1, <1>2, <1>3 DEF Next, Command, RunPhase, New, Resume, Begin, Recover,
     Abort, Cooldown, Pick, Create, Launch, Gather, Evaluate, Record, GiveUp,
     Timeout, Register, Die

\* A batch has as many slots as its phase has verifiers of the role.
LEMMA BatchSize ==
  ASSUME conf \in Configs, NEW tag \in Tagged, NEW p \in 1..2, NEW r \in {"d", "s"}
  PROVE  /\ IsFiniteSet(Batch(tag, p, r))
         /\ Cardinality(Batch(tag, p, r)) \in 0..Pipeline(tag)[p][r]
<1> DEFINE k == Pipeline(tag)[p][r]
           f == [i \in 1..k |-> <<p, r, Offset(tag, p, r) + i>>]
<1>1. k \in Nat
  BY Counts, Config DEF Tagged
<1>2. f \in Surjection(1..k, Batch(tag, p, r))
  <2>1. f \in [1..k -> Batch(tag, p, r)] /\ \A s \in Batch(tag, p, r) : \E i \in 1..k : f[i] = s
    BY DEF Batch
  <2> QED BY <2>1 DEF Surjection
<1>3. ExistsSurjection(1..k, Batch(tag, p, r))
  BY <1>2 DEF ExistsSurjection
<1> HIDE DEF k
<1>4. IsFiniteSet(Batch(tag, p, r)) /\ Cardinality(Batch(tag, p, r)) <= k
  <2>1. IsFiniteSet(Batch(tag, p, r))
    BY <1>1, <1>3, FS_NatSurjection
  <2> QED BY <1>1, <1>3, <2>1, FS_SurjCardinalityBound
<1> QED BY <1>1, <1>4, FS_CardinalityType DEF k

LEMMA MatchingFinite ==
  ASSUME TypeOK
  PROVE  IsFiniteSet(completion.matching)
<1> DEFINE Old  == {s \in completion.matching : s[1] = 0}
           New0 == completion.matching \ Old
           f == [s \in Slots |-> <<0, s[2], s[3]>>]
<1>1. New0 \subseteq Slots
  BY DEF TypeOK, Slots
<1>2. IsFiniteSet(New0)
  BY <1>1, SlotsFinite, FS_Subset
<1>3. IsFiniteSet({f[s] : s \in Slots})
  <2>1. f \in Surjection(Slots, {f[s] : s \in Slots})
    BY DEF Surjection
  <2> HIDE DEF f
  <2> QED BY <2>1, SlotsFinite, FS_Surjection
<1>4. Old \subseteq {f[s] : s \in Slots}
  <2>1. ASSUME NEW s \in Old
        PROVE  \E t \in Slots : s = f[t]
    <3>1. s = <<0, s[2], s[3]>> /\ <<1, s[2], s[3]>> \in Slots
      BY DEF TypeOK, Slots
    <3> QED BY <3>1
  <2> QED BY <2>1
<1>5. IsFiniteSet(Old)
  BY <1>3, <1>4, FS_Subset
<1>6. completion.matching = Old \cup New0
  OBVIOUS
<1> QED BY <1>2, <1>5, <1>6, FS_Union

\* The approvals of a pipeline, added up over its phases.
LEMMA SumOfPhases ==
  ASSUME conf \in Configs, NEW tag \in Tagged, NEW t \in {"none", tag}, NEW M,
         M \subseteq All(tag), \A p \in 1..2 : Votes(tag, p, M)
  PROVE  /\ Cardinality(M) \in ((IF t = "PL-E" THEN conf.m ELSE conf.n) + conf.confirm)
                                  .. (conf.m + conf.confirm)
         /\ \E s, u \in M : s[1] = 1 /\ u[1] = 2
<1> DEFINE A(p) == M \cap PhaseSlots(tag, p)
<1>1. ASSUME NEW p \in 1..2
      PROVE  /\ IsFiniteSet(A(p)) /\ Cardinality(A(p)) \in Nat
             /\ Cardinality(A(p)) <= Pipeline(tag)[p]["d"] + Pipeline(tag)[p]["s"]
             /\ \A s \in A(p) : s[1] = p
  <2>1. /\ IsFiniteSet(Batch(tag, p, "d"))
        /\ Cardinality(Batch(tag, p, "d")) \in 0..Pipeline(tag)[p]["d"]
        /\ IsFiniteSet(Batch(tag, p, "s"))
        /\ Cardinality(Batch(tag, p, "s")) \in 0..Pipeline(tag)[p]["s"]
    BY BatchSize
  <2>2. /\ IsFiniteSet(PhaseSlots(tag, p))
        /\ Cardinality(PhaseSlots(tag, p)) =
             Cardinality(Batch(tag, p, "d")) + Cardinality(Batch(tag, p, "s"))
               - Cardinality(Batch(tag, p, "d") \cap Batch(tag, p, "s"))
    BY <2>1, FS_Union DEF PhaseSlots
  <2>3. Batch(tag, p, "d") \cap Batch(tag, p, "s") = {}
    BY DEF Batch
  <2>4. Cardinality({}) = 0
    BY FS_EmptySet
  <2>5. Cardinality(A(p)) <= Cardinality(PhaseSlots(tag, p)) /\ IsFiniteSet(A(p))
    BY <2>2, FS_Subset
  <2>6. Cardinality(A(p)) \in Nat /\ \A s \in A(p) : s[1] = p
    BY <2>5, FS_CardinalityType, PhaseSlot
  <2>7. Pipeline(tag)[p]["d"] \in Nat /\ Pipeline(tag)[p]["s"] \in Nat
    BY Counts, Config DEF Tagged
  <2>8. Cardinality(A(p)) <= Pipeline(tag)[p]["d"] + Pipeline(tag)[p]["s"]
    <3> DEFINE c == Cardinality(A(p))
               d == Cardinality(Batch(tag, p, "d"))
               e == Cardinality(Batch(tag, p, "s"))
               x == Pipeline(tag)[p]["d"]
               y == Pipeline(tag)[p]["s"]
    <3>1. c \in Nat /\ x \in Nat /\ y \in Nat /\ d \in 0..x /\ e \in 0..y
      BY <2>1, <2>6, <2>7
    <3>2. c <= d + e - 0
      BY <2>2, <2>3, <2>4, <2>5
    <3> HIDE DEF c, d, e, x, y
    <3>3. c <= x + y
      BY <3>1, <3>2
    <3> QED BY <3>3 DEF c, x, y
  <2> QED BY <2>5, <2>6, <2>8
<1>2. M = A(1) \cup A(2) /\ A(1) \cap A(2) = {}
  <2>1. M = A(1) \cup A(2)
    BY DEF All
  <2>2. A(1) \cap A(2) = {}
    BY <1>1
  <2> QED BY <2>1, <2>2
<1>3. \A p \in 1..2 : Cardinality(A(p)) >= Pipeline(tag)[p].threshold
  BY DEF Votes
<1>4. \A p \in 1..2 : Pipeline(tag)[p].threshold >= 1 /\ Pipeline(tag)[p].threshold \in Nat
  <2>1. Pipeline(tag)[1].threshold \in {conf.n, conf.m}
    BY Counts DEF Tagged
  <2>2. Pipeline(tag)[2].threshold = conf.confirm
    BY Counts
  <2>3. conf.n >= 1 /\ conf.m >= 1 /\ conf.confirm >= 1
    BY Config
  <2>4. \A p \in 1..2 : p = 1 \/ p = 2
    OBVIOUS
  <2> QED BY <2>1, <2>2, <2>3, <2>4, Config
<1> HIDE DEF A
<1>5. Cardinality(M) = Cardinality(A(1)) + Cardinality(A(2))
  BY <1>1, <1>2, FS_Union, FS_EmptySet
<1>6. /\ Pipeline(tag)[1]["d"] + Pipeline(tag)[1]["s"] = conf.m
      /\ Pipeline(tag)[2]["d"] + Pipeline(tag)[2]["s"] = conf.confirm
  <2>1. CASE tag = "PL-D"
    BY <2>1, Counts, Config
  <2>2. CASE tag = "PL-E"
    <3> DEFINE h == conf.m \div 2
    <3>1. /\ Pipeline(tag)[1]["d"] = h /\ Pipeline(tag)[1]["s"] = conf.m - h
          /\ Pipeline(tag)[2]["d"] = 0 /\ Pipeline(tag)[2]["s"] = conf.confirm
      BY <2>2, Counts
    <3>2. h \in Nat /\ conf.m \in Nat /\ conf.confirm \in Nat
      BY Config
    <3> HIDE DEF h
    <3> QED BY <3>1, <3>2
  <2> QED BY <2>1, <2>2 DEF Tagged
<1>7. /\ Pipeline(tag)[2].threshold = conf.confirm
      /\ Pipeline(tag)[1].threshold >= IF t = "PL-E" THEN conf.m ELSE conf.n
  <2>1. CASE tag = "PL-D"
    <3>1. t # "PL-E" /\ Pipeline(tag)[1].threshold = conf.n
      BY <2>1, Counts
    <3> QED BY <3>1, Config, Counts
  <2>2. CASE tag = "PL-E"
    <3>1. Pipeline(tag)[1].threshold = conf.m
      BY <2>2, Counts
    <3> QED BY <3>1, Config, Counts
  <2> QED BY <2>1, <2>2 DEF Tagged
<1>8. \A p \in 1..2 : A(p) # {}
  <2>1. ASSUME NEW p \in 1..2, A(p) = {}
        PROVE  FALSE
    BY <1>1, <1>3, <1>4, <2>1, FS_EmptySet
  <2> QED BY <2>1
<1>9. \E s, u \in M : s[1] = 1 /\ u[1] = 2
  BY <1>1, <1>2, <1>8
<1>10. /\ Cardinality(A(1)) \in Nat /\ Cardinality(A(2)) \in Nat
       /\ Cardinality(A(1)) <= conf.m /\ Cardinality(A(2)) <= conf.confirm
       /\ Cardinality(A(1)) >= Pipeline(tag)[1].threshold
       /\ Cardinality(A(2)) >= conf.confirm
  BY <1>1, <1>3, <1>6, <1>7
<1>11. conf.n \in Nat /\ conf.m \in Nat /\ conf.confirm \in Nat
       /\ Pipeline(tag)[1].threshold \in Nat
  BY Config, <1>4
<1> QED BY <1>5, <1>7, <1>9, <1>10, <1>11

LEMMA PipelineStep == Inv /\ [Next]_vars => Inv'
<1> SUFFICES ASSUME Inv, [Next]_vars PROVE Inv'
  OBVIOUS
<1>1. CASE Next
  BY <1>1, TypeStep, CmdStep, DirsStep, VotesStep, CountStep, AuditStep, PassedStep,
     OrderStep
  DEF Inv
<1>2. CASE UNCHANGED vars
  <2>1. UNCHANGED <<conf, state, torn, verdict, completion, cmd, log>>
    BY <1>2 DEF vars
  <2>2. SlotDirs' = SlotDirs /\ Approvals' = Approvals
    BY <2>1 DEF SlotDirs, Approvals
  <2>3. TypeOK'
    BY <1>2, TypeStep
  <2>4. CmdInv'
    BY <2>1 DEF Inv, CmdInv, ShouldEscalate
  <2>5. DirsInv' /\ VotesInv' /\ CountInv' /\ AuditInv'
    BY <2>1, <2>2, Rigid, RigidVotes DEF Inv, DirsInv, VotesInv, CountInv, AuditInv
  <2>6. EveryPhasePassed' /\ PhasesInOrder'
    BY <2>1, <2>2, Rigid DEF Inv, EveryPhasePassed, PhasesInOrder
  <2> QED BY <2>3, <2>4, <2>5, <2>6 DEF Inv
<1> QED BY <1>1, <1>2

LEMMA PipelineAlways == Spec => []Inv
BY InitPipeline, PipelineStep, PTL DEF Spec

-------------------------------------------------------------------------------
(***************************************************************************)
(* Theorems                                                                *)
(***************************************************************************)

\* The goal's files, the verifiers and the command of run_dynamic_round keep
\* their types, and every outcome it saves is one of the six.
THEOREM PipelineTypes == Spec => []TypeOK
BY PipelineAlways, PTL DEF Inv

\* A completion that run_dynamic_round has tagged rests on the votes of both
\* phases, for any configuration and wherever commands are killed.
THEOREM RestsOnEveryPhase == Spec => []EveryPhasePassed
BY PipelineAlways, PTL DEF Inv

\* The early exit: no verifier of a second phase without a won first phase.
THEOREM KeepsPhaseOrder == Spec => []PhasesInOrder
BY PipelineAlways, PTL DEF Inv

\* The ids that spawn_round gives out (prefix, offset, index) tell the slots of
\* a round apart without their phases.
THEOREM IdsTellSlotsApart == Spec => []IdsDistinct
<1>1. Inv => IdsDistinct
  <2> SUFFICES ASSUME Inv PROVE IdsDistinct
    OBVIOUS
  <2>1. PICK tag \in Tagged : SlotDirs \subseteq All(tag)
    BY DEF Inv, DirsInv
  <2>2. conf \in Configs
    BY DEF Inv, TypeOK
  <2> QED BY <2>1, <2>2, IdsApart DEF IdsDistinct
<1> QED BY <1>1, PipelineAlways, PTL

\* AUDIT's count, which holds the sum of the approvals to sums of thresholds and
\* sizes, is never wrong about a pipeline's own completion, and refuses one of
\* RECOVER only for approvals pooled from two phases.
THEOREM AuditsThePhases == Spec => []AuditAccepts
<1>1. Inv => AuditAccepts
  <2> SUFFICES ASSUME Inv, completion # NoCompletion
               PROVE  AuditCount <=> \/ \E s \in completion.matching : s[1] # 0
                                     \/ Cardinality(completion.matching) <= conf.m
    BY DEF AuditAccepts
  <2> DEFINE M == completion.matching
             gate == IF completion.tag = "PL-E" THEN conf.m ELSE conf.n
  <2>1. conf \in Configs /\ Cardinality(M) \in Nat
    BY MatchingFinite, FS_CardinalityType DEF Inv, TypeOK
  <2>2. CASE (\A s \in M : s[1] = 0) /\ Cardinality(M) >= conf.n
    <3>1. {s[1] : s \in M} \subseteq {0}
      BY <2>2
    <3>2. AuditCount <=> Cardinality(M) \in conf.n .. conf.m
      BY <3>1 DEF AuditCount
    <3>3. ~ \E s \in M : s[1] # 0
      BY <2>2
    <3> HIDE DEF M
    <3>4. Cardinality(M) \in conf.n .. conf.m <=> Cardinality(M) <= conf.m
      BY <2>1, <2>2, Config
    <3> QED BY <3>2, <3>3, <3>4 DEF M
  <2>3. ASSUME NEW tag \in Tagged, completion.tag \in {"none", tag}, M \subseteq All(tag),
               \A p \in 1..2 : Votes(tag, p, M)
        PROVE  AuditCount /\ \E s \in M : s[1] # 0
    <3>1. /\ Cardinality(M) \in (gate + conf.confirm) .. (conf.m + conf.confirm)
          /\ \E s, t \in M : s[1] = 1 /\ t[1] = 2
      BY <2>1, <2>3, SumOfPhases
    <3>2. \E p, q \in {s[1] : s \in M} : p # q
      BY <3>1
    <3>3. ~({s[1] : s \in M} \subseteq {0}) /\ \E s \in M : s[1] # 0
      BY <3>1
    <3> QED BY <3>1, <3>2, <3>3 DEF AuditCount
  <2> QED BY <2>2, <2>3 DEF Inv, AuditInv
<1> QED BY <1>1, PipelineAlways, PTL

\* A choice that is due by the code's reading is one that the policy allows, and
\* one that is not due is one that the policy does not demand.
LEMMA WithinPolicy ==
  ASSUME conf \in Configs, log \in Seq(Policy!Outcomes)
  PROVE  /\ Due(conf, log) => Policy!MayEscalate(conf, log)
         /\ Policy!MustEscalate(conf, log) => Due(conf, log)
<1> DEFINE last == (Len(log) - conf.threshold + 1) .. Len(log)
<1>1. /\ Len(log) \in Nat /\ DOMAIN log = 1..Len(log)
      /\ conf.threshold \in Nat /\ conf.m \in Nat /\ conf.retries \in Nat
  BY Config
<1>2. \A S \in SUBSET (1..Len(log)) : IsFiniteSet(S) /\ Cardinality(S) \in Nat
  <2>1. IsFiniteSet(1..Len(log))
    <3>1. 1 \in Int /\ Len(log) \in Int
      BY <1>1
    <3> QED BY ONLY <3>1, FS_Interval
  <2> QED BY <2>1, FS_Subset, FS_CardinalityType
<1>3. ASSUME Due(conf, log)
      PROVE  Policy!MayEscalate(conf, log)
  <2>1. conf.threshold > 0 /\ conf.threshold <= Len(log)
    BY <1>3 DEF Due, Policy!Streak
  <2>2. last \subseteq Policy!Refusals(log)
    BY <1>1, <1>3, <2>1 DEF Due, Policy!Streak, Policy!Refusals
  <2>3. Cardinality(last) = conf.threshold
    <3>1. /\ Len(log) - conf.threshold + 1 \in Int /\ Len(log) \in Int
          /\ ~(Len(log) - conf.threshold + 1 > Len(log))
          /\ Len(log) - (Len(log) - conf.threshold + 1) + 1 = conf.threshold
      BY <1>1, <2>1
    <3> QED BY <3>1, FS_Interval
  <2>4. Policy!Refusals(log) \in SUBSET (1..Len(log))
    BY <1>1 DEF Policy!Refusals
  <2> HIDE DEF last
  <2>5. Cardinality(last) <= Cardinality(Policy!Refusals(log))
    BY <1>2, <2>2, <2>4, FS_Subset
  <2>6. Cardinality(Policy!Refusals(log)) >= conf.threshold
    BY <1>1, <1>2, <2>3, <2>4, <2>5
  <2>7. conf.retries > 0 => Cardinality(Policy!Failures(log)) < conf.retries
    BY <1>1, <1>3 DEF Due
  <2> QED BY <1>3, <2>6, <2>7, PolicyCardinality
          DEF Due, Policy!MayEscalate, Policy!Enabled
<1>4. ASSUME Policy!MustEscalate(conf, log)
      PROVE  Due(conf, log)
  <2>1. Policy!Failures(log) \subseteq Policy!Escalations(log)
    BY DEF Policy!Failures, Policy!Escalations, Policy!FailedEscalation,
           Policy!EscalatedOutcomes
  <2>2. /\ Policy!Escalations(log) \in SUBSET (1..Len(log))
        /\ Policy!Failures(log) \in SUBSET (1..Len(log))
    BY <1>1 DEF Policy!Escalations, Policy!Failures
  <2>3. Cardinality(Policy!Failures(log)) <= Cardinality(Policy!Escalations(log))
    BY <1>2, <2>1, <2>2, FS_Subset
  <2>4. Cardinality(Policy!Escalations(log)) < conf.retries
    BY <1>4, PolicyCardinality DEF Policy!MustEscalate
  <2>5. Cardinality(Policy!Failures(log)) < conf.retries
    BY <1>1, <1>2, <2>2, <2>3, <2>4
  <2> QED BY <1>4, <2>5 DEF Policy!MustEscalate, Policy!Enabled, Due
<1> QED BY <1>3, <1>4

\* esca_count and escalation_depth, reset and bumped over any number of
\* invocations, escalate within the policy.
THEOREM FollowsThePolicy == Spec => EscalatesByPolicy
<1>1. Init => Policy!Init
  BY DEF Init, Policy!Init
<1>2. ASSUME Inv, [Next]_vars
      PROVE  [Policy!Next]_<<conf, log>>
  <2>1. CASE Record
    <3>1. cmd.tag = "PL-E" <=> Due(conf, log)
      BY <1>2, <2>1, ChoiceDue DEF Inv, CmdInv, Record, Deciding
    <3>2. /\ conf' = conf /\ log' = Append(log, Outcome(cmd))
          /\ Outcome(cmd) \in IF cmd.tag = "PL-E" THEN Policy!EscalatedOutcomes
                                                  ELSE Policy!DefaultOutcomes
      BY <1>2, <2>1, Recorded
    <3>3. /\ cmd.tag = "PL-E" => Policy!MayEscalate(conf, log)
          /\ cmd.tag # "PL-E" => ~Policy!MustEscalate(conf, log)
      BY <1>2, <3>1, WithinPolicy DEF Inv, TypeOK
    <3> QED BY <3>2, <3>3 DEF Policy!Next
  <2>2. CASE ~Record
    BY <1>2, <2>2 DEF vars, Next, Command, RunPhase, New, Resume, Begin, Recover,
       Abort, Cooldown, Pick, Create, Launch, Gather, Evaluate, Write, Patch,
       Harvest, GiveUp, Timeout, Register, Die
  <2> QED BY <2>1, <2>2
<1> QED BY <1>1, <1>2, PipelineAlways, PTL
        DEF Spec, EscalatesByPolicy, Policy!Spec

\* Where the policy leaves a choice, this is the code's: over any number of
\* invocations, an invocation that is under way runs PL-E if that is due. Gate's
\* rejections end a streak, and a goal without retries left goes on with PL-D.
RunsWhatIsDue ==
  cmd.pc \in Deciding => (cmd.tag = "PL-E" <=> Due(conf, log))

\* The pipeline of an invocation is chosen once, from two counters read before it;
\* the history still calls for it when the outcome is about to be recorded.
THEOREM TheCodesChoice == Spec => []RunsWhatIsDue
<1>1. Inv => RunsWhatIsDue
  BY ChoiceDue DEF Inv, CmdInv, RunsWhatIsDue
<1> QED BY <1>1, PipelineAlways, PTL

-------------------------------------------------------------------------------
(***************************************************************************)
(* What follows for any completion                                         *)
(***************************************************************************)

\* However a goal was completed, by a pipeline, by one cut off before its tag,
\* or by RECOVER, the completion lists n approvals or more, and, while its round
\* is current, each of them is a verdict on disk, of the phase that it names.
CompletionsAreBacked ==
  /\ completion # NoCompletion => Cardinality(completion.matching) >= conf.n
  /\ completion.round = state.round =>
       \A s \in completion.matching :
         \E t \in Approvals : s[1] \in {0, t[1]} /\ s[2] = t[2] /\ s[3] = t[3]

LEMMA EnoughMatching ==
  ASSUME Inv, completion # NoCompletion
  PROVE  Cardinality(completion.matching) >= conf.n
<1>1. conf \in Configs
  BY DEF Inv, TypeOK
<1>2. CASE \E tag \in Tagged :
             /\ completion.tag \in {"none", tag}
             /\ completion.matching \subseteq All(tag)
             /\ \A p \in 1..2 : Votes(tag, p, completion.matching)
  <2>1. Cardinality(completion.matching) \in
          ((IF completion.tag = "PL-E" THEN conf.m ELSE conf.n) + conf.confirm)
             .. (conf.m + conf.confirm)
    BY <1>1, <1>2, SumOfPhases
  <2> QED BY <1>1, <2>1, Config
<1> QED BY <1>2 DEF Inv, AuditInv

LEMMA BackedStep ==
  ASSUME Inv, Inv', CompletionsAreBacked, Next
  PROVE  CompletionsAreBacked'
<1> USE DEF Inv
<1>1. completion' # NoCompletion => Cardinality(completion'.matching) >= conf'.n
  <2>1. (Inv /\ completion # NoCompletion)'
          => (Cardinality(completion.matching) >= conf.n)'
    BY EnoughMatching, PTL
  <2> QED BY <2>1
<1>2. /\ state.round \in Nat /\ completion.round \in Nat
      /\ completion.round <= state.round
  BY BoundAssumption DEF TypeOK, States, VotesInv
<1>3. CASE New \/ Resume
  <2>1. completion' = completion /\ state'.round = state.round + 1
    BY <1>3 DEF New, Resume, Begin, TypeOK, States
  <2>2. completion'.round # state'.round
    BY <1>2, <2>1
  <2> QED BY <1>1, <2>2 DEF CompletionsAreBacked
<1>4. CASE Write \/ Patch
  <2>1. cmd.pc \in {"write", "patch"} /\ completion'.matching = cmd.union
    BY <1>4 DEF Write, Patch, NoCompletion, VotesInv, TypeOK
  <2>2. cmd.union \subseteq Approvals
    BY <2>1 DEF VotesInv, Busy
  <2>3. Approvals' = Approvals
    BY <1>4, SameDisk
  <2> QED BY <1>1, <2>1, <2>2, <2>3 DEF CompletionsAreBacked
<1>5. CASE Harvest
  <2>1. completion'.matching = {<<0, s[2], s[3]>> : s \in Approvals}
    BY <1>5 DEF Harvest, NoCompletion
  <2>2. Approvals' = Approvals
    BY <1>5, SameDisk
  <2> QED BY <1>1, <2>1, <2>2 DEF CompletionsAreBacked
<1>6. CASE \/ Create \/ \E s \in Slots : Register(s) \/ Timeout(s) \/ Die(s)
           \/ Recover \/ Abort \/ Cooldown \/ Pick \/ Launch \/ Gather
           \/ Evaluate \/ Record \/ GiveUp
  <2>1. Approvals \subseteq Approvals'
    BY <1>6, CreateDisk, RegisterDisk, SameDisk
  <2>2. completion' = completion
    BY <1>6 DEF Create, Register, Timeout, Die, Recover, Abort, Cooldown, Pick,
                Launch, Gather, Evaluate, Record, GiveUp
  <2>3. state'.round = state.round
    <3>1. CASE Record
      BY <3>1 DEF Record, ApplyOutcome, CmdInv, Deciding, TypeOK, States
    <3>2. CASE ~Record
      BY <1>6, <3>2 DEF Create, Register, Timeout, Die, Recover, Abort, Cooldown,
                        Pick, Launch, Gather, Evaluate, GiveUp
    <3> QED BY <3>1, <3>2
  <2> QED BY <1>1, <2>1, <2>2, <2>3 DEF CompletionsAreBacked
<1> QED BY <1>3, <1>4, <1>5, <1>6 DEF Next, Command, RunPhase

\* No path to completion.json, killed or not, writes an approval that nobody gave.
THEOREM EveryCompletionIsBacked == Spec => []CompletionsAreBacked
<1>1. Init => CompletionsAreBacked
  BY DEF Init, NoCompletion, CompletionsAreBacked
<1>2. Inv /\ Inv' /\ CompletionsAreBacked /\ [Next]_vars => CompletionsAreBacked'
  <2>1. CASE UNCHANGED vars
    BY <2>1 DEF vars, CompletionsAreBacked, Approvals
  <2> QED BY <2>1, BackedStep
<1> QED BY <1>1, <1>2, PipelineAlways, PTL DEF Spec

-------------------------------------------------------------------------------
(***************************************************************************)
(* What follows for the rejections of the second phase                     *)
(***************************************************************************)

\* A pipeline's second phase is one batch of `confirm' smart verifiers.
LEMMA SecondPhase ==
  ASSUME conf \in Configs, NEW tag \in Tagged
  PROVE  /\ IsFiniteSet(PhaseSlots(tag, 2))
         /\ Cardinality(PhaseSlots(tag, 2)) \in 0..conf.confirm
<1>1. /\ IsFiniteSet(Batch(tag, 2, "d")) /\ Cardinality(Batch(tag, 2, "d")) \in 0..0
      /\ IsFiniteSet(Batch(tag, 2, "s"))
      /\ Cardinality(Batch(tag, 2, "s")) \in 0..conf.confirm
  <2>1. Pipeline(tag)[2]["d"] = 0 /\ Pipeline(tag)[2]["s"] = conf.confirm
    BY Counts
  <2>2. \A r \in {"d", "s"} : /\ IsFiniteSet(Batch(tag, 2, r))
                              /\ Cardinality(Batch(tag, 2, r)) \in 0..Pipeline(tag)[2][r]
    BY BatchSize
  <2> QED BY <2>1, <2>2
<1>2. Batch(tag, 2, "d") = {}
  BY <1>1, FS_EmptySet
<1>3. PhaseSlots(tag, 2) = Batch(tag, 2, "s")
  BY <1>2 DEF PhaseSlots
<1> QED BY <1>1, <1>3

\* While the round of a tagged completion is the current one, every verifier of
\* its second phase has approved, those that the pipeline did not wait for
\* included: what pipeline/mod.rs calls final is final for run_dynamic_round,
\* and only RECOVER, which tags nothing, completes a round against it.
TaggedIsUnanimous ==
  completion.tag # "none" /\ completion.round = state.round =>
    \A s \in SlotDirs : s[1] = 2 => verdict[s] = "approve"

THEOREM PipelinesAreUnanimous == Spec => []TaggedIsUnanimous
<1>1. Inv => TaggedIsUnanimous
  <2> SUFFICES ASSUME Inv, completion.tag # "none", completion.round = state.round,
                      NEW s \in SlotDirs, s[1] = 2
               PROVE  verdict[s] = "approve"
    BY DEF TaggedIsUnanimous
  <2> DEFINE M == completion.matching
             T == PhaseSlots(completion.tag, 2)
  <2>1. conf \in Configs /\ completion.tag \in Tagged
    BY DEF Inv, TypeOK, Tags, Tagged
  <2>2. PICK tag \in Tagged : SlotDirs \subseteq All(tag)
    BY DEF Inv, DirsInv
  <2> DEFINE U == PhaseSlots(tag, 2)
  <2>3. M \subseteq Approvals /\ Cardinality(M \cap T) >= conf.confirm
    <3>1. Pipeline(completion.tag)[2].threshold = conf.confirm
      BY <2>1, Counts
    <3> QED BY <3>1 DEF Inv, EveryPhasePassed
  <2>4. /\ IsFiniteSet(T) /\ Cardinality(T) \in 0..conf.confirm
        /\ IsFiniteSet(U) /\ Cardinality(U) \in 0..conf.confirm
    BY <2>1, SecondPhase
  <2>5. conf.confirm \in Nat
    BY <2>1, Config
  <2>6. \A t \in SlotDirs : t[1] = 2 => t \in U
    BY <2>1, <2>2, PhaseSlot DEF All
  <2>7. \A t \in T : t[1] = 2
    BY <2>1, PhaseSlot
  <2>8. Approvals \subseteq SlotDirs
    BY DEF Approvals, SlotDirs
  <2> HIDE DEF M, T, U
  <2>9. M \cap T = T
    <3>1. /\ IsFiniteSet(M \cap T) /\ Cardinality(M \cap T) \in Nat
          /\ Cardinality(M \cap T) <= Cardinality(T)
          /\ Cardinality(M \cap T) = Cardinality(T) => M \cap T = T
      BY <2>4, FS_Subset, FS_CardinalityType
    <3> QED BY <2>3, <2>4, <2>5, <3>1
  <2>10. T \subseteq U
    BY <2>3, <2>6, <2>7, <2>8, <2>9
  <2>11. T = U
    <3>1. Cardinality(T) <= Cardinality(U) /\ (Cardinality(T) = Cardinality(U) => T = U)
      BY <2>4, <2>10, FS_Subset
    <3> QED BY <2>3, <2>4, <2>5, <2>9, <3>1
  <2>12. s \in Approvals
    BY <2>3, <2>6, <2>9, <2>11
  <2> QED BY <2>12 DEF Approvals
<1> QED BY <1>1, PipelineAlways, PTL

-------------------------------------------------------------------------------
(***************************************************************************)
(* What follows for escalation                                             *)
(***************************************************************************)

\* No more escalations fail than escalation_retries allows, and each escalated
\* run comes right after `threshold' refusals by Confirm, so that no two of
\* them follow each other; a threshold of 0 or a single slot never escalates.
EscalatesSparingly ==
  /\ conf.retries > 0 => state.depth <= conf.retries
  /\ \A i \in DOMAIN log : log[i] \in Policy!EscalatedOutcomes =>
       /\ conf.threshold > 0 /\ conf.m >= 2 /\ i > conf.threshold
       /\ \A j \in (i - conf.threshold) .. (i - 1) : log[j] = "confirm_reject"

LEMMA SparingStep == Inv /\ EscalatesSparingly /\ [Next]_vars => EscalatesSparingly'
<1> SUFFICES ASSUME Inv, EscalatesSparingly, [Next]_vars PROVE EscalatesSparingly'
  OBVIOUS
<1>1. /\ Len(log) \in Nat /\ DOMAIN log = 1..Len(log) /\ state.depth \in Nat
      /\ log \in Seq(Policy!Outcomes)
      /\ conf.threshold \in Nat /\ conf.m \in Nat /\ conf.retries \in Nat
  BY Config DEF Inv, TypeOK, States
<1>2. CASE Record
  <2> DEFINE o == Outcome(cmd)
  <2>1. /\ conf' = conf /\ o \in Policy!Outcomes /\ log' = Append(log, o)
        /\ state'.depth = IF o \in Policy!FailedEscalation
                            THEN state.depth + 1 ELSE state.depth
        /\ o \in IF cmd.tag = "PL-E" THEN Policy!EscalatedOutcomes
                                     ELSE Policy!DefaultOutcomes
    BY <1>2, Recorded
  <2>2. cmd.tag = "PL-E" <=> ShouldEscalate(state)
    BY <1>2 DEF Record, Inv, CmdInv, Deciding
  <2>3. o \in Policy!EscalatedOutcomes => cmd.tag = "PL-E"
    BY <2>1 DEF Policy!EscalatedOutcomes, Policy!DefaultOutcomes
  <2>4. o \in Policy!FailedEscalation => o \in Policy!EscalatedOutcomes
    BY DEF Policy!FailedEscalation, Policy!EscalatedOutcomes
  <2> HIDE DEF o
  <2>5. /\ DOMAIN log' = 1..(Len(log) + 1) /\ log'[Len(log) + 1] = o
        /\ \A i \in 1..Len(log) : log'[i] = log[i]
    BY <1>1, <2>1
  <2>6. conf.retries > 0 => state'.depth <= conf.retries
    <3>1. ASSUME conf.retries > 0, o \in Policy!FailedEscalation
          PROVE  state.depth < conf.retries
      BY <1>1, <2>2, <2>3, <2>4, <3>1 DEF ShouldEscalate
    <3> QED BY <1>1, <2>1, <3>1 DEF EscalatesSparingly
  <2>7. ASSUME o \in Policy!EscalatedOutcomes
        PROVE  /\ conf.threshold > 0 /\ conf.m >= 2 /\ Len(log) + 1 > conf.threshold
               /\ \A j \in (Len(log) + 1 - conf.threshold) .. Len(log) :
                    log[j] = "confirm_reject"
    <3>1. Due(conf, log)
      BY <2>2, <2>3, <2>7, ChoiceDue DEF Inv
    <3> QED BY <1>1, <3>1 DEF Due, Policy!Streak
  <2>8. ASSUME NEW i \in DOMAIN log', log'[i] \in Policy!EscalatedOutcomes
        PROVE  /\ conf.threshold > 0 /\ conf.m >= 2 /\ i > conf.threshold
               /\ \A j \in (i - conf.threshold) .. (i - 1) : log'[j] = "confirm_reject"
    <3>1. CASE i = Len(log) + 1
      <4>1. o \in Policy!EscalatedOutcomes
        BY <2>5, <2>8, <3>1
      <4>2. \A j \in (i - conf.threshold) .. (i - 1) : j \in 1..Len(log)
        BY <1>1, <2>7, <3>1, <4>1
      <4> QED BY <1>1, <2>5, <2>7, <3>1, <4>1, <4>2
    <3>2. CASE i \in 1..Len(log)
      <4>1. /\ conf.threshold > 0 /\ conf.m >= 2 /\ i > conf.threshold
            /\ \A j \in (i - conf.threshold) .. (i - 1) : log[j] = "confirm_reject"
        BY <1>1, <2>5, <2>8, <3>2 DEF EscalatesSparingly
      <4>2. \A j \in (i - conf.threshold) .. (i - 1) : j \in 1..Len(log)
        BY <1>1, <3>2, <4>1
      <4> QED BY <2>5, <4>1, <4>2
    <3> QED BY <1>1, <2>5, <3>1, <3>2
  <2> QED BY <2>1, <2>6, <2>8 DEF EscalatesSparingly
<1>3. CASE ~Record
  <2>1. UNCHANGED <<conf, log>> /\ state'.depth = state.depth
    BY <1>3 DEF Inv, TypeOK, States, vars, Next, Command, RunPhase, New, Resume, Begin,
       Recover, Abort, Cooldown, Pick, Create, Launch, Gather, Evaluate, Write,
       Patch, Harvest, GiveUp, Timeout, Register, Die
  <2> QED BY <2>1 DEF EscalatesSparingly
<1> QED BY <1>2, <1>3

\* The two limits of escalation, which state.json's counters keep over any
\* number of invocations, kills, cooldowns and recoveries.
THEOREM EscalationIsBounded == Spec => []EscalatesSparingly
<1>1. Init => EscalatesSparingly
  <2> SUFFICES ASSUME Init PROVE EscalatesSparingly
    OBVIOUS
  <2>1. conf.retries \in Nat
    BY Config DEF Init
  <2> QED BY <2>1 DEF Init, EscalatesSparingly
<1> QED BY <1>1, SparingStep, PipelineAlways, PTL DEF Spec

-------------------------------------------------------------------------------
(***************************************************************************)
(* How far an invocation is from its end                                   *)
(***************************************************************************)

\* Where a command is in its run: the phases, in each the two batches.
StageOf(c) ==
  LET later == IF c.phase = 1 THEN 5 ELSE 0
      smart == IF c.role = "d" THEN 2 ELSE 0 IN
  CASE c.pc = "idle"               -> 0
    [] c.pc \in {"scan", "patch"}  -> 1
    [] c.pc = "write"              -> 2
    [] c.pc = "record"             -> 3
    [] c.pc = "evaluate"           -> 4 + later
    [] c.pc = "gather"             -> 5 + later + smart
    [] c.pc = "create"             -> 6 + later + smart
    [] c.pc = "pick"               -> 14

\* The slots that its stage still has to deal with.
Running == {s \in Current : session[s] = "live"}
Pending == CASE cmd.pc = "create" -> Missing
             [] cmd.pc = "gather" -> Running
             [] OTHER             -> {}

Width == Cardinality(Slots) + 1
Rank  == StageOf(cmd) * Width + Cardinality(Pending)

\* The stages, place by place.
LEMMA Stages ==
  ASSUME NEW c \in Commands
  PROVE  /\ StageOf(c) \in 0..14
         /\ c.pc = "idle" <=> StageOf(c) = 0
         /\ c.pc \in {"scan", "patch"} => StageOf(c) = 1
         /\ c.pc = "write" => StageOf(c) = 2
         /\ c.pc = "record" => StageOf(c) = 3
         /\ c.pc = "evaluate" => StageOf(c) = IF c.phase = 1 THEN 9 ELSE 4
         /\ c.pc = "gather" => StageOf(c) = (IF c.phase = 1 THEN 10 ELSE 5)
                                              + (IF c.role = "d" THEN 2 ELSE 0)
         /\ c.pc = "create" => StageOf(c) = (IF c.phase = 1 THEN 11 ELSE 6)
                                              + (IF c.role = "d" THEN 2 ELSE 0)
         /\ c.pc = "pick" => StageOf(c) = 14
<1>1. c.pc \in PCs /\ c.phase \in 1..2 /\ c.role \in {"d", "s"}
  BY DEF Commands
<1>2. CASE c.pc \in {"idle", "scan", "patch", "write", "record"}
  BY <1>1, <1>2 DEF StageOf
<1>3. CASE c.pc \in {"evaluate", "gather", "create", "pick"}
  BY <1>1, <1>3 DEF StageOf
<1> QED BY <1>1, <1>2, <1>3 DEF PCs

PendingFits ==
  /\ Width \in Nat \ {0} /\ IsFiniteSet(Pending) /\ Pending \in SUBSET Slots
  /\ Cardinality(Pending) \in 0..(Width - 1)

LEMMA PendingSize == Inv => PendingFits
<1> SUFFICES ASSUME Inv PROVE PendingFits
  OBVIOUS
<1>1. Pending \in SUBSET Slots
  <2>1. cmd.pc \in {"create", "gather"} => Current \subseteq Slots
    BY CurrentSlots DEF Busy, Inv
  <2> QED BY <2>1 DEF Pending, Missing, Running
<1>2. /\ IsFiniteSet(Slots) /\ Cardinality(Slots) \in Nat
      /\ IsFiniteSet(Pending) /\ Cardinality(Pending) \in Nat
      /\ Cardinality(Pending) <= Cardinality(Slots)
  BY <1>1, Size, SlotsFinite
<1> QED BY <1>1, <1>2 DEF Width, PendingFits

\* Stages outweigh what is pending in them.
LEMMA Outweighs ==
  ASSUME NEW w \in Nat \ {0}, NEW a \in 0..14, NEW b \in 0..14,
         NEW x \in 0..(w - 1), NEW y \in 0..(w - 1), b < a
  PROVE  b * w + y < a * w + x
<1>1. PICK d \in 1..14 : a = b + d
  <2>1. a - b \in 1..14 /\ a = b + (a - b)
    OBVIOUS
  <2> QED BY <2>1
<1>2. a * w = b * w + d * w /\ b * w \in Nat /\ d * w >= w /\ d * w \in Nat
  BY <1>1
<1> QED BY <1>2

LEMMA NextStage ==
  ASSUME Inv, Inv', StageOf(cmd') < StageOf(cmd)
  PROVE  Rank' < Rank
<1>1. PendingFits
  BY PendingSize
<1>2. PendingFits'
  <2>1. Inv' => PendingFits'
    BY PendingSize, PTL
  <2> QED BY <2>1
<1>3. cmd \in Commands /\ cmd' \in Commands
  BY DEF Inv, TypeOK, Commands
<1>4. StageOf(cmd) \in 0..14 /\ StageOf(cmd') \in 0..14
  BY <1>3, Stages
<1>5. Width' = Width
  BY DEF Width
<1>6. /\ Width \in Nat \ {0} /\ Cardinality(Pending) \in 0..(Width - 1)
      /\ Cardinality(Pending') \in 0..(Width - 1)
  BY <1>1, <1>2, <1>5 DEF PendingFits
<1>7. Rank' = StageOf(cmd') * Width + Cardinality(Pending')
  BY <1>5 DEF Rank
<1> QED BY <1>4, <1>6, <1>7, Outweighs DEF Rank

LEMMA SameStage ==
  ASSUME Inv, Inv', cmd' = cmd
  PROVE  /\ Pending' \subseteq Pending => Rank' <= Rank
         /\ Pending' \subseteq Pending /\ Pending' # Pending => Rank' < Rank
<1>1. PendingFits
  BY PendingSize
<1>2. PendingFits'
  <2>1. Inv' => PendingFits'
    BY PendingSize, PTL
  <2> QED BY <2>1
<1>3. StageOf(cmd) \in 0..14 /\ Width' = Width /\ Width \in Nat
  BY <1>1, Stages DEF Inv, TypeOK, Commands, Width, PendingFits
<1>4. /\ IsFiniteSet(Pending)
      /\ Cardinality(Pending) \in Nat /\ Cardinality(Pending') \in Nat
  BY <1>1, <1>2, <1>3 DEF PendingFits
<1>5. Pending' \subseteq Pending =>
        /\ Cardinality(Pending') <= Cardinality(Pending)
        /\ Cardinality(Pending') = Cardinality(Pending) => Pending' = Pending
  BY <1>4, FS_Subset
<1>6. Rank' = StageOf(cmd) * Width + Cardinality(Pending')
  BY <1>3 DEF Rank
<1>7. StageOf(cmd) * Width \in Nat
  BY <1>3
<1> QED BY <1>4, <1>5, <1>6, <1>7 DEF Rank

\* The steps between two stages.
LEMMA StageDrops ==
  ASSUME Inv, Inv', cmd.pc # "idle",
         \/ Cooldown \/ Pick \/ Launch \/ Gather \/ Evaluate \/ Record
         \/ Write \/ Patch \/ Harvest \/ GiveUp \/ Abort
  PROVE  StageOf(cmd') < StageOf(cmd)
<1>1. cmd \in Commands /\ cmd' \in Commands
  BY DEF Inv, TypeOK, Commands
<1>2. StageOf(cmd) \in 1..14
  BY <1>1, Stages
<1>3. CASE Cooldown \/ Patch \/ Harvest \/ GiveUp \/ Abort
  <2>1. cmd'.pc = "idle"
    BY <1>3 DEF Cooldown, Patch, Harvest, GiveUp, Abort, Idle
  <2> QED BY <1>1, <1>2, <2>1, Stages
<1>4. CASE Pick
  <2>1. cmd.pc = "pick" /\ cmd'.pc = "create" /\ cmd'.phase \in 1..2
    BY <1>1, <1>4 DEF Pick, Commands
  <2> QED BY <1>1, <2>1, Stages
<1>5. CASE Launch
  <2>1. /\ cmd.pc = "create" /\ cmd'.pc = "gather"
        /\ cmd'.phase = cmd.phase /\ cmd'.role = cmd.role
    BY <1>1, <1>5 DEF Launch, Commands
  <2> QED BY <1>1, <2>1, Stages
<1>6. CASE Gather
  <2>1. /\ cmd.pc = "gather" /\ cmd'.phase = cmd.phase
        /\ cmd'.role = "s" /\ cmd'.pc = IF cmd.role = "d" THEN "create" ELSE "evaluate"
    BY <1>1, <1>6 DEF Gather, Commands
  <2> QED BY <1>1, <2>1, Stages
<1>7. CASE Evaluate
  <2>1. \/ /\ cmd.phase = 1 /\ cmd'.phase = 2 /\ cmd'.pc = "create" /\ cmd'.role = "d"
        \/ cmd'.pc = "record"
    BY <1>1, <1>7 DEF Evaluate, GoOn, LastPhase, Commands
  <2>2. cmd.pc = "evaluate" /\ cmd.phase \in 1..2
    BY <1>1, <1>7 DEF Evaluate, Commands
  <2> QED BY <1>1, <2>1, <2>2, Stages
<1>8. CASE Record
  <2>1. cmd.pc = "record" /\ cmd'.pc \in {"write", "idle"}
    BY <1>1, <1>8 DEF Record, Idle, Commands
  <2> QED BY <1>1, <2>1, Stages
<1>9. CASE Write
  <2>1. cmd.pc = "write" /\ cmd'.pc = "patch"
    BY <1>1, <1>9 DEF Write, Commands
  <2> QED BY <1>1, <2>1, Stages
<1> QED BY <1>3, <1>4, <1>5, <1>6, <1>7, <1>8, <1>9

\* The steps inside a stage.
LEMMA PendingDrops ==
  ASSUME Inv, Inv', cmd.pc # "idle",
         Create \/ \E s \in Slots : Timeout(s) \/ Register(s) \/ Die(s)
  PROVE  /\ cmd' = cmd /\ Pending' \subseteq Pending
         /\ Create \/ (\E s \in Slots : Timeout(s)) => Pending' # Pending
<1>1. CASE Create
  <2>1. cmd' = cmd /\ conf' = conf /\ cmd.pc = "create"
    BY <1>1 DEF Create
  <2>2. PICK s \in Missing : verdict' = [verdict EXCEPT ![s] = "null"]
    BY <1>1 DEF Create
  <2>3. Current' = Current
    BY <2>1 DEF Current, Batch, Offset, Pipeline, Phase
  <2>4. Current \subseteq Slots
    BY <2>1, CurrentSlots DEF Busy, Inv
  <2>5. Pending = Missing /\ Pending' = Missing'
    BY <2>1 DEF Pending
  <2>6. \A t \in Slots : verdict'[t] = IF t = s THEN "null" ELSE verdict[t]
    BY <2>2, <2>4 DEF Inv, TypeOK
  <2>7. Missing' \subseteq Missing /\ s \notin Missing'
    BY <2>2, <2>3, <2>4, <2>6 DEF Missing
  <2> QED BY <2>1, <2>2, <2>5, <2>7
<1>2. ASSUME NEW s \in Slots, Timeout(s) \/ Register(s) \/ Die(s)
      PROVE  /\ cmd' = cmd /\ Pending' \subseteq Pending
             /\ Timeout(s) => Pending' # Pending
  <2>1. cmd' = cmd /\ conf' = conf
    BY <1>2 DEF Timeout, Register, Die
  <2>2. Current' = Current
    BY <2>1 DEF Current, Batch, Offset, Pipeline, Phase
  <2>3. \A t \in Slots : session'[t] = "live" => session[t] = "live" /\ t # s
    BY <1>2 DEF Timeout, Register, Die, Inv, TypeOK
  <2>4. \A t \in Slots : verdict'[t] = "none" <=> verdict[t] = "none"
    BY <1>2 DEF Timeout, Register, Die, Inv, TypeOK
  <2>5. cmd.pc \in {"create", "gather"} => Current \subseteq Slots
    BY CurrentSlots DEF Busy, Inv
  <2>6. CASE cmd.pc = "create"
    <3>1. Pending = Missing /\ Pending' = Missing' /\ ~Timeout(s)
      BY <2>1, <2>6 DEF Pending, Timeout
    <3> QED BY <2>1, <2>2, <2>4, <2>5, <2>6, <3>1 DEF Missing
  <2>7. CASE cmd.pc = "gather"
    <3>1. Pending = Running /\ Pending' = Running'
      BY <2>1, <2>7 DEF Pending
    <3>2. Running' \subseteq Running /\ s \notin Running'
      BY <2>2, <2>3, <2>5, <2>7 DEF Running
    <3>3. Timeout(s) => s \in Running
      BY DEF Timeout, Running
    <3> QED BY <2>1, <3>1, <3>2, <3>3
  <2>8. CASE cmd.pc \notin {"create", "gather"}
    <3>1. Pending = {} /\ Pending' = {} /\ ~Timeout(s)
      BY <2>1, <2>8 DEF Pending, Timeout
    <3> QED BY <2>1, <3>1
  <2> QED BY <2>6, <2>7, <2>8
<1>3. Create => ~\E s \in Slots : Timeout(s)
  BY DEF Create, Timeout
<1> QED BY <1>1, <1>2, <1>3

\* An invocation runs out of steps: each one brings it nearer to its end, the
\* second phase and a kill included, and what a verifier does in between never
\* sets it back. Its length is bounded by the two phases' batches alone.
THEOREM InvocationRunsOut ==
  Spec => /\ [](Rank \in 0 .. 15 * Width)
          /\ [][cmd.pc # "idle" =>
                  \/ Rank' < Rank
                  \/ (\E s \in Slots : Register(s) \/ Die(s)) /\ Rank' <= Rank]_vars
<1>1. Inv => Rank \in 0 .. 15 * Width
  <2> SUFFICES ASSUME Inv PROVE Rank \in 0 .. 15 * Width
    OBVIOUS
  <2>1. Width \in Nat \ {0} /\ Cardinality(Pending) \in 0..(Width - 1)
    BY PendingSize DEF PendingFits
  <2>2. StageOf(cmd) \in 0..14
    BY Stages DEF Inv, TypeOK, Commands
  <2> QED BY <2>1, <2>2 DEF Rank
<1>2. Inv /\ Inv' /\ [Next]_vars =>
        [cmd.pc # "idle" =>
           \/ Rank' < Rank
           \/ (\E s \in Slots : Register(s) \/ Die(s)) /\ Rank' <= Rank]_vars
  <2> SUFFICES ASSUME Inv, Inv', Next, cmd.pc # "idle"
               PROVE  \/ Rank' < Rank
                      \/ (\E s \in Slots : Register(s) \/ Die(s)) /\ Rank' <= Rank
    OBVIOUS
  <2>1. CASE \/ Cooldown \/ Pick \/ Launch \/ Gather \/ Evaluate \/ Record
             \/ Write \/ Patch \/ Harvest \/ GiveUp \/ Abort
    BY <2>1, StageDrops, NextStage
  <2>2. CASE Create \/ \E s \in Slots : Timeout(s)
    BY <2>2, PendingDrops, SameStage
  <2>3. CASE \E s \in Slots : Register(s) \/ Die(s)
    BY <2>3, PendingDrops, SameStage
  <2>4. ~New /\ ~Resume /\ ~Recover
    BY DEF New, Resume, Begin, Recover
  <2> QED BY <2>1, <2>2, <2>3, <2>4 DEF Next, Command, RunPhase
<1> QED BY <1>1, <1>2, PipelineAlways, PTL DEF Spec

===============================================================================
