# verifier-loop in TLA+

verifier-loop lets an agent (A) declare a goal done only after at least `n` of
`m` independent verifier sessions (V1..Vm) have registered an APPROVE. `jewilo`
(`src/src/bin/verifier_loop.rs`) creates goals, spawns rounds of verifiers and
decides; `jewije` (`src/src/bin/verifier_verdict.rs`) is what a verifier calls
to register its verdict. There is no server: all state is in files under
`~/.verifier-loop`, and everything that happens at once happens in separate
processes that are killed, outlive each other and meet only in those files.
This directory holds TLA+ models of that, the TLC runs that check them and
TLAPS proofs about them.

## 1. The system

| Component | State | Operations | Hard behaviour | What makes it correct |
|---|---|---|---|---|
| Goal lifecycle, rounds (`goal`, `bin/verifier_loop.rs`) | `goal.json`, `signature.json`, `state.json` (current round), `rounds/<r>/<v>/` | NEW, RESUME, RECOVER | kill at any point; commands on the same goal at once; verifiers of a killed command live on | no slot is spawned twice; a round that is won is not lost; commands end |
| Goal lock, STATUS, RECOVER (`round_recover`) | flock on `.lock` | acquire/drop, STATUS probe, poll loop with a deadline | STATUS takes no lock; verdict files are read one by one; deadline against a late verdict | one command at a time; advice never contradicts an outcome still to come |
| Consensus (`consensus`) | `completion.json` | evaluate, compute_hash, write_completion | inputs read non-atomically; config edits; receipts still on their way | a completion is backed by the approvals it names |
| Verdict registration (`verdict`, jewije) | `verdict.json`, `verdict.json.tmp`, pinned key, secret | mint and pin, register approve/reject | check-then-rename without a lock; kill between steps; shared temporary name | the first verdict is final; a reader finds whole records |
| Receipt log (`receipt`) | `receipt-log.jsonl` and its flock | append, read head, verify | concurrent appends; kill while holding the lock, or in the middle of a line | one chain, few receipts lost, nobody stuck |
| Verifier sessions (`spawn`) | child processes, pipes, `meta.json` | spawn_round, spawn_resume, gather, nudge, recovery nudge | timeouts that do not reach descendants; bounded nudges with counters on disk; sequential barrier; verifiers that outlive a killed command | the barrier opens; nudge bounds are kept; two backends do not meet in a first run |
| Backend protocol (`acp`) | none | templates, ParseEvent, the extraction of session id, final output and compaction | output cut short or mixed with other programs' lines | what is extracted is lost or true |
| Health (`health`) | `health.jsonl`, shared by the goals of a store | record, in_cooldown | no lock: commands of several goals check and append at once, lines interleave; consulted after the round number is taken | the threshold is exceeded by the rounds in flight only; a cooldown ends |
| Pipelines (`pipeline`) | phases, `escaCount`, `escalationDepth` | run_dynamic_round, apply_outcome | several phases of verifiers in one round; counters over many invocations; state.json cut short | gates decide phase by phase; escalation follows the policy |
| Store, config (`store`) | `config.json`, `.salt` | load, validate | edited while goals are in flight; goal.json keeps the copy of NEW | a decision uses one valid configuration |
| Stats, AUDIT (`stats`) | read only | collect, audit | goes by goal.json where commands go by config.json; reads files that others still append to | AUDIT accepts what the commands complete; a digest reproduces |
| Prompts, tracing, crypto, CLI | none that a decision reads | rendering, telemetry | | |

Interaction: jewilo spawns verifiers as children and waits for them under the
goal lock. A verifier calls jewije, which writes the slot's verdict file, then
appends to the goal's receipt log. jewilo reads verdict files after the barrier
(NEW, RESUME) or in a poll loop (RECOVER), evaluates, reads the receipt head
and writes `completion.json`. STATUS and AUDIT only read.

## 2. The modules

| Module | What it is |
|---|---|
| `GoalCertificate` | what a goal promises: one final ballot per slot and round, certificates only over approvals |
| `GoalRound` | a goal, the jewilo processes on it and the verifier sessions; implements `GoalCertificate` |
| `MCGoalRound` | its TLC instances |
| `GoalRound_proofs` | its theorems |
| `GoalProgress_proofs` | the safety half of its liveness, and what is true of the claims it refutes |
| `VerdictLedger` | what registration promises: a write-once slot, receipts only for verdicts that are there |
| `VerdictSlot` | jewije by file steps: inodes, the temporary file, the rename, the log's flock; implements `VerdictLedger` where calls on a slot do not overlap |
| `MCVerdictSlot`, `VerdictSlot_proofs` | its instances and theorems |
| `VerifierSession` | one slot's backend session over the rounds: meta.json, the turn budget, the loop in `gather` that asks for a verdict |
| `VerifierSession_proofs` | its theorems |
| `AcpStream` | the parser of a backend's output and what `gather` takes from it: pure operators, used by `VerifierSession` |
| `AcpStream_proofs` | its theorem |
| `EscalationPolicy` | which pipeline the outcomes so far call for, as far as design, comments and code agree |
| `PipelineRound` | a goal under a dump/smart configuration: two phases in one invocation, the counters in state.json, STATUS and RECOVER over the phase directories; implements `EscalationPolicy` |
| `MCPipelineRound`, `PipelineRound_proofs` | its instances and theorems |
| `OneKey` | what minting promises: a slot has one key, handed out by the call that made it |
| `SlotKey` | mint_and_pin_pubkey by file steps with failures and kills, jewije's regime gate, evaluate's signature check; implements `OneKey` |
| `MCSlotKey`, `SlotKey_proofs` | its instance and theorems |
| `HealthCooldown` | the health log of a store and the commands of its goals, which check it and append to it without a lock |
| `MCHealthCooldown`, `HealthCooldown_proofs` | its instance and theorems |

The two layers meet in the ledger's steps: `GoalRound` has `Register` (the
verdict is on disk) and `AppendReceipt` as atomic steps of a session, which is
what `VerdictSlot` shows of the file operations: both implement `VerdictLedger`,
the one over its slots and sessions, the other over files (`LedgerImplemented`,
`KeepsTheLedger`). `VerifierSession` opens up what
`GoalRound` does between `Launch` and `Reap` of one slot: a session of
`GoalRound` stands for the first child and all its nudge children.
`PipelineRound` is the other kind of invocation: with a dump or a smart adapter
configured, jewilo runs `run_dynamic_round` where `GoalRound` has `run_round`.
It takes the lock and the sessions as given. `SlotKey` opens up the minting
within `Launch` and is why the other modules may say that signatures verify.
`HealthCooldown` looks at the one file that goals share: its `Begin` is the
`Cooldown`/`Healthy` choice of `GoalRound`, which is free there, and its later
steps are what a round leaves behind between `gather` and `scan`.

### GoalRound

*Files*: `live` is config.json (`n`, `m`), `created` the copy of it in
goal.json, `round` is state.json, `verdict` the verdict files ("none" when the
slot has no directory yet, "null" for the placeholder), `receipts` the receipt log, `completion` completion.json. The log
is a set and a chain head is the set of entries below it, because the head
hashes exactly those, and a digest is its three inputs. `completion.need` is
history. `AuditCount` and `AuditHash` are two of AUDIT's checks, as functions
of the files.

*Processes*: `cmd[c]` is a jewilo process with its program counter, the config
it loaded, its round and the verdicts read so far; `holder` is the owner of
the flock. `session[r][v]` is a verifier session: the child, its nudge children
and whatever they left behind, and the one jewije call among them that counts.
Sessions outlive the command that spawned them. A slot that has its key and no
child is "minted", and stays so for ever when the command is killed in between.

| pc | Code | Actions |
|---|---|---|
| idle | start of a command, `config.json` loaded | `New`, `Resume`, `Recover` |
| probe, look | RECOVER asks STATUS: `status()` lists the slots, reads them one by one, answers | `List`, `Read`, `Advise` |
| create | `goal::new`, which loads config.json again | `Create` |
| lock | `GoalLock::acquire_exclusive`, `try_lock` | `Acquire`, `Busy` |
| bump | `goal::resume` | `Bump` |
| health | `health::in_cooldown` | `Cooldown`, `Healthy` |
| render | initial-prompt.txt, which makes the slot's directory | `Render`, slot by slot |
| mint | placeholder and key of each slot | `Mint`, slot by slot |
| spawn | the children, once every slot has its key | `Launch`, slot by slot |
| gather | the barrier over the children, one after the other | `Reap`, `Timeout` |
| drain | pipes of a killed child that a descendant keeps open | `Drain` |
| scan, read | `read_round_verdicts`, or the loop over v1..vm | `Scan`, `Read` |
| | `evaluate`, receipt head | `Pass`, `Fail`, `Poll`; `Expire` is the deadline |
| write | `write_completion` | `Write` |

`Abort` ends a command anywhere (a kill or an error return: the OS drops the
lock and nothing on disk is undone). NEW writes its three files in one step, as
no other command knows the goal before. STATUS takes no lock: the number of the
round, the listing, every verdict file and the existence of completion.json are
steps of their own (`Recover`, `List`, `Read`, `Advise`), between which rounds
begin, verdicts land and completions appear. Files that cannot change the answer
any more are not read (`Settled`). A verdict that cannot be parsed is an `Abort` for
a round and a null for RECOVER. NEW makes the goal before it locks and keeps
round 1, as the code does.

`Timeout` deserves a word. `isolate_process_group` is empty on purpose, so
`kill_process_group` finds no group and only the direct child dies. What the
child started may survive, may register a verdict later, and may hold the
child's pipes, whose drain this branch of `gather` awaits without a limit. The
branch for a child that exits by itself limits that drain to five seconds, and
is the plain outcome here; the reaping of a nudge child waits like the timeout
branch. STATUS' approvals are counted over all slot directories, as the code
does.

### VerdictSlot

Files are inodes named for the caller that made them, so that a rename moves a
file, an open of an existing temporary file truncates it in place, and a writer
keeps writing into an inode that has meanwhile been renamed. `Check`, `Open`,
`Fill`, `Rename` are the four steps of `write_first_verdict`; `Lock`,
`ReadHead`, `AppendLine`, `Unlock` those of `append_receipt`. `Crash` ends a
call between any two of them, and `CutLine` within the append: some of the line
is in the file, or all of it but the newline. The next line is then written
behind it (`Grown`), and the two are one line that nobody can parse. The reader
of the head (`LastHash`) steps over such a line but counts it, as the code
does. `Racing` is the set of slots on which calls may overlap; outside it a
slot's next call starts when the last one has ended, also when it was killed
half-way. Overlap is not far-fetched: a descendant that survives a timeout and
a nudge child may both call jewije. Only signed calls are modelled: a call whose
secret does not match the pin changes nothing, and unsigned calls of the legacy
regime stop after the rename.

### VerifierSession

A backend session is named for the round that started it. `meta[r]` is
`rounds/<r>/<slot>/meta.json` with the session id, `turnsUsed`, `nudgeAttempts`
and `recoveryAttempts`; `loc` are the locals of `gather`'s loop, `child` is the
session the process that is waited for runs in, `retired` the sessions named in
a `session-archive.json`. `asked`, `counted`, `launched` and `result` are
history.

| pc | Code | Actions |
|---|---|---|
| idle | between commands | `Spawn` (slot directory, reuse or archive), `Skip` (a round number taken and not used) |
| launch | `cmd.spawn()` | `Launch` |
| main | `select!` on the first child | `Exit`, `FailClosed` (prompt not delivered, no session reported), `Timeout` |
| look | `slot_has_verdict` | `Look` |
| loop | the head of the loop | `Stop`, `Ask` (with `checkpoint_meta`) |
| ask | `spawn_nudge_child` | `Nudge` |
| nudge | `reap_nudge_child` | `NudgeExit`, `NudgeTimeout` |
| flush | `flush_meta` | `Flush` |

`Kill` ends the command at any step, and its verifier may go on (`stray`): it
still registers and ends (`RegisterLate`, `EndLate`), while the next command
spawns beside it. An error return is a kill whose verifier dies with it, as
children are spawned with `kill_on_drop`. NEW is a `Spawn` in round 1, where
nothing can be continued. What a verifier prints is every stream of up to
`MaxLines` lines, whole, cut, unknown or of another type, in any order, and what
`gather` learns from it is what `AcpStream` extracts (`Report`); `stdin` is the
adapter's transport, which decides whether the loop runs at all. The model has one slot,
as slots share no session and no meta.json; it lets every drain end.

### AcpStream

A line is known by what the parser tells apart: its type, whether it parses,
whether it has the fields its type needs, the session id it names, and whether
its transcript holds an assistant's answer. `ExtractSid` takes the first session
event, `ExtractFinalOutput` the last answer, as the code does, and a line in
error leaves the others as they are.

### PipelineRound

A slot is `<<phase, role, number>>` for `rounds/<r>/<1a|1b>/<d|s><number>`.
`state` is state.json with `escaCount` and `escalationDepth`; `verdict` and
`session` are those of the current round; `cmd` is the one command that runs,
with the state it loaded (`saved`), the pipeline (`tag`), where it is in it
(`phase`, `role`), the approvals of the phase (`ok`) and of the phases won so
far (`union`). `log`, the outcomes, is history.

| pc | Code | Actions |
|---|---|---|
| idle | a command begins, `goal::new` or `goal::resume` | `New`, `Resume`, `Recover` |
| pick | `in_cooldown`, state.json loaded, `should_run_escalation` | `Cooldown`, `Pick` |
| create | directories, keys, placeholders of a batch, in the order of the ids; then its children | `Create`, `Launch` |
| gather | the barrier of the batch, its verdicts | `Timeout`, `Gather` |
| evaluate | `consensus::evaluate` with the phase's threshold, early exit | `Evaluate` |
| record | `apply_outcome`, state.json saved | `Record` |
| write, patch | `write_completion`; completion.json read back and tagged | `Write`, `Patch` |
| scan | RECOVER's poll loop over all phase directories | `Harvest`, `GiveUp` |

The saved state.json is the loaded one with new counters, so `Record` writes
back `saved` and not `state`; with one command at a time the two agree, which
is what the lock is for. A rewrite of state.json may be cut short (`Tear`,
`torn`): `run_dynamic_round` then reads the default state, round 1 with no
counters, and would save that, were it not for `goal::resume`, which comes
first and refuses such a file. So a goal with a torn state.json stands still.
Every write is a step of its own and `Abort` ends the
command between any two. Only the smart batch follows the dump batch in both
pipelines, empty batches included, as the loop does.

### SlotKey

A key pair is named for the call that made it. `secret` and `pin` are the two
files, `lock` the flock on `.mint.lock`, `stage` and `env` a verifier of the
slot and its `VERIFIER_LOOP_VERIFIER_SECRET`.

| pc | Code | Actions |
|---|---|---|
| look | the check without the lock | `Look` |
| lock, recheck | `lock_exclusive`, the second check | `Lock`, `Recheck` |
| prepare | key pair and both temporary files | `Prepare` |
| secret, pin | `rename` of the secret, `hard_link` of the pin | `PlaceSecret`, `PlacePin` |
| return | the lock file is closed | `Return` |

`Fail` is an I/O error before the pin, with the rollback of the secret, which may
fail too; `Kill` ends the call anywhere. A verifier is a first child (secret
from the call) or a nudge child (secret from the file) and goes through jewije's
gate (`Gate`), `build_signed_record` (`Sign`) and `evaluate`'s `verify_record`
(`Evaluate`). Each of these reads the pin anew.

### HealthCooldown

There is one command per goal, by the goal's lock, and no lock between goals.
`events` are the lines of `health.jsonl` that parse, each with its age instead
of its time (ages beyond the window are alike), and `line` is the last line as
long as nothing has ended it: empty, the beginning of one event, or spoilt.

| pc | Code | Actions |
|---|---|---|
| idle | `in_cooldown`, then the round is spawned | `Begin`; in a cooldown nothing is spawned |
| gather | the runs are classified (`IsRunUnhealthy`) and get their time | `Gather`; nothing is recorded for a pipeline |
| record | `record_unhealthy`, event by event: the line is begun | `OpenLine`; `Drop` is a write that fails |
| tail | the rest of the line | `CloseLine` |

`writeln!` of a JSON value on an unbuffered file is a write for every token; two
of them, with other commands' in between, are enough to tell a line that is
whole from one that is not. `Leave` is the end of the command, also by a kill
at any point, and `Tick` the clock, which is not set back. A round that runs a
pipeline asks for the cooldown but records nothing (`pipelined`).

## 3. The runs

| Run | Bounds | Question |
|---|---|---|
| `core_safety` | 2 processes, 2 slots, 2 rounds, requirement 1-of-2, 1 abort, both processes may ask STATUS at once | are completions backed, slots fresh, the lock exclusive, STATUS' advice final, and is every execution one of `GoalCertificate`? 931 k states |
| `core_live` | 2 processes, 2 slots, 1 round, configurations 2-of-2 and 1-of-1, 1 config edit from one to the other, one process asks STATUS at a time | does every command end, does RECOVER complete a won round, does AUDIT count as the commands did, do receipts follow verdicts? 274 k states |
| `slot_writers` | 3 calls, an exclusive and a contended slot, 2 kills, also in the middle of a receipt | one receipt chain, few receipts lost, whole records, write-once, every call ends? 103 k states |
| `session_turns` | a budget of 3 turns, 3 rounds, 2 kills, outputs of up to 3 lines | does the budget hold over rounds, does the audit trail survive kills, is a first run alone in its session, does the loop end, and for a reason? 457 k states |
| `pipeline` | 3 configurations (1-of-2, 2-of-2, 1-of-1; one confirming verifier), 4 rounds, 1 kill or write cut short | do completions rest on every phase, do phases keep their order and ids their meaning, do the counters follow the policy, does AUDIT accept the completions, do commands end? 520 k states |
| `slot_key` | 3 mints, 2 verifiers, 2 failures or kills | does a slot keep one key with its secret, is no verifier turned away, does every mint end? 3 k states |
| `cooldown` | 2 goals, 2 verifiers, 2 rounds each, the code's threshold of 3, a window of one tick | how far past the threshold can the log go, does a cooldown end? 314 k states |
| `status_done`, `audit_head`, `lingering_child`, `first_verdict`, `rejected_harvest` | the smallest that show it | each refutes one sentence of the documentation, see section 5 |

Why the bounds are enough: two processes give every pair of commands and, with
the lock between them, every pattern of takeover; two rounds give "earlier" and
"current", and a verifier of the first that is late for the second; two slots
tell n from m and give reads between two registrations; one abort is one
kill at every point, after which the rest of the execution is a plain one. The
config is edited in `core_live`, between two configurations that differ in `n` and in
`m`. `core_safety` takes states for one that differ only in receipts (VIEW
`NoReceipts` of `MCGoalRound`): the receipt log and the head of a completion guard
no step and occur in none of that run's properties, and a session that has only
its receipt left to append matters to none but the command that awaits it, whose
round is kept as it is; `core_live` has no view. `Resume` stops at
`MaxRound`, counting RESUMEs under way, so that no process is stuck at a
bound. Two kills in `slot_writers` leave the third call
behind two lines cut short, or behind one that the second call was glued to. A
budget of three turns in three rounds lets a session spend it in one round or
over two, be retired, and be dropped by a kill, a timeout, lost output
or an unused round with turns left; two kills let two verifiers of killed
commands and a third run meet. Three lines of output are two session events or
answers of which one counts, and one line that does not. A pipeline's four rounds are enough for a
streak of two refusals, an escalation and the round after it, or for an
escalation at once, its failure, and the return to the default pipeline with
the retries used up; the three configurations have a threshold below, equal to
and without the choice of slots. Three mints are one that owns the lock, one that waits and one
that comes later, and two of them may break off. Two goals are a command that
checks and one that appends meanwhile, and two verifiers give two lines to
interleave; four failures of the first rounds exceed the threshold, three leave
room for both second rounds, seven events in all, the most `Overshoot` allows. A window of one
tick has events within it, at its edge and beyond. Symmetry (of the processes) is used in safety runs only. Deadlock checking is off:
an operator may stop giving commands.

*Properties of GoalRound.* `CompletionBacked` relates a record to the verdict
files of its round under late verdicts, kills and re-reads. `FreshSlots`: slots
about to be minted have no key and those about to be spawned have a key and no
child, wherever commands are killed between the two loops. `ResumeAdviceFinal`:
when STATUS has listed all slots of a round and answers "resume", nobody is about
to write that round's completion, unless he requires less, although STATUS reads
the files one by one while verdicts land; this is what the comment in `status()` calls
the key correctness fix, and the mutant is the answer without the approval count.
A listing made while the slots are being laid out is another matter, see section
5. `OneAtATime`: a process is past its lock
exactly while it holds it. `CertifiesOnlyBallots`: refinement of
`GoalCertificate`. `AuditAcceptsCount`: config.json is read once by NEW for
goal.json, once by every command for itself, and AUDIT reads goal.json; as long
as nobody edits config.json, no completion is refused for its count. After an edit
the property says nothing: AUDIT and the commands then do count differently
(section 5), and what still holds of a completion is `CompletionBacked`.
`ReceiptsFollowVerdicts`: refinement of `VerdictLedger`, which ties this module's
atomic registration to what jewije's files do. `CommandEnds`,
`WonRoundHarvested`: liveness.

*Properties of VerdictSlot.* `ReceiptsChained` holds on all slots, contended or
not, for all lines that can be read. `LossesBounded`: a line cut short takes the
next receipt with it, whose caller is told that it is in the log, and no more
than that. `VerdictWhole` and `FirstVerdictCounts` (refinement of `VerdictLedger`)
hold on exclusive slots, whatever a killed caller left in the temporary file.
`CallsEnd`: nobody waits for ever for the log.

*Properties of VerifierSession.* `RunningTotal` and `TurnBudget`: four functions
write `turnsUsed` back, into a new file every round, and runs that time out are
not counted; still the total is the session's, and the uncounted runs are at
most as many as the counted ones (an uncounted nudge ends its round, an
uncounted first run loses the session). `RetiredSpent` is about the archive,
`AuditTrail` about kills between checkpoint, spawn and exit, `RecoveryLast` and
`Enforced` about the loop's exits, `GatherEnds` is liveness. `FirstRunAlone`:
meta.json must not name a session before its first run has exited, or a RESUME
after a kill would run it beside the verifier that is still there.

*Properties of PipelineRound.* `EveryPhasePassed`: a tagged completion has the
votes of each phase, over four actions and a kill between any two.
`PhasesInOrder` is about the early exit, seen from the disk. `IdsDistinct` is
what RECOVER, the receipts and the digest rely on when they keep the id of a
slot without its phase. `EscalatesByPolicy` compares two saturating and reset
counters with a statement about the whole history of outcomes, also when the
file that holds them is cut short. The sources do not agree on all of that
history (section 5), and the policy leaves open what they dispute: it says when
PL-E has to run by every reading (an unbroken streak of Confirm's refusals, and
fewer escalations than the limit) and when it may by any (refusals without an
approval or an escalation between them, and escalations left). So it does not
present the code's choice as a promise; that choice, in full, is the theorem
`TheCodesChoice`. `AuditAccepts`: AUDIT sums over phases what
the executor decides phase by phase; it accepts all that a pipeline completes,
whole or cut off before its tag, and the completions it refuses are exactly
those where RECOVER has pooled more than m approvals. `CommandEnds` is
liveness.

*Properties of SlotKey.* `KeyPaired`: "both must land or neither lands".
`KeyFinal`: refinement of `OneKey`. `NobodyRefused`: five reads of two files, by
three processes at different times, agree. `MintsEnd` is liveness.

*Properties of HealthCooldown.* `Overshoot`: check and append are far apart and
under no lock, so the log passes the threshold; it does so by the rounds in
flight at most, one of each goal. A command that skipped the check, or wrote an
event twice, would break it. `CooldownEnds`: events leave the window, and the
rounds that still append are finitely many, since none begins in a cooldown.

*Fairness.* `FairSpec` is weak fairness of each process's own steps (a running
process runs) and of clocks. Nothing is assumed of verifiers: they may never
register, never exit. `ReleasingSpec` adds that a descendant whose pipes a
command drains exits in the end; the code does not enforce it, and
`lingering_child` shows what happens without. `core_live` has no abort, since a
killed RECOVER harvests nothing. In `VerdictSlot` weak fairness of a caller
includes that a free flock goes to a waiter: with as many calls as verifiers
nobody is overtaken for ever.

`VerifierSession` and `PipelineRound` have weak fairness of the command, whose
timeouts stand in for verifiers that never exit. `SlotKey` has weak fairness of
each mint, where again a free flock goes to a waiter. `HealthCooldown` has weak
fairness of the clock alone: a cooldown ends whether or not any command moves.

Each property has a mutant in PROJECT.json: a plausible slip in a mapped
definition (its operator stands before the original, marked "Mutant") which the
run then refutes.

## 4. The proofs

The theorems hold for every number of processes, slots, rounds, turns, calls,
goals, lines and kills. Assumed are only the constants' types: the null process
is no process, bounds are naturals, the goals of a store are finitely many,
configurations satisfy `Config::validate` (1 <= n <= m). They are named in the
modules and evaluated by the runs.

| Theorem | Property | Argument |
|---|---|---|
| `TypeCorrect` | `TypeOK` | inductive by itself; one step per action |
| `MutualExclusion` | `OneAtATime` | inductive with `TypeOK` |
| `Backed` | `CompletionBacked` | a verdict never changes once it is final, so what a process has read of its round stays true ("seen" marks agree with the files); a process at "write" has a passing count |
| `ResumeIsFinal` | `ResumeAdviceFinal` | the same invariant (`SameApprovals`): what STATUS and the writer have read are final verdicts of the same files, STATUS' listing has all slots, so it has seen every approval that the writer counted, and counts at least as many |
| `Implements` | `CertifiesOnlyBallots` | every action maps to `Cast`, `Certify` or a stutter; `Certify` needs the invariant |
| `NoSecondSpawn` | `FreshSlots` | keys and sessions exist only in rounds up to state.json's; a RESUME's round is above them, NEW's round 1 is spawned by NEW only; the two loops keep the slots ahead of them as they are; needs the lock for RESUMEs and holds for NEW although it locks late |
| `AuditCounts` | `AuditAcceptsCount` | until the first edit every configuration loaded anywhere is the one in goal.json; and the slots it may find are those up to m, so the approvals counted are n to m |
| `LedgerImplemented` | `ReceiptsFollowVerdicts` | `Register` and `AppendReceipt` map to the ledger's two steps, all the rest to stutters; a session at "signed" has its verdict on disk |
| `CommandsRunOut` | (safety half of `CommandEnds`) | a rank: the stage of a command and the slots it has still to treat there; each of its steps lowers it, RECOVER's poll and clock excepted, both before the deadline only |
| `AwaitsTheLaunched` | (safety half of `CommandEnds`) | `LaunchedOK`: a command that has come past slot `v` has launched it in its round, and sessions do not vanish |
| `WonStaysWon` | (safety half of `WonRoundHarvested`) | approvals are final, so a win that a reader is heading for cannot be undone by what it has still to read; its only way out is `Write` or a kill |
| `CompletionsAdvance` | (of `status_done`) | `CurrentOK`: a RESUME or RECOVER that has the lock has the current round in hand, whatever it read before it had it |
| `DigestLags` | (of `audit_head`) | the log only grows, so the recomputed digest differs exactly when the head has moved |
| `SlotTypes` | `TypeOK` of VerdictSlot | one step per action |
| `OneChain` | `ReceiptsChained` | what a caller has read of the log is true as long as it holds the flock, lines cut short included |
| `FewLost` | `LossesBounded` | each acknowledged receipt that is lost is charged to the kill whose line it was glued to; an unended last line is a kill that is still free |
| `WholeVerdicts` | `VerdictWhole` | `SlotInv`: a slot has one active caller, an inode never leaves its slot, and a caller that is past the check finds the slot unwritten until its own rename, so nobody writes into an inode that is already in place |
| `KeepsTheLedger` | `FirstVerdictCounts` | the same invariant: `Rename` maps to `Register`, `AppendLine` to `Acknowledge`, and `Open` and `Fill` change no inode that is in place |
| `FirstIsFinal` | (of `first_verdict`) | the ledger lets an owner never change; a slot with an owner has its record as content |
| `ReceiptsHaveVerdicts` | (VerdictSlot) | `SlotInv`: a line is appended by a caller whose record is in place, and stays there |
| `LockIsServed` | (safety half of `CallsEnd`) | inductive: every step that ends a call within the append, a kill included, frees the lock |
| `CutShort` | (AcpStream) | of an output cut short at any line gather extracts the session id of the whole output or none, and a compaction or an answer only if the whole has one; a lemma about operators, from the least and the greatest element of a set of lines |
| `FirstRunsAlone` | `FirstRunAlone` | `Unnamed`, on top of `SessionInv`: the session of a verifier cut off in its first run is not in the current round's meta.json, where alone the next command looks, and no command under way runs it |
| `SessionTypes`, `CountsEveryTurn`, `KeepsTheBudget`, `RetiresTheSpent`, `KeepsTheTrail`, `RecoversOnce`, `AsksForVerdicts` | `TypeOK` to `Enforced` of VerifierSession | one invariant, `SessionInv`, see below |
| `GatherRunsOut` | (safety half of `GatherEnds`) | a rank: the stage in the round and the prompts left; `SessionInv` bounds the prompts by the turn budget |
| `KeyTypes`, `KeepsThePair`, `TurnsNobodyAway` | `TypeOK`, `KeyPaired`, `NobodyRefused` of SlotKey | one invariant, `KeyInv`: until the holder of the lock has placed the pin there is none, from placing the secret on the secret is its own, and a verifier that exists has the pinned key |
| `PipelineTypes`, `RestsOnEveryPhase`, `KeepsPhaseOrder`, `IdsTellSlotsApart` | `TypeOK` to `IdsDistinct` of PipelineRound | one invariant, `Inv`, see below |
| `FollowsThePolicy` | `EscalatesByPolicy` | the same invariant: `esca` is the length of the streak of Confirm's refusals and `depth` the number of failed escalations, which lie between what the policy demands and what it allows, so `Record` maps to a step of the policy and all the rest to stutters |
| `TheCodesChoice` | (PipelineRound) | from the same invariant: an invocation runs PL-E exactly when it is due in the code's reading, also where the policy leaves the choice |
| `AuditsThePhases` | `AuditAccepts` | the invariant of the pipelines: the votes of a completion lie in the phases of its pipeline, so their sum is within the sum of the phases' bounds |
| `PipelinesAreUnanimous` | (of `rejected_harvest`) | a second phase has `confirm` slots and needs as many approvals; both the completion's and the disk's second phase are that one set |
| `EveryCompletionIsBacked` | (PipelineRound) | inductive with `Inv`: RECOVER's pooled approvals are as many as the ids, which tell slots apart, and a pipeline's are those of its phases, added up |
| `EscalationIsBounded` | (PipelineRound) | inductive with `Inv`: a run is escalated only while `depth` is below the retries and after a full streak |
| `InvocationRunsOut` | (safety half of `CommandEnds`) | a rank: the stage over both phases and batches, weighed with the number of slots, and the slots still to be created or awaited |
| `OneKeyEver` | `KeyFinal` | the same invariant: `PlacePin` maps to `Pin`, `Return` to `Hand`, a call that finds the slot pinned to `Refuse`, and all the rest, failures and kills included, to stutters |
| `HealthTypes`, `OneRoundOver` | `TypeOK`, `Overshoot` of HealthCooldown | `HealthInv`: the events of a round are numbered downwards and appear once, and those of rounds that are over never exceed the threshold; a round begins only within it, and what is left are the rounds in flight, one of each goal, counted by an injection |
| `OneMintWins` | (SlotKey) | `KeyInv`: a call can touch the files only while there is no pin, and one that has returned a key owns the pin |
| `CooldownsAreNotFed` | (safety half of `CooldownEnds`) | in a cooldown no round begins; a line that is ended takes its event from what its command owes |

`SlotInv` is where `Racing` enters: with two active callers its first conjunct
fails and with it the rest, which is the execution `first_verdict` shows.

`SessionInv` says for each step of a command how far the runs of its session may
be ahead of the counted ones: by one while the first child runs, one behind in
the loop, level while a nudge runs. That margin is what makes the bound of twice
the budget inductive; even the type of `nudgeAttempts` needs it, since only the
turn count bounds it. Between commands (`Carried`) a session that the next RESUME
may continue is level, and one that is ahead has left no session id.

The invariant of `PipelineRound` has a part for each thing a step relies on:
`CmdInv` (up to `Record` the command has the state that is on disk, and runs
the pipeline that this state calls for), `DirsInv` (the slots on disk lie in the
phases of one pipeline begun so far), `VotesInv` (the approvals collected are
on disk and suffice for the phases behind), `CountInv`, and `AuditInv` (what AUDIT
would count in completion.json). Even `TypeOK` needs
`CmdInv`: an outcome is defined only for a pipeline that has been picked.

*Liveness.* That something happens in the end needs fairness and `ENABLED`,
which the provers cannot treat, so the liveness properties themselves are only
model-checked. What is proved of them is the safety half, for every value of the
constants. Commands, rounds of a session and pipeline invocations have ranks: a
natural number, bounded by the configuration, that each own step lowers and no
other process raises. What is left to fairness is that some own step is always
possible and is taken; the one wait that the code does not bound is the drain,
which `AwaitsTheLaunched` singles out and `lingering_child` shows. RECOVER polls
without getting nearer until its deadline has passed, and a mint or a jewije
call that waits for its flock takes no step at all: these too are for TLC, though
what a jewije call waits for is always a caller within its append (`LockIsServed`). A
cooldown ends because its supply of events is finite, cannot grow
(`CooldownsAreNotFed`), and events age.

*What is true of the refuted claims.* Each run that refutes a sentence of the
documentation has a theorem that says how much of it holds.

| Refuted | Proved |
|---|---|
| `DoneIsCurrent` (`status_done`) | `CompletionsAdvance`: a completion is of the current or an earlier round, and RESUME and RECOVER write the current one; only NEW may put its round 1 over a later completion |
| `AuditReproduces` (`audit_head`) | `DigestLags`: the digest differs exactly when receipts came after the head was read, never for another reason |
| `CommandEnds` (`lingering_child`) | `CommandsRunOut` and `AwaitsTheLaunched`: a command has finitely many steps, and at the barrier awaits only what it launched |
| `VerdictFinal` (`first_verdict`) | `FirstIsFinal`: the first verdict is final where calls do not overlap |
| `RejectIsFinal` (`rejected_harvest`) | `PipelinesAreUnanimous`: the pipeline itself never completes a round against its second phase; only an untagged completion, RECOVER's, can stand beside a rejection |

Only model-checked: liveness, and of course the refuted claims.

## 5. Where the documentation and the code differ

| Run | Claim | What the code does |
|---|---|---|
| `status_done` | "done" means a completion of the current round (`round_recover/mod.rs:132`) | any completion.json will do, also an earlier round's |
| `audit_head` | the digest is reproducible from the goal directory (completion-proof spec) | a receipt appended after the completion moves the head |
| `lingering_child` | a retained pipe cannot hang the loop (`spawn/orchestrator.rs:839`) | in the timeout branch it can |
| `first_verdict` | a non-null verdict is never overwritten (`verdict/mod.rs:10`) | two overlapping calls both pass the check, the second rename wins |
| `rejected_harvest` | a rejection in the unanimous second phase ends the round (`pipeline/mod.rs`; `round_recover/mod.rs:334` on what RECOVER decides) | RECOVER pools the slots of both phases into one vote of n, so it can complete a round that Confirm has rejected |

Seen while modelling, without a run of their own:

- NEW creates the goal before it locks it and then runs round 1, whatever
  state.json says by then; the goal-lifecycle spec has the lock come first, and
  `round_recover/mod.rs:54` says that commands cannot race. `FreshSlots` shows
  that no slot is spawned twice all the same. If a RESUME has completed its
  round meanwhile, NEW writes its own completion, of round 1, over that one.
- goal.json holds the whole configuration of NEW, and AUDIT goes by it; the
  commands decide with the live config.json. `Config::snapshot` and
  `GoalSnapshot` (`store/config.rs:173`), which speak of keeping config edits
  away from goals in flight, are used by nobody.
- A nudge's session is named in meta.json already, so after a kill the next
  RESUME runs it beside the nudge that is still there.
- `willRetry` of an agent_end is parsed and ignored: an answer that announces a
  retry is a final output to `extract_final_output`.
- A verifier that dies of a signal has no exit code; with a session id it counts
  as healthy.
- `append_receipt` does not see that the last line has no newline, so a receipt
  after a line cut short is acknowledged and lost, and `read_receipt_log`, AUDIT
  with it, fails from then on.
- STATS reads `v<i>` directories only and shows null for a pipeline's rounds.
- Nothing calls `goal::verify_signature` or `sweep_stale_tempfiles`, although
  `tempfile.rs` says that the next run reclaims what a killed one left.
- `salt.rs:37` creates the salt file and then writes it: a second first run, or
  one after a kill in between, finds it empty.
- Prior notes are de-duplicated in the order of `read_dir`
  (`prompt/mod.rs:583`), next to a comment that promises deterministic output.
- `pipeline/esca.rs:32` says that a rejection by Gate leaves the counter alone;
  `apply_outcome` resets it. `EscalationPolicy` allows both readings, and
  `TheCodesChoice` is the code's.
- An escalation whose retries are used up fails hard in the design (D5) and in
  `pipeline/esca.rs:20` and `:127`; the code returns to the default pipeline. The
  design counts every escalation against the limit, the code the failed ones, and
  a limit of 0 means none in the one and no limit in the other. `EscalationPolicy`
  leaves each of these open; common to all is that a goal with its retries used up
  does not escalate again. `TheCodesChoice` says what the code does.
- The pipeline design lets the lock go between phases; the code keeps it.
- STATUS may list the slots of a round that is being laid out. If it sees one of
  two slots and that one rejects, it answers "resume" for a round that may still
  be won; RECOVER then reports the rejection and leaves the goal as it is.
- `run_dynamic_round` records no unhealthy run, so pipelines never cause a
  cooldown.
- `evaluate` and `spawn_resume` look for a slot's pin and meta.json without the
  phase: verdicts of a phase count as those of slots from before signing, and a
  phase never continues a session.
- A mint that fails while it writes its temporary files leaves them behind,
  although the comment in `mint_and_pin_pubkey` says they are removed.

## 6. Not modelled

- Prompts and git snapshots: text that no decision reads. The one effect of
  rendering, the slot's directory, is in `Render`.
- Tracing and metrics: append-only telemetry, every error of which is dropped.
- The cryptography: a signature verifies exactly with its key, a digest is its
  inputs. `SlotKey` is about which key is where.
- The command line and the reports of STATS: argument parsing and layout.
- The adapters' templates: string rendering. The transport they choose is
  `stdin` in `VerifierSession`.
- The writes of jewije's unsigned regime: `SlotKey` shows that no slot with a
  minted key takes it, and every slot a command spawns has one.
- The creation of the salt, see section 5: no decision depends on its value.
- A completion.json cut short by a kill in `Patch`, which rewrites the file in
  place; `write_completion` itself goes through a temporary file and a rename. A
  torn one is "done" for STATUS and unreadable for AUDIT.
- STATUS and RECOVER over a round that was spawned in part. STATUS compares the
  approvals with n alone (`Needs`) and consensus asks for m slots too, and both
  are in the models as they are in the code; no property is stated about the
  advice that RECOVER then refuses at once, as it loses nothing.
- RECOVER's probe of STATUS is before the lock and is not repeated. In
  `GoalRound` this is so, but a completion rewritten with the same votes and a
  new time stamp is the same completion there.
- Signature checks of a pipeline's slots, for which `evaluate` finds no pin
  because it looks without the phase: in the models signatures verify, so the
  branch it takes makes no difference.
