------------------------------ MODULE GoalRound ------------------------------
(***************************************************************************)
(* One goal of a verifier-loop store and the jewilo processes that work on *)
(* it: NEW, RESUME and RECOVER, each a process that takes the goal's flock,*)
(* runs or re-reads a round, and writes completion.json when at least n of *)
(* the m verifier slots approve. Verifier sessions are concurrent with     *)
(* them and outlive them.                                                  *)
(*                                                                         *)
(* Simplifications. A session stands for a verifier's child process, its   *)
(* nudge children and the one jewije call that registers a verdict; a slot *)
(* with two racing registrars is module VerdictSlot. Signatures verify     *)
(* (a verdict on disk was written by the holder of the slot's key). The    *)
(* receipt log is the set of its entries: a chain head stands for all of   *)
(* them. Clocks are the actions Timeout and Expire. Single-phase           *)
(* configurations only; the dump/smart pipeline is not in this module.     *)
(***************************************************************************)
EXTENDS Integers, FiniteSets

CONSTANTS
  Cmd,         \* jewilo processes that may be running at once
  Nobody,      \* the goal lock is free
  Configs,     \* records [n, m]: the config.json contents to consider
  MaxSlot,     \* bound: the largest m
  MaxRound,    \* bound: rounds a run may reach
  MaxAsking,   \* bound: processes that ask STATUS at the same time
  MaxAborts,   \* bound: jewilo processes that fail or are killed
  MaxEdits     \* bound: edits of config.json

ASSUME NobodyAssumption == Nobody \notin Cmd
ASSUME BoundAssumption ==
  /\ MaxSlot \in Nat \ {0} /\ MaxRound \in Nat \ {0}
  /\ MaxAsking \in Nat /\ MaxAborts \in Nat /\ MaxEdits \in Nat

\* Config::validate: no vacuous and no impossible requirement.
Valid(cf) == cf.m >= 1 /\ cf.n \in 1..cf.m

ASSUME ConfigAssumption ==
  \A cf \in Configs : /\ cf = [n |-> cf.n, m |-> cf.m]
                      /\ cf.n \in Nat /\ cf.m \in 0..MaxSlot /\ Valid(cf)

Slots  == 1..MaxSlot
Rounds == 1..MaxRound

VARIABLES
  live,        \* config.json, read by every command
  created,     \* goal.json: the configuration NEW wrote into it
  round,       \* state.json; 0 before NEW has created the goal
  verdict,     \* verdict[r][v]: "none" (no slot directory), "null", or final
  session,     \* session[r][v]: the verifier working for slot v of round r
  receipts,    \* entries of receipts.log
  completion,  \* completion.json; NoCompletion when absent
  holder,      \* the process that holds the flock on the goal's .lock
  cmd,         \* the jewilo processes
  aborts, edits

vars == <<live, created, round, verdict, session, receipts, completion,
          holder, cmd, aborts, edits>>

NoConfig == [n |-> 0, m |-> 0]
Receipt  == Rounds \X Slots

\* compute_hash: equal digests have equal inputs.
Digest(r, S, head) == [round |-> r, matching |-> S, head |-> head]

NoCompletion == [round |-> 0, matching |-> {}, digest |-> Digest(0, {}, {}),
                 need |-> 0]

\* A process that has not started. pc follows the handler; seen holds the
\* verdicts it has read: "skip" is a slot it does not look at.
Idle == [pc |-> "idle", kind |-> "none", conf |-> NoConfig, rnd |-> 0,
         at |-> 1, seen |-> [v \in Slots |-> "skip"], head |-> {},
         due |-> FALSE]

Init ==
  /\ live \in Configs
  /\ created = NoConfig
  /\ round = 0
  /\ verdict = [r \in Rounds |-> [v \in Slots |-> "none"]]
  /\ session = [r \in Rounds |-> [v \in Slots |-> "none"]]
  /\ receipts = {}
  /\ completion = NoCompletion
  /\ holder = Nobody
  /\ cmd = [c \in Cmd |-> Idle]
  /\ aborts = 0
  /\ edits = 0

-----------------------------------------------------------------------------
\* What is on disk

SlotDirs(r)  == {v \in Slots : verdict[r][v] # "none"}
Approvals(r) == {v \in Slots : verdict[r][v] = "approve"}

\* AUDIT goes by goal.json: the count of the completion it finds, and the
\* digest recomputed over the receipt log as it is now.
AuditCount == Cardinality(completion.matching) \in created.n..created.m
AuditHash  == completion.digest =
                Digest(completion.round, completion.matching, receipts)

-----------------------------------------------------------------------------
\* What a process has read of its round

\* Mutant: a missing verdict counts as an approval.
NotRejecting(p) == {v \in Slots : p.seen[v] \in {"approve", "null"}}

Matching(p) == {v \in Slots : p.seen[v] = "approve"}
Nulls(p)    == {v \in Slots : p.seen[v] = "null"}
Looked(p)   == {v \in Slots : p.seen[v] # "skip"}
Unread(S)   == [v \in Slots |-> IF v \in S THEN "unread" ELSE "skip"]
ReadAll(p)  == \A v \in Slots : p.seen[v] # "unread"

\* Mutant: the number of approvals plays no part, as in an earlier status().
DecidedAtAll(p) == Looked(p) # {} /\ Nulls(p) = {}

\* The round is decided below n: no slot is null and too few approve.
DecidedBelow(p) ==
  /\ Looked(p) # {} /\ Nulls(p) = {}
  /\ Cardinality(Matching(p)) < p.conf.n

\* STATUS: the three answers of its "needs" field. Whether completion.json
\* exists is asked when the slots have been read.
Needs(p) ==
  IF completion # NoCompletion THEN "done"
  ELSE IF DecidedBelow(p) THEN "resume" ELSE "recover"

\* Nothing that STATUS has yet to read of the slots can change its answer.
Settled(p) ==
  ReadAll(p) \/ Nulls(p) # {} \/ Cardinality(Matching(p)) >= p.conf.n

Advising(p) == p.pc = "look" /\ Settled(p)

-----------------------------------------------------------------------------
\* jewilo: starting a command

Move(c, p) == cmd' = [cmd EXCEPT ![c] = p]

\* The process exits: the OS drops its flock, everything volatile is gone.
Finish(c) ==
  /\ Move(c, Idle)
  /\ holder' = IF holder = c THEN Nobody ELSE holder

\* NEW has loaded config.json; one process creates the goal.
New(c) ==
  /\ cmd[c].pc = "idle"
  /\ round = 0
  /\ \A d \in Cmd : cmd[d].pc # "create"
  /\ Move(c, [Idle EXCEPT !.pc = "create", !.kind = "new", !.conf = live])
  /\ UNCHANGED <<live, created, round, verdict, session, receipts, completion,
                 holder, aborts, edits>>

\* goal::new loads config.json once more, for goal.json, and writes goal.json,
\* signature.json and state.json, all before NEW locks the goal.
Create(c) ==
  /\ cmd[c].pc = "create"
  /\ round = 0
  /\ round' = 1
  /\ created' = live
  /\ Move(c, [cmd[c] EXCEPT !.pc = "lock", !.rnd = 1])
  /\ UNCHANGED <<live, verdict, session, receipts, completion, holder,
                 aborts, edits>>

\* RESUMEs that have not yet taken their round number.
Waiting == {c \in Cmd : /\ cmd[c].kind = "resume"
                         /\ cmd[c].pc \in {"lock", "bump"}}

Resume(c) ==
  /\ cmd[c].pc = "idle"
  /\ round > 0
  /\ round + Cardinality(Waiting) < MaxRound
  /\ Move(c, [Idle EXCEPT !.pc = "lock", !.kind = "resume", !.conf = live])
  /\ UNCHANGED <<live, created, round, verdict, session, receipts,
                 completion, holder, aborts, edits>>

Asking == {c \in Cmd : cmd[c].pc \in {"probe", "look"}}

\* RECOVER asks STATUS first, without the lock. status() reads the number of
\* the round from state.json, ...
Recover(c) ==
  /\ cmd[c].pc = "idle"
  /\ round > 0
  /\ Cardinality(Asking) < MaxAsking
  /\ Move(c, [Idle EXCEPT !.pc = "probe", !.kind = "recover", !.conf = live,
                          !.rnd = round])
  /\ UNCHANGED <<live, created, round, verdict, session, receipts,
                 completion, holder, aborts, edits>>

\* ... lists the slots of that round, reads them one by one (Read), ...
List(c) ==
  /\ cmd[c].pc = "probe"
  /\ Move(c, [cmd[c] EXCEPT !.pc = "look", !.seen = Unread(SlotDirs(cmd[c].rnd))])
  /\ UNCHANGED <<live, created, round, verdict, session, receipts,
                 completion, holder, aborts, edits>>

\* ... and answers. RECOVER goes on only when it is told to, and starts afresh.
Advise(c) ==
  LET p == cmd[c] IN
  /\ Advising(p)
  /\ IF Needs(p) = "recover"
       THEN /\ Move(c, [Idle EXCEPT !.pc = "lock", !.kind = p.kind, !.conf = p.conf])
            /\ UNCHANGED holder
       ELSE Finish(c)
  /\ UNCHANGED <<live, created, round, verdict, session, receipts,
                 completion, aborts, edits>>

-----------------------------------------------------------------------------
\* jewilo: the goal lock (try_lock_exclusive, never waiting)

AfterLock == [new |-> "health", resume |-> "bump", recover |-> "scan"]

\* Mutant: the result of the lock attempt is ignored.
AcquireAnyway(c) ==
  /\ cmd[c].pc = "lock"
  /\ holder' = c
  /\ Move(c, [cmd[c] EXCEPT !.pc = AfterLock[cmd[c].kind],
                !.rnd = IF cmd[c].kind = "recover" THEN round ELSE @])
  /\ UNCHANGED <<live, created, round, verdict, session, receipts,
                 completion, aborts, edits>>

\* RECOVER reads the current round once it has the lock.
Acquire(c) ==
  /\ cmd[c].pc = "lock"
  /\ holder = Nobody
  /\ holder' = c
  /\ Move(c, [cmd[c] EXCEPT !.pc = AfterLock[cmd[c].kind],
                !.rnd = IF cmd[c].kind = "recover" THEN round ELSE @])
  /\ UNCHANGED <<live, created, round, verdict, session, receipts,
                 completion, aborts, edits>>

Busy(c) ==
  /\ cmd[c].pc = "lock"
  /\ holder # Nobody
  /\ Finish(c)
  /\ UNCHANGED <<live, created, round, verdict, session, receipts,
                 completion, aborts, edits>>

-----------------------------------------------------------------------------
\* jewilo: running a round (NEW and RESUME)

\* Mutant: the new round number is not saved.
BumpUnsaved(c) ==
  /\ cmd[c].pc = "bump"
  /\ round < MaxRound
  /\ Move(c, [cmd[c] EXCEPT !.pc = "health", !.rnd = round + 1])
  /\ UNCHANGED <<live, created, round, verdict, session, receipts,
                 completion, holder, aborts, edits>>

\* goal::resume: state.json carries the new round before anything is spawned.
Bump(c) ==
  /\ cmd[c].pc = "bump"
  /\ round < MaxRound
  /\ round' = round + 1
  /\ Move(c, [cmd[c] EXCEPT !.pc = "health", !.rnd = round + 1])
  /\ UNCHANGED <<live, created, verdict, session, receipts, completion,
                 holder, aborts, edits>>

\* Too many unhealthy runs in the store: the fallback hash, no round. Health
\* is shared by all goals of the store, so either answer is possible here.
Cooldown(c) ==
  /\ cmd[c].pc = "health"
  /\ Finish(c)
  /\ UNCHANGED <<live, created, round, verdict, session, receipts,
                 completion, aborts, edits>>

Healthy(c) ==
  /\ cmd[c].pc = "health"
  /\ Move(c, [cmd[c] EXCEPT !.pc = "render"])
  /\ UNCHANGED <<live, created, round, verdict, session, receipts,
                 completion, holder, aborts, edits>>

\* Mutant: the loop over the slots runs once too often.
StepOver(p, next) ==
  IF p.at <= p.conf.m THEN [p EXCEPT !.at = @ + 1]
                      ELSE [p EXCEPT !.at = 1, !.pc = next]

\* The process after slot at: the next slot of the same loop, or the next loop.
Step(p, next) ==
  IF p.at < p.conf.m THEN [p EXCEPT !.at = @ + 1]
                     ELSE [p EXCEPT !.at = 1, !.pc = next]

\* initial-prompt.txt creates the slot's directory.
Render(c) ==
  LET p == cmd[c] IN
  /\ p.pc = "render"
  /\ verdict' = [verdict EXCEPT ![p.rnd][p.at] =
                    IF @ = "none" THEN "null" ELSE @]
  /\ Move(c, Step(p, "mint"))
  /\ UNCHANGED <<live, created, round, session, receipts, completion,
                 holder, aborts, edits>>

\* All slots of the round get their keys ...
Mint(c) ==
  LET p == cmd[c] IN
  /\ p.pc = "mint"
  /\ session' = [session EXCEPT ![p.rnd][p.at] = "minted"]
  /\ Move(c, Step(p, "spawn"))
  /\ UNCHANGED <<live, created, round, verdict, receipts, completion,
                 holder, aborts, edits>>

\* ... before the first child is started.
Launch(c) ==
  LET p == cmd[c] IN
  /\ p.pc = "spawn"
  /\ session' = [session EXCEPT ![p.rnd][p.at] = "live"]
  /\ Move(c, Step(p, "gather"))
  /\ UNCHANGED <<live, created, round, verdict, receipts, completion,
                 holder, aborts, edits>>

\* A round command reads back v1..vm of its own configuration.
Gathered(p) ==
  IF p.at < p.conf.m THEN Step(p, "read")
  ELSE [Step(p, "read") EXCEPT !.seen = Unread(1..p.conf.m)]

\* The gather barrier awaits the children one after the other. One that has
\* exited with its descendants is drained and reaped.
Reap(c) ==
  LET p == cmd[c] IN
  /\ p.pc = "gather"
  /\ session[p.rnd][p.at] = "ended"
  /\ Move(c, Gathered(p))
  /\ UNCHANGED <<live, created, round, verdict, session, receipts,
                 completion, holder, aborts, edits>>

\* Mutant: only a verifier that has registered its verdict times out.
TimeoutSigned(c) ==
  LET p == cmd[c] IN
  /\ p.pc = "gather"
  /\ session[p.rnd][p.at] = "signed"
  /\ \/ /\ \E s \in {session[p.rnd][p.at], "ended"} :
              session' = [session EXCEPT ![p.rnd][p.at] = s]
        /\ Move(c, Gathered(p))
     \/ /\ Move(c, [p EXCEPT !.pc = "drain"])
        /\ UNCHANGED session
  /\ UNCHANGED <<live, created, round, verdict, receipts, completion, holder,
                 aborts, edits>>

\* verifier_timeout_sec: the direct child is killed, but killpg finds no group
\* (isolate_process_group does nothing), so descendants may survive, may
\* register a verdict, and may hold the child's pipes, whose drain this branch
\* awaits without a limit. A child that exits by itself and leaves descendants
\* has the first outcome (that drain is limited), its nudge child either.
Timeout(c) ==
  LET p == cmd[c] IN
  /\ p.pc = "gather"
  /\ session[p.rnd][p.at] \in {"live", "signed"}
  /\ \/ /\ \E s \in {session[p.rnd][p.at], "ended"} :
              session' = [session EXCEPT ![p.rnd][p.at] = s]
        /\ Move(c, Gathered(p))
     \/ /\ Move(c, [p EXCEPT !.pc = "drain"])
        /\ UNCHANGED session
  /\ UNCHANGED <<live, created, round, verdict, receipts, completion, holder,
                 aborts, edits>>

\* The last descendant has let go of the pipes.
Drain(c) ==
  LET p == [cmd[c] EXCEPT !.pc = "gather"] IN
  /\ cmd[c].pc = "drain"
  /\ session[p.rnd][p.at] = "ended"
  /\ Move(c, Gathered(p))
  /\ UNCHANGED <<live, created, round, verdict, session, receipts,
                 completion, holder, aborts, edits>>

-----------------------------------------------------------------------------
\* jewilo: reading the round and deciding (all three commands)

\* RECOVER lists the slot directories; a round without any is read as v1..vm.
Scan(c) ==
  LET p == cmd[c]
      S == IF SlotDirs(p.rnd) = {} THEN 1..p.conf.m ELSE SlotDirs(p.rnd) IN
  /\ p.pc = "scan"
  /\ Move(c, [p EXCEPT !.pc = "read", !.seen = Unread(S)])
  /\ UNCHANGED <<live, created, round, verdict, session, receipts,
                 completion, holder, aborts, edits>>

\* One verdict file at a time. A round command goes through v1..vm in order,
\* RECOVER and STATUS in the order of the directory listing. A missing file is
\* null.
Read(c, v) ==
  LET p == cmd[c] IN
  /\ p.pc = "read" \/ (p.pc = "look" /\ ~Settled(p))
  /\ p.seen[v] = "unread"
  /\ p.kind # "recover" => \A u \in 1..(v - 1) : p.seen[u] # "unread"
  /\ LET x == verdict[p.rnd][v] IN
     Move(c, [p EXCEPT !.seen[v] = IF x = "none" THEN "null" ELSE x])
  /\ UNCHANGED <<live, created, round, verdict, session, receipts,
                 completion, holder, aborts, edits>>

\* Mutant: a round that nobody rejects passes.
PassedUnopposed(p) == /\ \A v \in Slots : p.seen[v] # "reject"
                      /\ Cardinality(Looked(p)) >= p.conf.m

\* consensus::evaluate: n approvals, and at least m slots handed in.
Passed(p) == /\ Cardinality(Matching(p)) >= p.conf.n
             /\ Cardinality(Looked(p)) >= p.conf.m

AllRead(p) == p.pc = "read" /\ ReadAll(p)

\* The receipt head is read when consensus is reached, before the write.
Pass(c) ==
  /\ AllRead(cmd[c])
  /\ Passed(cmd[c])
  /\ Move(c, [cmd[c] EXCEPT !.pc = "write", !.head = receipts])
  /\ UNCHANGED <<live, created, round, verdict, session, receipts,
                 completion, holder, aborts, edits>>

\* Mutant: the deadline is looked at before the verdicts.
FailWhenDue(c) ==
  LET p == cmd[c] IN
  /\ AllRead(p)
  /\ IF p.kind = "recover" THEN p.due \/ (~Passed(p) /\ Nulls(p) = {})
                           ELSE ~Passed(p)
  /\ Finish(c)
  /\ UNCHANGED <<live, created, round, verdict, session, receipts,
                 completion, aborts, edits>>

\* NEW and RESUME report the rejection; RECOVER does when nothing is null or
\* its deadline has passed.
Fail(c) ==
  LET p == cmd[c] IN
  /\ AllRead(p)
  /\ ~Passed(p)
  /\ p.kind = "recover" => Nulls(p) = {} \/ p.due
  /\ Finish(c)
  /\ UNCHANGED <<live, created, round, verdict, session, receipts,
                 completion, aborts, edits>>

\* RECOVER sleeps for the poll interval and lists the round again.
Poll(c) ==
  LET p == cmd[c] IN
  /\ AllRead(p)
  /\ ~Passed(p)
  /\ p.kind = "recover" /\ Nulls(p) # {} /\ ~p.due
  /\ Move(c, [p EXCEPT !.pc = "scan", !.seen = Unread({})])
  /\ UNCHANGED <<live, created, round, verdict, session, receipts,
                 completion, holder, aborts, edits>>

\* RECOVER's deadline passes.
Expire(c) ==
  /\ cmd[c].kind = "recover"
  /\ cmd[c].pc \in {"scan", "read"}
  /\ ~cmd[c].due
  /\ Move(c, [cmd[c] EXCEPT !.due = TRUE])
  /\ UNCHANGED <<live, created, round, verdict, session, receipts,
                 completion, holder, aborts, edits>>

\* write_completion, and the process is done. need is history: the n it used.
Write(c) ==
  LET p == cmd[c] IN
  /\ p.pc = "write"
  /\ completion' = [round |-> p.rnd, matching |-> Matching(p),
                    digest |-> Digest(p.rnd, Matching(p), p.head),
                    need |-> p.conf.n]
  /\ Finish(c)
  /\ UNCHANGED <<live, created, round, verdict, session, receipts,
                 aborts, edits>>

-----------------------------------------------------------------------------
\* Verifier sessions

\* Mutant: the session's last call wins.
RegisterAgain(r, v) ==
  /\ session[r][v] \in {"live", "signed"}
  /\ \E b \in {"approve", "reject"} :
        verdict' = [verdict EXCEPT ![r][v] = b]
  /\ session' = [session EXCEPT ![r][v] = "signed"]
  /\ UNCHANGED <<live, created, round, receipts, completion, holder, cmd,
                 aborts, edits>>

\* jewije approve or reject on a slot that is still null.
Register(r, v) ==
  /\ session[r][v] = "live"
  /\ verdict[r][v] = "null"
  /\ \E b \in {"approve", "reject"} :
        verdict' = [verdict EXCEPT ![r][v] = b]
  /\ session' = [session EXCEPT ![r][v] = "signed"]
  /\ UNCHANGED <<live, created, round, receipts, completion, holder, cmd,
                 aborts, edits>>

\* Mutant: the receipt does not wait for the verdict.
AppendReceiptEarly(r, v) ==
  /\ session[r][v] \in {"live", "signed"}
  /\ receipts' = receipts \cup {<<r, v>>}
  /\ session' = [session EXCEPT ![r][v] = "ended"]
  /\ UNCHANGED <<live, created, round, verdict, completion, holder, cmd,
                 aborts, edits>>

\* jewije appends the receipt only after the verdict is on disk.
AppendReceipt(r, v) ==
  /\ session[r][v] = "signed"
  /\ receipts' = receipts \cup {<<r, v>>}
  /\ session' = [session EXCEPT ![r][v] = "ended"]
  /\ UNCHANGED <<live, created, round, verdict, completion, holder, cmd,
                 aborts, edits>>

\* The session dies or gives up, before its verdict or before its receipt.
Die(r, v) ==
  /\ session[r][v] \in {"live", "signed"}
  /\ session' = [session EXCEPT ![r][v] = "ended"]
  /\ UNCHANGED <<live, created, round, verdict, receipts, completion,
                 holder, cmd, aborts, edits>>

-----------------------------------------------------------------------------
\* Environment

\* An error return or a kill, at any point of a handler.
Abort(c) ==
  /\ cmd[c].pc # "idle"
  /\ aborts < MaxAborts
  /\ aborts' = aborts + 1
  /\ Finish(c)
  /\ UNCHANGED <<live, created, round, verdict, session, receipts,
                 completion, edits>>

\* config.json is edited once a process has loaded it for the goal.
EditConfig ==
  /\ round > 0 \/ \E c \in Cmd : cmd[c].pc # "idle"
  /\ edits < MaxEdits
  /\ edits' = edits + 1
  /\ \E cf \in Configs \ {live} : live' = cf
  /\ UNCHANGED <<created, round, verdict, session, receipts, completion,
                 holder, cmd, aborts>>

-----------------------------------------------------------------------------
Start(c) == New(c) \/ Resume(c) \/ Recover(c)
Probe(c) == List(c) \/ Advise(c)
Locking(c) == Acquire(c) \/ Busy(c)
RunRound(c) == \/ Bump(c) \/ Cooldown(c) \/ Healthy(c) \/ Render(c)
               \/ Mint(c) \/ Launch(c) \/ Reap(c) \/ Timeout(c) \/ Drain(c)
Settle(c) == \/ Scan(c) \/ (\E v \in Slots : Read(c, v))
             \/ Pass(c) \/ Fail(c) \/ Poll(c) \/ Write(c)

Command(c) == Create(c) \/ Probe(c) \/ Locking(c) \/ RunRound(c) \/ Settle(c)
Verifier(r, v) == Register(r, v) \/ AppendReceipt(r, v) \/ Die(r, v)

Next ==
  \/ \E c \in Cmd : Start(c) \/ Command(c) \/ Expire(c) \/ Abort(c)
  \/ \E r \in Rounds, v \in Slots : Verifier(r, v)
  \/ EditConfig

Spec == Init /\ [][Next]_vars

\* A process that can take a step of its handler takes it, and clocks advance.
\* Nothing is assumed of verifiers, operators or kills.
Fairness == \A c \in Cmd : WF_vars(Command(c)) /\ WF_vars(Expire(c))

FairSpec == Spec /\ Fairness

\* Moreover a descendant whose pipes a command is draining exits eventually.
Release(r, v) ==
  /\ \E c \in Cmd : cmd[c].pc = "drain" /\ cmd[c].rnd = r /\ cmd[c].at = v
  /\ Die(r, v)

ReleasingSpec ==
  FairSpec /\ \A r \in Rounds, v \in Slots : WF_vars(Release(r, v))

-----------------------------------------------------------------------------
(***************************************************************************)
(* Properties                                                              *)
(***************************************************************************)

PCs   == {"idle", "create", "probe", "look", "lock", "bump", "health",
          "render", "mint", "spawn", "gather", "drain", "scan", "read", "write"}
Kinds == {"none", "new", "resume", "recover"}
Sessions == {"none", "minted", "live", "signed", "ended"}
Marks == {"skip", "unread", "null", "approve", "reject"}

Process == [pc : PCs, kind : Kinds, conf : Configs \cup {NoConfig},
            rnd : 0..MaxRound, at : Slots, seen : [Slots -> Marks],
            head : SUBSET Receipt, due : BOOLEAN]

Completion == [round : 0..MaxRound, matching : SUBSET Slots,
               digest : [round : 0..MaxRound, matching : SUBSET Slots,
                         head : SUBSET Receipt],
               need : 0..MaxSlot]

\* Every variable holds a value of its kind (the files and the processes of
\* one goal).
TypeOK ==
  /\ live \in Configs
  /\ created \in Configs \cup {NoConfig}
  /\ round \in 0..MaxRound
  /\ verdict \in [Rounds -> [Slots -> {"none", "null", "approve", "reject"}]]
  /\ session \in [Rounds -> [Slots -> Sessions]]
  /\ receipts \subseteq Receipt
  /\ completion \in Completion
  /\ holder \in Cmd \cup {Nobody}
  /\ cmd \in [Cmd -> Process]
  /\ aborts \in 0..MaxAborts /\ edits \in 0..MaxEdits

\* A completion.json names only slots whose verdict file says APPROVE in its
\* own round, and at least as many as its writer required, however the reads
\* of a round, late verdicts, kills, re-reads by RECOVER and config edits
\* interleave (consensus::evaluate, write_completion).
CompletionBacked ==
  completion # NoCompletion =>
    /\ completion.round \in Rounds
    /\ completion.matching \subseteq Approvals(completion.round)
    /\ Cardinality(completion.matching) >= completion.need
    /\ completion.need >= 1

\* No round is ever spawned into a second time: the slots whose keys a process
\* is about to mint have none yet, so minting never meets AlreadyPinned, and
\* those whose children it is about to start have a key and no child, so no
\* two children share a slot, wherever commands are killed (GoalLock's promise).
FreshSlots ==
  \A c \in Cmd, v \in Slots : v \in cmd[c].at..cmd[c].conf.m =>
    /\ cmd[c].pc = "mint"  => session[cmd[c].rnd][v] = "none"
    /\ cmd[c].pc = "spawn" => session[cmd[c].rnd][v] = "minted"

\* When STATUS answers "resume" the round is lost for good, although slots are
\* read one by one while verdicts land: no process that already holds the
\* round's verdicts can still certify it, unless it requires less (the "key
\* correctness fix" of status()). This takes a listing of all slots of the
\* round; one made while they were being laid out may be wrong.
ResumeAdviceFinal ==
  \A c, d \in Cmd :
    /\ Advising(cmd[c]) /\ Needs(cmd[c]) = "resume"
    /\ Looked(cmd[c]) = SlotDirs(cmd[c].rnd)
    /\ cmd[d].pc = "write" /\ cmd[d].rnd = cmd[c].rnd
    => cmd[d].conf.n < cmd[c].conf.n

\* NEW, RESUME and RECOVER never overlap on a goal: a process is between its
\* lock and its exit exactly when the flock is its own, whoever else starts,
\* finishes or is killed (GoalLock).
Critical == PCs \ {"idle", "create", "probe", "look", "lock"}
OneAtATime == \A c \in Cmd : cmd[c].pc \in Critical <=> holder = c

\* While config.json is left alone, AUDIT's count check accepts every
\* completion.json: rounds are rendered, read, re-read and decided by processes
\* that each load config.json, audited against the copy in goal.json
\* (stats::audit). Nothing else keeps the two in step: one edit in flight and
\* the check may fail.
AuditAcceptsCount == completion # NoCompletion /\ edits = 0 => AuditCount

-----------------------------------------------------------------------------
\* Refinement of the abstract promise

Ballot(r, v) == IF verdict[r][v] \in {"approve", "reject"} THEN verdict[r][v]
                ELSE "none"

Certificate == INSTANCE GoalCertificate WITH
  Requirements <- 1..MaxSlot,
  ballot       <- [r \in Rounds |-> [v \in Slots |-> Ballot(r, v)]],
  certificate  <- [round |-> completion.round, matching |-> completion.matching,
                   need |-> completion.need]

\* Every execution of jewilo and its verifiers is one of GoalCertificate:
\* ballots are cast once, certificates only ever cover approvals.
CertifiesOnlyBallots == Certificate!Spec

\* The vote in slot x = <<r, v>>: which slot, and what it says.
Vote(x) == <<x, verdict[x[1]][x[2]]>>

Ledger == INSTANCE VerdictLedger WITH
  Slots     <- Receipt,
  Callers   <- Receipt \X {"approve", "reject"},
  Null      <- <<>>,
  owner     <- [x \in Receipt |-> IF Ballot(x[1], x[2]) = "none" THEN <<>>
                                  ELSE Vote(x)],
  receipted <- {Vote(x) : x \in receipts}

\* The same executions are executions of VerdictLedger, which the file steps of
\* jewije (VerdictSlot) implement too: over all rounds, the first verdict in a
\* slot is its last, and a receipt is only ever the receipt of the verdict that
\* is in its slot, whatever commands and sessions are killed in between.
ReceiptsFollowVerdicts == Ledger!Spec

-----------------------------------------------------------------------------
\* Liveness

\* Every command ends: a round waits for each verifier at most its timeout, a
\* RECOVER at most its deadline, and nobody waits for the goal lock. True under
\* ReleasingSpec; under FairSpec alone a surviving descendant hangs the round.
CommandEnds == \A c \in Cmd : cmd[c].pc # "idle" ~> cmd[c].pc = "idle"

\* RECOVER does not lose a round that is already won: if the approvals and
\* the slots it needs are on disk when it lists the round, it completes it,
\* even when its deadline passes while it reads.
WonRoundHarvested ==
  \A c \in Cmd, r \in Rounds :
    /\ cmd[c].pc = "scan" /\ cmd[c].rnd = r
    /\ Cardinality(Approvals(r)) >= cmd[c].conf.n
    /\ Cardinality(SlotDirs(r)) >= cmd[c].conf.m
    ~> completion.round = r

-----------------------------------------------------------------------------
\* Claims of the documentation that the code does not keep (see README)

\* STATUS says "done" only when the round that it reports on has its
\* completion.json.
DoneIsCurrent ==
  \A c \in Cmd :
    Advising(cmd[c]) /\ Needs(cmd[c]) = "done" => completion.round = cmd[c].rnd

\* Whoever recomputes the completion hash from the goal directory gets the
\* same digest: the receipt log still has the head the hash was taken over.
AuditReproduces == completion # NoCompletion => AuditHash
=============================================================================
