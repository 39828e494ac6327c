--------------------------- MODULE VerifierSession ---------------------------
(***************************************************************************)
(* One verifier slot over the rounds of a goal: the backend session it     *)
(* runs in, the turn budget of that session, and the prompts by which      *)
(* gather enforces a verdict after the verifier has exited.                *)
(*                                                                         *)
(* A session is named for the round that started it; 0 is no session id.   *)
(* meta[r] is rounds/<r>/<slot>/meta.json; a missing file decides as a     *)
(* blank one does. compactionObserved is only reported, never read back.   *)
(* A verifier reports its own session or none, as when its output is lost  *)
(* to a pipe that stays open. Simplification: drains end (GoalRound has    *)
(* the descendant that holds one up).                                      *)
(***************************************************************************)
EXTENDS Integers, Sequences, AcpStream

CONSTANTS
  MaxTurn,    \* maxTurn of config.json
  MaxRound,   \* bound: rounds of the goal
  MaxKills,   \* bound: commands that are killed or fail
  MaxLines    \* bound: lines of a verifier's output that matter

ASSUME MaxTurnAssumption == MaxTurn \in Nat
ASSUME MaxRoundAssumption == MaxRound \in Nat
ASSUME MaxKillsAssumption == MaxKills \in Nat
ASSUME MaxLinesAssumption == MaxLines \in Nat

VARIABLES
  stdin,     \* the adapter's transport: prompts on stdin, or in a file
  round,     \* the current round
  pc,        \* where the command is
  child,     \* the session the command's verifier runs in
  meta,      \* meta[r]: the slot's meta.json of round r
  verdict,   \* verdict[r]: the slot has registered a verdict in round r
  loc,       \* locals of gather's loop
  retired,   \* sessions named in a session-archive.json
  result,    \* result[r]: how the command's wait for round r ended
  asked,     \* asked[r]: history, the prompts sent after the first exit
  counted,   \* counted[s]: history, runs of session s that exited in time
  launched,  \* launched[s]: history, runs of session s
  kills,
  stray      \* verifiers that outlive their killed command

vars == <<stdin, round, pc, child, meta, verdict, loc, retired, result,
          asked, counted, launched, kills, stray>>

Rounds == 0 .. MaxRound
Sids == Rounds
Blank == [sid |-> 0, turns |-> 0, nudges |-> 0, recoveries |-> 0]
Start == [sid |-> 0, compacted |-> FALSE, ended |-> FALSE,
          nudges |-> 0, recoveries |-> 0, prompt |-> "nudge"]
Bounded(t) == IF t < MaxTurn THEN t ELSE MaxTurn
Or(sid, old) == IF sid # 0 THEN sid ELSE old

\* Round 0 stands for no earlier round: NEW resumes from nothing.
Init ==
  /\ stdin \in BOOLEAN
  /\ round = 0
  /\ pc = "idle"
  /\ child = 0
  /\ meta = [r \in Rounds |-> Blank]
  /\ verdict = [r \in Rounds |-> FALSE]
  /\ loc = Start
  /\ retired = {}
  /\ result = [r \in Rounds |-> "none"]
  /\ asked = [r \in Rounds |-> <<>>]
  /\ counted = [s \in Sids |-> 0]
  /\ launched = [s \in Sids |-> 0]
  /\ kills = 0
  /\ stray = {}

-----------------------------------------------------------------------------
\* spawn_round and spawn_resume

\* Mutant: the turn budget is not consulted.
ReusableAlways(m) == m.sid # 0

\* Mutant: one turn is left over when a session is given up.
ReusableEarly(m) == m.sid # 0 /\ m.turns + 1 < MaxTurn

Reusable(m) == m.sid # 0 /\ m.turns < MaxTurn

\* Mutant: a continued session starts the round with an empty turn count.
BaselineReset(m) == Blank

\* Mutant: a continued session is named in the new round's meta.json at once.
BaselineNamed(m) == IF Reusable(m) THEN [Blank EXCEPT !.turns = m.turns, !.sid = m.sid]
                    ELSE Blank

Baseline(m) == IF Reusable(m) THEN [Blank EXCEPT !.turns = m.turns] ELSE Blank

\* The slot's directory is created; a session that is not continued is archived.
Spawn ==
  /\ pc = "idle" /\ round < MaxRound
  /\ round' = round + 1
  /\ meta' = [meta EXCEPT ![round + 1] = Baseline(meta[round])]
  /\ IF Reusable(meta[round])
     THEN child' = meta[round].sid /\ UNCHANGED retired
     ELSE child' = round + 1 /\ retired' = retired \cup ({meta[round].sid} \ {0})
  /\ loc' = Start
  /\ pc' = "launch"
  /\ UNCHANGED <<stdin, verdict, result, asked, counted, launched, kills, stray>>

\* A round number that is taken and not used: a cooldown, or an early kill.
Skip ==
  /\ pc = "idle" /\ round < MaxRound
  /\ round' = round + 1
  /\ UNCHANGED <<stdin, pc, child, meta, verdict, loc, retired, result,
                 asked, counted, launched, kills, stray>>

Launch ==
  /\ pc = "launch"
  /\ launched' = [launched EXCEPT ![child] = @ + 1]
  /\ pc' = "main"
  /\ UNCHANGED <<stdin, round, child, meta, verdict, loc, retired, result,
                 asked, counted, kills, stray>>

\* The verifier calls jewije while it runs, for the round it was launched in.
Register ==
  /\ pc \in {"main", "nudge"} /\ ~verdict[round]
  /\ verdict' = [verdict EXCEPT ![round] = TRUE]
  /\ UNCHANGED <<stdin, round, pc, child, meta, loc, retired, result,
                 asked, counted, launched, kills, stray>>

-----------------------------------------------------------------------------
\* gather: the exit of the first child

\* What a backend that runs session s may print; only its own id, but also
\* lines that are cut or belong to another program, or nothing.
Line(s) == [type : {"session", "compaction", "agent_end", "turn_end", "garbled"},
            fields : BOOLEAN, id : {s}, answer : BOOLEAN]
Streams(s) == UNION {[1..n -> Line(s)] : n \in 0 .. MaxLines}

Report(stream) == [sid |-> ExtractSid(stream),
                   compacted |-> ExtractCompactionObserved(stream),
                   ended |-> ExtractFinalOutput(stream) # 0]
Reports == [s \in Sids |-> {Report(stream) : stream \in Streams(s)}]
Outputs == Reports[child]

\* update_meta_after_run, and the first half of reap_nudge_child's update
Ran(m, sid) == [m EXCEPT !.sid = Or(sid, @), !.turns = Bounded(@ + 1)]

Exit(out) ==
  /\ pc = "main"
  /\ meta' = [meta EXCEPT ![round] = Ran(@, out.sid)]
  /\ counted' = [counted EXCEPT ![child] = @ + 1]
  /\ loc' = [loc EXCEPT !.sid = out.sid, !.compacted = out.compacted,
                        !.ended = out.ended]
  /\ pc' = IF stdin THEN "look" ELSE "flush"
  /\ UNCHANGED <<stdin, round, child, verdict, retired, result, asked,
                 launched, kills, stray>>

\* The prompt could not be delivered and no session was reported.
FailClosed ==
  /\ pc = "main" /\ stdin
  /\ pc' = "flush"
  /\ UNCHANGED <<stdin, round, child, meta, verdict, loc, retired, result,
                 asked, counted, launched, kills, stray>>

\* The timeout of the first child: killed, and nothing is recorded.
Timeout ==
  /\ pc = "main"
  /\ result' = [result EXCEPT ![round] = "timeout"]
  /\ pc' = "idle"
  /\ UNCHANGED <<stdin, round, child, meta, verdict, loc, retired, asked,
                 counted, launched, kills, stray>>

-----------------------------------------------------------------------------
\* gather: the loop that asks for a verdict

\* Mutant: one nudge is thought to be enough.
LookOnce ==
  /\ pc = "look"
  /\ pc' = IF verdict[round] \/ loc.nudges > 0 THEN "flush" ELSE "loop"
  /\ UNCHANGED <<stdin, round, child, meta, verdict, loc, retired, result,
                 asked, counted, launched, kills, stray>>

\* slot_has_verdict
Look ==
  /\ pc = "look"
  /\ pc' = IF verdict[round] THEN "flush" ELSE "loop"
  /\ UNCHANGED <<stdin, round, child, meta, verdict, loc, retired, result,
                 asked, counted, launched, kills, stray>>

DoRecovery == loc.compacted /\ ~loc.ended /\ loc.recoveries = 0

\* Mutant: the turn budget is compared with the wrong sign of equality.
GiveUpLate ==
  \/ meta[round].turns > MaxTurn
  \/ ~DoRecovery /\ loc.recoveries > 0
  \/ Or(meta[round].sid, loc.sid) = 0

\* Mutant: a recovery that harvested nothing is followed by plain nudges.
GiveUpPastRecovery ==
  \/ meta[round].turns >= MaxTurn
  \/ Or(meta[round].sid, loc.sid) = 0

GiveUp ==
  \/ meta[round].turns >= MaxTurn
  \/ ~DoRecovery /\ loc.recoveries > 0
  \/ Or(meta[round].sid, loc.sid) = 0

Stop ==
  /\ pc = "loop" /\ GiveUp
  /\ pc' = "flush"
  /\ UNCHANGED <<stdin, round, child, meta, verdict, loc, retired, result,
                 asked, counted, launched, kills, stray>>

Counters(m, l) == [m EXCEPT !.nudges = l.nudges, !.recoveries = l.recoveries]
Asking == [loc EXCEPT !.nudges = @ + 1,
                      !.recoveries = IF DoRecovery THEN @ + 1 ELSE @,
                      !.prompt = IF DoRecovery THEN "recovery" ELSE "nudge"]

\* Mutant: the counters are only written after the nudge has exited.
AskUnrecorded ==
  /\ pc = "loop" /\ ~GiveUp
  /\ loc' = Asking
  /\ pc' = "ask"
  /\ UNCHANGED <<stdin, round, child, meta, verdict, retired, result, asked,
                 counted, launched, kills, stray>>

\* checkpoint_meta, before the child is spawned
Ask ==
  /\ pc = "loop" /\ ~GiveUp
  /\ loc' = Asking
  /\ meta' = [meta EXCEPT ![round] = Counters(@, loc')]
  /\ pc' = "ask"
  /\ UNCHANGED <<stdin, round, child, verdict, retired, result, asked,
                 counted, launched, kills, stray>>

\* spawn_nudge_child on the session found in meta.json
Nudge ==
  /\ pc = "ask"
  /\ child' = Or(meta[round].sid, loc.sid)
  /\ launched' = [launched EXCEPT ![child'] = @ + 1]
  /\ asked' = [asked EXCEPT ![round] = Append(@, loc.prompt)]
  /\ pc' = "nudge"
  /\ UNCHANGED <<stdin, round, meta, verdict, loc, retired, result, counted,
                 kills, stray>>

NudgeExit(out) ==
  /\ pc = "nudge"
  /\ meta' = [meta EXCEPT ![round] = Counters(Ran(@, out.sid), loc)]
  /\ counted' = [counted EXCEPT ![child] = @ + 1]
  /\ loc' = [loc EXCEPT !.sid = Or(out.sid, @),
                        !.compacted = @ \/ out.compacted,
                        !.ended = @ \/ out.ended]
  /\ pc' = "look"
  /\ UNCHANGED <<stdin, round, child, verdict, retired, result, asked,
                 launched, kills, stray>>

\* Mutant: the wait for a nudged child has no timeout.
NudgeWaits == FALSE /\ UNCHANGED vars

\* A nudge that times out is not counted as a turn and is the last one.
NudgeTimeout ==
  /\ pc = "nudge"
  /\ result' = [result EXCEPT ![round] = "late"]
  /\ pc' = "flush"
  /\ UNCHANGED <<stdin, round, child, meta, verdict, loc, retired, asked,
                 counted, launched, kills, stray>>

\* flush_meta
Flushed(m, l) == [Counters(m, l) EXCEPT !.sid = Or(l.sid, m.sid)]

Flush ==
  /\ pc = "flush"
  /\ meta' = [meta EXCEPT ![round] = Flushed(@, loc)]
  /\ result' = [result EXCEPT ![round] = IF @ = "late" THEN @ ELSE "exit"]
  /\ pc' = "idle"
  /\ UNCHANGED <<stdin, round, child, verdict, loc, retired, asked, counted,
                 launched, kills, stray>>

\* The command is killed, or any of its steps fails. Nothing tells a verifier
\* that runs: it may go on.
Kill ==
  /\ pc # "idle" /\ kills < MaxKills
  /\ \/ UNCHANGED stray
     \/ /\ pc \in {"main", "nudge"}
        /\ stray' = stray \cup {[sid |-> child, round |-> round, first |-> pc = "main"]}
  /\ result' = [result EXCEPT ![round] = "killed"]
  /\ kills' = kills + 1
  /\ pc' = "idle"
  /\ UNCHANGED <<stdin, round, child, meta, verdict, loc, retired, asked,
                 counted, launched>>

\* Such a verifier still registers a verdict for its round, and ends.
RegisterLate(x) ==
  /\ x \in stray /\ ~verdict[x.round]
  /\ verdict' = [verdict EXCEPT ![x.round] = TRUE]
  /\ UNCHANGED <<stdin, round, pc, child, meta, loc, retired, result, asked,
                 counted, launched, kills, stray>>

EndLate(x) ==
  /\ x \in stray
  /\ stray' = stray \ {x}
  /\ UNCHANGED <<stdin, round, pc, child, meta, verdict, loc, retired, result,
                 asked, counted, launched, kills>>

-----------------------------------------------------------------------------
Exits == \E out \in Outputs : Exit(out) \/ NudgeExit(out)
Command == Launch \/ Timeout \/ Look \/ Stop \/ Ask \/ Nudge \/ NudgeTimeout \/ Flush

Late == \E x \in stray : RegisterLate(x) \/ EndLate(x)

Next == Spawn \/ Skip \/ Register \/ Exits \/ FailClosed \/ Command \/ Kill \/ Late

\* The command is scheduled, and clocks advance until its timeouts fire.
Spec == Init /\ [][Next]_vars /\ WF_vars(Command)

-----------------------------------------------------------------------------
\* Properties

Prompts == {"nudge", "recovery"}
Most == IF MaxTurn = 0 THEN 1 ELSE MaxTurn
PCs == {"idle", "launch", "main", "look", "loop", "ask", "nudge", "flush"}
Results == {"none", "exit", "timeout", "late", "killed"}
Meta == [sid : Sids, turns : 0 .. MaxTurn, nudges : 0 .. MaxTurn,
         recoveries : 0 .. 1]
Locals == [sid : Sids, compacted : BOOLEAN, ended : BOOLEAN,
           nudges : 0 .. MaxTurn, recoveries : 0 .. 1, prompt : Prompts]

\* Types of the slot's files, of the command's locals and of the histories.
TypeOK ==
  /\ stdin \in BOOLEAN
  /\ round \in Rounds
  /\ pc \in PCs
  /\ child \in Sids
  /\ meta \in [Rounds -> Meta]
  /\ verdict \in [Rounds -> BOOLEAN]
  /\ loc \in Locals
  /\ retired \subseteq Sids
  /\ result \in [Rounds -> Results]
  /\ asked \in [Rounds -> Seq(Prompts)]
  /\ counted \in [Sids -> Nat]
  /\ launched \in [Sids -> Nat]
  /\ kills \in 0 .. MaxKills
  /\ stray \subseteq [sid : Sids, round : Rounds, first : BOOLEAN]

\* turnsUsed in the current meta.json is the number of turns its session has
\* run to the end in all rounds together, although every round starts a file
\* of its own and kills, timeouts and unused rounds come in between.
RunningTotal ==
  LET m == meta[round]
  IN  m.sid # 0 => m.turns = Bounded(counted[m.sid])

\* A session never has more than maxTurn turns that count, and never more than
\* twice as many runs: a nudge that times out ends its round, and a first
\* child that leaves no session id ends its session.
TurnBudget ==
  \A s \in Sids : counted[s] <= Most /\ launched[s] <= 2 * Most

\* A session is archived only when its budget is spent, and never runs again.
RetiredSpent ==
  \A s \in retired : counted[s] >= MaxTurn /\ (pc # "idle" => child # s)

\* The audit trail of meta.json: whenever the command is killed, nudgeAttempts
\* counts every prompt that was sent, and at most one that was not.
AuditTrail ==
  \A r \in Rounds :
    \/ meta[r].nudges = Len(asked[r])
    \/ /\ meta[r].nudges = Len(asked[r]) + 1
       /\ result[r] = "killed" \/ (r = round /\ pc = "ask")

\* A recovery after a compaction is asked for once per round, and last.
RecoveryLast ==
  \A r \in Rounds : \A i \in DOMAIN asked[r] :
    asked[r][i] = "recovery" => i = Len(asked[r])

\* A slot that comes back without a verdict has spent its budget, has no
\* session to ask, has been asked for a recovery, or has timed out.
Enforced ==
  \A r \in Rounds :
    result[r] = "exit" /\ ~verdict[r] /\ stdin
      => \/ meta[r].turns = MaxTurn
         \/ meta[r].sid = 0
         \/ meta[r].recoveries = 1

\* A verifier that is cut off from its command in its first run has its session
\* to itself: meta.json names the session when the run has exited, so no RESUME
\* continues it. (A nudge's session is named already: the next RESUME runs it
\* beside the nudge that is still there.)
FirstRunAlone ==
  \A x \in stray : x.first /\ pc \in {"main", "nudge"} => child # x.sid

\* Every command that has spawned a verifier is done with it at last.
GatherEnds == pc # "idle" ~> pc = "idle"

=============================================================================
