---------------------------- MODULE HealthCooldown ----------------------------
(***************************************************************************)
(* The cooldown of a store: commands of several goals, which share no      *)
(* lock, count the failed verifiers of the last hour in health.jsonl       *)
(* before they spawn, and append their own when they have gathered.        *)
(*                                                                         *)
(* A line of the log is written by many small writes; here by two, of its  *)
(* beginning and of its end, and other commands' may come in between. Of   *)
(* the log only the lines that parse matter, in any order, and the last    *)
(* line as long as nothing has ended it; an event has an age where the     *)
(* code has a time. Threshold and Window stand for the 3 and the hour of   *)
(* the code. Simplification: the clock is not set back.                    *)
(***************************************************************************)
EXTENDS Integers, FiniteSets

CONSTANTS
  Cmd,        \* goals of the store: one command each, by the goal's lock
  MaxSlot,    \* m of config.json
  Threshold,  \* cooldown_threshold
  Window,     \* cooldown_window, in ticks of the clock
  MaxRun      \* bound: rounds of a goal that spawn verifiers

ASSUME CmdAssumption == IsFiniteSet(Cmd)
ASSUME MaxSlotAssumption == MaxSlot \in Nat
ASSUME ThresholdAssumption == Threshold \in Nat
ASSUME WindowAssumption == Window \in Nat
ASSUME MaxRunAssumption == MaxRun \in Nat

VARIABLES
  pipelined,  \* the goals whose rounds run a pipeline
  pc,         \* where a goal's command is
  run,        \* run[c]: rounds of the goal that have spawned verifiers
  left,       \* events that the command has still to append
  age,        \* age[c]: how long ago the command took the time of its events
  events,     \* health.jsonl: the lines that parse
  line        \* health.jsonl: its unfinished last line

vars == <<pipelined, pc, run, left, age, events, line>>

\* Ages beyond the window are alike.
Ages == 0 .. Window + 1
Older(a) == IF a > Window THEN a ELSE a + 1

Ids == Cmd \X (1 .. MaxRun) \X (1 .. MaxSlot)

\* The last line is empty, the beginning of one event, or spoilt.
NoLine == <<>>
Spoilt == <<"spoilt">>

Init ==
  /\ pipelined \in SUBSET Cmd
  /\ pc = [c \in Cmd |-> "idle"]
  /\ run = [c \in Cmd |-> 0]
  /\ left = [c \in Cmd |-> 0]
  /\ age = [c \in Cmd |-> 0]
  /\ events = {}
  /\ line = NoLine

-----------------------------------------------------------------------------
\* What a command reads

\* Mutant: the window has no beginning.
RecentEver == events

\* count_recent
Recent == {e \in events : e.age <= Window}

InCooldown == Cardinality(Recent) > Threshold

\* What gather reports of a verifier; nothing is known of one that timed out.
Reports ==
  {r \in [timedOut : BOOLEAN, sid : BOOLEAN, answer : BOOLEAN,
          code : {"none", "zero", "nonzero"}] :
     r.timedOut => ~r.sid /\ ~r.answer /\ r.code = "none"}

\* Dying of a signal leaves no exit code: with a session id it is healthy.
IsRunUnhealthy(r) == r.timedOut \/ (~r.sid /\ ~r.answer) \/ r.code = "nonzero"

-----------------------------------------------------------------------------
\* What a command does

\* Mutant: only a round that runs a pipeline asks for a cooldown.
BeginUnasked(c) ==
  /\ pc[c] = "idle" /\ run[c] < MaxRun
  /\ c \in pipelined => ~InCooldown
  /\ run' = [run EXCEPT ![c] = @ + 1]
  /\ pc' = [pc EXCEPT ![c] = "gather"]
  /\ UNCHANGED <<pipelined, left, age, events, line>>

\* A command in a cooldown answers with the fallback hash and spawns nothing.
Begin(c) ==
  /\ pc[c] = "idle" /\ run[c] < MaxRun
  /\ ~InCooldown
  /\ run' = [run EXCEPT ![c] = @ + 1]
  /\ pc' = [pc EXCEPT ![c] = "gather"]
  /\ UNCHANGED <<pipelined, left, age, events, line>>

\* The unhealthy runs get one time. A round that runs a pipeline asks for a
\* cooldown but records nothing.
Gather(c) ==
  /\ pc[c] = "gather"
  /\ IF c \in pipelined
     THEN UNCHANGED left
     ELSE \E runs \in [1 .. MaxSlot -> Reports] :
            left' = [left EXCEPT ![c] =
                       Cardinality({i \in 1 .. MaxSlot : IsRunUnhealthy(runs[i])})]
  /\ age' = [age EXCEPT ![c] = 0]
  /\ pc' = [pc EXCEPT ![c] = "record"]
  /\ UNCHANGED <<pipelined, run, events, line>>

Recording(c) == pc[c] \in {"record", "tail"}
Event(c) == <<c, run[c], left[c]>>

OpenLine(c) ==
  /\ pc[c] = "record" /\ left[c] > 0
  /\ line' = IF line = NoLine THEN Event(c) ELSE Spoilt
  /\ pc' = [pc EXCEPT ![c] = "tail"]
  /\ UNCHANGED <<pipelined, run, left, age, events>>

\* The end of a line is the end of whatever is on it: two lines that overlap
\* are lost, and so is one that comes after a line cut short.
EndLine(c) ==
  /\ pc[c] = "tail"
  /\ events' = IF line = Event(c) THEN events \cup {[id |-> Event(c), age |-> age[c]]}
               ELSE events
  /\ line' = NoLine

\* Mutant: the loop over the events goes on with the one it has written.
CloseLineAgain(c) ==
  /\ EndLine(c)
  /\ left' = [left EXCEPT ![c] = @ - 1]
  /\ UNCHANGED <<pipelined, pc, run, age>>

CloseLine(c) ==
  /\ EndLine(c)
  /\ left' = [left EXCEPT ![c] = @ - 1]
  /\ pc' = [pc EXCEPT ![c] = "record"]
  /\ UNCHANGED <<pipelined, run, age>>

\* A write that fails is passed over, and so is the rest of its line.
Drop(c) ==
  /\ Recording(c) /\ left[c] > 0
  /\ left' = [left EXCEPT ![c] = @ - 1]
  /\ pc' = [pc EXCEPT ![c] = "record"]
  /\ UNCHANGED <<pipelined, run, age, events, line>>

\* The command goes on to its verdicts, or is killed at any point.
Leave(c) ==
  /\ pc[c] # "idle"
  /\ pc' = [pc EXCEPT ![c] = "idle"]
  /\ left' = [left EXCEPT ![c] = 0]
  /\ age' = [age EXCEPT ![c] = 0]
  /\ UNCHANGED <<pipelined, run, events, line>>

Tick ==
  /\ age' = [c \in Cmd |-> IF Recording(c) THEN Older(age[c]) ELSE age[c]]
  /\ events' = {[e EXCEPT !.age = Older(@)] : e \in events}
  /\ UNCHANGED <<pipelined, pc, run, left, line>>

Command(c) == Begin(c) \/ Gather(c) \/ OpenLine(c) \/ CloseLine(c) \/ Drop(c) \/ Leave(c)

Next == (\E c \in Cmd : Command(c)) \/ Tick

\* Time passes; nothing is asked of the commands.
Spec == Init /\ [][Next]_vars /\ WF_vars(Tick)

-----------------------------------------------------------------------------
\* Properties

\* Types of the log and of the commands.
TypeOK ==
  /\ pipelined \subseteq Cmd
  /\ pc \in [Cmd -> {"idle", "gather", "record", "tail"}]
  /\ run \in [Cmd -> 0 .. MaxRun]
  /\ left \in [Cmd -> 0 .. MaxSlot]
  /\ age \in [Cmd -> Ages]
  /\ events \subseteq [id : Ids, age : Ages]
  /\ line \in {NoLine, Spoilt} \cup Ids

\* The commands of a store check and append without a lock, so the cooldown
\* does not stop at its threshold; but the failures that the log shows for one
\* window exceed it by no more than one round of every goal.
Overshoot == Cardinality(Recent) <= Threshold + Cardinality(Cmd) * MaxSlot

\* A cooldown ends by itself, whatever the rounds in flight still append.
CooldownEnds == InCooldown ~> ~InCooldown
=============================================================================
