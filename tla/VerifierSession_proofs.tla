------------------------ MODULE VerifierSession_proofs ------------------------
(***************************************************************************)
(* Proofs about VerifierSession, for every turn budget and any number of   *)
(* rounds and kills. One inductive invariant, SessionInv, carries all of   *)
(* them: what is known of the slot while no command runs (Carried), and at *)
(* each step of the command (Running to Ending).                           *)
(***************************************************************************)
EXTENDS VerifierSession, AcpStream_proofs, SequenceTheorems, TLAPS

USE MaxTurnAssumption, MaxRoundAssumption, MaxKillsAssumption, MaxLinesAssumption

\* Rounds that are still to come have left no trace, nor have their sessions.
Untouched ==
  /\ \A r \in Rounds : r > round =>
       meta[r] = Blank /\ asked[r] = <<>> /\ result[r] = "none"
  /\ \A s \in Sids : s > round \/ s = 0 =>
       counted[s] = 0 /\ launched[s] = 0 /\ s \notin retired

\* Between commands, the session that the next RESUME may continue.
Carried ==
  LET m == meta[round]
  IN  pc = "idle" /\ m.sid # 0 =>
        /\ m.sid <= round
        /\ m.turns = Bounded(counted[m.sid])
        /\ launched[m.sid] <= 2 * counted[m.sid]

\* A command's session, and what meta.json says of it.
Running ==
  pc # "idle" =>
    /\ child \in 1 .. round
    /\ child \notin retired
    /\ {meta[round].sid, loc.sid} \subseteq {0, child}
    /\ meta[round].turns = Bounded(counted[child])
    /\ result[round] \in {"none", "late"}
    /\ result[round] = "late" => pc = "flush"

\* Until the first child exits nothing is known and nothing was asked.
First ==
  pc \in {"launch", "main"} =>
    /\ loc = Start
    /\ meta[round].sid = 0 /\ meta[round].nudges = 0 /\ meta[round].recoveries = 0
    /\ asked[round] = <<>>
    /\ counted[child] < Most
    /\ launched[child] <= 2 * counted[child] + (IF pc = "main" THEN 1 ELSE 0)

\* From then on meta.json has the loop's counters, and they count prompts.
Recorded ==
  pc \in {"look", "loop", "ask", "nudge", "flush"} =>
    /\ meta[round].nudges = loc.nudges
    /\ meta[round].recoveries = loc.recoveries
    /\ loc.nudges = Len(asked[round]) + (IF pc = "ask" THEN 1 ELSE 0)
    /\ loc.recoveries = 0 \/ pc = "ask" =>
         \A i \in DOMAIN asked[round] : asked[round][i] # "recovery"

\* In the loop there is room for one more run of the session.
Looping ==
  pc \in {"look", "loop"} =>
    /\ loc.nudges <= meta[round].turns
    /\ launched[child] <= 2 * counted[child] - 1

\* A prompt is only sent with a turn left, on a session that is known.
Prompting ==
  pc \in {"ask", "nudge"} =>
    /\ loc.nudges <= meta[round].turns + 1
    /\ meta[round].turns < MaxTurn
    /\ Or(meta[round].sid, loc.sid) = child
    /\ launched[child] <= 2 * counted[child] - (IF pc = "ask" THEN 1 ELSE 0)
    /\ pc = "ask" /\ loc.recoveries = 0 => loc.prompt = "nudge"

\* The loop has ended for one of its reasons.
Ending ==
  pc = "flush" =>
    /\ \/ launched[child] <= 2 * counted[child]
       \/ /\ meta[round].sid = 0 /\ loc.sid = 0
          /\ counted[child] < Most
          /\ launched[child] <= 2 * counted[child] + 1
    /\ result[round] # "late" /\ ~verdict[round] /\ stdin =>
         \/ meta[round].turns = MaxTurn
         \/ meta[round].sid = 0 /\ loc.sid = 0
         \/ loc.recoveries = 1

SessionInv ==
  /\ TypeOK /\ Untouched /\ Carried
  /\ Running /\ First /\ Recorded /\ Looping /\ Prompting /\ Ending
  /\ TurnBudget /\ RetiredSpent /\ AuditTrail /\ RecoveryLast /\ Enforced

USE DEF Rounds, Sids

-----------------------------------------------------------------------------
(***************************************************************************)
(* What the updates of meta.json and of the locals give                    *)
(***************************************************************************)

LEMMA BoundedType ==
  ASSUME NEW t \in Nat
  PROVE  /\ Bounded(t) \in 0 .. MaxTurn
         /\ Bounded(t) < MaxTurn => Bounded(t) = t
         /\ Bounded(Bounded(t) + 1) = Bounded(t + 1)
BY DEF Bounded

LEMMA MostNat == Most \in Nat \ {0} /\ MaxTurn <= Most
BY DEF Most

LEMMA RanFacts ==
  ASSUME NEW m \in Meta, NEW sid \in Sids
  PROVE  /\ Ran(m, sid) \in Meta
         /\ Ran(m, sid).sid = Or(sid, m.sid)
         /\ Ran(m, sid).turns = Bounded(m.turns + 1)
         /\ Ran(m, sid).nudges = m.nudges
         /\ Ran(m, sid).recoveries = m.recoveries
<1>1. Or(sid, m.sid) \in Sids /\ Bounded(m.turns + 1) \in 0 .. MaxTurn
  BY DEF Meta, Or, Bounded
<1>2. Ran(m, sid) = [m EXCEPT !.sid = Or(sid, m.sid), !.turns = Bounded(m.turns + 1)]
  BY DEF Ran
<1> QED BY <1>1, <1>2 DEF Meta

LEMMA CountersFacts ==
  ASSUME NEW m \in Meta, NEW l \in Locals
  PROVE  /\ Counters(m, l) \in Meta
         /\ Counters(m, l).sid = m.sid
         /\ Counters(m, l).turns = m.turns
         /\ Counters(m, l).nudges = l.nudges
         /\ Counters(m, l).recoveries = l.recoveries
BY DEF Counters, Meta, Locals

LEMMA FlushedFacts ==
  ASSUME NEW m \in Meta, NEW l \in Locals
  PROVE  /\ Flushed(m, l) \in Meta
         /\ Flushed(m, l).sid = Or(l.sid, m.sid)
         /\ Flushed(m, l).turns = m.turns
         /\ Flushed(m, l).nudges = l.nudges
         /\ Flushed(m, l).recoveries = l.recoveries
<1>1. Or(l.sid, m.sid) \in Sids
  BY DEF Meta, Locals, Or
<1> QED BY <1>1, CountersFacts DEF Flushed, Meta

LEMMA AskingFacts ==
  ASSUME loc \in Locals, loc.nudges < MaxTurn, loc.recoveries = 0
  PROVE  /\ Asking \in Locals
         /\ Asking.sid = loc.sid
         /\ Asking.nudges = loc.nudges + 1
         /\ Asking.recoveries = 0 => Asking.prompt = "nudge"
<1>1. PICK x \in 0 .. 1, p \in Prompts :
        /\ Asking = [loc EXCEPT !.nudges = loc.nudges + 1, !.recoveries = x,
                                !.prompt = p]
        /\ x = 0 => p = "nudge"
  <2>1. CASE DoRecovery
    BY <2>1 DEF Asking, Prompts
  <2>2. CASE ~DoRecovery
    BY <2>2 DEF Asking, Prompts
  <2> QED BY <2>1, <2>2
<1>2. loc.nudges + 1 \in 0 .. MaxTurn
  BY DEF Locals
<1> QED BY <1>1, <1>2 DEF Locals

LEMMA BlankFacts ==
  ASSUME NEW m \in Meta
  PROVE  /\ Blank \in Meta
         /\ Baseline(m) \in Meta
         /\ Baseline(m).sid = 0 /\ Baseline(m).nudges = 0 /\ Baseline(m).recoveries = 0
         /\ Baseline(m).turns = IF Reusable(m) THEN m.turns ELSE 0
BY DEF Blank, Baseline, Meta

\* The components of a state, typed.
LEMMA Typed ==
  ASSUME TypeOK
  PROVE  /\ round \in Rounds /\ meta[round] \in Meta
         /\ meta[round].turns \in 0 .. MaxTurn /\ meta[round].sid \in Sids
         /\ meta[round].nudges \in Nat /\ meta[round].recoveries \in 0 .. 1
         /\ loc.nudges \in Nat /\ loc.recoveries \in 0 .. 1 /\ loc.sid \in Sids
         /\ counted[child] \in Nat /\ launched[child] \in Nat
         /\ asked[round] \in Seq(Prompts) /\ Len(asked[round]) \in Nat
<1>1. round \in Rounds /\ meta[round] \in Meta /\ loc \in Locals
      /\ counted[child] \in Nat /\ launched[child] \in Nat
      /\ asked[round] \in Seq(Prompts)
  BY DEF TypeOK
<1>2. Len(asked[round]) \in Nat
  BY <1>1, LenProperties
<1> QED BY <1>1, <1>2 DEF Meta, Locals

LEMMA Later == TypeOK => \A r \in Rounds : r > round => r # round
BY DEF TypeOK

\* Append to a slot's history of prompts.
LEMMA AskedFacts ==
  ASSUME NEW q \in Seq(Prompts), NEW p \in Prompts
  PROVE  /\ Append(q, p) \in Seq(Prompts)
         /\ Len(Append(q, p)) = Len(q) + 1
         /\ DOMAIN Append(q, p) = 1 .. Len(q) + 1
         /\ DOMAIN q = 1 .. Len(q)
         /\ Append(q, p)[Len(q) + 1] = p
         /\ \A i \in 1 .. Len(q) : Append(q, p)[i] = q[i]
BY AppendProperties, LenProperties

\* A verifier is reported under its own session, or under none.
LEMMA OutputsType ==
  ASSUME TypeOK, NEW out \in Outputs
  PROVE  /\ out.sid \in {0, child} /\ out.sid \in Sids
         /\ out.compacted \in BOOLEAN /\ out.ended \in BOOLEAN
<1>1. child \in Sids /\ 0 \in Sids
  BY DEF TypeOK
<1>2. PICK stream \in Streams(child) : out = Report(stream)
  BY <1>1 DEF Outputs, Reports
<1>3. PICK n \in Nat : stream \in [1..n -> Line(child)]
  BY <1>2 DEF Streams
<1>4. \A line \in Line(child) : line.id = child /\ line \in AnyLine
  <2> SUFFICES ASSUME NEW line \in Line(child)
               PROVE  line.id = child /\ line \in AnyLine
    OBVIOUS
  <2>1. /\ line = [type |-> line.type, fields |-> line.fields, id |-> line.id,
                   answer |-> line.answer]
        /\ line.type \in {"session", "compaction", "agent_end", "turn_end", "garbled"}
        /\ line.fields \in BOOLEAN /\ line.id = child /\ line.answer \in BOOLEAN
    BY DEF Line
  <2>2. line.type \in LineTypes
    BY <2>1 DEF LineTypes, Essential
  <2>3. line.id \in Nat
    BY <1>1, <2>1 DEF Sids, Rounds
  <2> QED BY <2>1, <2>2, <2>3 DEF AnyLine
<1>5. stream \in [1..n -> AnyLine] /\ \A i \in 1..n : stream[i].id = child
  BY <1>3, <1>4
<1>6. IsStream(stream) /\ Len(stream) = n
  BY <1>5, SeqDef, LenProperties DEF IsStream
<1>7. ExtractSid(stream) \in {NoSid, child}
  BY <1>5, <1>6, SidOwn
<1>8. /\ out.sid = ExtractSid(stream)
      /\ out.compacted = ExtractCompactionObserved(stream)
      /\ out.ended = (ExtractFinalOutput(stream) # 0)
  BY <1>2 DEF Report
<1>9. ExtractCompactionObserved(stream) \in BOOLEAN /\ out.ended \in BOOLEAN
  BY <1>8 DEF ExtractCompactionObserved
<1> QED BY <1>1, <1>7, <1>8, <1>9 DEF NoSid

-----------------------------------------------------------------------------
(***************************************************************************)
(* The steps of a command                                                  *)
(***************************************************************************)

\* One more run of a session.
LEMMA CountUp ==
  ASSUME NEW f \in [Sids -> Nat], NEW c \in Sids
  PROVE  LET g == [f EXCEPT ![c] = @ + 1]
         IN  /\ g \in [Sids -> Nat] /\ g[c] = f[c] + 1
             /\ \A s \in Sids \ {c} : g[s] = f[s]
OBVIOUS

LEMMA LaunchKeeps == SessionInv /\ Launch => SessionInv'
<1> SUFFICES ASSUME SessionInv, Launch PROVE SessionInv'
  OBVIOUS
<1> USE DEF SessionInv
<1>1. /\ child \in Sids /\ pc = "launch" /\ pc' = "main"
      /\ launched' \in [Sids -> Nat]
      /\ launched'[child] = launched[child] + 1
      /\ \A s \in Sids \ {child} : launched'[s] = launched[s]
      /\ UNCHANGED <<stdin, round, child, meta, verdict, loc, retired, result,
                     asked, counted, kills, stray>>
  <2>1. launched \in [Sids -> Nat] /\ child \in Sids
    BY DEF TypeOK
  <2>2. launched' = [launched EXCEPT ![child] = @ + 1]
    BY DEF Launch
  <2>3. /\ launched' \in [Sids -> Nat]
        /\ launched'[child] = launched[child] + 1
        /\ \A s \in Sids \ {child} : launched'[s] = launched[s]
    BY <2>1, <2>2, CountUp
  <2> QED BY <2>1, <2>3 DEF Launch
<1>2. TypeOK'
  BY <1>1 DEF TypeOK, PCs
<1>3. Untouched'
  <2>1. \A s \in Sids : s > round \/ s = 0 => s # child
    BY <1>1, Typed DEF Running
  <2> QED BY <1>1, <2>1 DEF Untouched
<1>4. counted[child] < Most /\ launched[child] <= 2 * counted[child]
  BY <1>1, Typed DEF First
<1>5. First'
  <2>1. launched'[child] <= 2 * counted[child] + 1
    BY <1>1, <1>4, Typed
  <2> QED BY <1>1, <1>4, <2>1 DEF First
<1>6. TurnBudget'
  <2>1. launched'[child] <= 2 * Most
    BY <1>1, <1>4, MostNat, Typed
  <2> QED BY <1>1, <2>1 DEF TurnBudget
<1>7. /\ Carried' /\ Running' /\ Recorded' /\ Looping' /\ Prompting' /\ Ending'
      /\ RetiredSpent' /\ AuditTrail' /\ RecoveryLast' /\ Enforced'
  BY <1>1 DEF Carried, Running, Recorded, Looping, Prompting, Ending,
              RetiredSpent, AuditTrail, RecoveryLast, Enforced
<1> QED BY <1>2, <1>3, <1>5, <1>6, <1>7

LEMMA RegisterKeeps == SessionInv /\ Register => SessionInv'
<1> SUFFICES ASSUME SessionInv, Register PROVE SessionInv'
  OBVIOUS
<1> USE DEF SessionInv
<1>1. /\ pc \in {"main", "nudge"} /\ verdict' \in [Rounds -> BOOLEAN]
      /\ verdict'[round] = TRUE
      /\ \A r \in Rounds \ {round} : verdict'[r] = verdict[r]
      /\ UNCHANGED <<stdin, round, pc, child, meta, loc, retired,
                     result, asked, counted, launched, kills, stray>>
  BY DEF Register, TypeOK
<1>2. TypeOK'
  BY <1>1 DEF TypeOK
<1>3. /\ Untouched' /\ Carried' /\ Running' /\ First' /\ Recorded'
      /\ Looping' /\ Prompting' /\ Ending' /\ TurnBudget' /\ RetiredSpent'
      /\ AuditTrail' /\ RecoveryLast' /\ Enforced'
  BY <1>1 DEF Untouched, Carried, Running, First, Recorded, Looping,
     Prompting, Ending, TurnBudget, RetiredSpent, AuditTrail, RecoveryLast,
     Enforced
<1> QED BY <1>2, <1>3

LEMMA FailClosedKeeps == SessionInv /\ FailClosed => SessionInv'
<1> SUFFICES ASSUME SessionInv, FailClosed PROVE SessionInv'
  OBVIOUS
<1> USE DEF SessionInv
<1>1. /\ pc = "main" /\ pc' = "flush"
      /\ UNCHANGED <<stdin, round, child, meta, verdict, loc, retired,
                     result, asked, counted, launched, kills, stray>>
  BY DEF FailClosed
<1>2. TypeOK'
  BY <1>1 DEF TypeOK, PCs
<1>3. Recorded'
  BY <1>1, Typed DEF First, Start, Recorded
<1>4. Ending'
  BY <1>1, Typed DEF First, Start, Ending
<1>5. /\ Untouched' /\ Carried' /\ Running' /\ First' /\ Looping'
      /\ Prompting' /\ TurnBudget' /\ RetiredSpent' /\ AuditTrail'
      /\ RecoveryLast' /\ Enforced'
  BY <1>1 DEF Untouched, Carried, Running, First, Looping, Prompting,
     TurnBudget, RetiredSpent, AuditTrail, RecoveryLast, Enforced
<1> QED BY <1>2, <1>3, <1>4, <1>5

LEMMA TimeoutKeeps == SessionInv /\ Timeout => SessionInv'
<1> SUFFICES ASSUME SessionInv, Timeout PROVE SessionInv'
  OBVIOUS
<1> USE DEF SessionInv
<1>1. /\ pc = "main" /\ pc' = "idle"
      /\ result' \in [Rounds -> Results] /\ result'[round] = "timeout"
      /\ \A r \in Rounds \ {round} : result'[r] = result[r]
      /\ UNCHANGED <<stdin, round, child, meta, verdict, loc, retired,
                     asked, counted, launched, kills, stray>>
  BY DEF Timeout, TypeOK, Results
<1>2. TypeOK'
  BY <1>1 DEF TypeOK, PCs
<1>3. Untouched'
  BY <1>1, Later DEF Untouched
<1>4. Carried'
  BY <1>1 DEF First, Carried
<1>5. /\ Running' /\ First' /\ Recorded' /\ Looping' /\ Prompting'
      /\ Ending' /\ TurnBudget' /\ RetiredSpent' /\ AuditTrail'
      /\ RecoveryLast' /\ Enforced'
  BY <1>1 DEF Running, First, Recorded, Looping, Prompting, Ending,
     TurnBudget, RetiredSpent, AuditTrail, RecoveryLast, Enforced
<1> QED BY <1>2, <1>3, <1>4, <1>5

LEMMA LookKeeps == SessionInv /\ Look => SessionInv'
<1> SUFFICES ASSUME SessionInv, Look PROVE SessionInv'
  OBVIOUS
<1> USE DEF SessionInv
<1>1. /\ pc = "look" /\ pc' \in {"flush", "loop"}
      /\ pc' = "flush" => verdict[round]
      /\ UNCHANGED <<stdin, round, child, meta, verdict, loc, retired,
                     result, asked, counted, launched, kills, stray>>
  BY DEF Look
<1>2. TypeOK'
  BY <1>1 DEF TypeOK, PCs
<1>3. Ending'
  BY <1>1, Typed DEF Looping, Ending
<1>4. /\ Untouched' /\ Carried' /\ Running' /\ First' /\ Recorded'
      /\ Looping' /\ Prompting' /\ TurnBudget' /\ RetiredSpent'
      /\ AuditTrail' /\ RecoveryLast' /\ Enforced'
  BY <1>1 DEF Untouched, Carried, Running, First, Recorded, Looping,
     Prompting, TurnBudget, RetiredSpent, AuditTrail, RecoveryLast,
     Enforced
<1> QED BY <1>2, <1>3, <1>4

LEMMA StopKeeps == SessionInv /\ Stop => SessionInv'
<1> SUFFICES ASSUME SessionInv, Stop PROVE SessionInv'
  OBVIOUS
<1> USE DEF SessionInv
<1>1. /\ pc = "loop" /\ pc' = "flush" /\ GiveUp
      /\ UNCHANGED <<stdin, round, child, meta, verdict, loc, retired,
                     result, asked, counted, launched, kills, stray>>
  BY DEF Stop
<1>2. TypeOK'
  BY <1>1 DEF TypeOK, PCs
<1>3. \/ meta[round].turns = MaxTurn
      \/ meta[round].sid = 0 /\ loc.sid = 0
      \/ loc.recoveries = 1
  BY <1>1, Typed DEF GiveUp, Or
<1>4. Ending'
  BY <1>1, <1>3, Typed DEF Looping, Ending
<1>5. /\ Untouched' /\ Carried' /\ Running' /\ First' /\ Recorded'
      /\ Looping' /\ Prompting' /\ TurnBudget' /\ RetiredSpent'
      /\ AuditTrail' /\ RecoveryLast' /\ Enforced'
  BY <1>1 DEF Untouched, Carried, Running, First, Recorded, Looping,
     Prompting, TurnBudget, RetiredSpent, AuditTrail, RecoveryLast,
     Enforced
<1> QED BY <1>2, <1>4, <1>5

LEMMA NudgeTimeoutKeeps == SessionInv /\ NudgeTimeout => SessionInv'
<1> SUFFICES ASSUME SessionInv, NudgeTimeout PROVE SessionInv'
  OBVIOUS
<1> USE DEF SessionInv
<1>1. /\ pc = "nudge" /\ pc' = "flush"
      /\ result' \in [Rounds -> Results] /\ result'[round] = "late"
      /\ \A r \in Rounds \ {round} : result'[r] = result[r]
      /\ UNCHANGED <<stdin, round, child, meta, verdict, loc, retired,
                     asked, counted, launched, kills, stray>>
  BY DEF NudgeTimeout, TypeOK, Results
<1>2. TypeOK'
  BY <1>1 DEF TypeOK, PCs
<1>3. Untouched'
  BY <1>1, Later DEF Untouched
<1>4. Ending'
  BY <1>1, Typed DEF Prompting, Ending
<1>5. /\ Carried' /\ Running' /\ First' /\ Recorded' /\ Looping'
      /\ Prompting' /\ TurnBudget' /\ RetiredSpent' /\ AuditTrail'
      /\ RecoveryLast' /\ Enforced'
  BY <1>1 DEF Carried, Running, First, Recorded, Looping, Prompting,
     TurnBudget, RetiredSpent, AuditTrail, RecoveryLast, Enforced
<1> QED BY <1>2, <1>3, <1>4, <1>5

LEMMA KillKeeps == SessionInv /\ Kill => SessionInv'
<1> SUFFICES ASSUME SessionInv, Kill PROVE SessionInv'
  OBVIOUS
<1> USE DEF SessionInv
<1>1. /\ pc # "idle" /\ pc' = "idle"
      /\ result' \in [Rounds -> Results] /\ result'[round] = "killed"
      /\ \A r \in Rounds \ {round} : result'[r] = result[r]
      /\ kills' \in 0 .. MaxKills
      /\ UNCHANGED <<stdin, round, child, meta, verdict, loc, retired,
                     asked, counted, launched>>
  BY DEF Kill, TypeOK, Results
<1>2. TypeOK'
  <2>1. stray' \subseteq [sid : Sids, round : Rounds, first : BOOLEAN]
    <3>1. CASE UNCHANGED stray
      BY <3>1 DEF TypeOK
    <3>2. CASE stray' = stray \cup {[sid |-> child, round |-> round,
                                     first |-> pc = "main"]}
      <4>1. (pc = "main") \in BOOLEAN /\ child \in Sids /\ round \in Rounds
        BY DEF TypeOK
      <4>2. [sid |-> child, round |-> round, first |-> pc = "main"]
              \in [sid : Sids, round : Rounds, first : BOOLEAN]
        BY <4>1
      <4> QED BY <3>2, <4>2 DEF TypeOK
    <3> QED BY <3>1, <3>2 DEF Kill
  <2> QED BY <1>1, <2>1 DEF TypeOK, PCs
<1>3. Untouched'
  BY <1>1, Later DEF Untouched
<1>4. Carried'
  <2>1. CASE pc \in {"launch", "main"}
    BY <1>1, <2>1 DEF First, Carried
  <2>2. CASE pc \in {"look", "loop", "ask", "nudge", "flush"}
    <3>1. meta[round].sid # 0 => launched[child] <= 2 * counted[child]
      BY <2>2, Typed DEF Looping, Prompting, Ending
    <3> QED BY <1>1, <3>1, Typed DEF Running, Carried
  <2> QED BY <1>1, <2>1, <2>2 DEF TypeOK, PCs
<1>5. AuditTrail'
  <2>1. meta[round].nudges \in {Len(asked[round]), Len(asked[round]) + 1}
    <3>1. CASE pc \in {"launch", "main"}
      BY <3>1, Typed DEF First, AuditTrail
    <3>2. CASE pc \in {"look", "loop", "ask", "nudge", "flush"}
      <4>1. Len(asked[round]) \in Nat /\ Len(asked[round]) + 0 = Len(asked[round])
        BY Typed
      <4> QED BY <3>2, <4>1 DEF Recorded
    <3> QED BY <1>1, <3>1, <3>2 DEF TypeOK, PCs
  <2> QED BY <1>1, <2>1 DEF AuditTrail
<1>6. /\ Running' /\ First' /\ Recorded' /\ Looping' /\ Prompting'
      /\ Ending' /\ TurnBudget' /\ RetiredSpent' /\ RecoveryLast'
      /\ Enforced'
  BY <1>1 DEF Running, First, Recorded, Looping, Prompting, Ending,
     TurnBudget, RetiredSpent, RecoveryLast, Enforced
<1> QED BY <1>2, <1>3, <1>4, <1>5, <1>6

LEMMA LateKeeps == SessionInv /\ Late => SessionInv'
<1> SUFFICES ASSUME SessionInv, NEW x \in stray, RegisterLate(x) \/ EndLate(x)
             PROVE  SessionInv'
  BY DEF Late
<1> USE DEF SessionInv
<1>1. /\ verdict' \in [Rounds -> BOOLEAN]
      /\ \A r \in Rounds : verdict[r] => verdict'[r]
      /\ stray' \subseteq [sid : Sids, round : Rounds, first : BOOLEAN]
      /\ UNCHANGED <<stdin, round, pc, child, meta, loc, retired, result, asked,
                     counted, launched, kills>>
  BY DEF RegisterLate, EndLate, TypeOK
<1>2. TypeOK'
  BY <1>1 DEF TypeOK
<1>3. Ending' /\ Enforced'
  BY <1>1, Typed DEF Ending, Enforced
<1>4. /\ Untouched' /\ Carried' /\ Running' /\ First' /\ Recorded'
      /\ Looping' /\ Prompting' /\ TurnBudget' /\ RetiredSpent'
      /\ AuditTrail' /\ RecoveryLast'
  BY <1>1 DEF Untouched, Carried, Running, First, Recorded, Looping, Prompting,
     TurnBudget, RetiredSpent, AuditTrail, RecoveryLast
<1> QED BY <1>2, <1>3, <1>4

LEMMA SkipKeeps == SessionInv /\ Skip => SessionInv'
<1> SUFFICES ASSUME SessionInv, Skip PROVE SessionInv'
  OBVIOUS
<1> USE DEF SessionInv
<1>1. /\ pc = "idle" /\ round + 1 \in Rounds /\ round' = round + 1
      /\ UNCHANGED <<stdin, pc, child, meta, verdict, loc, retired,
                     result, asked, counted, launched, kills, stray>>
  BY DEF Skip, TypeOK
<1>2. TypeOK'
  BY <1>1 DEF TypeOK
<1>3. Untouched'
  BY <1>1, Typed DEF Untouched
<1>4. Carried'
  BY <1>1, Typed DEF Untouched, Carried, Blank
<1>5. /\ Running' /\ First' /\ Recorded' /\ Looping' /\ Prompting'
      /\ Ending' /\ TurnBudget' /\ RetiredSpent' /\ AuditTrail'
      /\ RecoveryLast' /\ Enforced'
  BY <1>1 DEF Running, First, Recorded, Looping, Prompting, Ending,
     TurnBudget, RetiredSpent, AuditTrail, RecoveryLast, Enforced
<1> QED BY <1>2, <1>3, <1>4, <1>5

LEMMA AskKeeps == SessionInv /\ Ask => SessionInv'
<1> SUFFICES ASSUME SessionInv, Ask PROVE SessionInv'
  OBVIOUS
<1> USE DEF SessionInv
<1>1. /\ pc = "loop" /\ pc' = "ask" /\ loc' = Asking
      /\ meta' = [meta EXCEPT ![round] = Counters(meta[round], loc')]
      /\ UNCHANGED <<stdin, round, child, verdict, retired, result,
                     asked, counted, launched, kills, stray>>
  BY DEF Ask
<1>2. /\ meta[round].turns < MaxTurn /\ loc.recoveries = 0
      /\ Or(meta[round].sid, loc.sid) # 0
  BY Typed DEF Ask, GiveUp, DoRecovery
<1>3. /\ loc' \in Locals /\ loc'.sid = loc.sid /\ loc'.nudges = loc.nudges + 1
      /\ loc'.recoveries = 0 => loc'.prompt = "nudge"
  <2>1. loc.nudges < MaxTurn
    BY <1>1, <1>2, Typed DEF Looping
  <2> QED BY <1>1, <1>2, <2>1, AskingFacts DEF TypeOK
<1>4. /\ meta' \in [Rounds -> Meta]
      /\ \A r \in Rounds \ {round} : meta'[r] = meta[r]
      /\ meta'[round].sid = meta[round].sid
      /\ meta'[round].turns = meta[round].turns
      /\ meta'[round].nudges = loc.nudges + 1
      /\ meta'[round].recoveries = loc'.recoveries
  <2>1. meta[round] \in Meta /\ round \in Rounds
    BY Typed
  <2>2. Counters(meta[round], loc') \in Meta
    BY <1>3, <2>1, CountersFacts
  <2>3. /\ meta' \in [Rounds -> Meta]
        /\ \A r \in Rounds \ {round} : meta'[r] = meta[r]
        /\ meta'[round] = Counters(meta[round], loc')
    BY <1>1, <2>1, <2>2 DEF TypeOK
  <2> QED BY <1>3, <2>1, <2>3, CountersFacts
<1>5. TypeOK'
  BY <1>1, <1>3, <1>4 DEF TypeOK, PCs
<1>6. Untouched'
  BY <1>1, <1>4, Later DEF Untouched
<1>7. Running'
  BY <1>1, <1>3, <1>4 DEF Running
<1>8. Recorded'
  BY <1>1, <1>2, <1>3, <1>4, Typed DEF Recorded
<1>9. Prompting'
  <2>1. Or(meta'[round].sid, loc'.sid) = child
    BY <1>1, <1>2, <1>3, <1>4 DEF Running, Or
  <2>2. /\ meta'[round].turns < MaxTurn
        /\ loc'.nudges <= meta'[round].turns + 1
    BY <1>1, <1>2, <1>3, <1>4, Typed DEF Looping
  <2>3. launched[child] <= 2 * counted[child] - 1
    BY <1>1 DEF Looping
  <2> QED BY <1>1, <1>3, <2>1, <2>2, <2>3 DEF Prompting
<1>10. AuditTrail'
  BY <1>1, <1>4, Typed DEF AuditTrail, Recorded
<1>11. Enforced'
  BY <1>1, <1>4 DEF Enforced, Running
<1>12. /\ Carried' /\ First' /\ Looping' /\ Ending' /\ TurnBudget'
      /\ RetiredSpent' /\ RecoveryLast'
  BY <1>1 DEF Carried, First, Looping, Ending, TurnBudget, RetiredSpent,
     RecoveryLast
<1> QED BY <1>5, <1>6, <1>7, <1>8, <1>9, <1>10, <1>11, <1>12

LEMMA NudgeKeeps == SessionInv /\ Nudge => SessionInv'
<1> SUFFICES ASSUME SessionInv, Nudge PROVE SessionInv'
  OBVIOUS
<1> USE DEF SessionInv
<1>1. pc = "ask" /\ pc' = "nudge" /\ child' = child
  BY DEF Nudge, Prompting
<1>2. UNCHANGED <<stdin, round, meta, verdict, loc, retired, result,
                     counted, kills, stray>>
  BY DEF Nudge
<1>3. /\ launched' \in [Sids -> Nat]
      /\ launched'[child] = launched[child] + 1
      /\ \A s \in Sids \ {child} : launched'[s] = launched[s]
  <2>1. launched \in [Sids -> Nat] /\ child \in Sids
    BY DEF TypeOK
  <2>2. launched' = [launched EXCEPT ![child] = @ + 1]
    BY <1>1 DEF Nudge
  <2> QED BY <2>1, <2>2, CountUp
<1>4. /\ loc.prompt \in Prompts
      /\ asked' \in [Rounds -> Seq(Prompts)]
      /\ asked'[round] = Append(asked[round], loc.prompt)
      /\ \A r \in Rounds \ {round} : asked'[r] = asked[r]
  <2>1. loc.prompt \in Prompts /\ round \in Rounds
    BY DEF TypeOK, Locals
  <2>2. Append(asked[round], loc.prompt) \in Seq(Prompts)
    BY <2>1, Typed, AskedFacts
  <2> QED BY <2>1, <2>2 DEF Nudge, TypeOK
<1>5. /\ Len(asked'[round]) = Len(asked[round]) + 1
      /\ DOMAIN asked'[round] = 1 .. Len(asked[round]) + 1
      /\ DOMAIN asked[round] = 1 .. Len(asked[round])
      /\ asked'[round][Len(asked[round]) + 1] = loc.prompt
      /\ \A i \in 1 .. Len(asked[round]) : asked'[round][i] = asked[round][i]
  BY <1>4, Typed, AskedFacts
<1>6. TypeOK'
  BY <1>1, <1>2, <1>3, <1>4 DEF TypeOK, PCs
<1>7. Untouched'
  <2>1. \A s \in Sids : s > round \/ s = 0 => s # child
    BY <1>1, Typed DEF Running
  <2>2. \A r \in Rounds : r > round => r # round
    BY Typed
  <2> QED BY <1>2, <1>3, <1>4, <2>1, <2>2 DEF Untouched
<1>8. \A i \in 1 .. Len(asked[round]) : asked'[round][i] # "recovery"
  BY <1>1, <1>5 DEF Recorded
<1>9. Recorded'
  <2>1. loc.recoveries = 0 => loc.prompt # "recovery"
    BY <1>1 DEF Prompting
  <2>2. loc.recoveries = 0 => \A i \in DOMAIN asked'[round] : asked'[round][i] # "recovery"
    BY <1>5, <1>8, <2>1, Typed
  <2> QED BY <1>1, <1>2, <1>5, <2>2, Typed DEF Recorded
<1>10. Prompting'
  BY <1>1, <1>2, <1>3, Typed DEF Prompting
<1>11. TurnBudget'
  <2>1. counted[child] <= Most /\ launched[child] <= 2 * counted[child] - 1
    BY <1>1, Typed DEF Prompting, TurnBudget, TypeOK
  <2>2. launched'[child] <= 2 * Most
    BY <1>3, <2>1, MostNat, Typed
  <2> QED BY <1>2, <1>3, <2>2 DEF TurnBudget
<1>12. AuditTrail'
  BY <1>1, <1>2, <1>4, <1>5, Typed DEF AuditTrail, Recorded
<1>13. RecoveryLast'
  <2>1. \A i \in DOMAIN asked'[round] : asked'[round][i] = "recovery" => i = Len(asked'[round])
    BY <1>5, <1>8, Typed
  <2> QED BY <1>2, <1>4, <2>1 DEF RecoveryLast
<1>14. /\ Carried' /\ Running' /\ First' /\ Looping' /\ Ending'
      /\ RetiredSpent' /\ Enforced'
  BY <1>1, <1>2 DEF Carried, Running, First, Looping, Ending,
     RetiredSpent, Enforced
<1> QED BY <1>6, <1>7, <1>9, <1>10, <1>11, <1>12, <1>13, <1>14

LEMMA FlushKeeps == SessionInv /\ Flush => SessionInv'
<1> SUFFICES ASSUME SessionInv, Flush PROVE SessionInv'
  OBVIOUS
<1> USE DEF SessionInv
<1>1. /\ pc = "flush" /\ pc' = "idle"
      /\ result' \in [Rounds -> Results]
      /\ result'[round] = IF result[round] = "late" THEN "late" ELSE "exit"
      /\ \A r \in Rounds \ {round} : result'[r] = result[r]
      /\ UNCHANGED <<stdin, round, child, verdict, loc, retired, asked,
                     counted, launched, kills, stray>>
  BY DEF Flush, TypeOK, Results
<1>2. /\ meta' \in [Rounds -> Meta]
      /\ \A r \in Rounds \ {round} : meta'[r] = meta[r]
      /\ meta'[round].sid = Or(loc.sid, meta[round].sid)
      /\ meta'[round].turns = meta[round].turns
      /\ meta'[round].nudges = loc.nudges
      /\ meta'[round].recoveries = loc.recoveries
  BY Typed, FlushedFacts DEF Flush, TypeOK
<1>3. TypeOK'
  BY <1>1, <1>2 DEF TypeOK, PCs
<1>4. Untouched'
  BY <1>1, <1>2, Later DEF Untouched
<1>5. Carried'
  <2>1. meta'[round].sid # 0 => meta'[round].sid = child
    BY <1>1, <1>2 DEF Running, Or
  <2>2. meta'[round].sid # 0 => launched[child] <= 2 * counted[child]
    BY <1>1, <1>2 DEF Ending, Or
  <2> QED BY <1>1, <1>2, <2>1, <2>2, Typed DEF Running, Carried
<1>6. AuditTrail'
  <2>1. meta'[round].nudges = Len(asked[round])
    BY <1>1, <1>2, Typed DEF Recorded
  <2> QED BY <1>1, <1>2, <2>1 DEF AuditTrail
<1>7. Enforced'
  <2>1. result'[round] = "exit" /\ ~verdict[round] /\ stdin =>
          \/ meta'[round].turns = MaxTurn
          \/ meta'[round].sid = 0
          \/ meta'[round].recoveries = 1
    BY <1>1, <1>2 DEF Ending, Or
  <2> QED BY <1>1, <1>2, <2>1 DEF Enforced
<1>8. /\ Running' /\ First' /\ Recorded' /\ Looping' /\ Prompting'
      /\ Ending' /\ TurnBudget' /\ RetiredSpent' /\ RecoveryLast'
  BY <1>1 DEF Running, First, Recorded, Looping, Prompting, Ending,
     TurnBudget, RetiredSpent, RecoveryLast
<1> QED BY <1>3, <1>4, <1>5, <1>6, <1>7, <1>8

LEMMA ExitKeeps ==
  ASSUME SessionInv, NEW out \in Outputs, Exit(out)
  PROVE  SessionInv'
<1> USE DEF SessionInv
<1>1. /\ pc = "main" /\ pc' \in {"look", "flush"}
      /\ stdin => pc' = "look"
      /\ out.sid \in {0, child} /\ out.sid \in Sids
      /\ out.compacted \in BOOLEAN /\ out.ended \in BOOLEAN
      /\ UNCHANGED <<stdin, round, child, verdict, retired, result,
                     asked, launched, kills, stray>>
  BY OutputsType DEF Exit, TypeOK
<1>2. /\ loc' \in Locals /\ loc'.sid = out.sid
      /\ loc'.nudges = 0 /\ loc'.recoveries = 0
  <2>1. /\ loc \in Locals /\ loc.nudges = 0 /\ loc.recoveries = 0
        /\ loc' = [loc EXCEPT !.sid = out.sid, !.compacted = out.compacted,
                              !.ended = out.ended]
    BY <1>1 DEF Exit, First, Start, TypeOK
  <2> QED BY <1>1, <2>1 DEF Locals

<1>3. /\ counted' \in [Sids -> Nat] /\ child \in Sids
      /\ counted'[child] = counted[child] + 1
      /\ \A s \in Sids \ {child} : counted'[s] = counted[s]
  BY DEF Exit, TypeOK
<1>4. /\ meta' \in [Rounds -> Meta]
      /\ \A r \in Rounds \ {round} : meta'[r] = meta[r]
      /\ meta'[round].sid = out.sid
      /\ meta'[round].turns = Bounded(meta[round].turns + 1)
      /\ meta'[round].nudges = 0
      /\ meta'[round].recoveries = 0
  <2>1. /\ meta[round].sid = 0 /\ meta[round].nudges = 0
        /\ meta[round].recoveries = 0
    BY <1>1 DEF First
  <2>2. /\ meta' \in [Rounds -> Meta]
        /\ \A r \in Rounds \ {round} : meta'[r] = meta[r]
        /\ meta'[round] = Ran(meta[round], out.sid)
    BY <1>1, Typed, RanFacts DEF Exit, TypeOK
  <2>3. Or(out.sid, 0) = out.sid
    BY DEF Or
  <2> DEFINE n == Ran(meta[round], out.sid)
  <2>4. /\ n.sid = Or(out.sid, meta[round].sid)
        /\ n.turns = Bounded(meta[round].turns + 1)
        /\ n.nudges = meta[round].nudges /\ n.recoveries = meta[round].recoveries
    BY <1>1, Typed, RanFacts
  <2>5. meta'[round] = n
    BY <2>2
  <2> HIDE DEF n
  <2> QED BY <2>1, <2>2, <2>3, <2>4, <2>5
<1>5. meta'[round].turns = Bounded(counted'[child])
  BY <1>1, <1>3, <1>4, Typed, BoundedType DEF Running
<1>6. counted'[child] <= Most /\ launched[child] <= 2 * counted'[child] - 1
  <2>1. /\ counted[child] < Most
        /\ launched[child] <= 2 * counted[child] + 1
    BY <1>1 DEF First
  <2>2. counted[child] + 1 <= Most
    BY <2>1, Typed DEF Most
  <2>3. launched[child] <= 2 * (counted[child] + 1) - 1
    BY <2>1, Typed
  <2> QED BY <1>3, <2>2, <2>3
<1>7. TypeOK'
  BY <1>1, <1>2, <1>3, <1>4 DEF TypeOK, PCs
<1>8. Untouched'
  <2>1. \A s \in Sids : s > round \/ s = 0 => s # child
    BY <1>1, Typed DEF Running
  <2> QED BY <1>1, <1>3, <1>4, <2>1, Later DEF Untouched
<1>9. Running'
  BY <1>1, <1>2, <1>4, <1>5 DEF Running, Or
<1>10. Recorded'
  <2>1. asked[round] = <<>>
    BY <1>1 DEF First
  <2>2. Len(asked[round]) = 0 /\ DOMAIN asked[round] = {}
    BY <2>1
  <2> QED BY <1>1, <1>2, <1>4, <2>2 DEF Recorded
<1>11. Looping'
  <2>1. meta'[round].turns \in 0 .. MaxTurn
    <3>1. meta[round].turns + 1 \in Nat
      BY Typed
    <3> QED BY <1>4, <3>1, BoundedType
  <2> QED BY <1>1, <1>2, <1>6, <2>1 DEF Looping
<1>12. Ending'
  <2>1. launched'[child'] <= 2 * counted'[child']
    <3>1. counted[child] \in Nat /\ launched[child] \in Nat
      BY Typed
    <3>2. launched' = launched /\ child' = child
      BY <1>1
    <3> HIDE DEF SessionInv
    <3> QED BY <1>3, <1>6, <3>1, <3>2
  <2>2. result'[round'] # "late" /\ stdin' => pc' # "flush"
    BY <1>1 DEF Running
  <2> QED BY <2>1, <2>2 DEF Ending
<1>13. TurnBudget'
  BY <1>1, <1>3, <1>6 DEF TurnBudget
<1>14. RetiredSpent'
  BY <1>1, <1>3, Typed DEF RetiredSpent, TypeOK
<1>15. AuditTrail'
  BY <1>1, <1>4, Typed DEF AuditTrail, First
<1>16. Enforced'
  BY <1>1, <1>4 DEF Enforced, Running
<1>17. /\ Carried' /\ First' /\ Prompting' /\ RecoveryLast'
  BY <1>1 DEF Carried, First, Prompting, RecoveryLast
<1> QED BY <1>7, <1>8, <1>9, <1>10, <1>11, <1>12, <1>13, <1>14, <1>15,
            <1>16, <1>17

LEMMA NudgeExitKeeps ==
  ASSUME SessionInv, NEW out \in Outputs, NudgeExit(out)
  PROVE  SessionInv'
<1> USE DEF SessionInv
<1>1. /\ pc = "nudge" /\ pc' = "look"
      /\ out.sid \in {0, child} /\ out.sid \in Sids
      /\ out.compacted \in BOOLEAN /\ out.ended \in BOOLEAN
      /\ UNCHANGED <<stdin, round, child, verdict, retired, result,
                     asked, launched, kills, stray>>
  BY OutputsType DEF NudgeExit, TypeOK
<1>2. /\ loc' \in Locals /\ loc'.sid = Or(out.sid, loc.sid)
      /\ loc'.nudges = loc.nudges /\ loc'.recoveries = loc.recoveries
  <2>1. Or(out.sid, loc.sid) \in Sids
    BY <1>1, Typed DEF Or
  <2>2. /\ loc \in Locals
        /\ (loc.compacted \/ out.compacted) \in BOOLEAN
        /\ (loc.ended \/ out.ended) \in BOOLEAN
        /\ loc' = [loc EXCEPT !.sid = Or(out.sid, loc.sid),
                              !.compacted = loc.compacted \/ out.compacted,
                              !.ended = loc.ended \/ out.ended]
    BY <1>1 DEF NudgeExit, TypeOK
  <2> QED BY <2>1, <2>2 DEF Locals

<1>3. /\ counted' \in [Sids -> Nat] /\ child \in Sids
      /\ counted'[child] = counted[child] + 1
      /\ \A s \in Sids \ {child} : counted'[s] = counted[s]
  BY DEF NudgeExit, TypeOK
<1>4. /\ meta' \in [Rounds -> Meta]
      /\ \A r \in Rounds \ {round} : meta'[r] = meta[r]
      /\ meta'[round].sid = Or(out.sid, meta[round].sid)
      /\ meta'[round].turns = Bounded(meta[round].turns + 1)
      /\ meta'[round].nudges = loc.nudges
      /\ meta'[round].recoveries = loc.recoveries
  <2>1. meta[round] \in Meta /\ loc \in Locals /\ round \in Rounds
    BY DEF TypeOK
  <2>2. Ran(meta[round], out.sid) \in Meta
    BY <1>1, <2>1, RanFacts
  <2>3. /\ meta' \in [Rounds -> Meta]
        /\ \A r \in Rounds \ {round} : meta'[r] = meta[r]
        /\ meta'[round] = Counters(Ran(meta[round], out.sid), loc)
    BY <2>1, <2>2, CountersFacts DEF NudgeExit, TypeOK
  <2> DEFINE n == Ran(meta[round], out.sid)
  <2>4. n \in Meta /\ n.sid = Or(out.sid, meta[round].sid)
        /\ n.turns = Bounded(meta[round].turns + 1)
    BY <1>1, <2>1, RanFacts
  <2>5. meta'[round] = Counters(n, loc)
    BY <2>3
  <2> HIDE DEF n
  <2> QED BY <2>1, <2>3, <2>4, <2>5, CountersFacts
<1>5. meta'[round].turns = Bounded(counted'[child])
  BY <1>1, <1>3, <1>4, Typed, BoundedType DEF Running
<1>6. counted'[child] <= Most /\ launched[child] <= 2 * counted'[child] - 1
  <2>1. /\ meta[round].turns < MaxTurn
        /\ meta[round].turns = Bounded(counted[child])
        /\ launched[child] <= 2 * counted[child]
    BY <1>1, Typed DEF Prompting, Running
  <2>2. counted[child] < MaxTurn
    BY <2>1, Typed DEF Bounded
  <2>3. counted[child] + 1 <= Most
    BY <2>2, Typed DEF Most
  <2>4. launched[child] <= 2 * (counted[child] + 1) - 1
    BY <2>1, Typed
  <2> QED BY <1>3, <2>3, <2>4
<1>7. TypeOK'
  BY <1>1, <1>2, <1>3, <1>4 DEF TypeOK, PCs
<1>8. Untouched'
  <2>1. \A s \in Sids : s > round \/ s = 0 => s # child
    BY <1>1, Typed DEF Running
  <2> QED BY <1>1, <1>3, <1>4, <2>1, Later DEF Untouched
<1>9. Running'
  BY <1>1, <1>2, <1>4, <1>5 DEF Running, Or
<1>10. Recorded'
  BY <1>1, <1>2, <1>4, Typed DEF Recorded
<1>11. Looping'
  <2>1. loc.nudges <= meta[round].turns + 1 /\ meta[round].turns < MaxTurn
    BY <1>1 DEF Prompting
  <2>2. meta'[round].turns = meta[round].turns + 1
    BY <1>4, <2>1, Typed DEF Bounded
  <2> QED BY <1>1, <1>2, <1>6, <2>1, <2>2 DEF Looping
<1>12. Ending'
  BY <1>1, <1>3, <1>6, Typed DEF Ending, Running
<1>13. TurnBudget'
  BY <1>1, <1>3, <1>6 DEF TurnBudget
<1>14. RetiredSpent'
  BY <1>1, <1>3, Typed DEF RetiredSpent, TypeOK
<1>15. AuditTrail'
  BY <1>1, <1>4, Typed DEF AuditTrail, Recorded
<1>16. Enforced'
  BY <1>1, <1>4 DEF Enforced, Running
<1>17. /\ Carried' /\ First' /\ Prompting' /\ RecoveryLast'
  BY <1>1 DEF Carried, First, Prompting, RecoveryLast
<1> QED BY <1>7, <1>8, <1>9, <1>10, <1>11, <1>12, <1>13, <1>14, <1>15,
            <1>16, <1>17

LEMMA SpawnKeeps == SessionInv /\ Spawn => SessionInv'
<1> SUFFICES ASSUME SessionInv, Spawn PROVE SessionInv'
  OBVIOUS
<1> USE DEF SessionInv
<1> DEFINE m == meta[round]
<1>1. /\ pc = "idle" /\ pc' = "launch" /\ round' = round + 1 /\ round' \in Rounds
      /\ round \in Nat /\ loc' = Start
      /\ UNCHANGED <<stdin, verdict, result, asked, counted, launched,
                     kills, stray>>
  BY DEF Spawn, TypeOK
<1>2. /\ m \in Meta /\ m.sid \in Sids /\ m.turns \in 0 .. MaxTurn
      /\ m.sid # 0 => /\ m.sid <= round /\ m.turns = Bounded(counted[m.sid])
                      /\ launched[m.sid] <= 2 * counted[m.sid]
                      /\ counted[m.sid] \in Nat
  BY <1>1, Typed DEF Carried, TypeOK
<1>3. /\ meta' \in [Rounds -> Meta]
      /\ \A r \in Rounds \ {round'} : meta'[r] = meta[r]
      /\ meta'[round'].sid = 0 /\ meta'[round'].nudges = 0
      /\ meta'[round'].recoveries = 0
      /\ meta'[round'].turns = IF Reusable(m) THEN m.turns ELSE 0
  <2>1. meta' = [meta EXCEPT ![round'] = Baseline(m)]
    BY <1>1 DEF Spawn
  <2> QED BY <1>1, <1>2, <2>1, BlankFacts DEF TypeOK
<1>4. /\ asked[round'] = <<>> /\ result[round'] = "none"
      /\ counted[round'] = 0 /\ launched[round'] = 0 /\ round' \notin retired
  BY <1>1 DEF Untouched
<1> HIDE DEF m
<1>5. /\ child' \in Sids /\ child' \in 1 .. round' /\ child' \notin retired'
      /\ counted[child'] < Most /\ launched[child'] <= 2 * counted[child']
      /\ meta'[round'].turns = Bounded(counted[child'])
      /\ retired' \subseteq Sids
      /\ \A s \in retired' : s \in 1 .. round /\ counted[s] >= MaxTurn
  <2>1. \A s \in retired : s \in 1 .. round /\ counted[s] >= MaxTurn
    BY <1>1 DEF RetiredSpent, Untouched, TypeOK
  <2>2. CASE Reusable(m)
    <3>1. child' = m.sid /\ retired' = retired /\ m.sid # 0 /\ m.turns < MaxTurn
      BY <2>2 DEF Spawn, Reusable, m
    <3>2. counted[m.sid] < MaxTurn
      BY <1>2, <3>1 DEF Bounded
    <3>3. child' \in 1 .. round /\ child' \in Sids /\ counted[m.sid] < Most
      BY <1>1, <1>2, <3>1, <3>2 DEF Most
    <3>4. child' \notin retired'
      BY <2>1, <3>1, <3>2, <3>3, <1>2
    <3>5. meta'[round'].turns = Bounded(counted[child'])
      BY <1>2, <1>3, <2>2, <3>1
    <3>6. launched[child'] <= 2 * counted[child'] /\ counted[child'] < Most
      BY <1>2, <3>1, <3>3
    <3>7. retired' \subseteq Sids
      BY <3>1 DEF TypeOK
    <3>8. child' \in 1 .. round'
      BY <1>1, <3>3
    <3> QED BY <2>1, <3>1, <3>3, <3>4, <3>5, <3>6, <3>7, <3>8
  <2>3. CASE ~Reusable(m)
    <3>1. child' = round + 1 /\ retired' = retired \cup ({m.sid} \ {0})
      BY <2>3 DEF Spawn, m
    <3>2. m.sid # 0 => counted[m.sid] >= MaxTurn
      BY <1>2, <2>3 DEF Reusable, Bounded
    <3>3. Bounded(0) = 0
      BY DEF Bounded
    <3>4. \A s \in retired' : s \in 1 .. round /\ counted[s] >= MaxTurn
      BY <1>1, <1>2, <2>1, <3>1, <3>2
    <3>5. child' \in 1 .. round' /\ child' \in Sids /\ child' \notin retired'
      BY <1>1, <3>1, <3>4
    <3>6. retired' \subseteq Sids
      BY <1>2, <3>1 DEF TypeOK
    <3>7. 0 < Most /\ child' = round'
      BY <1>1, <3>1 DEF Most
    <3> QED BY <1>3, <1>4, <2>3, <3>3, <3>4, <3>5, <3>6, <3>7
  <2> QED BY <2>2, <2>3
<1>6. Start \in Locals
  BY DEF Start, Locals, Prompts
<1>7. TypeOK'
  BY <1>1, <1>3, <1>5, <1>6 DEF TypeOK, PCs
<1>8. Untouched'
  BY <1>1, <1>3, <1>5 DEF Untouched
<1>9. Running'
  BY <1>1, <1>3, <1>4, <1>5 DEF Running, Start
<1>10. First'
  <2>1. counted[child'] \in Nat
    BY <1>5 DEF TypeOK
  <2> QED BY <1>1, <1>3, <1>4, <1>5, <2>1 DEF First
<1>11. RetiredSpent'
  BY <1>1, <1>5 DEF RetiredSpent
<1>12. AuditTrail'
  <2>1. meta'[round'].nudges = Len(asked[round'])
    BY <1>3, <1>4
  <2> QED BY <1>1, <1>3, <2>1 DEF AuditTrail
<1>13. Enforced'
  BY <1>1, <1>3, <1>4 DEF Enforced
<1>14. /\ Carried' /\ Recorded' /\ Looping' /\ Prompting' /\ Ending'
      /\ TurnBudget' /\ RecoveryLast'
  BY <1>1 DEF Carried, Recorded, Looping, Prompting, Ending, TurnBudget,
     RecoveryLast
<1> QED BY <1>7, <1>8, <1>9, <1>10, <1>11, <1>12, <1>13, <1>14

-----------------------------------------------------------------------------
(***************************************************************************)
(* The invariant and the properties                                        *)
(***************************************************************************)

LEMMA SessionInit == Init => SessionInv
<1> SUFFICES ASSUME Init PROVE SessionInv
  OBVIOUS
<1> USE DEF Init
<1>1. Blank \in Meta /\ Start \in Locals
  BY DEF Blank, Start, Meta, Locals, Prompts
<1>2. Len(<<>>) = 0 /\ <<>> \in Seq(Prompts) /\ DOMAIN <<>> = {}
  OBVIOUS
<1>3. TypeOK
  BY <1>1, <1>2 DEF TypeOK, PCs, Results
<1>4. Untouched /\ TurnBudget /\ RetiredSpent /\ RecoveryLast /\ Enforced
  BY <1>2 DEF Untouched, TurnBudget, RetiredSpent, RecoveryLast, Enforced, Most
<1>5. Carried /\ AuditTrail
  BY <1>2 DEF Carried, AuditTrail, Blank
<1>6. Running /\ First /\ Recorded /\ Looping /\ Prompting /\ Ending
  BY DEF Running, First, Recorded, Looping, Prompting, Ending
<1> QED BY <1>3, <1>4, <1>5, <1>6 DEF SessionInv

LEMMA SessionStep == SessionInv /\ [Next]_vars => SessionInv'
<1> SUFFICES ASSUME SessionInv, [Next]_vars PROVE SessionInv'
  OBVIOUS
<1>1. ASSUME NEW out \in Outputs, Exit(out) \/ NudgeExit(out) PROVE SessionInv'
  BY <1>1, ExitKeeps, NudgeExitKeeps
<1>2. CASE Command
  BY <1>2, LaunchKeeps, TimeoutKeeps, LookKeeps, StopKeeps, AskKeeps,
     NudgeKeeps, NudgeTimeoutKeeps, FlushKeeps DEF Command
<1>3. CASE UNCHANGED vars
  <2> USE <1>3 DEF vars
  <2>1. TypeOK' /\ Untouched' /\ Carried' /\ Running'
    BY DEF SessionInv, TypeOK, Untouched, Carried, Running
  <2>2. First' /\ Recorded' /\ Looping'
    BY DEF SessionInv, First, Recorded, Looping
  <2>3. Prompting' /\ Ending'
    BY DEF SessionInv, Prompting, Ending
  <2>4. TurnBudget' /\ RetiredSpent' /\ AuditTrail' /\ RecoveryLast' /\ Enforced'
    BY DEF SessionInv, TurnBudget, RetiredSpent, AuditTrail, RecoveryLast, Enforced
  <2> QED BY <2>1, <2>2, <2>3, <2>4 DEF SessionInv
<1> QED BY <1>1, <1>2, <1>3, SpawnKeeps, SkipKeeps, RegisterKeeps,
        FailClosedKeeps, KillKeeps, LateKeeps DEF Next, Exits

LEMMA SessionAlways == Spec => []SessionInv
BY SessionInit, SessionStep, PTL DEF Spec

\* The types of the slot's files and of the command, for any turn budget
\* and any number of rounds and kills.
THEOREM SessionTypes == Spec => []TypeOK
<1>1. SessionInv => TypeOK
  BY DEF SessionInv
<1> QED BY SessionAlways, <1>1, PTL

\* The turn count that spawn_resume carries from one meta.json to the next
\* is the number of turns the session has run to the end.
THEOREM CountsEveryTurn == Spec => []RunningTotal
<1>1. SessionInv => RunningTotal
  BY DEF SessionInv, Carried, Running, RunningTotal
<1> QED BY SessionAlways, <1>1, PTL

\* The budget holds: at most maxTurn turns count, at most twice as many
\* runs of a session are launched, over all rounds and kills.
THEOREM KeepsTheBudget == Spec => []TurnBudget
<1>1. SessionInv => TurnBudget
  BY DEF SessionInv
<1> QED BY SessionAlways, <1>1, PTL

\* An archived session has spent its budget and is not run again.
THEOREM RetiresTheSpent == Spec => []RetiredSpent
<1>1. SessionInv => RetiredSpent
  BY DEF SessionInv
<1> QED BY SessionAlways, <1>1, PTL

\* checkpoint_meta's promise: a kill at any point leaves an accurate count
\* of the prompts in meta.json.
THEOREM KeepsTheTrail == Spec => []AuditTrail
<1>1. SessionInv => AuditTrail
  BY DEF SessionInv
<1> QED BY SessionAlways, <1>1, PTL

\* The compaction recovery is asked for once per round, and last.
THEOREM RecoversOnce == Spec => []RecoveryLast
<1>1. SessionInv => RecoveryLast
  BY DEF SessionInv
<1> QED BY SessionAlways, <1>1, PTL

\* gather only returns a null slot for one of its reasons.
THEOREM AsksForVerdicts == Spec => []Enforced
<1>1. SessionInv => Enforced
  BY DEF SessionInv
<1> QED BY SessionAlways, <1>1, PTL

-----------------------------------------------------------------------------
\* The session of a verifier cut off in its first run is named nowhere that the
\* next command looks, and new sessions have names of their own.
Unnamed ==
  \A x \in stray : x.first =>
    /\ 1 <= x.sid /\ x.sid <= round
    /\ meta[round].sid # x.sid
    /\ pc # "idle" => child # x.sid

\* Whatever a command does within its round, meta.json names its own session.
LEMMA UnnamedWithin ==
  ASSUME Unnamed, stray' \subseteq stray, round' = round,
         pc # "idle", pc' # "idle" => child' = child,
         meta'[round].sid \in {0, child}
  PROVE  Unnamed'
<1> SUFFICES ASSUME NEW x \in stray', x.first
             PROVE  /\ 1 <= x.sid /\ x.sid <= round
                    /\ meta'[round].sid # x.sid
                    /\ pc' # "idle" => child' # x.sid
  BY DEF Unnamed
<1>1. x \in stray /\ 1 <= x.sid /\ x.sid <= round /\ child # x.sid
  BY DEF Unnamed
<1>2. x.sid # 0
  BY <1>1
<1> QED BY <1>1, <1>2

LEMMA UnnamedSpawn ==
  ASSUME SessionInv, SessionInv', Unnamed, Spawn \/ Skip
  PROVE  Unnamed'
<1>1. /\ stray' = stray /\ round' = round + 1 /\ round \in Nat
      /\ round + 1 \in Rounds /\ pc = "idle"
  BY DEF Spawn, Skip, SessionInv, TypeOK, Rounds
<1>2. meta'[round + 1].sid = 0
  <2>1. CASE Spawn
    BY <1>1, <2>1 DEF Spawn, Baseline, Blank, SessionInv, TypeOK
  <2>2. CASE Skip
    BY <1>1, <2>2 DEF Skip, Blank, SessionInv, Untouched
  <2> QED BY <2>1, <2>2
<1> SUFFICES ASSUME NEW x \in stray, x.first
             PROVE  /\ 1 <= x.sid /\ x.sid <= round + 1
                    /\ meta'[round + 1].sid # x.sid
                    /\ pc' # "idle" => child' # x.sid
  BY <1>1 DEF Unnamed
<1>3. x.sid \in Nat
  BY DEF SessionInv, TypeOK, Sids, Rounds
<1>4. 1 <= x.sid /\ x.sid <= round /\ meta[round].sid # x.sid
  BY DEF Unnamed
<1>5. pc' # "idle" => child' # x.sid
  <2>1. pc' # "idle" => child' \in {meta[round].sid, round + 1}
    BY <1>1 DEF Spawn, Skip
  <2>2. x.sid # round + 1
    BY <1>1, <1>3, <1>4
  <2> QED BY <2>1, <2>2, <1>4
<1>6. x.sid # 0 /\ x.sid <= round + 1
  BY <1>1, <1>3, <1>4
<1> QED BY <1>2, <1>4, <1>5, <1>6

LEMMA UnnamedKill ==
  ASSUME SessionInv, Unnamed, Kill
  PROVE  Unnamed'
<1>1. /\ UNCHANGED <<round, meta>> /\ pc' = "idle"
      /\ pc # "idle"
  BY DEF Kill
<1> SUFFICES ASSUME NEW x \in stray', x.first
             PROVE  1 <= x.sid /\ x.sid <= round /\ meta[round].sid # x.sid
  BY <1>1 DEF Unnamed
<1>2. CASE x \in stray
  BY <1>2 DEF Unnamed
<1>3. CASE x \notin stray
  <2>1. x = [sid |-> child, round |-> round, first |-> pc = "main"]
    BY <1>3 DEF Kill
  <2>2. pc = "main" /\ x.sid = child
    BY <2>1
  <2>3. child \in 1 .. round /\ meta[round].sid = 0
    BY <1>1, <2>2 DEF SessionInv, Running, First
  <2>4. round \in Nat /\ child \in Nat
    BY DEF SessionInv, TypeOK, Sids, Rounds
  <2> QED BY <2>2, <2>3, <2>4
<1> QED BY <1>2, <1>3

LEMMA UnnamedStep ==
  ASSUME SessionInv, SessionInv', Unnamed, [Next]_vars
  PROVE  Unnamed'
<1>1. CASE Spawn \/ Skip
  BY <1>1, UnnamedSpawn
<1>2. CASE Kill
  BY <1>2, UnnamedKill
<1>3. CASE Late \/ UNCHANGED vars
  <2>1. stray' \subseteq stray /\ UNCHANGED <<round, pc, child, meta>>
    BY <1>3 DEF Late, RegisterLate, EndLate, vars
  <2> QED BY <2>1 DEF Unnamed
<1>4. CASE Register \/ FailClosed \/ Exits \/ Command
  <2>1. pc # "idle" /\ UNCHANGED <<stray, round>>
    BY <1>4 DEF Register, FailClosed, Exits, Exit, NudgeExit, Command, Launch,
       Timeout, Look, Stop, Ask, Nudge, NudgeTimeout, Flush
  <2>2. /\ child \in 1 .. round /\ child # 0
        /\ {meta[round].sid, loc.sid} \subseteq {0, child}
    <3>1. round \in Nat
      BY DEF SessionInv, TypeOK, Rounds
    <3> QED BY <2>1, <3>1 DEF SessionInv, Running
  <2>3. pc' # "idle" => child' = child
    <3>1. CASE Nudge
      <4>1. child' \in {0, child}
        BY <2>2, <3>1 DEF Nudge, Or
      <4>2. pc' # "idle" => child' \in 1 .. round
        BY <2>1 DEF SessionInv, Running
      <4>3. 0 \notin 1 .. round
        OBVIOUS
      <4> QED BY <4>1, <4>2, <4>3
    <3>2. CASE ~Nudge
      BY <1>4, <3>2 DEF Register, FailClosed, Exits, Exit, NudgeExit, Command,
         Launch, Timeout, Look, Stop, Ask, NudgeTimeout, Flush
    <3> QED BY <3>1, <3>2
  <2>4. meta'[round].sid \in {0, child}
    <3>1. CASE pc' # "idle"
      BY <2>1, <2>3, <3>1 DEF SessionInv, Running
    <3>2. CASE pc' = "idle"
      <4>1. CASE Flush
        <5>1. meta'[round].sid = Flushed(meta[round], loc).sid
          BY <4>1 DEF Flush, SessionInv, TypeOK
        <5>2. meta[round] \in Meta
          BY DEF SessionInv, TypeOK
        <5>3. Flushed(meta[round], loc).sid = Or(loc.sid, meta[round].sid)
          BY <5>2 DEF Flushed, Counters, Meta
        <5> QED BY <2>2, <5>1, <5>3 DEF Or
      <4>2. CASE ~Flush
        <5>1. meta' = meta
          BY <1>4, <2>1, <3>2, <4>2 DEF Register, FailClosed, Exits, Exit, NudgeExit,
             Command, Launch, Timeout, Look, Stop, Ask, Nudge, NudgeTimeout
        <5> QED BY <2>2, <5>1
      <4> QED BY <4>1, <4>2
    <3> QED BY <3>1, <3>2
  <2> QED BY <2>1, <2>3, <2>4, UnnamedWithin
<1> QED BY <1>1, <1>2, <1>3, <1>4 DEF Next

\* No RESUME ever runs a session in which a verifier of an earlier, killed
\* command is still in its first run, for any number of kills.
THEOREM FirstRunsAlone == Spec => []FirstRunAlone
<1>1. Init => Unnamed
  BY DEF Init, Unnamed
<1>2. Spec => []Unnamed
  BY SessionAlways, <1>1, UnnamedStep, PTL DEF Spec
<1>3. Unnamed => FirstRunAlone
  BY DEF Unnamed, FirstRunAlone
<1> QED BY <1>2, <1>3, PTL

-----------------------------------------------------------------------------
\* An upper bound of the steps a command at place p still takes with l turns
\* left: every prompt costs a turn, and a run in the loop is four steps.
RankAt(p, l) ==
  CASE p = "idle"   -> 0
    [] p = "flush"  -> 1
    [] p = "nudge"  -> 4 * l
    [] p = "ask"    -> 4 * l + 1
    [] p = "loop"   -> 4 * l + 2
    [] p = "look"   -> 4 * l + 3
    [] p = "main"   -> 4 * MaxTurn + 4
    [] p = "launch" -> 4 * MaxTurn + 5

Left == MaxTurn - meta[round].turns
Rank == RankAt(pc, Left)

\* The rank place by place, as the steps need it.
LEMMA Ranks ==
  ASSUME NEW l \in 0 .. MaxTurn
  PROVE  /\ RankAt("idle", l) = 0 /\ RankAt("flush", l) = 1
         /\ RankAt("nudge", l) = 4 * l /\ RankAt("ask", l) = 4 * l + 1
         /\ RankAt("loop", l) = 4 * l + 2 /\ RankAt("look", l) = 4 * l + 3
         /\ RankAt("main", l) = 4 * MaxTurn + 4
         /\ RankAt("launch", l) = 4 * MaxTurn + 5
BY DEF RankAt

LEMMA TurnsLeft ==
  SessionInv => Left \in 0 .. MaxTurn /\ (pc \in {"ask", "nudge"} => Left > 0)
<1> SUFFICES ASSUME SessionInv
             PROVE  Left \in 0 .. MaxTurn /\ (pc \in {"ask", "nudge"} => Left > 0)
  OBVIOUS
<1>1. meta[round].turns \in 0 .. MaxTurn /\ MaxTurn \in Nat
  BY Typed DEF SessionInv
<1>2. pc \in {"ask", "nudge"} => meta[round].turns < MaxTurn
  BY DEF SessionInv, Prompting
<1> QED BY <1>1, <1>2 DEF Left

LEMMA RankBounds ==
  SessionInv => Rank \in 0 .. 4 * MaxTurn + 5 /\ (pc # "idle" => Rank > 0)
<1> SUFFICES ASSUME SessionInv
             PROVE  Rank \in 0 .. 4 * MaxTurn + 5 /\ (pc # "idle" => Rank > 0)
  OBVIOUS
<1>1. pc \in PCs
  BY DEF SessionInv, TypeOK
<1>2. CASE pc \in {"idle", "flush", "main", "launch"}
  BY <1>2, TurnsLeft, Ranks DEF Rank
<1>3. CASE pc \in {"nudge", "ask", "loop", "look"}
  BY <1>3, TurnsLeft, Ranks DEF Rank
<1> QED BY <1>1, <1>2, <1>3 DEF PCs

\* A run that exits in the loop uses up a turn of what is left.
LEMMA NudgeUses ==
  ASSUME SessionInv, NEW out \in Outputs, NudgeExit(out)
  PROVE  Left' = Left - 1
<1>1. out.sid \in Sids /\ meta[round] \in Meta /\ round \in Rounds /\ loc \in Locals
  BY OutputsType DEF SessionInv, TypeOK
<1>2. Ran(meta[round], out.sid) \in Meta
      /\ Ran(meta[round], out.sid).turns = Bounded(meta[round].turns + 1)
  BY <1>1, RanFacts
<1>3. /\ meta'[round] = Counters(Ran(meta[round], out.sid), loc)
      /\ round' = round /\ pc = "nudge"
  BY <1>1 DEF NudgeExit, SessionInv, TypeOK
<1>4. meta'[round].turns = Bounded(meta[round].turns + 1)
  BY <1>1, <1>2, <1>3, CountersFacts
<1>5. meta[round].turns < MaxTurn /\ meta[round].turns \in 0 .. MaxTurn
  BY <1>3, Typed DEF SessionInv, Prompting
<1> QED BY <1>3, <1>4, <1>5 DEF Left, Bounded

\* Every round ends after so many steps: whoever runs, nudges, is nudged or is
\* killed in whatever order, each step of a command brings it nearer its end,
\* and verdicts that come in, early or late, leave it where it is. (The loop of
\* gather; what GatherEnds needs besides fairness.)
THEOREM GatherRunsOut ==
  Spec => /\ [](Rank \in 0 .. 4 * MaxTurn + 5)
          /\ [][pc # "idle" => \/ Rank' < Rank
                               \/ (Register \/ Late) /\ Rank' = Rank]_vars
<1>1. SessionInv /\ SessionInv' /\ [Next]_vars =>
        [pc # "idle" => \/ Rank' < Rank
                        \/ (Register \/ Late) /\ Rank' = Rank]_vars
  <2> SUFFICES ASSUME SessionInv, SessionInv', Next, pc # "idle"
               PROVE  Rank' < Rank \/ ((Register \/ Late) /\ Rank' = Rank)
    OBVIOUS
  <2>1. /\ Left \in 0 .. MaxTurn /\ (pc \in {"ask", "nudge"} => Left > 0)
        /\ Left' \in 0 .. MaxTurn
        /\ Rank = RankAt(pc, Left) /\ Rank' = RankAt(pc', Left')
    <3>1. Left \in 0 .. MaxTurn /\ (pc \in {"ask", "nudge"} => Left > 0)
      BY TurnsLeft
    <3>2. Left' \in 0 .. MaxTurn
      <4>1. meta'[round'] \in Meta
        BY DEF SessionInv, TypeOK
      <4>2. meta'[round'].turns \in 0 .. MaxTurn
        BY <4>1 DEF Meta
      <4> QED BY <4>2 DEF Left
    <3> QED BY <3>1, <3>2 DEF Rank
  <2>2. CASE Register \/ Late
    <3>1. UNCHANGED <<pc, meta, round>>
      BY <2>2 DEF Register, Late, RegisterLate, EndLate
    <3> QED BY <2>2, <3>1 DEF Rank, Left
  <2>3. CASE Kill
    <3>1. pc' = "idle" /\ Rank > 0
      BY <2>3, RankBounds DEF Kill
    <3> QED BY <2>1, <3>1, Ranks
  <2>4. ASSUME NEW out \in Outputs, Exit(out) PROVE Rank' < Rank
    <3>1. pc = "main" /\ pc' \in {"look", "flush"}
      BY <2>4 DEF Exit
    <3> QED BY <2>1, <3>1, Ranks
  <2>5. ASSUME NEW out \in Outputs, NudgeExit(out) PROVE Rank' < Rank
    <3>1. pc = "nudge" /\ pc' = "look"
      BY <2>5 DEF NudgeExit
    <3>2. Left' = Left - 1
      BY <2>5, NudgeUses
    <3> QED BY <2>1, <3>1, <3>2, Ranks
  <2>6. CASE Ask
    <3>1. pc = "loop" /\ pc' = "ask" /\ Left' = Left
      <4>1. meta'[round].turns = meta[round].turns
        <5>1. loc' \in Locals /\ meta[round] \in Meta
          BY Typed DEF SessionInv, TypeOK
        <5>2. meta'[round] = Counters(meta[round], loc')
          BY <2>6, Typed DEF Ask, SessionInv, TypeOK
        <5> QED BY <5>1, <5>2, CountersFacts
      <4> QED BY <2>6, <4>1 DEF Ask, Left
    <3> QED BY <2>1, <3>1, Ranks
  <2>7. CASE Nudge \/ Look
    <3>1. UNCHANGED <<meta, round>>
      BY <2>7 DEF Nudge, Look
    <3>2. Left' = Left
      BY <3>1 DEF Left
    <3>3. (pc = "ask" /\ pc' = "nudge") \/ (pc = "look" /\ pc' \in {"loop", "flush"})
      BY <2>7 DEF Nudge, Look
    <3> QED BY <2>1, <3>2, <3>3, Ranks
  <2>8. CASE Launch \/ Timeout \/ FailClosed
    <3>1. (pc = "launch" /\ pc' = "main") \/ (pc = "main" /\ pc' \in {"idle", "flush"})
      BY <2>8 DEF Launch, Timeout, FailClosed
    <3> QED BY <2>1, <3>1, Ranks
  <2>9. CASE Stop \/ NudgeTimeout \/ Flush
    <3>1. \/ pc \in {"loop", "nudge"} /\ pc' = "flush"
          \/ pc = "flush" /\ pc' = "idle"
      BY <2>9 DEF Stop, NudgeTimeout, Flush
    <3> QED BY <2>1, <3>1, Ranks
  <2>10. CASE Spawn \/ Skip
    BY <2>10 DEF Spawn, Skip
  <2> QED
    BY <2>2, <2>3, <2>4, <2>5, <2>6, <2>7, <2>8, <2>9, <2>10 DEF Next, Exits, Command
<1>2. SessionInv => Rank \in 0 .. 4 * MaxTurn + 5
  BY RankBounds
<1>3. SessionInv /\ [Next]_vars => SessionInv'
  BY SessionStep
<1> QED BY <1>1, <1>2, <1>3, SessionInit, PTL DEF Spec

=============================================================================
