-------------------------- MODULE GoalProgress_proofs --------------------------
(***************************************************************************)
(* The safety half of GoalRound's liveness. Fairness is out of the         *)
(* provers' reach, but what it is applied to is not: that a command has    *)
(* only so many steps left, that it waits for nobody but verifiers it has  *)
(* launched, and that a round that is won stays won for its reader.        *)
(***************************************************************************)
EXTENDS GoalRound_proofs

USE NobodyAssumption, BoundAssumption

-----------------------------------------------------------------------------
\* How far a command is from its exit

Unseen(p) == {v \in Slots : p.seen[v] = "unread"}

\* An upper bound of the steps p still takes, polls apart.
Rank(p) ==
  CASE p.pc = "idle"   -> 0
    [] p.pc = "write"  -> 1
    [] p.pc = "read"   -> Cardinality(Unseen(p)) + 2
    [] p.pc = "scan"   -> MaxSlot + 3
    [] p.pc = "drain"  -> 3 * MaxSlot + 3 - 2 * p.at
    [] p.pc = "gather" -> 3 * MaxSlot + 4 - 2 * p.at
    [] p.pc = "spawn"  -> 4 * MaxSlot + 3 - p.at
    [] p.pc = "mint"   -> 5 * MaxSlot + 3 - p.at
    [] p.pc = "render" -> 6 * MaxSlot + 3 - p.at
    [] p.pc = "health" -> 6 * MaxSlot + 3
    [] p.pc = "bump"   -> 6 * MaxSlot + 4
    [] p.pc = "lock"   -> 6 * MaxSlot + 5
    [] p.pc = "create" -> 6 * MaxSlot + 6
    [] p.pc = "look"   -> 6 * MaxSlot + 6 + Cardinality(Unseen(p))
    [] p.pc = "probe"  -> 7 * MaxSlot + 7

MaxRank == 7 * MaxSlot + 7

LEMMA SlotsSize == IsFiniteSet(Slots) /\ Cardinality(Slots) = MaxSlot
BY FS_Interval DEF Slots

LEMMA SlotSets ==
  ASSUME NEW S \in SUBSET Slots
  PROVE  IsFiniteSet(S) /\ Cardinality(S) \in 0..MaxSlot
BY SlotsSize, FS_Subset, FS_CardinalityType

LEMMA MoreSlots ==
  ASSUME NEW S \in SUBSET Slots, NEW T \in SUBSET Slots, S \subseteq T
  PROVE  Cardinality(S) <= Cardinality(T)
BY SlotSets, FS_Subset

\* The rank place by place, as the steps need it.
LEMMA Ranks ==
  ASSUME NEW p \in Process
  PROVE  /\ Cardinality(Unseen(p)) \in 0..MaxSlot /\ p.at \in 1..MaxSlot
         /\ p.pc = "idle"   => Rank(p) = 0
         /\ p.pc = "write"  => Rank(p) = 1
         /\ p.pc = "read"   => Rank(p) = Cardinality(Unseen(p)) + 2
         /\ p.pc = "scan"   => Rank(p) = MaxSlot + 3
         /\ p.pc = "drain"  => Rank(p) = 3 * MaxSlot + 3 - 2 * p.at
         /\ p.pc = "gather" => Rank(p) = 3 * MaxSlot + 4 - 2 * p.at
         /\ p.pc = "spawn"  => Rank(p) = 4 * MaxSlot + 3 - p.at
         /\ p.pc = "mint"   => Rank(p) = 5 * MaxSlot + 3 - p.at
         /\ p.pc = "render" => Rank(p) = 6 * MaxSlot + 3 - p.at
         /\ p.pc = "health" => Rank(p) = 6 * MaxSlot + 3
         /\ p.pc = "bump"   => Rank(p) = 6 * MaxSlot + 4
         /\ p.pc = "lock"   => Rank(p) = 6 * MaxSlot + 5
         /\ p.pc = "create" => Rank(p) = 6 * MaxSlot + 6
         /\ p.pc = "look"   => Rank(p) = 6 * MaxSlot + 6 + Cardinality(Unseen(p))
         /\ p.pc = "probe"  => Rank(p) = 7 * MaxSlot + 7
<1>1. Cardinality(Unseen(p)) \in 0..MaxSlot
  BY SlotSets DEF Unseen
<1>2. p.at \in 1..MaxSlot
  BY DEF Process, Slots
<1>3. CASE p.pc \in {"idle", "write", "read", "scan"}
  BY <1>1, <1>2, <1>3 DEF Rank
<1>4. CASE p.pc \in {"drain", "gather", "spawn", "mint", "render"}
  BY <1>1, <1>2, <1>4 DEF Rank
<1>5. CASE p.pc \in {"health", "bump", "lock", "create", "look", "probe"}
  BY <1>1, <1>2, <1>5 DEF Rank
<1>6. p.pc \in PCs
  BY DEF Process
<1> QED BY <1>1, <1>2, <1>3, <1>4, <1>5, <1>6 DEF PCs

LEMMA RankBounds ==
  ASSUME NEW p \in Process
  PROVE  Rank(p) \in 0..MaxRank /\ (p.pc # "idle" => Rank(p) > 0)
<1>1. p.pc \in PCs
  BY DEF Process
<1> QED BY <1>1, Ranks DEF PCs, MaxRank

\* p goes on to q: closer to the exit, and not forgetting its deadline.
Nearer(p, q) == Rank(q) < Rank(p) /\ (p.due => q.due \/ q.pc = "idle")

LEMMA ExitNearer ==
  ASSUME NEW p \in Process, p.pc # "idle"
  PROVE  Nearer(p, Idle)
BY IdleTyped, RankBounds, Ranks DEF Nearer, Idle

\* A step of a loop over the slots, in detail.
LEMMA StepDetail ==
  ASSUME NEW p \in Process, NEW q \in PCs, p.conf \in Configs
  PROVE  /\ Step(p, q) \in Process /\ Step(p, q).due = p.due
         /\ \/ Step(p, q).at = p.at + 1 /\ Step(p, q).pc = p.pc
            \/ Step(p, q).at = 1 /\ Step(p, q).pc = q
<1>1. Step(p, q) \in Process
  BY StepTyped
<1>2. CASE p.at < p.conf.m
  <2>1. Step(p, q) = [p EXCEPT !.at = p.at + 1]
    BY <1>2 DEF Step
  <2> QED BY <1>1, <2>1 DEF Process
<1>3. CASE ~(p.at < p.conf.m)
  <2>1. Step(p, q) = [p EXCEPT !.at = 1, !.pc = q]
    BY <1>3 DEF Step
  <2> QED BY <1>1, <2>1 DEF Process
<1> QED BY <1>2, <1>3

LEMMA GatheredDetail ==
  ASSUME NEW p \in Process, p.conf \in Configs, p.pc = "gather"
  PROVE  /\ Gathered(p) \in Process /\ Gathered(p).due = p.due
         /\ \/ Gathered(p).at = p.at + 1 /\ Gathered(p).pc = "gather"
            \/ Gathered(p).pc = "read"
<1>1. Gathered(p) \in Process
  BY GatheredTyped
<1> DEFINE s == Step(p, "read")
<1>2. /\ s \in Process /\ s.due = p.due
      /\ \/ s.at = p.at + 1 /\ s.pc = "gather"
         \/ s.pc = "read"
  BY StepDetail DEF PCs
<1>3. Gathered(p) = s \/ Gathered(p) = [s EXCEPT !.seen = Unread(1..p.conf.m)]
  BY DEF Gathered
<1> HIDE DEF s
<1> QED BY <1>1, <1>2, <1>3 DEF Process

\* Gathering a slot brings p closer to the exit, a drained one as well.
LEMMA GatheredNearer ==
  ASSUME NEW p \in Process, p.conf \in Configs, p.pc \in {"gather", "drain"}
  PROVE  Nearer(p, Gathered([p EXCEPT !.pc = "gather"]))
<1> DEFINE g == [p EXCEPT !.pc = "gather"]
<1>1. /\ g \in Process /\ g.conf \in Configs /\ g.pc = "gather" /\ g.due = p.due
      /\ g.at = p.at
  BY DEF Process, PCs
<1> HIDE DEF g
<1>2. Rank(Gathered(g)) < Rank(p)
  <2>1. Rank(p) >= 3 * MaxSlot + 3 - 2 * p.at /\ p.at \in 1..MaxSlot
    BY Ranks
  <2>2. CASE Gathered(g).pc = "read"
    <3>1. Rank(Gathered(g)) <= MaxSlot + 2
      BY <1>1, <2>2, GatheredDetail, Ranks
    <3> QED BY <1>1, <2>1, <2>2, <3>1, GatheredDetail, RankBounds DEF MaxRank
  <2>3. CASE Gathered(g).at = g.at + 1 /\ Gathered(g).pc = "gather"
    <3>1. Rank(Gathered(g)) = 3 * MaxSlot + 4 - 2 * (p.at + 1)
      BY <1>1, <2>3, GatheredDetail, Ranks
    <3> QED BY <1>1, <2>1, <3>1, RankBounds, GatheredDetail DEF MaxRank
  <2> QED BY <1>1, <2>2, <2>3, GatheredDetail
<1>3. Gathered(g).due = p.due
  BY <1>1, GatheredDetail
<1> QED BY <1>2, <1>3 DEF Nearer, g

\* The steps of a command bring it closer to its exit; two do not: its clock,
\* and a RECOVER that polls.
LEMMA StepNearer ==
  ASSUME Typing, NEW c \in Cmd, Command(c), ~Poll(c)
  PROVE  Nearer(cmd[c], cmd'[c])
<1> USE FilesTyped
<1> DEFINE p == cmd[c]
<1>p. p \in Process /\ FieldsOK(p, round)
  BY DEF ProcessOK
<1>1. ASSUME NEW q \in Process, Move(c, q), Rank(q) < Rank(p), p.due => q.due
      PROVE  Nearer(p, cmd'[c])
  BY <1>1 DEF Move, Nearer
<1>2. CASE Finish(c) /\ p.pc # "idle"
  BY <1>2, <1>p, ExitNearer DEF Finish, Move
<1>3. CASE Create(c)
  <2> DEFINE q == [p EXCEPT !.pc = "lock", !.rnd = 1]
  <2>1. p.pc = "create" /\ Move(c, q)
    BY <1>3 DEF Create
  <2>2. 1 \in 0..MaxRound /\ "lock" \in PCs
    BY DEF PCs
  <2>3. q \in Process /\ q.pc = "lock" /\ q.due = p.due
    BY <1>p, <2>2 DEF Process
  <2> HIDE DEF q
  <2>4. Rank(q) < Rank(p)
    BY <1>p, <2>1, <2>3, Ranks
  <2> QED BY <1>1, <2>1, <2>3, <2>4
<1>4. CASE Acquire(c)
  <2> DEFINE q == [p EXCEPT !.pc = AfterLock[p.kind],
                            !.rnd = IF p.kind = "recover" THEN round ELSE @]
  <2>1. p.pc = "lock" /\ p.kind \in {"new", "resume", "recover"}
    BY <1>4, <1>p DEF Acquire, FieldsOK
  <2>2. AfterLock[p.kind] \in {"health", "bump", "scan"}
    BY <2>1 DEF AfterLock
  <2>3. q \in Process /\ q.pc \in {"health", "bump", "scan"} /\ q.due = p.due
    BY <1>p, <2>2 DEF Process, PCs, FilesOK
  <2>4. Move(c, q)
    BY <1>4 DEF Acquire
  <2> HIDE DEF q
  <2>5. Rank(q) < Rank(p)
    BY <1>p, <2>1, <2>3, Ranks
  <2> QED BY <1>1, <2>3, <2>4, <2>5
<1>5. CASE Bump(c)
  <2> DEFINE q == [p EXCEPT !.pc = "health", !.rnd = round + 1]
  <2>1. p.pc = "bump" /\ Move(c, q) /\ round < MaxRound
    BY <1>5 DEF Bump
  <2>2. round + 1 \in 0..MaxRound /\ "health" \in PCs
    BY <2>1 DEF PCs, FilesOK
  <2>3. q \in Process /\ q.pc = "health" /\ q.due = p.due
    BY <1>p, <2>2 DEF Process
  <2> HIDE DEF q
  <2>4. Rank(q) < Rank(p)
    BY <1>p, <2>1, <2>3, Ranks
  <2> QED BY <1>1, <2>1, <2>3, <2>4
<1>6. CASE Healthy(c)
  <2> DEFINE q == [p EXCEPT !.pc = "render"]
  <2>1. q \in Process /\ q.pc = "render" /\ q.due = p.due
    BY <1>p DEF Process, PCs
  <2>2. p.pc = "health" /\ Move(c, q)
    BY <1>6 DEF Healthy
  <2> HIDE DEF q
  <2>3. Rank(q) < Rank(p)
    BY <1>p, <2>1, <2>2, Ranks
  <2> QED BY <1>1, <2>1, <2>2, <2>3
<1>7. CASE Render(c)
  <2> DEFINE q == Step(p, "mint")
  <2>1. p.pc = "render" /\ p.conf \in Configs
    BY <1>7, <1>p DEF Render, FieldsOK
  <2>2. /\ q \in Process /\ q.due = p.due
        /\ \/ q.at = p.at + 1 /\ q.pc = "render"
           \/ q.at = 1 /\ q.pc = "mint"
    BY <1>p, <2>1, StepDetail DEF PCs
  <2> HIDE DEF q
  <2>3. Rank(q) < Rank(p)
    BY <1>p, <2>1, <2>2, Ranks
  <2>4. Move(c, q)
    BY <1>7 DEF Render, q
  <2> QED BY <1>1, <2>2, <2>3, <2>4
<1>13. CASE Mint(c)
  <2> DEFINE q == Step(p, "spawn")
  <2>1. p.pc = "mint" /\ p.conf \in Configs
    BY <1>13, <1>p DEF Mint, FieldsOK
  <2>2. /\ q \in Process /\ q.due = p.due
        /\ \/ q.at = p.at + 1 /\ q.pc = "mint"
           \/ q.at = 1 /\ q.pc = "spawn"
    BY <1>p, <2>1, StepDetail DEF PCs
  <2> HIDE DEF q
  <2>3. Rank(q) < Rank(p)
    BY <1>p, <2>1, <2>2, Ranks
  <2>4. Move(c, q)
    BY <1>13 DEF Mint, q
  <2> QED BY <1>1, <2>2, <2>3, <2>4
<1>8. CASE Launch(c)
  <2> DEFINE q == Step(p, "gather")
  <2>1. p.pc = "spawn" /\ p.conf \in Configs
    BY <1>8, <1>p DEF Launch, FieldsOK
  <2>2. /\ q \in Process /\ q.due = p.due
        /\ \/ q.at = p.at + 1 /\ q.pc = "spawn"
           \/ q.at = 1 /\ q.pc = "gather"
    BY <1>p, <2>1, StepDetail DEF PCs
  <2> HIDE DEF q
  <2>3. Rank(q) < Rank(p)
    BY <1>p, <2>1, <2>2, Ranks
  <2>4. Move(c, q)
    BY <1>8 DEF Launch, q
  <2> QED BY <1>1, <2>2, <2>3, <2>4
<1>9. CASE Reap(c) \/ Timeout(c) \/ Drain(c)
  <2>1. p.pc \in {"gather", "drain"} /\ p.conf \in Configs
    BY <1>9, <1>p DEF Reap, Timeout, Drain, FieldsOK
  <2> DEFINE g == [p EXCEPT !.pc = "gather"]
             d == [p EXCEPT !.pc = "drain"]
  <2>2. p.pc = "gather" => g = p
    BY <1>p DEF Process
  <2>3. Move(c, Gathered(g)) \/ (p.pc = "gather" /\ Move(c, d))
    BY <1>9, <2>2 DEF Reap, Timeout, Drain
  <2>4. CASE Move(c, Gathered(g))
    <3>1. Nearer(p, Gathered(g))
      BY <1>p, <2>1, GatheredNearer
    <3> QED BY <2>4, <3>1 DEF Move
  <2>5. CASE p.pc = "gather" /\ Move(c, d)
    <3>1. d \in Process /\ d.pc = "drain" /\ d.at = p.at /\ d.due = p.due
      BY <1>p DEF Process, PCs
    <3> HIDE DEF d
    <3>2. Rank(d) < Rank(p)
      BY <1>p, <2>5, <3>1, Ranks
    <3> QED BY <1>1, <2>5, <3>1, <3>2
  <2> QED BY <2>3, <2>4, <2>5
<1>10. CASE Scan(c)
  <2> DEFINE S == IF SlotDirs(p.rnd) = {} THEN 1..p.conf.m ELSE SlotDirs(p.rnd)
             q == [p EXCEPT !.pc = "read", !.seen = Unread(S)]
  <2>1. Unread(S) \in [Slots -> Marks]
    BY DEF Unread, Marks
  <2>2. q \in Process /\ q.pc = "read" /\ q.due = p.due
    BY <1>p, <2>1 DEF Process, PCs
  <2>3. p.pc = "scan" /\ Move(c, q)
    BY <1>10 DEF Scan
  <2> HIDE DEF q
  <2>4. Rank(q) < Rank(p)
    BY <1>p, <2>2, <2>3, Ranks
  <2> QED BY <1>1, <2>2, <2>3, <2>4
<1>14. CASE List(c)
  <2> DEFINE q == [p EXCEPT !.pc = "look", !.seen = Unread(SlotDirs(p.rnd))]
  <2>1. Unread(SlotDirs(p.rnd)) \in [Slots -> Marks]
    BY DEF Unread, Marks
  <2>2. q \in Process /\ q.pc = "look" /\ q.due = p.due
    BY <1>p, <2>1 DEF Process, PCs
  <2>3. p.pc = "probe" /\ Move(c, q)
    BY <1>14 DEF List
  <2> HIDE DEF q
  <2>4. Rank(q) < Rank(p)
    BY <1>p, <2>2, <2>3, Ranks
  <2> QED BY <1>1, <2>2, <2>3, <2>4
<1>15. CASE Advise(c)
  <2> DEFINE q == [Idle EXCEPT !.pc = "lock", !.kind = p.kind, !.conf = p.conf]
  <2>1. p.pc = "look" /\ ~p.due
    BY <1>15, <1>p DEF Advise, Advising, FieldsOK
  <2>2. q \in Process /\ q.pc = "lock"
    <3>1. p.kind \in Kinds /\ p.conf \in Configs \cup {NoConfig}
      BY <1>p DEF Process
    <3> QED BY <3>1, IdleTyped DEF Process, PCs
  <2>3. Move(c, q) \/ Finish(c)
    BY <1>15 DEF Advise
  <2> HIDE DEF q
  <2>4. Rank(q) < Rank(p)
    BY <1>p, <2>1, <2>2, Ranks
  <2>5. CASE Move(c, q)
    BY <1>1, <2>1, <2>2, <2>4, <2>5
  <2> QED BY <1>2, <2>1, <2>3, <2>5
<1>11. ASSUME NEW v \in Slots, Read(c, v) PROVE Nearer(p, cmd'[c])
  <2> DEFINE x == IF verdict[p.rnd][v] = "none" THEN "null" ELSE verdict[p.rnd][v]
             q == [p EXCEPT !.seen[v] = x]
  <2>1. /\ p.pc \in {"look", "read"} /\ p.seen[v] = "unread" /\ Move(c, q)
        /\ p.rnd \in Rounds
    BY <1>11, <1>p DEF Read, FieldsOK, Process, Rounds
  <2>2. x \in {"null", "approve", "reject"}
    BY <2>1 DEF FilesOK
  <2>3. /\ q \in Process /\ q.pc = p.pc /\ q.due = p.due
        /\ q.seen = [p.seen EXCEPT ![v] = x] /\ p.seen \in [Slots -> Marks]
    BY <1>p, <2>1, <2>2 DEF Process, PCs, Marks
  <2> HIDE DEF q, x
  <2>4. Unseen(q) = Unseen(p) \ {v} /\ v \in Unseen(p)
    BY <2>1, <2>2, <2>3 DEF Unseen
  <2>5. Cardinality(Unseen(q)) = Cardinality(Unseen(p)) - 1
    <3> DEFINE U == Unseen(p)
    <3>1. IsFiniteSet(U)
      BY SlotSets DEF Unseen
    <3>2. v \in U /\ Unseen(q) = U \ {v}
      BY <2>4
    <3> HIDE DEF U
    <3>3. Cardinality(U \ {v}) = Cardinality(U) - 1
      BY <3>1, <3>2, FS_RemoveElement
    <3>4. Cardinality(Unseen(q)) = Cardinality(U) - 1
      BY <3>2, <3>3
    <3> QED BY <3>4 DEF U
  <2>6. Rank(q) < Rank(p)
    BY <1>p, <2>1, <2>3, <2>5, Ranks
  <2> QED BY <1>1, <2>1, <2>3, <2>6
<1>12. CASE Pass(c)
  <2> DEFINE q == [p EXCEPT !.pc = "write", !.head = receipts]
  <2>1. q \in Process /\ q.pc = "write" /\ q.due = p.due
    BY <1>p DEF Process, PCs, FilesOK
  <2>2. p.pc = "read" /\ Move(c, q)
    BY <1>12 DEF Pass, AllRead
  <2> HIDE DEF q
  <2>3. Rank(q) < Rank(p)
    BY <1>p, <2>1, <2>2, Ranks
  <2> QED BY <1>1, <2>1, <2>2, <2>3
<1> HIDE DEF p
<1> QED
  BY <1>2, <1>3, <1>4, <1>5, <1>6, <1>7, <1>8, <1>9, <1>10, <1>11, <1>12,
     <1>13, <1>14, <1>15
  DEF Command, Probe, Locking, RunRound, Settle, Busy, Cooldown, Fail, Write, AllRead, p

\* Who moves a process: itself, its clock, or whoever kills it.
LEMMA WhoMoves ==
  ASSUME Typing, [Next]_vars, NEW c \in Cmd
  PROVE  cmd'[c] = cmd[c] \/ Start(c) \/ Command(c) \/ Expire(c) \/ Abort(c)
<1>1. ASSUME NEW d \in Cmd, d # c, Start(d) \/ Command(d) \/ Expire(d) \/ Abort(d)
      PROVE  cmd'[c] = cmd[c]
  <2>1. ASSUME NEW q, Move(d, q) PROVE cmd'[c] = cmd[c]
    BY <1>1, <2>1, FilesTyped DEF Move
  <2>2. CASE Start(d) \/ Expire(d) \/ Abort(d)
    BY <2>1, <2>2 DEF Start, New, Resume, Recover, Expire, Abort, Finish
  <2>3. CASE Create(d) \/ Probe(d) \/ Locking(d)
    BY <2>1, <2>3 DEF Create, Probe, List, Advise, Locking, Acquire, Busy, Finish
  <2>4. CASE RunRound(d)
    BY <2>1, <2>4
    DEF RunRound, Bump, Cooldown, Finish, Healthy, Render, Mint, Launch, Reap, Timeout,
        Drain
  <2>5. CASE Settle(d)
    BY <2>1, <2>5 DEF Settle, Scan, Read, Pass, Fail, Finish, Poll, Write
  <2> QED BY <1>1, <2>2, <2>3, <2>4, <2>5 DEF Command
<1>2. ASSUME NEW r \in Rounds, NEW v \in Slots, Verifier(r, v) PROVE cmd'[c] = cmd[c]
  BY <1>2 DEF Verifier, Register, AppendReceipt, Die
<1>3. CASE EditConfig \/ UNCHANGED vars
  BY <1>3 DEF EditConfig, vars
<1> QED BY <1>1, <1>2, <1>3 DEF Next

\* Every command ends after so many steps: each of its own steps lowers its
\* rank, which nobody else can raise. The two exceptions are RECOVER's clock and
\* its poll, both only until its deadline has passed, which it never forgets.
\* (The loops over slots, the gather barrier and RECOVER's wait.)
THEOREM CommandsRunOut ==
  Spec => /\ [](\A c \in Cmd : Rank(cmd[c]) \in 0..MaxRank)
          /\ [][\A c \in Cmd : cmd[c].pc # "idle" =>
                  \/ cmd'[c] = cmd[c]
                  \/ Nearer(cmd[c], cmd'[c])
                  \/ ~cmd[c].due /\ (Expire(c) \/ Poll(c))]_vars
<1>1. Typing => \A c \in Cmd : Rank(cmd[c]) \in 0..MaxRank
  BY FilesTyped, RankBounds
<1>2. Typing /\ [Next]_vars =>
        [\A c \in Cmd : cmd[c].pc # "idle" =>
           \/ cmd'[c] = cmd[c]
           \/ Nearer(cmd[c], cmd'[c])
           \/ ~cmd[c].due /\ (Expire(c) \/ Poll(c))]_vars
  <2> SUFFICES ASSUME Typing, [Next]_vars, NEW c \in Cmd, cmd[c].pc # "idle",
                      cmd'[c] # cmd[c]
               PROVE  Nearer(cmd[c], cmd'[c]) \/ (~cmd[c].due /\ (Expire(c) \/ Poll(c)))
    OBVIOUS
  <2>1. CASE Start(c)
    BY <2>1 DEF Start, New, Resume, Recover
  <2>2. CASE Command(c)
    <3>1. CASE Poll(c)
      BY <3>1 DEF Poll
    <3> QED BY <2>2, <3>1, StepNearer
  <2>3. CASE Expire(c)
    BY <2>3 DEF Expire
  <2>4. CASE Abort(c)
    <3>1. cmd'[c] = Idle
      BY <2>4, FilesTyped DEF Abort, Finish, Move
    <3> QED BY <3>1, ExitNearer, FilesTyped
  <2> QED BY <2>1, <2>2, <2>3, <2>4, WhoMoves
<1> QED BY <1>1, <1>2, TypingInit, TypingStep, PTL DEF Spec

-----------------------------------------------------------------------------
\* Whom a command waits for

\* A slot without a child: no key yet, or a key only.
Childless == {"none", "minted"}

\* What p has launched so far: the slots below its place in the loop, then all.
Launched(p, ss) ==
  /\ p.pc \in {"create", "probe", "look", "lock", "bump", "health"} => p.at = 1
  /\ p.pc \in {"render", "mint", "spawn", "gather", "drain"} => p.at <= p.conf.m
  /\ p.pc = "spawn" => \A v \in 1..(p.at - 1) : ss[p.rnd][v] \notin Childless
  /\ p.pc \in {"gather", "drain"} =>
       \A v \in 1..p.conf.m : ss[p.rnd][v] \notin Childless

LaunchedOK == \A c \in Cmd : Launched(cmd[c], session)

\* A session that was launched is never unlaunched, and no key minted under it.
LEMMA SessionsStay ==
  ASSUME Typing, FreshOK, [Next]_vars, NEW r \in Rounds, NEW v \in Slots,
         session[r][v] \notin Childless
  PROVE  session'[r][v] \notin Childless
<1> USE FilesTyped DEF Childless
<1>1. CASE UNCHANGED session
  BY <1>1
<1>5. ASSUME NEW c \in Cmd, Mint(c) PROVE session'[r][v] = session[r][v]
  <2>1. /\ cmd[c].rnd \in Rounds /\ cmd[c].at \in Slots
        /\ session' = [session EXCEPT ![cmd[c].rnd][cmd[c].at] = "minted"]
    BY <1>5 DEF Mint, ProcessOK, FieldsOK, Process, Rounds
  <2>2. session[cmd[c].rnd][cmd[c].at] \in {"none", "minted"}
    BY <1>5, <2>1 DEF Mint, FreshOK, Ahead
  <2>3. ~(r = cmd[c].rnd /\ v = cmd[c].at)
    BY <2>2
  <2> QED BY <2>1, <2>3 DEF FilesOK
<1>2. ASSUME NEW c \in Cmd, Launch(c) PROVE session'[r][v] \notin Childless
  BY <1>2 DEF Launch, FilesOK
<1>3. ASSUME NEW c \in Cmd, Timeout(c) PROVE session'[r][v] \notin Childless
  <2>1. PICK s \in {session[cmd[c].rnd][cmd[c].at], "ended"} :
          \/ session' = [session EXCEPT ![cmd[c].rnd][cmd[c].at] = s]
          \/ UNCHANGED session
    BY <1>3 DEF Timeout
  <2>2. s \notin Childless
    BY <1>3, <2>1 DEF Timeout
  <2> QED BY <2>1, <2>2 DEF FilesOK
<1>4. ASSUME NEW q \in Rounds, NEW u \in Slots, Verifier(q, u)
      PROVE  session'[r][v] \notin Childless
  <2>1. \/ session' = [session EXCEPT ![q][u] = "signed"]
        \/ session' = [session EXCEPT ![q][u] = "ended"]
    BY <1>4 DEF Verifier, Register, AppendReceipt, Die
  <2> QED BY <2>1 DEF FilesOK
<1> QED
  BY <1>1, <1>2, <1>3, <1>4, <1>5, ZenonT(60)
  DEF Next, Start, Command, Probe, Locking, RunRound, Settle, vars,
      New, Create, Resume, Recover, List, Advise, Acquire, Busy, Bump, Cooldown, Healthy,
      Render, Reap, Drain, Scan, Read, Pass, Fail, Poll, Expire, Write, Abort, EditConfig

LEMMA LaunchedKept ==
  ASSUME Typing, FreshOK, [Next]_vars, NEW p \in Process, FieldsOK(p, round), Launched(p, session)
  PROVE  Launched(p, session')
<1>1. p.pc \in {"spawn", "gather", "drain"} =>
        p.rnd \in Rounds /\ p.conf \in Configs /\ p.at \in Slots
  BY FilesTyped DEF FieldsOK, Process, Rounds, FilesOK
<1>2. ASSUME p.pc \in {"spawn", "gather", "drain"}
      PROVE  1..(p.at - 1) \subseteq Slots /\ 1..p.conf.m \subseteq Slots
  BY <1>1, <1>2, ConfigTypes DEF Slots
<1> QED BY <1>1, <1>2, SessionsStay DEF Launched

LEMMA LaunchedMove ==
  ASSUME Typing, FreshOK, [Next]_vars, LaunchedOK, NEW c \in Cmd,
         \A d \in Cmd : d # c => cmd'[d] = cmd[d],
         Launched(cmd'[c], session')
  PROVE  LaunchedOK'
<1>1. \A d \in Cmd : Launched(cmd[d], session')
  BY LaunchedKept, FilesTyped DEF LaunchedOK, ProcessOK
<1> QED BY <1>1 DEF LaunchedOK

LEMMA LaunchedInit == Init => LaunchedOK
BY DEF Init, LaunchedOK, Launched, Idle

LEMMA LaunchedStep == Typing /\ FreshOK /\ LaunchedOK /\ [Next]_vars => LaunchedOK'
<1> SUFFICES ASSUME Typing, FreshOK, LaunchedOK, [Next]_vars PROVE LaunchedOK'
  OBVIOUS
<1> USE FilesTyped
<1>1. ASSUME NEW c \in Cmd, \A d \in Cmd : d # c => cmd'[d] = cmd[d],
             \/ cmd'[c].pc \in {"idle", "scan", "read", "write"}
             \/ /\ cmd'[c].pc \in {"create", "probe", "look", "lock", "bump", "health"}
                /\ cmd'[c].at = 1
      PROVE  LaunchedOK'
  BY <1>1, LaunchedMove DEF Launched
<1>2. ASSUME NEW c \in Cmd, Start(c) PROVE LaunchedOK'
  <2>1. cmd'[c].pc \in {"create", "probe", "lock"} /\ cmd'[c].at = 1
    <3>1. CASE New(c)
      BY <3>1 DEF New, Move, Idle
    <3>2. CASE Resume(c)
      BY <3>2 DEF Resume, Move, Idle
    <3>3. CASE Recover(c)
      BY <3>3 DEF Recover, Move, Idle
    <3> QED BY <1>2, <3>1, <3>2, <3>3 DEF Start
  <2>2. \A d \in Cmd : d # c => cmd'[d] = cmd[d]
    BY <1>2 DEF Start, New, Resume, Recover, Move
  <2> QED BY <1>1, <2>1, <2>2
<1>3. ASSUME NEW c \in Cmd, Create(c) \/ Bump(c) PROVE LaunchedOK'
  <2>1. cmd'[c].pc \in {"lock", "health"} /\ cmd'[c].at = cmd[c].at
    <3>1. CASE Create(c)
      BY <3>1 DEF Create, Move, Process
    <3>2. CASE Bump(c)
      BY <3>2 DEF Bump, Move, Process
    <3> QED BY <1>3, <3>1, <3>2
  <2>2. cmd[c].at = 1
    BY <1>3 DEF Create, Bump, LaunchedOK, Launched
  <2>3. \A d \in Cmd : d # c => cmd'[d] = cmd[d]
    BY <1>3 DEF Create, Bump, Move
  <2> QED BY <1>1, <2>1, <2>2, <2>3
<1>4. ASSUME NEW c \in Cmd, Acquire(c) PROVE LaunchedOK'
  <2>1. cmd[c].kind \in {"new", "resume", "recover"} /\ cmd[c].at = 1
    BY <1>4 DEF Acquire, ProcessOK, FieldsOK, LaunchedOK, Launched
  <2>2. AfterLock[cmd[c].kind] \in {"health", "bump", "scan"}
    BY <2>1 DEF AfterLock
  <2>3. cmd'[c].pc = AfterLock[cmd[c].kind] /\ cmd'[c].at = 1
    BY <1>4, <2>1 DEF Acquire, Move, Process
  <2>4. \A d \in Cmd : d # c => cmd'[d] = cmd[d]
    BY <1>4 DEF Acquire, Move
  <2> QED BY <1>1, <2>2, <2>3, <2>4
<1>5. ASSUME NEW c \in Cmd, Healthy(c) PROVE LaunchedOK'
  <2>1. cmd'[c].pc = "render" /\ cmd'[c].at = 1 /\ cmd'[c].conf = cmd[c].conf
    BY <1>5 DEF Healthy, Move, Process, LaunchedOK, Launched
  <2>2. cmd[c].conf.m \in 1..MaxSlot
    BY <1>5, ConfigTypes DEF Healthy, ProcessOK, FieldsOK
  <2>3. \A d \in Cmd : d # c => cmd'[d] = cmd[d]
    BY <1>5 DEF Healthy, Move
  <2>4. Launched(cmd'[c], session')
    BY <2>1, <2>2 DEF Launched
  <2> QED BY <2>3, <2>4, LaunchedMove
<1>6. ASSUME NEW c \in Cmd, NEW x \in {"mint", "spawn"},
             IF x = "mint" THEN Render(c) ELSE Mint(c)
      PROVE  LaunchedOK'
  <2> DEFINE p == cmd[c]
             q == Step(p, x)
  <2>1. /\ p \in Process /\ p.pc \in {"render", "mint"} /\ p.conf \in Configs
        /\ p.conf.m \in 1..MaxSlot /\ p.at \in 1..MaxSlot
    BY <1>6, ConfigTypes DEF Render, Mint, ProcessOK, FieldsOK, Process, Slots
  <2>2. /\ q.conf = p.conf
        /\ \/ q.at = p.at + 1 /\ q.pc = p.pc /\ p.at < p.conf.m
           \/ q.at = 1 /\ q.pc = x
    <3>1. q.conf = p.conf
      BY <2>1, StepTyped DEF PCs
    <3>2. CASE p.at < p.conf.m
      BY <2>1, <3>1, <3>2 DEF Step, Process
    <3>3. CASE ~(p.at < p.conf.m)
      BY <2>1, <3>1, <3>3 DEF Step, Process
    <3> QED BY <3>2, <3>3
  <2>3. cmd'[c] = q /\ \A d \in Cmd : d # c => cmd'[d] = cmd[d]
    BY <1>6 DEF Render, Mint, Move
  <2>5. p.at <= p.conf.m
    BY <2>1 DEF LaunchedOK, Launched
  <2> HIDE DEF q, p
  <2>4. Launched(q, session')
    BY <2>1, <2>2, <2>5 DEF Launched
  <2> QED BY <2>3, <2>4, LaunchedMove
<1>7. ASSUME NEW c \in Cmd, Launch(c) PROVE LaunchedOK'
  <2> DEFINE p == cmd[c]
             q == Step(p, "gather")
  <2>1. /\ p \in Process /\ p.pc = "spawn" /\ p.conf \in Configs /\ p.rnd \in Rounds
        /\ p.conf.m \in 1..MaxSlot /\ p.at \in 1..MaxSlot /\ p.at <= p.conf.m
        /\ \A v \in 1..(p.at - 1) : session[p.rnd][v] \notin Childless
    BY <1>7, ConfigTypes
    DEF Launch, ProcessOK, FieldsOK, Process, Slots, Rounds, FilesOK, LaunchedOK, Launched
  <2>2. session' = [session EXCEPT ![p.rnd][p.at] = "live"]
    BY <1>7 DEF Launch
  <2>3. \A v \in 1..p.at : session'[p.rnd][v] \notin Childless
    <3>1. ASSUME NEW v \in 1..p.at PROVE session'[p.rnd][v] \notin Childless
      <4>1. v \in Slots
        BY <2>1 DEF Slots
      <4>2. CASE v = p.at
        BY <2>1, <2>2, <4>1, <4>2 DEF FilesOK, Childless
      <4>3. CASE v # p.at
        <5>1. v \in 1..(p.at - 1)
          BY <2>1, <4>3
        <5> QED BY <2>1, <4>1, <5>1, SessionsStay
      <4> QED BY <4>2, <4>3
    <3> QED BY <3>1
  <2>4. /\ q.conf = p.conf /\ q.rnd = p.rnd
        /\ \/ q.at = p.at + 1 /\ q.pc = "spawn" /\ p.at < p.conf.m
           \/ q.at = 1 /\ q.pc = "gather" /\ ~(p.at < p.conf.m)
    <3>1. q.conf = p.conf /\ q.rnd = p.rnd
      BY <2>1, StepTyped DEF PCs
    <3>2. CASE p.at < p.conf.m
      BY <2>1, <3>1, <3>2 DEF Step, Process
    <3>3. CASE ~(p.at < p.conf.m)
      BY <2>1, <3>1, <3>3 DEF Step, Process
    <3> QED BY <3>2, <3>3
  <2>5. cmd'[c] = q /\ \A d \in Cmd : d # c => cmd'[d] = cmd[d]
    BY <1>7 DEF Launch, Move
  <2> HIDE DEF q, p
  <2>6. Launched(q, session')
    BY <2>1, <2>3, <2>4 DEF Launched
  <2> QED BY <2>5, <2>6, LaunchedMove
<1>8. ASSUME NEW c \in Cmd, Reap(c) \/ Timeout(c) \/ Drain(c) PROVE LaunchedOK'
  <2> DEFINE p == cmd[c]
             g == [p EXCEPT !.pc = "gather"]
             d == [p EXCEPT !.pc = "drain"]
  <2>1. /\ p.pc \in {"gather", "drain"} /\ p.conf \in Configs /\ p \in Process
        /\ FieldsOK(p, round) /\ Launched(p, session)
    BY <1>8 DEF Reap, Timeout, Drain, ProcessOK, FieldsOK, LaunchedOK
  <2>2. /\ g \in Process /\ g.pc = "gather" /\ g.conf = p.conf /\ g.rnd = p.rnd /\ g.at = p.at
        /\ p.pc = "gather" => g = p
        /\ d.pc = "drain" /\ d.conf = p.conf /\ d.rnd = p.rnd /\ d.at = p.at
    BY <2>1 DEF Process, PCs
  <2>3. Move(c, Gathered(g)) \/ Move(c, d)
    BY <1>8, <2>2 DEF Reap, Timeout, Drain
  <2>4. Launched(p, session')
    BY <2>1, LaunchedKept
  <2> HIDE DEF g, d, p
  <2>5. Launched(d, session')
    BY <2>1, <2>2, <2>4 DEF Launched
  <2>6. Launched(Gathered(g), session')
    <3>1. CASE g.at < g.conf.m
      <4>1. Gathered(g) = [g EXCEPT !.at = g.at + 1]
        BY <3>1 DEF Gathered, Step
      <4>2. /\ Gathered(g).pc = "gather" /\ Gathered(g).conf = p.conf
            /\ Gathered(g).rnd = p.rnd /\ Gathered(g).at = g.at + 1
        BY <2>2, <4>1 DEF Process
      <4>3. g.at + 1 <= p.conf.m
        BY <2>1, <2>2, <3>1, ConfigTypes DEF Process, Slots
      <4> QED BY <2>1, <2>4, <4>2, <4>3 DEF Launched
    <3>2. CASE ~(g.at < g.conf.m)
      <4>1. Gathered(g) = [g EXCEPT !.at = 1, !.pc = "read", !.seen = Unread(1..g.conf.m)]
        BY <3>2 DEF Gathered, Step
      <4>2. Gathered(g).pc = "read"
        BY <2>2, <4>1 DEF Process
      <4> QED BY <4>2 DEF Launched
    <3> QED BY <3>1, <3>2
  <2>7. ASSUME NEW q, q \in {d, Gathered(g)}, Move(c, q) PROVE LaunchedOK'
    <3>1. cmd'[c] = q /\ \A e \in Cmd : e # c => cmd'[e] = cmd[e]
      BY <2>7 DEF Move
    <3> QED BY <2>5, <2>6, <2>7, <3>1, LaunchedMove
  <2> QED BY <2>3, <2>7
<1>9. ASSUME NEW c \in Cmd, Finish(c) PROVE LaunchedOK'
  <2>1. cmd'[c].pc = "idle" /\ \A d \in Cmd : d # c => cmd'[d] = cmd[d]
    BY <1>9 DEF Finish, Move, Idle
  <2> QED BY <1>1, <2>1
<1>13. ASSUME NEW c \in Cmd, List(c) PROVE LaunchedOK'
  <2>1. cmd'[c].pc = "look" /\ cmd'[c].at = cmd[c].at
    BY <1>13 DEF List, Move, Process
  <2>2. cmd[c].at = 1
    BY <1>13 DEF List, LaunchedOK, Launched
  <2>3. \A d \in Cmd : d # c => cmd'[d] = cmd[d]
    BY <1>13 DEF List, Move
  <2> QED BY <1>1, <2>1, <2>2, <2>3
<1>14. ASSUME NEW c \in Cmd, Advise(c) PROVE LaunchedOK'
  <2>1. CASE Move(c, [Idle EXCEPT !.pc = "lock", !.kind = cmd[c].kind, !.conf = cmd[c].conf])
    <3>1. cmd'[c].pc = "lock" /\ cmd'[c].at = 1
          /\ \A d \in Cmd : d # c => cmd'[d] = cmd[d]
      BY <2>1 DEF Move, Idle
    <3> QED BY <1>1, <3>1
  <2> QED BY <1>9, <1>14, <2>1 DEF Advise
<1>10. ASSUME NEW c \in Cmd, Scan(c) \/ Pass(c) \/ Poll(c) \/ Expire(c)
       PROVE  LaunchedOK'
  <2>1. cmd'[c].pc \in {"scan", "read", "write"}
    <3>1. CASE Scan(c)
      BY <3>1 DEF Scan, Move, Process
    <3>2. CASE Pass(c) \/ Poll(c)
      BY <3>2 DEF Pass, Poll, Move, Process
    <3>3. CASE Expire(c)
      BY <3>3 DEF Expire, Move, Process
    <3> QED BY <1>10, <3>1, <3>2, <3>3
  <2>2. \A d \in Cmd : d # c => cmd'[d] = cmd[d]
    BY <1>10 DEF Scan, Pass, Poll, Expire, Move
  <2> QED BY <1>1, <2>1, <2>2
<1>11. ASSUME NEW c \in Cmd, NEW v \in Slots, Read(c, v) PROVE LaunchedOK'
  <2>1. /\ cmd'[c].pc = cmd[c].pc /\ cmd[c].pc \in {"look", "read"}
        /\ cmd'[c].at = cmd[c].at
        /\ \A d \in Cmd : d # c => cmd'[d] = cmd[d]
    BY <1>11 DEF Read, Move, Process
  <2>2. cmd[c].pc = "look" => cmd[c].at = 1
    BY DEF LaunchedOK, Launched
  <2> QED BY <1>1, <2>1, <2>2
<1>12. ASSUME UNCHANGED cmd PROVE LaunchedOK'
  BY <1>12, LaunchedKept DEF LaunchedOK, ProcessOK
<1> QED
  BY <1>2, <1>3, <1>4, <1>5, <1>6, <1>7, <1>8, <1>9, <1>10, <1>11, <1>12,
     <1>13, <1>14
  DEF Next, Command, Probe, Locking, RunRound, Settle, Verifier, Register, AppendReceipt,
      Die, EditConfig, Busy, Cooldown, Fail, Write, Abort, vars

\* The gather barrier never waits for a child that was not launched, also for
\* commands that interleave and are killed: whatever it awaits can time out, so
\* that it is held up by a drain of a surviving descendant's pipes alone.
BarrierAwaitsChildren ==
  \A c \in Cmd : cmd[c].pc \in {"gather", "drain"} =>
    session[cmd[c].rnd][cmd[c].at] \notin Childless

THEOREM AwaitsTheLaunched == Spec => []BarrierAwaitsChildren
<1>1. Typing /\ LaunchedOK => BarrierAwaitsChildren
  <2> SUFFICES ASSUME Typing, LaunchedOK, NEW c \in Cmd, cmd[c].pc \in {"gather", "drain"}
               PROVE  session[cmd[c].rnd][cmd[c].at] \notin Childless
    BY DEF BarrierAwaitsChildren
  <2>1. cmd[c].conf \in Configs /\ cmd[c].at \in 1..MaxSlot /\ cmd[c].at <= cmd[c].conf.m
    BY FilesTyped DEF ProcessOK, FieldsOK, Process, Slots, LaunchedOK, Launched
  <2>2. cmd[c].at \in 1..cmd[c].conf.m
    BY <2>1, ConfigTypes
  <2> QED BY <2>2 DEF LaunchedOK, Launched
<1> QED
  BY <1>1, TypingInit, TypingStep, LockInit, LockStep, FreshInit, FreshStep,
     LaunchedInit, LaunchedStep, PTL
  DEF Spec

-----------------------------------------------------------------------------
\* A round that is won

Sure(A, D, p) == Cardinality(A) >= p.conf.n /\ Cardinality(D) >= p.conf.m

\* p cannot miss the approvals A among the slots D: it has yet to list the
\* round, has yet to read them or has read them, or holds the consensus.
Won(p, A, D) ==
  \/ p.pc = "scan" /\ Sure(A, D, p)
  \/ /\ p.pc = "read"
     /\ Sure({v \in A : p.seen[v] \in {"unread", "approve"}}, Looked(p), p)
  \/ p.pc = "write"

Winning(c) == Won(cmd[c], Approvals(cmd[c].rnd), SlotDirs(cmd[c].rnd))

\* More approvals in more slots make the round no less won.
LEMMA WonGrows ==
  ASSUME NEW p \in Process, p.pc # "idle" => p.conf \in Configs,
         NEW A \in SUBSET Slots, NEW D \in SUBSET Slots, Won(p, A, D),
         NEW B \in SUBSET Slots, NEW E \in SUBSET Slots, A \subseteq B, D \subseteq E
  PROVE  Won(p, B, E)
<1>1. CASE p.pc = "scan"
  <2>1. Cardinality(A) <= Cardinality(B) /\ Cardinality(D) <= Cardinality(E)
    BY MoreSlots
  <2>2. Cardinality(A) >= p.conf.n /\ Cardinality(D) >= p.conf.m
    BY <1>1 DEF Won, Sure
  <2>3. p.conf.n \in Nat /\ p.conf.m \in Nat
    BY <1>1, ConfigTypes
  <2>4. /\ Cardinality(A) \in Nat /\ Cardinality(B) \in Nat
        /\ Cardinality(D) \in Nat /\ Cardinality(E) \in Nat
    BY SlotSets
  <2>5. Sure(B, E, p)
    BY <2>1, <2>2, <2>3, <2>4 DEF Sure
  <2> QED BY <1>1, <2>5 DEF Won
<1>2. CASE p.pc = "read"
  <2> DEFINE S == {v \in A : p.seen[v] \in {"unread", "approve"}}
             T == {v \in B : p.seen[v] \in {"unread", "approve"}}
  <2>1. S \subseteq T /\ S \in SUBSET Slots /\ T \in SUBSET Slots
    OBVIOUS
  <2>2. Sure(S, Looked(p), p)
    BY <1>2 DEF Won
  <2> HIDE DEF S, T
  <2>3. Cardinality(S) <= Cardinality(T) /\ Cardinality(S) \in Nat /\ Cardinality(T) \in Nat
    BY <2>1, MoreSlots, SlotSets
  <2>4. p.conf.n \in Nat
    BY <1>2, ConfigTypes
  <2>5. Sure(T, Looked(p), p)
    BY <2>2, <2>3, <2>4 DEF Sure
  <2> QED BY <1>2, <2>5 DEF Won, T
<1> QED BY <1>1, <1>2 DEF Won

\* Slots are never deleted either.
LEMMA SlotsGrow ==
  Typing /\ [Next]_vars => \A r \in Rounds : SlotDirs(r) \subseteq SlotDirs(r)'
<1> SUFFICES ASSUME Typing, [Next]_vars, NEW r \in Rounds, NEW v \in Slots,
                    verdict[r][v] # "none"
             PROVE  verdict'[r][v] # "none"
  BY DEF SlotDirs
<1>1. ASSUME NEW c \in Cmd, Render(c) PROVE verdict'[r][v] # "none"
  BY <1>1, FilesTyped DEF Render, FilesOK
<1>2. ASSUME NEW q \in Rounds, NEW u \in Slots, Register(q, u)
      PROVE  verdict'[r][v] # "none"
  <2>1. PICK b \in {"approve", "reject"} : verdict' = [verdict EXCEPT ![q][u] = b]
    BY <1>2 DEF Register
  <2> QED BY <2>1, FilesTyped DEF FilesOK
<1>3. CASE UNCHANGED verdict
  BY <1>3
<1> QED
  BY <1>1, <1>2, <1>3, ZenonT(60)
  DEF Next, Start, Command, Probe, Locking, RunRound, Settle, Verifier, vars, New, Create,
      Resume, Recover, List, Advise, Acquire, Busy, Bump, Cooldown, Healthy, Mint, Launch, Reap,
      Timeout, Drain, Scan, Read, Pass, Fail, Poll, Expire, Write, AppendReceipt, Die,
      Abort, EditConfig

\* Whoever has read all there is, of a round that is won, passes.
LEMMA WonPasses ==
  ASSUME Typing, NEW c \in Cmd, Winning(c), AllRead(cmd[c])
  PROVE  Passed(cmd[c])
<1> USE FilesTyped
<1> DEFINE p == cmd[c]
           S == {v \in Approvals(p.rnd) : p.seen[v] \in {"unread", "approve"}}
<1>1. p.pc = "read" /\ p.conf \in Configs /\ \A v \in Slots : p.seen[v] # "unread"
  BY DEF AllRead, ReadAll, ProcessOK, FieldsOK
<1>2. Sure(S, Looked(p), p)
  BY <1>1 DEF Winning, Won
<1>3. S \subseteq Matching(p) /\ S \in SUBSET Slots /\ Matching(p) \in SUBSET Slots
  BY <1>1 DEF Matching, Approvals
<1> HIDE DEF S
<1>4. /\ Cardinality(S) <= Cardinality(Matching(p))
      /\ Cardinality(S) \in Nat /\ Cardinality(Matching(p)) \in Nat
  BY <1>3, MoreSlots, SlotSets
<1>5. p.conf.n \in Nat
  BY <1>1, ConfigTypes
<1> QED BY <1>2, <1>4, <1>5 DEF Passed, Sure

\* Listing and reading a won round, passing it, and the clock lose nothing.
LEMMA WonKept ==
  ASSUME Typing, NEW c \in Cmd, Winning(c),
         Scan(c) \/ (\E v \in Slots : Read(c, v)) \/ Pass(c) \/ Expire(c)
  PROVE  Winning(c)'
<1> USE FilesTyped
<1> DEFINE p == cmd[c]
           A == Approvals(p.rnd)
           D == SlotDirs(p.rnd)
<1>p. /\ p \in Process /\ p.seen \in [Slots -> Marks]
      /\ p.pc # "idle" => p.conf \in Configs /\ p.rnd \in 0..MaxRound
  BY DEF ProcessOK, FieldsOK, Process
<1>1. ASSUME NEW q \in Process, Move(c, q), verdict' = verdict, q.rnd = p.rnd, Won(q, A, D)
      PROVE  Winning(c)'
  <2>1. cmd'[c] = q
    BY <1>1 DEF Move
  <2>2. Approvals(cmd[c].rnd)' = A /\ SlotDirs(cmd[c].rnd)' = D
    BY <1>1, <2>1 DEF Approvals, SlotDirs
  <2> QED BY <1>1, <2>1, <2>2 DEF Winning, Won, Sure, Looked
<1>2. CASE Scan(c)
  <2> DEFINE S == IF D = {} THEN 1..p.conf.m ELSE D
             q == [p EXCEPT !.pc = "read", !.seen = Unread(S)]
  <2>1. p.pc = "scan" /\ Move(c, q) /\ verdict' = verdict /\ Sure(A, D, p)
    BY <1>2 DEF Scan, Winning, Won
  <2>2. p.conf.n \in 1..MaxSlot
    BY <1>p, <2>1, ConfigTypes
  <2>3. A \subseteq D /\ D \in SUBSET Slots
    BY DEF Approvals, SlotDirs
  <2>4. D # {}
    <3>1. Cardinality(A) # 0
      BY <2>1, <2>2 DEF Sure
    <3>2. Cardinality({}) = 0
      BY FS_EmptySet
    <3> QED BY <2>3, <3>1, <3>2
  <2>5. S = D
    BY <2>4
  <2>6. Unread(D) \in [Slots -> Marks]
    BY DEF Unread, Marks
  <2>7. /\ q \in Process /\ q.pc = "read" /\ q.seen = Unread(D) /\ q.rnd = p.rnd
        /\ q.conf = p.conf
    BY <1>p, <2>5, <2>6 DEF Process, PCs
  <2> HIDE DEF q, S
  <2>8. {v \in A : q.seen[v] \in {"unread", "approve"}} = A /\ Looked(q) = D
    BY <2>3, <2>7 DEF Unread, Looked
  <2>9. Won(q, A, D)
    BY <2>1, <2>7, <2>8 DEF Won, Sure
  <2> QED BY <1>1, <2>1, <2>7, <2>9
<1>3. ASSUME NEW v \in Slots, Read(c, v) PROVE Winning(c)'
  <2> DEFINE x == IF verdict[p.rnd][v] = "none" THEN "null" ELSE verdict[p.rnd][v]
             q == [p EXCEPT !.seen[v] = x]
  <2>1. /\ p.pc = "read" /\ p.seen[v] = "unread" /\ Move(c, q) /\ verdict' = verdict
        /\ p.rnd \in Rounds
    BY <1>3 DEF Read, Winning, Won, ProcessOK, FieldsOK, Process, Rounds
  <2>2. x \in {"null", "approve", "reject"} /\ (v \in A => x = "approve")
    BY <2>1 DEF FilesOK, Approvals
  <2>3. /\ q \in Process /\ q.pc = "read" /\ q.rnd = p.rnd /\ q.conf = p.conf
        /\ q.seen = [p.seen EXCEPT ![v] = x]
    BY <1>p, <2>1, <2>2 DEF Process, Marks
  <2>4. Sure({u \in A : p.seen[u] \in {"unread", "approve"}}, Looked(p), p)
    BY <2>1 DEF Winning, Won
  <2> HIDE DEF q, x
  <2>5. {u \in A : q.seen[u] \in {"unread", "approve"}}
          = {u \in A : p.seen[u] \in {"unread", "approve"}}
    BY <1>p, <2>1, <2>2, <2>3 DEF Approvals
  <2>6. Looked(q) = Looked(p)
    BY <1>p, <2>1, <2>2, <2>3 DEF Looked
  <2>7. Won(q, A, D)
    BY <2>3, <2>4, <2>5, <2>6 DEF Won, Sure
  <2> QED BY <1>1, <2>1, <2>3, <2>7
<1>4. CASE Pass(c)
  <2> DEFINE q == [p EXCEPT !.pc = "write", !.head = receipts]
  <2>1. q \in Process /\ q.pc = "write" /\ q.rnd = p.rnd
    BY <1>p DEF Process, PCs, FilesOK
  <2>2. Move(c, q) /\ verdict' = verdict
    BY <1>4 DEF Pass
  <2>3. Won(q, A, D)
    BY <2>1 DEF Won
  <2> QED BY <1>1, <2>1, <2>2, <2>3
<1>5. CASE Expire(c)
  <2> DEFINE q == [p EXCEPT !.due = TRUE]
  <2>1. /\ q \in Process /\ q.pc = p.pc /\ q.rnd = p.rnd /\ q.conf = p.conf
        /\ q.seen = p.seen
    BY <1>p DEF Process
  <2>2. Move(c, q) /\ verdict' = verdict
    BY <1>5 DEF Expire
  <2> HIDE DEF q
  <2>3. Looked(q) = Looked(p)
    BY <2>1 DEF Looked
  <2>4. Won(q, A, D)
    BY <2>1, <2>3 DEF Winning, Won, Sure
  <2> QED BY <1>1, <2>1, <2>2, <2>4
<1> QED BY <1>2, <1>3, <1>4, <1>5

\* A round that is won is not lost on its reader, however late verdicts, the
\* deadline and other commands interleave with its reads: it neither reports a
\* rejection nor polls again, and unless it is killed it stays on its way until
\* it writes the completion of that very round. (What WonRoundHarvested needs
\* besides fairness.)
THEOREM WonStaysWon ==
  Spec => [][\A c \in Cmd : Winning(c) =>
               /\ ~Fail(c) /\ ~Poll(c)
               /\ \/ Winning(c)'
                  \/ Write(c) /\ completion'.round = cmd[c].rnd
                  \/ Abort(c)]_vars
<1>1. Typing /\ [Next]_vars =>
        [\A c \in Cmd : Winning(c) =>
           /\ ~Fail(c) /\ ~Poll(c)
           /\ \/ Winning(c)'
              \/ Write(c) /\ completion'.round = cmd[c].rnd
              \/ Abort(c)]_vars
  <2> SUFFICES ASSUME Typing, [Next]_vars, NEW c \in Cmd, Winning(c)
               PROVE  /\ ~Fail(c) /\ ~Poll(c)
                      /\ \/ Winning(c)'
                         \/ Write(c) /\ completion'.round = cmd[c].rnd
                         \/ Abort(c)
    OBVIOUS
  <2> USE FilesTyped
  <2>1. ~Fail(c) /\ ~Poll(c)
    BY WonPasses DEF Fail, Poll
  <2>2. cmd[c].pc \in {"scan", "read", "write"}
    BY DEF Winning, Won
  <2>3. CASE cmd'[c] = cmd[c]
    <3>1. PICK r \in Rounds : r = cmd[c].rnd /\ cmd[c].conf \in Configs
      BY <2>2 DEF ProcessOK, FieldsOK, Process, Rounds
    <3>2. Approvals(r) \subseteq Approvals(r)' /\ SlotDirs(r) \subseteq SlotDirs(r)'
      BY ApprovalsGrow, SlotsGrow
    <3>3. /\ Approvals(r) \in SUBSET Slots /\ Approvals(r)' \in SUBSET Slots
          /\ SlotDirs(r) \in SUBSET Slots /\ SlotDirs(r)' \in SUBSET Slots
      BY DEF Approvals, SlotDirs
    <3>4. Won(cmd[c], Approvals(r), SlotDirs(r))
      BY <3>1 DEF Winning
    <3>5. Approvals(cmd[c].rnd)' = Approvals(r)' /\ SlotDirs(cmd[c].rnd)' = SlotDirs(r)'
      BY <2>3, <3>1 DEF Approvals, SlotDirs
    <3>6. Won(cmd[c], Approvals(r)', SlotDirs(r)')
      BY <3>1, <3>2, <3>3, <3>4, WonGrows
    <3> QED BY <2>1, <2>3, <3>5, <3>6 DEF Winning, Won, Sure, Looked
  <2>4. CASE Start(c)
    BY <2>2, <2>4 DEF Start, New, Resume, Recover
  <2>5. CASE Scan(c) \/ (\E v \in Slots : Read(c, v)) \/ Pass(c) \/ Expire(c)
    BY <2>1, <2>5, WonKept
  <2>6. CASE Write(c)
    BY <2>1, <2>6 DEF Write
  <2>7. CASE Create(c) \/ Probe(c) \/ Locking(c) \/ RunRound(c)
    BY <2>2, <2>7
    DEF Create, Probe, List, Advise, Advising, Locking, Acquire, Busy, RunRound, Bump,
        Cooldown, Healthy, Render, Mint, Launch, Reap, Timeout, Drain
  <2>8. CASE Abort(c)
    BY <2>1, <2>8
  <2> QED
    BY <2>1, <2>3, <2>4, <2>5, <2>6, <2>7, <2>8, WhoMoves DEF Command, Settle
<1> QED BY <1>1, TypingInit, TypingStep, PTL DEF Spec

-----------------------------------------------------------------------------
\* Which round is certified, and over which receipts

\* p, once it has its round's number: RESUME and RECOVER work on the current
\* round r. The receipt head it took is one that the log rc has had.
Current(p, r) ==
  p.kind \in {"resume", "recover"} /\ p.pc \in Critical \ {"bump"} => p.rnd = r
HeadTaken(p, rc) == p.pc = "write" => p.head \subseteq rc

CurrentOK == \A c \in Cmd : Current(cmd[c], round) /\ HeadTaken(cmd[c], receipts)

\* A completion never runs ahead of the goal's round. Its digest is the one of
\* its own round and matching set, taken over a head that the receipt log has
\* had: the log may have grown since, nothing else can differ. So AUDIT's hash
\* check fails for no other reason (what is true of AuditReproduces).
CompletionDated == completion.round <= round
DigestOnlyLags ==
  completion # NoCompletion =>
    LET head == completion.digest.head IN
    /\ completion.digest = Digest(completion.round, completion.matching, head)
    /\ head \subseteq receipts
    /\ AuditHash <=> head = receipts

\* The round number changes in two places.
LEMMA RoundMoves ==
  ASSUME Typing, [Next]_vars
  PROVE  \/ round' = round
         \/ \E c \in Cmd : Create(c) /\ round = 0 /\ round' = 1
         \/ \E c \in Cmd : Bump(c) /\ round' = round + 1
<1>1. ASSUME NEW c \in Cmd,
             Start(c) \/ Probe(c) \/ Locking(c) \/ Settle(c) \/ Expire(c) \/ Abort(c)
      PROVE  round' = round
  BY <1>1 DEF Start, New, Resume, Recover, Probe, List, Advise, Locking, Acquire, Busy, Settle, Scan, Read,
              Pass, Fail, Poll, Write, Expire, Abort
<1>2. ASSUME NEW c \in Cmd, RunRound(c)
      PROVE  round' = round \/ (Bump(c) /\ round' = round + 1)
  BY <1>2 DEF RunRound, Bump, Cooldown, Healthy, Render, Mint, Launch, Reap, Timeout, Drain
<1>3. ASSUME NEW c \in Cmd, Create(c) PROVE round = 0 /\ round' = 1
  BY <1>3 DEF Create
<1>4. ASSUME NEW r \in Rounds, NEW v \in Slots, Verifier(r, v) PROVE round' = round
  BY <1>4 DEF Verifier, Register, AppendReceipt, Die
<1>5. CASE EditConfig \/ UNCHANGED vars
  BY <1>5 DEF EditConfig, vars
<1> QED BY <1>1, <1>2, <1>3, <1>4, <1>5 DEF Next, Command

\* What a process goes on with, once it has its round's number.
LEMMA RoundKept ==
  ASSUME Typing, [Next]_vars, NEW c \in Cmd, cmd'[c].pc \in Critical \ {"bump"},
         cmd'[c].kind \in {"resume", "recover"}
  PROVE  \/ /\ cmd[c].pc \in Critical \ {"bump"}
            /\ cmd'[c].kind = cmd[c].kind /\ cmd'[c].rnd = cmd[c].rnd
         \/ Acquire(c) /\ cmd'[c].rnd = round
         \/ Bump(c) /\ cmd'[c].rnd = round'
<1> USE FilesTyped
<1> DEFINE p == cmd[c]
<1>p. p \in Process /\ (p.pc # "idle" => p.conf \in Configs)
  BY DEF ProcessOK, FieldsOK
<1>1. ASSUME NEW q, Move(c, q) PROVE cmd'[c] = q
  BY <1>1 DEF Move
<1>2. CASE cmd'[c] = p
  BY <1>2
<1>3. CASE Start(c) \/ Create(c)
  <2>1. cmd'[c].pc \in {"create", "probe", "lock"}
    <3>1. CASE New(c)
      BY <1>1, <3>1 DEF New, Idle
    <3>2. CASE Resume(c)
      BY <1>1, <3>2 DEF Resume, Idle
    <3>3. CASE Recover(c)
      BY <1>1, <3>3 DEF Recover, Idle
    <3>4. CASE Create(c)
      BY <1>1, <3>4, <1>p DEF Create, Process
    <3> QED BY <1>3, <3>1, <3>2, <3>3, <3>4 DEF Start
  <2> QED BY <2>1 DEF Critical
<1>4. CASE Finish(c)
  <2>1. cmd'[c].pc = "idle"
    BY <1>1, <1>4 DEF Finish, Idle
  <2> QED BY <2>1 DEF Critical
<1>5. CASE Acquire(c)
  <2>1. /\ p.kind \in {"new", "resume", "recover"}
        /\ cmd'[c].kind = p.kind /\ cmd'[c].pc = AfterLock[p.kind]
        /\ p.kind = "recover" => cmd'[c].rnd = round
    BY <1>1, <1>5, <1>p, ZenonT(60) DEF Acquire, Process, ProcessOK, FieldsOK
  <2>2. cmd'[c].kind = "recover"
    BY <2>1 DEF AfterLock
  <2> QED BY <1>5, <2>1, <2>2
<1>6. CASE Bump(c)
  BY <1>1, <1>6, <1>p DEF Bump, Process
<1>7. ASSUME p.pc \in Critical \ {"bump"}, cmd'[c].kind = p.kind, cmd'[c].rnd = p.rnd
      PROVE  p.pc \in Critical \ {"bump"} /\ cmd'[c].kind = p.kind /\ cmd'[c].rnd = p.rnd
  BY <1>7
<1>11. CASE List(c) \/ Advise(c)
  <2>1. cmd'[c].pc \in {"look", "lock", "idle"}
    <3>1. CASE List(c)
      BY <1>1, <3>1, <1>p DEF List, Process
    <3>2. CASE Advise(c)
      <4> DEFINE q == [Idle EXCEPT !.pc = "lock", !.kind = p.kind, !.conf = p.conf]
      <4>1. q.pc = "lock" /\ Idle.pc = "idle"
        BY DEF Idle
      <4>2. Move(c, q) \/ Move(c, Idle)
        BY <3>2 DEF Advise, Finish
      <4> HIDE DEF q
      <4> QED BY <1>1, <4>1, <4>2
    <3> QED BY <1>11, <3>1, <3>2
  <2> QED BY <2>1 DEF Critical
<1>12. ASSUME p.pc = "look", NEW v \in Slots, Read(c, v) PROVE FALSE
  <2>1. cmd'[c].pc = "look"
    BY <1>1, <1>12, <1>p DEF Read, Process
  <2> QED BY <2>1 DEF Critical
<1>8. CASE Render(c) \/ Mint(c) \/ Launch(c)
  <2>1. PICK x \in {"mint", "spawn", "gather"} : Move(c, Step(p, x))
    BY <1>8 DEF Render, Mint, Launch
  <2>2. p.pc \in {"render", "mint", "spawn"}
    BY <1>8 DEF Render, Mint, Launch
  <2>3. Step(p, x).kind = p.kind /\ Step(p, x).rnd = p.rnd
    BY <1>p, <2>2, StepTyped DEF PCs
  <2> QED BY <1>1, <1>7, <2>1, <2>2, <2>3 DEF Critical, PCs
<1>9. CASE Reap(c) \/ Timeout(c) \/ Drain(c)
  <2>1. PICK q \in Process :
          /\ Move(c, q) /\ p.pc \in {"gather", "drain"} /\ q.kind = p.kind /\ q.rnd = p.rnd
    BY <1>9, GatherStep
  <2> QED BY <1>1, <1>7, <2>1 DEF Critical, PCs
<1>10. CASE Healthy(c) \/ Scan(c) \/ Pass(c) \/ Poll(c) \/ Expire(c)
            \/ (\E v \in Slots : Read(c, v))
  <2>1. p.pc \in {"health", "scan", "read"}
    BY <1>10, <1>12 DEF Healthy, Scan, Pass, Poll, Expire, Read, AllRead
  <2>2. CASE Healthy(c) \/ Scan(c)
    BY <1>1, <1>p, <1>7, <2>1, <2>2, ZenonT(60) DEF Healthy, Scan, Process, Critical, PCs
  <2>3. CASE Pass(c) \/ Poll(c)
    BY <1>1, <1>p, <1>7, <2>1, <2>3 DEF Pass, Poll, Process, Critical, PCs
  <2>4. CASE Expire(c) \/ (\E v \in Slots : Read(c, v))
    BY <1>1, <1>p, <1>7, <2>1, <2>4 DEF Expire, Read, Process, Critical, PCs
  <2> QED BY <1>10, <2>2, <2>3, <2>4
<1> QED
  BY <1>2, <1>3, <1>4, <1>5, <1>6, <1>8, <1>9, <1>10, <1>11, WhoMoves
  DEF Command, Probe, Locking, RunRound, Settle, Busy, Cooldown, Fail, Write, Abort

LEMMA HeadKept ==
  ASSUME Typing, [Next]_vars, NEW c \in Cmd, HeadTaken(cmd[c], receipts)
  PROVE  HeadTaken(cmd'[c], receipts')
<1> USE FilesTyped
<1> DEFINE p == cmd[c]
<1>1. receipts \subseteq receipts'
  BY ReceiptsGrow DEF AppendReceipt
<1>2. CASE cmd'[c] = p
  BY <1>1, <1>2 DEF HeadTaken
<1>3. CASE Pass(c)
  <2>1. cmd'[c].head = receipts
    BY <1>3 DEF Pass, Move, Process
  <2> QED BY <1>1, <2>1 DEF HeadTaken
<1>4. ASSUME cmd'[c].pc # "write" PROVE HeadTaken(cmd'[c], receipts')
  BY <1>4 DEF HeadTaken
<1>5. CASE Start(c) \/ Create(c) \/ Bump(c) \/ Finish(c)
  <2>1. CASE Start(c)
    BY <1>4, <2>1 DEF Start, New, Resume, Recover, Move, Idle
  <2>2. CASE Create(c) \/ Bump(c)
    BY <1>4, <2>2 DEF Create, Bump, Move, Process
  <2>3. CASE Finish(c)
    BY <1>4, <2>3 DEF Finish, Move, Idle
  <2> QED BY <1>5, <2>1, <2>2, <2>3
<1>6. CASE Acquire(c)
  <2>1. p.kind \in {"new", "resume", "recover"}
    BY <1>6 DEF Acquire, ProcessOK, FieldsOK
  <2>2. cmd'[c].pc = AfterLock[p.kind]
    BY <1>6 DEF Acquire, Move, Process
  <2> QED BY <1>4, <2>1, <2>2 DEF AfterLock
<1>12. CASE List(c) \/ Advise(c)
  <2>1. CASE List(c)
    BY <1>4, <2>1 DEF List, Move, Process
  <2>2. CASE Advise(c)
    <3> DEFINE q == [Idle EXCEPT !.pc = "lock", !.kind = p.kind, !.conf = p.conf]
    <3>1. q.pc = "lock" /\ Idle.pc = "idle"
      BY DEF Idle
    <3>2. Move(c, q) \/ Move(c, Idle)
      BY <2>2 DEF Advise, Finish
    <3> HIDE DEF q
    <3>3. cmd'[c].pc # "write"
      BY <3>1, <3>2 DEF Move
    <3> QED BY <1>4, <3>3
  <2> QED BY <1>12, <2>1, <2>2
<1>7. CASE Render(c) \/ Mint(c) \/ Launch(c)
  <2>1. PICK x \in {"mint", "spawn", "gather"} : Move(c, Step(p, x))
    BY <1>7 DEF Render, Mint, Launch
  <2>2. p.pc \in {"render", "mint", "spawn"} /\ p.conf \in Configs /\ p \in Process
    BY <1>7 DEF Render, Mint, Launch, ProcessOK, FieldsOK
  <2>3. Step(p, x).pc \in {"render", "mint", "spawn", "gather"}
    BY <2>2, StepTyped DEF PCs
  <2> QED BY <1>4, <2>1, <2>3 DEF Move
<1>8. CASE Reap(c) \/ Timeout(c) \/ Drain(c)
  <2>1. PICK q \in Process : Move(c, q) /\ q.pc \in {"gather", "drain", "read"}
    BY <1>8, GatherStep
  <2> QED BY <1>4, <2>1 DEF Move
<1>9. CASE Healthy(c) \/ Scan(c) \/ Poll(c)
  BY <1>4, <1>9 DEF Healthy, Scan, Poll, Move, Process
<1>10. CASE Expire(c)
  BY <1>4, <1>10 DEF Expire, Move, Process
<1>11. ASSUME NEW v \in Slots, Read(c, v) PROVE HeadTaken(cmd'[c], receipts')
  BY <1>4, <1>11 DEF Read, Move, Process
<1> QED
  BY <1>2, <1>3, <1>5, <1>6, <1>7, <1>8, <1>9, <1>10, <1>11, <1>12, WhoMoves
  DEF Command, Probe, Locking, RunRound, Settle, Busy, Cooldown, Fail, Write, Abort

LEMMA CurrentStep ==
  Typing /\ OneAtATime /\ CurrentOK /\ [Next]_vars => CurrentOK'
<1> SUFFICES ASSUME Typing, OneAtATime, CurrentOK, [Next]_vars, NEW c \in Cmd
             PROVE  Current(cmd'[c], round') /\ HeadTaken(cmd'[c], receipts')
  BY DEF CurrentOK
<1> USE FilesTyped
<1>1. HeadTaken(cmd'[c], receipts')
  BY HeadKept DEF CurrentOK
<1>2. ASSUME cmd'[c].pc \in Critical \ {"bump"}, cmd'[c].kind \in {"resume", "recover"}
      PROVE  cmd'[c].rnd = round'
  <2>1. CASE Acquire(c) /\ cmd'[c].rnd = round
    BY <2>1 DEF Acquire
  <2>2. CASE Bump(c) /\ cmd'[c].rnd = round'
    BY <2>2
  <2>3. CASE /\ cmd[c].pc \in Critical \ {"bump"}
             /\ cmd'[c].kind = cmd[c].kind /\ cmd'[c].rnd = cmd[c].rnd
    <3>1. cmd[c].rnd = round
      BY <1>2, <2>3 DEF CurrentOK, Current
    <3>2. round # 0
      BY <2>3 DEF ProcessOK, FieldsOK, Critical
    <3>3. ASSUME NEW d \in Cmd, Bump(d) PROVE FALSE
      <4>1. cmd[d].pc = "bump" /\ "bump" \in Critical
        BY <3>3 DEF Bump, Critical, PCs
      <4> QED BY <2>3, <4>1 DEF OneAtATime
    <3>4. round' = round
      BY <3>2, <3>3, RoundMoves
    <3> QED BY <2>3, <3>1, <3>4
  <2> QED BY <1>2, <2>1, <2>2, <2>3, RoundKept
<1> QED BY <1>1, <1>2 DEF Current

LEMMA CurrentInit == Init => CurrentOK
BY DEF Init, CurrentOK, Current, HeadTaken, Idle, Critical

LEMMA DatedStep == Typing /\ CompletionDated /\ [Next]_vars => CompletionDated'
<1> SUFFICES ASSUME Typing, CompletionDated, [Next]_vars PROVE CompletionDated'
  OBVIOUS
<1> USE FilesTyped
<1>1. round \in Nat /\ round' \in Nat /\ round <= round'
  BY RoundMoves DEF FilesOK
<1>2. CASE completion' = completion
  BY <1>1, <1>2 DEF CompletionDated, FilesOK, Completion
<1>3. ASSUME NEW c \in Cmd, Write(c) PROVE CompletionDated'
  <2>1. completion'.round = cmd[c].rnd /\ round' = round
    BY <1>3 DEF Write
  <2>2. cmd[c].rnd <= round
    BY DEF ProcessOK, FieldsOK
  <2> QED BY <2>1, <2>2 DEF CompletionDated
<1> QED BY <1>2, <1>3, CompletionStep

LEMMA DatedInit == Init => CompletionDated
BY DEF Init, CompletionDated, NoCompletion

\* Completions advance: what RESUME or RECOVER certifies is the goal's current
\* round, at least that of any completion it replaces, although they start
\* from a round number read before the lock, and RECOVER waits. (NEW alone may
\* put its round 1 back over a later completion: it creates the goal before it
\* takes the lock. What is true of DoneIsCurrent.)
THEOREM CompletionsAdvance ==
  Spec => /\ []CompletionDated
          /\ [][\A c \in Cmd : Write(c) /\ cmd[c].kind # "new" =>
                  completion'.round = round /\ completion.round <= completion'.round]_vars
<1>1. Typing /\ CurrentOK /\ CompletionDated /\ [Next]_vars =>
        [\A c \in Cmd : Write(c) /\ cmd[c].kind # "new" =>
           completion'.round = round /\ completion.round <= completion'.round]_vars
  <2> SUFFICES ASSUME Typing, CurrentOK, CompletionDated, NEW c \in Cmd, Write(c),
                      cmd[c].kind # "new"
               PROVE  completion'.round = round /\ completion.round <= completion'.round
    OBVIOUS
  <2>1. cmd[c].kind \in {"resume", "recover"} /\ cmd[c].pc \in Critical \ {"bump"}
    BY FilesTyped DEF Write, ProcessOK, FieldsOK, Critical, PCs
  <2>2. cmd[c].rnd = round
    BY <2>1 DEF CurrentOK, Current
  <2>3. completion'.round = cmd[c].rnd
    BY DEF Write
  <2> QED BY <2>2, <2>3 DEF CompletionDated
<1> QED
  BY <1>1, TypingInit, TypingStep, LockInit, LockStep, CurrentInit, CurrentStep,
     DatedInit, DatedStep, PTL
  DEF Spec

\* The digest without AUDIT's comparison: it follows from the first two parts.
DigestTaken ==
  completion # NoCompletion =>
    /\ completion.digest
         = Digest(completion.round, completion.matching, completion.digest.head)
    /\ completion.digest.head \subseteq receipts

LEMMA DigestStep == Typing /\ CurrentOK /\ DigestTaken /\ [Next]_vars => DigestTaken'
<1> SUFFICES ASSUME Typing, CurrentOK, DigestTaken, [Next]_vars PROVE DigestTaken'
  OBVIOUS
<1>1. receipts \subseteq receipts'
  BY ReceiptsGrow DEF AppendReceipt
<1>2. CASE completion' = completion
  BY <1>1, <1>2 DEF DigestTaken
<1>3. ASSUME NEW c \in Cmd, Write(c) PROVE DigestTaken'
  <2>1. cmd[c].head \subseteq receipts
    BY <1>3 DEF Write, CurrentOK, HeadTaken
  <2>2. /\ completion'.round = cmd[c].rnd /\ completion'.matching = Matching(cmd[c])
        /\ completion'.digest = Digest(cmd[c].rnd, Matching(cmd[c]), cmd[c].head)
    BY <1>3 DEF Write
  <2>3. completion'.digest.head = cmd[c].head
    BY <2>2 DEF Digest
  <2> QED BY <1>1, <2>1, <2>2, <2>3 DEF DigestTaken
<1> QED BY <1>2, <1>3, CompletionStep

LEMMA DigestInit == Init => DigestTaken
BY DEF Init, DigestTaken

\* AUDIT recomputes another hash exactly when receipts have been appended since
\* the head was read, whoever wrote the completion and whatever happened since.
THEOREM DigestLags == Spec => []DigestOnlyLags
<1>1. DigestTaken => DigestOnlyLags
  <2> SUFFICES ASSUME DigestTaken, completion # NoCompletion
               PROVE  AuditHash <=> completion.digest.head = receipts
    BY DEF DigestOnlyLags, DigestTaken
  <2>1. completion.digest
          = Digest(completion.round, completion.matching, completion.digest.head)
    BY DEF DigestTaken
  <2>2. ASSUME AuditHash PROVE completion.digest.head = receipts
    <3>1. Digest(completion.round, completion.matching, completion.digest.head)
            = Digest(completion.round, completion.matching, receipts)
      BY <2>1, <2>2 DEF AuditHash
    <3> QED BY <3>1 DEF Digest
  <2>3. ASSUME completion.digest.head = receipts PROVE AuditHash
    BY <2>1, <2>3 DEF AuditHash
  <2> QED BY <2>2, <2>3
<1> QED
  BY <1>1, TypingInit, TypingStep, LockInit, LockStep, CurrentInit, CurrentStep,
     DigestInit, DigestStep, PTL
  DEF Spec

=============================================================================
