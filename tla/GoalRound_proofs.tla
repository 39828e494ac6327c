--------------------------- MODULE GoalRound_proofs ---------------------------
EXTENDS GoalRound, FiniteSetTheorems, TLAPS

\* The fields of a process fit the place in its handler, in current round r.
FieldsOK(p, r) ==
  /\ p.rnd <= r
  /\ p.pc = "idle" => p.kind = "none"
  /\ p.pc # "idle" => /\ p.kind \in {"new", "resume", "recover"}
                      /\ p.conf \in Configs
  /\ p.pc \notin {"idle", "create"} => r > 0
  /\ p.pc = "create" => p.kind = "new"
  /\ p.kind = "new" /\ p.pc # "create" => p.rnd = 1
  /\ p.pc = "bump" => p.kind = "resume"
  /\ p.pc \in {"probe", "look", "scan"} => p.kind = "recover"
  /\ p.pc \in {"probe", "look"} => ~p.due
  /\ p.pc \in {"health", "render", "mint", "spawn", "gather", "drain"} =>
       p.kind \in {"new", "resume"}
  /\ p.pc \notin {"idle", "create", "lock", "bump"} => p.rnd > 0

ProcessOK == \A c \in Cmd : FieldsOK(cmd[c], round)

\* TypeOK without the processes.
FilesOK ==
  /\ live \in Configs
  /\ created \in Configs \cup {NoConfig}
  /\ round \in 0..MaxRound
  /\ verdict \in [Rounds -> [Slots -> {"none", "null", "approve", "reject"}]]
  /\ session \in [Rounds -> [Slots -> Sessions]]
  /\ receipts \subseteq Receipt
  /\ completion \in Completion
  /\ holder \in Cmd \cup {Nobody}
  /\ aborts \in 0..MaxAborts /\ edits \in 0..MaxEdits

Typing == TypeOK /\ ProcessOK

USE NobodyAssumption, BoundAssumption
USE DEF Sessions

LEMMA ConfigTypes ==
  ASSUME NEW cf \in Configs
  PROVE  /\ cf.n \in 1..MaxSlot /\ cf.m \in 1..MaxSlot /\ cf.n <= cf.m
BY ConfigAssumption DEF Valid

LEMMA IdleTyped == Idle \in Process
BY DEF Idle, Process, PCs, Kinds, Marks, Slots

LEMMA StepTyped ==
  ASSUME NEW p \in Process, NEW q \in PCs, p.conf \in Configs
  PROVE  /\ Step(p, q) \in Process
         /\ Step(p, q).kind = p.kind /\ Step(p, q).conf = p.conf
         /\ Step(p, q).rnd = p.rnd /\ Step(p, q).seen = p.seen
         /\ Step(p, q).pc \in {p.pc, q}
<1>1. p.conf.m \in 1..MaxSlot
  BY ConfigTypes
<1>2. CASE p.at < p.conf.m
  <2>1. p.at + 1 \in Slots
    BY <1>1, <1>2 DEF Process, Slots
  <2>2. Step(p, q) = [p EXCEPT !.at = p.at + 1]
    BY <1>2 DEF Step
  <2> QED BY <2>1, <2>2 DEF Process
<1>3. CASE ~(p.at < p.conf.m)
  <2>1. 1 \in Slots
    BY DEF Slots
  <2>2. Step(p, q) = [p EXCEPT !.at = 1, !.pc = q]
    BY <1>3 DEF Step
  <2> QED BY <2>1, <2>2 DEF Process
<1> QED BY <1>2, <1>3

LEMMA GatheredTyped ==
  ASSUME NEW p \in Process, p.conf \in Configs
  PROVE  /\ Gathered(p) \in Process
         /\ Gathered(p).kind = p.kind /\ Gathered(p).conf = p.conf
         /\ Gathered(p).rnd = p.rnd
         /\ Gathered(p).pc \in {p.pc, "read"}
<1>1. "read" \in PCs
  BY DEF PCs
<1>2. Unread(1..p.conf.m) \in [Slots -> Marks]
  BY DEF Unread, Marks
<1> DEFINE s == Step(p, "read")
<1>3. /\ s \in Process /\ s.kind = p.kind /\ s.conf = p.conf /\ s.rnd = p.rnd
      /\ s.pc \in {p.pc, "read"}
  BY <1>1, StepTyped
<1>4. Gathered(p) = s \/ Gathered(p) = [s EXCEPT !.seen = Unread(1..p.conf.m)]
  BY DEF Gathered
<1> HIDE DEF s
<1> QED BY <1>2, <1>3, <1>4 DEF Process

\* A step that moves process c, by a process that has the right type.
LEMMA MoveTyped ==
  ASSUME NEW c \in Cmd, NEW p \in Process, Move(c, p), cmd \in [Cmd -> Process]
  PROVE  /\ cmd' \in [Cmd -> Process]
         /\ cmd'[c] = p
         /\ \A d \in Cmd : d # c => cmd'[d] = cmd[d]
BY DEF Move

LEMMA FilesTyped == Typing => FilesOK /\ cmd \in [Cmd -> Process] /\ ProcessOK
BY DEF Typing, TypeOK, FilesOK

\* A step of process c keeps the types if its new record and the files do.
LEMMA CommandTyping ==
  ASSUME Typing, NEW c \in Cmd, NEW p \in Process, Move(c, p), FilesOK',
         round' \in round..MaxRound, FieldsOK(p, round')
  PROVE  Typing'
<1>1. cmd' \in [Cmd -> Process] /\ cmd'[c] = p /\ \A d \in Cmd : d # c => cmd'[d] = cmd[d]
  BY MoveTyped, FilesTyped
<1>2. TypeOK'
  BY <1>1 DEF TypeOK, FilesOK
<1>3. \A d \in Cmd : d # c => cmd'[d].rnd <= round'
  BY <1>1, FilesTyped DEF ProcessOK, FieldsOK, FilesOK, Process
<1>4. ProcessOK'
  BY <1>1, <1>3, FilesTyped DEF ProcessOK, FieldsOK, FilesOK
<1> QED BY <1>2, <1>4 DEF Typing

\* The processes are left alone.
LEMMA OthersTyping ==
  ASSUME Typing, FilesOK', UNCHANGED <<cmd, round>>
  PROVE  Typing'
BY FilesTyped DEF Typing, TypeOK, FilesOK, ProcessOK

LEMMA FinishTyping ==
  ASSUME Typing, NEW c \in Cmd, Finish(c),
         UNCHANGED <<live, created, round, verdict, session, receipts, edits>>,
         completion' \in Completion, aborts' \in 0..MaxAborts
  PROVE  Typing'
<1>1. FilesOK'
  BY FilesTyped DEF FilesOK, Finish
<1>2. FieldsOK(Idle, round')
  BY FilesTyped DEF FieldsOK, Idle, FilesOK
<1>3. round' \in round..MaxRound
  BY FilesTyped DEF FilesOK
<1> QED BY <1>1, <1>2, <1>3, IdleTyped, CommandTyping DEF Finish

\* A step of process c that touches neither the round nor any typed file.
LEMMA LocalTyping ==
  ASSUME Typing, NEW c \in Cmd, NEW p \in Process, Move(c, p), FieldsOK(p, round),
         UNCHANGED <<live, created, round, receipts, completion, aborts, edits>>,
         verdict' \in [Rounds -> [Slots -> {"none", "null", "approve", "reject"}]],
         session' \in [Rounds -> [Slots -> Sessions]],
         holder' \in Cmd \cup {Nobody}
  PROVE  Typing'
<1>1. FilesOK' /\ round' \in round..MaxRound
  BY FilesTyped DEF FilesOK
<1> QED BY <1>1, CommandTyping

\* The gather barrier moves on to the next slot, or waits for its pipes.
LEMMA GatherStep ==
  ASSUME Typing, NEW c \in Cmd, Reap(c) \/ Timeout(c) \/ Drain(c)
  PROVE  \E p \in Process :
           /\ Move(c, p)
           /\ cmd[c].pc \in {"gather", "drain"} /\ p.pc \in {"gather", "drain", "read"}
           /\ p.kind = cmd[c].kind /\ p.conf = cmd[c].conf /\ p.rnd = cmd[c].rnd
           /\ p.pc = "read" => \A v \in Slots : p.seen[v] \in {"unread", "skip"}
<1> USE FilesTyped
<1>1. cmd[c].pc \in {"gather", "drain"} /\ cmd[c].conf \in Configs /\ cmd[c] \in Process
  BY DEF Reap, Timeout, Drain, ProcessOK, FieldsOK
<1> DEFINE g == [cmd[c] EXCEPT !.pc = "gather"]
<1>2. /\ g \in Process /\ g.pc = "gather" /\ g.kind = cmd[c].kind
      /\ g.conf = cmd[c].conf /\ g.rnd = cmd[c].rnd
      /\ cmd[c].pc = "gather" => g = cmd[c]
  BY <1>1 DEF Process, PCs
<1>3. CASE Move(c, [cmd[c] EXCEPT !.pc = "drain"])
  <2> DEFINE d == [cmd[c] EXCEPT !.pc = "drain"]
  <2>1. /\ d \in Process /\ d.pc = "drain" /\ d.kind = cmd[c].kind
        /\ d.conf = cmd[c].conf /\ d.rnd = cmd[c].rnd
    BY <1>1 DEF Process, PCs
  <2> QED BY <1>1, <1>3, <2>1
<1>4. CASE Move(c, Gathered(g))
  <2>1. /\ Gathered(g) \in Process /\ Gathered(g).kind = g.kind
        /\ Gathered(g).conf = g.conf /\ Gathered(g).rnd = g.rnd
        /\ Gathered(g).pc \in {"gather", "read"}
    BY <1>1, <1>2, GatheredTyped
  <2>2. Gathered(g).pc = "read" =>
          \A v \in Slots : Gathered(g).seen[v] \in {"unread", "skip"}
    <3>1. CASE g.at < g.conf.m
      <4>1. Gathered(g).pc = "gather"
        BY <1>2, <3>1 DEF Gathered, Step, Process
      <4> QED BY <4>1
    <3>2. CASE ~(g.at < g.conf.m)
      <4>1. Gathered(g) = [g EXCEPT !.at = 1, !.pc = "read", !.seen = Unread(1..g.conf.m)]
        BY <3>2 DEF Gathered, Step
      <4>2. Gathered(g).seen = Unread(1..g.conf.m)
        BY <1>2, <4>1 DEF Process
      <4> QED BY <4>2 DEF Unread
    <3> QED BY <3>1, <3>2
  <2> QED BY <1>1, <1>2, <1>4, <2>1, <2>2
<1> HIDE DEF g
<1>5. Move(c, Gathered(g)) \/ Move(c, [cmd[c] EXCEPT !.pc = "drain"])
  BY <1>2 DEF Reap, Timeout, Drain, g
<1> QED BY <1>3, <1>4, <1>5

\* It starts and ends sessions of none.
LEMMA GatherSessions ==
  ASSUME Typing, NEW c \in Cmd, Reap(c) \/ Timeout(c) \/ Drain(c)
  PROVE  /\ session' \in [Rounds -> [Slots -> Sessions]]
         /\ \A r \in Rounds, v \in Slots :
              session[r][v] \in {"none", "minted"} => session'[r][v] = session[r][v]
<1> USE FilesTyped
<1>1. CASE session' = session
  BY <1>1 DEF FilesOK
<1>2. CASE Timeout(c) /\ session' # session
  <2>1. PICK s \in {session[cmd[c].rnd][cmd[c].at], "ended"} :
          session' = [session EXCEPT ![cmd[c].rnd][cmd[c].at] = s]
    BY <1>2 DEF Timeout
  <2>2. session[cmd[c].rnd][cmd[c].at] \in {"live", "signed"}
    BY <1>2 DEF Timeout
  <2>3. s \in {"live", "signed", "ended"}
    BY <2>1, <2>2
  <2>4. session' \in [Rounds -> [Slots -> Sessions]]
    BY <2>1, <2>3 DEF FilesOK
  <2>5. ASSUME NEW r \in Rounds, NEW v \in Slots, session[r][v] \in {"none", "minted"}
        PROVE  session'[r][v] = session[r][v]
    <3>1. ~(r = cmd[c].rnd /\ v = cmd[c].at)
      BY <2>2, <2>5
    <3> QED BY <2>1, <2>5, <3>1 DEF FilesOK
  <2> QED BY <2>4, <2>5
<1> QED BY <1>1, <1>2 DEF Reap, Drain

LEMMA TypingInit == Init => Typing
<1> SUFFICES ASSUME Init PROVE Typing
  OBVIOUS
<1>1. TypeOK
  BY IdleTyped DEF Init, TypeOK, Completion, NoCompletion, Digest, Receipt, Slots, Rounds
<1>2. ProcessOK
  BY DEF Init, ProcessOK, FieldsOK, Idle
<1> QED BY <1>1, <1>2 DEF Typing

LEMMA TypingStep == Typing /\ [Next]_vars => Typing'
<1> SUFFICES ASSUME Typing, [Next]_vars PROVE Typing'
  OBVIOUS
<1> USE FilesTyped
<1>1. ASSUME NEW c \in Cmd, New(c) PROVE Typing'
  <2> DEFINE p == [Idle EXCEPT !.pc = "create", !.kind = "new", !.conf = live]
  <2>1. p \in Process
    BY IdleTyped DEF Process, PCs, Kinds, FilesOK
  <2>3. p.pc = "create" /\ p.kind = "new" /\ p.conf = live /\ p.rnd = 0
    BY DEF Idle
  <2> HIDE DEF p
  <2>2. FieldsOK(p, round)
    BY <2>3 DEF FieldsOK, FilesOK
  <2>4. Move(c, p)
    BY <1>1 DEF New, p
  <2> QED BY <1>1, <2>1, <2>2, <2>4, LocalTyping DEF New, FilesOK
<1>19. ASSUME NEW c \in Cmd, Create(c) PROVE Typing'
  <2> DEFINE p == [cmd[c] EXCEPT !.pc = "lock", !.rnd = 1]
  <2>1. p \in Process
    <3>1. 1 \in 0..MaxRound /\ "lock" \in PCs
      BY DEF PCs
    <3> QED BY <3>1 DEF Process
  <2>2. FilesOK' /\ round' \in round..MaxRound
    BY <1>19 DEF Create, FilesOK
  <2>3. FieldsOK(p, round')
    BY <1>19 DEF FieldsOK, ProcessOK, Create, FilesOK, Process
  <2> QED BY <1>19, <2>1, <2>2, <2>3, CommandTyping DEF Create
<1>2. ASSUME NEW c \in Cmd, Resume(c) PROVE Typing'
  <2> DEFINE p == [Idle EXCEPT !.pc = "lock", !.kind = "resume", !.conf = live]
  <2>1. p \in Process
    BY IdleTyped DEF Process, PCs, Kinds, FilesOK
  <2>2. FieldsOK(p, round)
    BY <1>2 DEF FieldsOK, FilesOK, Idle, Resume
  <2> QED BY <1>2, <2>1, <2>2, LocalTyping DEF Resume, FilesOK
<1>21. ASSUME NEW c \in Cmd, Recover(c) PROVE Typing'
  <2> DEFINE p == [Idle EXCEPT !.pc = "probe", !.kind = "recover", !.conf = live,
                               !.rnd = round]
  <2>1. p \in Process
    BY IdleTyped DEF Process, PCs, Kinds, FilesOK
  <2>2. FieldsOK(p, round)
    BY <1>21 DEF FieldsOK, FilesOK, Idle, Recover
  <2> QED BY <1>21, <2>1, <2>2, LocalTyping DEF Recover, FilesOK
<1>22. ASSUME NEW c \in Cmd, List(c) PROVE Typing'
  <2> DEFINE S == SlotDirs(cmd[c].rnd)
             p == [cmd[c] EXCEPT !.pc = "look", !.seen = Unread(S)]
  <2>1. p \in Process
    <3>1. "look" \in PCs /\ Unread(S) \in [Slots -> Marks]
      BY DEF PCs, Unread, Marks
    <3> QED BY <3>1 DEF Process
  <2>2. FieldsOK(p, round)
    BY <1>22 DEF FieldsOK, ProcessOK, List, Process
  <2> QED BY <1>22, <2>1, <2>2, LocalTyping DEF List, FilesOK
<1>23. ASSUME NEW c \in Cmd, Advise(c) PROVE Typing'
  <2>1. CASE Finish(c)
    BY <1>23, <2>1, FinishTyping DEF Advise, FilesOK
  <2>2. CASE ~Finish(c)
    <3> DEFINE p == [Idle EXCEPT !.pc = "lock", !.kind = cmd[c].kind,
                                 !.conf = cmd[c].conf]
    <3>1. p \in Process
      BY IdleTyped DEF Process, PCs
    <3>2. cmd[c].pc = "look"
      BY <1>23 DEF Advise, Advising
    <3>3. cmd[c].kind = "recover"
      BY <3>2 DEF ProcessOK, FieldsOK
    <3>4. FieldsOK(p, round)
      BY <3>2, <3>3 DEF FieldsOK, ProcessOK, Idle, FilesOK
    <3>5. Move(c, p) /\ holder' = holder
      BY <1>23, <2>2 DEF Advise
    <3> QED BY <1>23, <3>1, <3>4, <3>5, LocalTyping DEF Advise, FilesOK
  <2> QED BY <2>1, <2>2
<1>3. ASSUME NEW c \in Cmd, Acquire(c) PROVE Typing'
  <2> DEFINE p == [cmd[c] EXCEPT !.pc = AfterLock[cmd[c].kind],
                                 !.rnd = IF cmd[c].kind = "recover" THEN round ELSE @]
  <2>1. cmd[c].kind \in {"new", "resume", "recover"} /\ FieldsOK(cmd[c], round)
    BY <1>3 DEF Acquire, ProcessOK, FieldsOK
  <2>2. AfterLock[cmd[c].kind] \in PCs
    BY <2>1 DEF AfterLock, PCs
  <2>3. p \in Process
    BY <2>2 DEF Process, FilesOK
  <2>4. FieldsOK(p, round)
    BY <1>3, <2>1 DEF FieldsOK, Acquire, AfterLock, Process, FilesOK
  <2> QED BY <1>3, <2>3, <2>4, LocalTyping DEF Acquire, FilesOK
<1>4. ASSUME NEW c \in Cmd, Busy(c) \/ Cooldown(c) \/ Fail(c) \/ Abort(c) PROVE Typing'
  <2>1. aborts' \in 0..MaxAborts
    BY <1>4 DEF Busy, Cooldown, Fail, Abort, FilesOK
  <2> QED BY <1>4, <2>1, FinishTyping DEF Busy, Cooldown, Fail, Abort, FilesOK
<1>5. ASSUME NEW c \in Cmd, Bump(c) PROVE Typing'
  <2> DEFINE p == [cmd[c] EXCEPT !.pc = "health", !.rnd = round + 1]
  <2>1. p \in Process
    <3>1. round + 1 \in 0..MaxRound /\ "health" \in PCs
      BY <1>5 DEF Bump, FilesOK, PCs
    <3> QED BY <3>1 DEF Process
  <2>2. FilesOK' /\ round' \in round..MaxRound
    BY <1>5 DEF Bump, FilesOK
  <2>3. FieldsOK(p, round')
    BY <1>5 DEF FieldsOK, ProcessOK, Bump, FilesOK, Process
  <2> QED BY <1>5, <2>1, <2>2, <2>3, CommandTyping DEF Bump
<1>6. ASSUME NEW c \in Cmd, Healthy(c) PROVE Typing'
  <2> DEFINE p == [cmd[c] EXCEPT !.pc = "render"]
  <2>1. p \in Process
    BY DEF Process, PCs
  <2>2. FieldsOK(p, round)
    BY <1>6 DEF FieldsOK, ProcessOK, Healthy, Process
  <2> QED BY <1>6, <2>1, <2>2, LocalTyping DEF Healthy, FilesOK
<1>7. ASSUME NEW c \in Cmd, Render(c) PROVE Typing'
  <2>1. Step(cmd[c], "mint") \in Process /\ FieldsOK(Step(cmd[c], "mint"), round)
    BY <1>7, StepTyped DEF Render, ProcessOK, FieldsOK, PCs
  <2>2. verdict' \in [Rounds -> [Slots -> {"none", "null", "approve", "reject"}]]
    BY <1>7 DEF Render, FilesOK
  <2> QED BY <1>7, <2>1, <2>2, LocalTyping DEF Render, FilesOK
<1>24. ASSUME NEW c \in Cmd, Mint(c) PROVE Typing'
  <2>1. Step(cmd[c], "spawn") \in Process /\ FieldsOK(Step(cmd[c], "spawn"), round)
    BY <1>24, StepTyped DEF Mint, ProcessOK, FieldsOK, PCs
  <2>2. session' \in [Rounds -> [Slots -> Sessions]]
    BY <1>24 DEF Mint, FilesOK
  <2> QED BY <1>24, <2>1, <2>2, LocalTyping DEF Mint, FilesOK
<1>8. ASSUME NEW c \in Cmd, Launch(c) PROVE Typing'
  <2>1. Step(cmd[c], "gather") \in Process /\ FieldsOK(Step(cmd[c], "gather"), round)
    BY <1>8, StepTyped DEF Launch, ProcessOK, FieldsOK, PCs
  <2>2. session' \in [Rounds -> [Slots -> Sessions]]
    BY <1>8 DEF Launch, FilesOK
  <2> QED BY <1>8, <2>1, <2>2, LocalTyping DEF Launch, FilesOK
<1>9. ASSUME NEW c \in Cmd, Reap(c) \/ Timeout(c) \/ Drain(c) PROVE Typing'
  <2>1. PICK p \in Process :
          /\ Move(c, p)
          /\ cmd[c].pc \in {"gather", "drain"} /\ p.pc \in {"gather", "drain", "read"}
          /\ p.kind = cmd[c].kind /\ p.conf = cmd[c].conf /\ p.rnd = cmd[c].rnd
    BY <1>9, GatherStep
  <2>2. FieldsOK(p, round)
    BY <2>1 DEF ProcessOK, FieldsOK
  <2>3. session' \in [Rounds -> [Slots -> Sessions]]
    BY <1>9, GatherSessions
  <2>4. UNCHANGED <<live, created, round, verdict, receipts, completion, holder,
                    aborts, edits>>
    BY <1>9 DEF Reap, Timeout, Drain
  <2> QED BY <2>1, <2>2, <2>3, <2>4, LocalTyping DEF FilesOK
<1>10. ASSUME NEW c \in Cmd, Scan(c) PROVE Typing'
  <2>1. PICK S : Move(c, [cmd[c] EXCEPT !.pc = "read", !.seen = Unread(S)])
    BY <1>10 DEF Scan
  <2> DEFINE p == [cmd[c] EXCEPT !.pc = "read", !.seen = Unread(S)]
  <2>2. p \in Process
    <3>1. "read" \in PCs /\ Unread(S) \in [Slots -> Marks]
      BY DEF PCs, Unread, Marks
    <3> QED BY <3>1 DEF Process
  <2>3. FieldsOK(p, round)
    BY <1>10 DEF FieldsOK, ProcessOK, Scan, Process
  <2> QED BY <1>10, <2>1, <2>2, <2>3, LocalTyping DEF Scan, FilesOK
<1>11. ASSUME NEW c \in Cmd, NEW v \in Slots, Read(c, v) PROVE Typing'
  <2> DEFINE x == IF verdict[cmd[c].rnd][v] = "none" THEN "null" ELSE verdict[cmd[c].rnd][v]
             p == [cmd[c] EXCEPT !.seen[v] = x]
  <2>1. cmd[c].rnd \in Rounds
    BY <1>11 DEF Read, ProcessOK, FieldsOK, Process, Rounds
  <2>2. x \in Marks
    BY <2>1 DEF FilesOK, Marks
  <2>3. p \in Process
    BY <2>2 DEF Process
  <2>4. FieldsOK(p, round)
    BY <1>11 DEF FieldsOK, ProcessOK, Process
  <2> QED BY <1>11, <2>3, <2>4, LocalTyping DEF Read, FilesOK
<1>12. ASSUME NEW c \in Cmd, Pass(c) PROVE Typing'
  <2> DEFINE p == [cmd[c] EXCEPT !.pc = "write", !.head = receipts]
  <2>1. p \in Process
    <3>1. "write" \in PCs /\ receipts \in SUBSET Receipt
      BY DEF PCs, FilesOK
    <3> QED BY <3>1 DEF Process
  <2>2. FieldsOK(p, round)
    BY <1>12 DEF FieldsOK, ProcessOK, Pass, AllRead, Process
  <2> QED BY <1>12, <2>1, <2>2, LocalTyping DEF Pass, FilesOK
<1>13. ASSUME NEW c \in Cmd, Poll(c) PROVE Typing'
  <2> DEFINE p == [cmd[c] EXCEPT !.pc = "scan", !.seen = Unread({})]
  <2>1. p \in Process
    <3>1. "scan" \in PCs /\ Unread({}) \in [Slots -> Marks]
      BY DEF PCs, Unread, Marks
    <3> QED BY <3>1 DEF Process
  <2>2. FieldsOK(p, round)
    BY <1>13 DEF FieldsOK, ProcessOK, Poll, AllRead, Process
  <2> QED BY <1>13, <2>1, <2>2, LocalTyping DEF Poll, FilesOK
<1>14. ASSUME NEW c \in Cmd, Expire(c) PROVE Typing'
  <2> DEFINE p == [cmd[c] EXCEPT !.due = TRUE]
  <2>1. p \in Process
    BY DEF Process
  <2>2. FieldsOK(p, round)
    BY <1>14 DEF Expire, FieldsOK, ProcessOK, Process
  <2> QED BY <1>14, <2>1, <2>2, LocalTyping DEF Expire, FilesOK
<1>15. ASSUME NEW c \in Cmd, Write(c) PROVE Typing'
  <2>1. completion' \in Completion
    <3>1. cmd[c].conf.n \in 0..MaxSlot
      BY <1>15, ConfigTypes DEF Write, ProcessOK, FieldsOK
    <3> QED BY <1>15, <3>1 DEF Write, Completion, Matching, Digest, Process
  <2> QED BY <1>15, <2>1, FinishTyping DEF Write, FilesOK
<1>16. ASSUME NEW r \in Rounds, NEW v \in Slots, Verifier(r, v) PROVE Typing'
  <2>1. receipts' \subseteq Receipt
    <3>1. receipts' = receipts \/ receipts' = receipts \cup {<<r, v>>}
      BY <1>16 DEF Verifier, Register, AppendReceipt, Die
    <3>2. receipts \subseteq Receipt /\ <<r, v>> \in Receipt
      BY DEF FilesOK, Receipt
    <3> QED BY <3>1, <3>2
  <2>2. verdict' \in [Rounds -> [Slots -> {"none", "null", "approve", "reject"}]]
    <3>1. verdict' = verdict
          \/ \E b \in {"approve", "reject"} : verdict' = [verdict EXCEPT ![r][v] = b]
      BY <1>16 DEF Verifier, Register, AppendReceipt, Die
    <3>2. CASE verdict' = verdict
      BY <3>2 DEF FilesOK
    <3>3. ASSUME NEW b \in {"approve", "reject"}, verdict' = [verdict EXCEPT ![r][v] = b]
          PROVE  verdict' \in [Rounds -> [Slots -> {"none", "null", "approve", "reject"}]]
      BY <3>3 DEF FilesOK
    <3> QED BY <3>1, <3>2, <3>3
  <2>3. session' \in [Rounds -> [Slots -> Sessions]]
    <3>1. \E s \in {"signed", "ended"} : session' = [session EXCEPT ![r][v] = s]
      BY <1>16 DEF Verifier, Register, AppendReceipt, Die
    <3> QED BY <3>1 DEF FilesOK
  <2>4. UNCHANGED <<live, created, round, completion, holder, cmd, aborts, edits>>
    BY <1>16 DEF Verifier, Register, AppendReceipt, Die
  <2> QED BY <2>1, <2>2, <2>3, <2>4, OthersTyping DEF FilesOK
<1>17. CASE EditConfig
  BY <1>17, OthersTyping DEF EditConfig, FilesOK
<1>18. CASE UNCHANGED vars
  BY <1>18, OthersTyping DEF vars, FilesOK
<1> QED
  BY <1>1, <1>2, <1>3, <1>4, <1>5, <1>6, <1>7, <1>8, <1>9, <1>10, <1>11, <1>12,
     <1>13, <1>14, <1>15, <1>16, <1>17, <1>18, <1>19, <1>21, <1>22, <1>23, <1>24
  DEF Next, Start, Command, Probe, Locking, RunRound, Settle

-----------------------------------------------------------------------------
\* Every variable holds a value of its kind in every reachable state: NEW,
\* RESUME, RECOVER, the verifiers and kills only ever write well-formed files.
THEOREM TypeCorrect == Spec => []TypeOK
<1>1. Typing => TypeOK
  BY DEF Typing
<1> QED BY <1>1, TypingInit, TypingStep, PTL DEF Spec

-----------------------------------------------------------------------------
(***************************************************************************)
(* The goal lock                                                           *)
(***************************************************************************)

\* What a step of a command does to the lock: it takes it free, gives up, or
\* moves on inside or outside its critical section.
LEMMA LockStep == Typing /\ OneAtATime /\ [Next]_vars => OneAtATime'
<1> SUFFICES ASSUME Typing, OneAtATime, [Next]_vars PROVE OneAtATime'
  OBVIOUS
<1> USE FilesTyped
<1>1. ASSUME NEW c \in Cmd, Finish(c) PROVE OneAtATime'
  BY <1>1, IdleTyped, MoveTyped DEF OneAtATime, Finish, Critical, Idle, FilesOK
<1>2. ASSUME NEW c \in Cmd, Acquire(c) PROVE OneAtATime'
  <2>1. cmd[c].kind \in {"new", "resume", "recover"}
    BY <1>2 DEF Acquire, ProcessOK, FieldsOK
  <2>2. AfterLock[cmd[c].kind] \in {"health", "bump", "scan"}
    BY <2>1 DEF AfterLock
  <2>3. cmd'[c].pc = AfterLock[cmd[c].kind] /\ \A d \in Cmd : d # c => cmd'[d] = cmd[d]
    BY <1>2 DEF Acquire, Move, Process
  <2> QED BY <1>2, <2>2, <2>3 DEF OneAtATime, Acquire, Critical, PCs
<1>3. ASSUME NEW c \in Cmd, \A d \in Cmd : d # c => cmd'[d] = cmd[d], holder' = holder,
             cmd'[c].pc \in Critical <=> cmd[c].pc \in Critical
      PROVE  OneAtATime'
  BY <1>3 DEF OneAtATime
<1>4. ASSUME NEW c \in Cmd, Start(c) \/ Create(c) PROVE OneAtATime'
  <2>1. cmd'[c].pc \in {"create", "probe", "lock"} /\ cmd[c].pc \in {"idle", "create"}
    <3>1. CASE Start(c)
      BY <3>1 DEF Start, New, Resume, Recover, Move, Idle
    <3>2. CASE Create(c)
      BY <3>2 DEF Create, Move, Process
    <3> QED BY <1>4, <3>1, <3>2
  <2>2. \A d \in Cmd : d # c => cmd'[d] = cmd[d]
    BY <1>4 DEF Start, New, Create, Resume, Recover, Move
  <2> QED BY <1>3, <1>4, <2>1, <2>2 DEF Start, New, Create, Resume, Recover, Critical
<1>10. ASSUME NEW c \in Cmd, List(c) \/ Advise(c) PROVE OneAtATime'
  <2>1. CASE Finish(c)
    BY <1>1, <2>1
  <2>2. CASE ~Finish(c)
    <3>1. /\ cmd'[c].pc \in {"look", "lock"} /\ cmd[c].pc \in {"probe", "look"}
          /\ holder' = holder
      <4>1. CASE List(c)
        BY <4>1 DEF List, Move, Process
      <4>2. CASE Advise(c)
        BY <2>2, <4>2 DEF Advise, Advising, Move, Idle
      <4> QED BY <1>10, <4>1, <4>2
    <3>2. \A d \in Cmd : d # c => cmd'[d] = cmd[d]
      BY <1>10, <2>2 DEF List, Advise, Move
    <3> QED BY <1>3, <3>1, <3>2 DEF Critical
  <2> QED BY <2>1, <2>2
<1>5. ASSUME NEW c \in Cmd, Bump(c) \/ Healthy(c) \/ Pass(c) \/ Poll(c) \/ Scan(c)
      PROVE  OneAtATime'
  <2>1. /\ cmd'[c].pc \in {"health", "render", "write", "scan", "read"}
        /\ cmd[c].pc \in {"bump", "health", "read", "scan"}
    <3>1. CASE Bump(c) \/ Healthy(c)
      BY <3>1 DEF Bump, Healthy, Move, Process
    <3>2. CASE Pass(c) \/ Poll(c)
      BY <3>2 DEF Pass, Poll, Move, AllRead, Process
    <3>3. CASE Scan(c)
      BY <3>3 DEF Scan, Move, Process
    <3> QED BY <1>5, <3>1, <3>2, <3>3
  <2>2. \A d \in Cmd : d # c => cmd'[d] = cmd[d]
    BY <1>5 DEF Bump, Healthy, Pass, Poll, Scan, Move
  <2> QED BY <1>3, <1>5, <2>1, <2>2 DEF Bump, Healthy, Pass, Poll, Scan, Critical, PCs
<1>6. ASSUME NEW c \in Cmd, Expire(c) \/ \E v \in Slots : Read(c, v) PROVE OneAtATime'
  <2>1. cmd'[c].pc = cmd[c].pc
    BY <1>6 DEF Expire, Read, Move, Process
  <2>2. \A d \in Cmd : d # c => cmd'[d] = cmd[d]
    BY <1>6 DEF Expire, Read, Move
  <2> QED BY <1>3, <1>6, <2>1, <2>2 DEF Expire, Read
<1>7. ASSUME NEW c \in Cmd, Render(c) \/ Mint(c) \/ Launch(c) PROVE OneAtATime'
  <2>1. cmd[c].conf \in Configs /\ cmd[c].pc \in {"render", "mint", "spawn"}
    BY <1>7 DEF Render, Mint, Launch, ProcessOK, FieldsOK
  <2>2. PICK q \in {"mint", "spawn", "gather"} : Move(c, Step(cmd[c], q))
    BY <1>7 DEF Render, Mint, Launch
  <2>3. Step(cmd[c], q).pc \in {"render", "mint", "spawn", "gather"}
    BY <2>1, StepTyped DEF PCs
  <2>4. \A d \in Cmd : d # c => cmd'[d] = cmd[d]
    BY <2>2 DEF Move
  <2>5. cmd'[c].pc \in {"render", "mint", "spawn", "gather"}
    BY <2>2, <2>3 DEF Move
  <2> QED BY <1>3, <1>7, <2>1, <2>4, <2>5 DEF Render, Mint, Launch, Critical, PCs
<1>8. ASSUME NEW c \in Cmd, Reap(c) \/ Timeout(c) \/ Drain(c) PROVE OneAtATime'
  <2>1. PICK p \in Process :
          /\ Move(c, p)
          /\ cmd[c].pc \in {"gather", "drain"} /\ p.pc \in {"gather", "drain", "read"}
    BY <1>8, GatherStep
  <2>2. cmd'[c].pc \in {"gather", "drain", "read"} /\ \A d \in Cmd : d # c => cmd'[d] = cmd[d]
    BY <2>1 DEF Move
  <2>3. holder' = holder
    BY <1>8 DEF Reap, Timeout, Drain
  <2> QED BY <1>3, <2>1, <2>2, <2>3 DEF Critical, PCs
<1>9. ASSUME UNCHANGED <<cmd, holder>> PROVE OneAtATime'
  BY <1>9 DEF OneAtATime
<1> QED
  BY <1>1, <1>2, <1>4, <1>5, <1>6, <1>7, <1>8, <1>9, <1>10
  DEF Next, Command, Probe, Locking, RunRound, Settle, Verifier, Register,
      AppendReceipt, Die, EditConfig, Busy, Cooldown, Fail, Write, Abort, vars

LEMMA LockInit == Init => OneAtATime
BY DEF Init, OneAtATime, Idle, Critical

\* NEW, RESUME and RECOVER never overlap in what they do to a goal.
THEOREM MutualExclusion == Spec => []OneAtATime
<1> QED BY TypingInit, TypingStep, LockInit, LockStep, PTL DEF Spec

-----------------------------------------------------------------------------
(***************************************************************************)
(* Evidence: what a process has read is still on disk when it certifies    *)
(***************************************************************************)

\* What p has read of the verdicts vd, and, before it writes, that it won.
Evidence(p, vd) ==
  /\ p.pc \in {"look", "read", "write"} =>
       \A v \in Slots : p.seen[v] \in {"approve", "reject"} => vd[p.rnd][v] = p.seen[v]
  /\ p.pc = "write" => Cardinality(Matching(p)) >= p.conf.n

EvidenceOK == \A c \in Cmd : Evidence(cmd[c], verdict)

\* A registered verdict is never changed by anyone.
LEMMA VerdictsFinal ==
  Typing /\ [Next]_vars =>
    \A r \in Rounds, v \in Slots :
      verdict[r][v] \in {"approve", "reject"} => verdict'[r][v] = verdict[r][v]
<1> SUFFICES ASSUME Typing, [Next]_vars, NEW r \in Rounds, NEW v \in Slots,
                    verdict[r][v] \in {"approve", "reject"}
             PROVE  verdict'[r][v] = verdict[r][v]
  OBVIOUS
<1>1. ASSUME NEW c \in Cmd, Render(c) PROVE verdict'[r][v] = verdict[r][v]
  BY <1>1, FilesTyped DEF Render, FilesOK
<1>2. ASSUME NEW q \in Rounds, NEW u \in Slots, Register(q, u)
      PROVE  verdict'[r][v] = verdict[r][v]
  BY <1>2, FilesTyped DEF Register, FilesOK
<1>3. CASE UNCHANGED verdict
  BY <1>3
<1> QED
  BY <1>1, <1>2, <1>3, ZenonT(60)
  DEF Next, Start, Command, Probe, Locking, RunRound, Settle, Verifier, vars,
      New, Create, Resume, Recover, List, Advise, Acquire, Busy, Bump, Cooldown, Healthy, Mint, Launch, Reap,
      Timeout, Drain, Scan, Read, Pass, Fail, Poll, Expire, Write, AppendReceipt, Die,
      Abort, EditConfig

\* Evidence outlives any step of the others.
LEMMA EvidenceKept ==
  ASSUME Typing, [Next]_vars, NEW p \in Process, FieldsOK(p, round), Evidence(p, verdict)
  PROVE  Evidence(p, verdict')
<1>1. p.pc \in {"look", "read", "write"} => p.rnd \in Rounds
  BY FilesTyped DEF FieldsOK, Process, Rounds, FilesOK
<1> QED BY <1>1, VerdictsFinal DEF Evidence

\* Only the record of the process that moves needs new evidence.
LEMMA EvidenceMove ==
  ASSUME Typing, [Next]_vars, EvidenceOK, NEW c \in Cmd,
         \A d \in Cmd : d # c => cmd'[d] = cmd[d],
         Evidence(cmd'[c], verdict')
  PROVE  EvidenceOK'
<1>1. \A d \in Cmd : cmd[d] \in Process /\ FieldsOK(cmd[d], round) /\ Evidence(cmd[d], verdict)
  BY FilesTyped DEF ProcessOK, EvidenceOK
<1>2. \A d \in Cmd : Evidence(cmd[d], verdict')
  BY <1>1, EvidenceKept
<1> QED BY <1>2 DEF EvidenceOK

LEMMA EvidenceStep == Typing /\ EvidenceOK /\ [Next]_vars => EvidenceOK'
<1> SUFFICES ASSUME Typing, EvidenceOK, [Next]_vars PROVE EvidenceOK'
  OBVIOUS
<1> USE FilesTyped
<1>1. ASSUME NEW c \in Cmd, \A d \in Cmd : d # c => cmd'[d] = cmd[d],
             cmd'[c].pc \notin {"look", "read", "write"}
      PROVE  EvidenceOK'
  BY <1>1, EvidenceMove DEF Evidence
<1>2. ASSUME NEW c \in Cmd, Start(c) \/ Create(c) \/ Bump(c) \/ Healthy(c) \/ Poll(c)
      PROVE  EvidenceOK'
  <2>1. cmd'[c].pc \in {"create", "probe", "lock", "health", "render", "scan"}
    <3>1. CASE Start(c)
      BY <3>1 DEF Start, New, Resume, Recover, Move, Idle
    <3>2. CASE Create(c) \/ Bump(c)
      BY <3>2 DEF Create, Bump, Move, Process
    <3>3. CASE Healthy(c) \/ Poll(c)
      BY <3>3 DEF Healthy, Poll, Move, Process
    <3> QED BY <1>2, <3>1, <3>2, <3>3
  <2>2. \A d \in Cmd : d # c => cmd'[d] = cmd[d]
    BY <1>2 DEF Start, New, Create, Resume, Recover, Bump, Healthy, Poll, Move
  <2> QED BY <1>1, <2>1, <2>2
<1>3. ASSUME NEW c \in Cmd, Acquire(c) PROVE EvidenceOK'
  <2>1. cmd[c].kind \in {"new", "resume", "recover"}
    BY <1>3 DEF Acquire, ProcessOK, FieldsOK
  <2>2. AfterLock[cmd[c].kind] \in {"health", "bump", "scan"}
    BY <2>1 DEF AfterLock
  <2>3. cmd'[c].pc = AfterLock[cmd[c].kind] /\ \A d \in Cmd : d # c => cmd'[d] = cmd[d]
    BY <1>3 DEF Acquire, Move, Process
  <2> QED BY <1>1, <2>2, <2>3
<1>4. ASSUME NEW c \in Cmd, Finish(c) PROVE EvidenceOK'
  <2>1. cmd'[c].pc = "idle" /\ \A d \in Cmd : d # c => cmd'[d] = cmd[d]
    BY <1>4 DEF Finish, Move, Idle
  <2> QED BY <1>1, <2>1
<1>5. ASSUME NEW c \in Cmd, Render(c) \/ Mint(c) \/ Launch(c) PROVE EvidenceOK'
  <2>1. cmd[c].conf \in Configs /\ cmd[c].pc \in {"render", "mint", "spawn"}
    BY <1>5 DEF Render, Mint, Launch, ProcessOK, FieldsOK
  <2>2. PICK q \in {"mint", "spawn", "gather"} : Move(c, Step(cmd[c], q))
    BY <1>5 DEF Render, Mint, Launch
  <2>3. Step(cmd[c], q).pc \in {"render", "mint", "spawn", "gather"}
    BY <2>1, StepTyped DEF PCs
  <2>4. cmd'[c].pc \in {"render", "mint", "spawn", "gather"}
        /\ \A d \in Cmd : d # c => cmd'[d] = cmd[d]
    BY <2>2, <2>3 DEF Move
  <2> QED BY <1>1, <2>4
<1>6. ASSUME NEW c \in Cmd, Reap(c) \/ Timeout(c) \/ Drain(c) PROVE EvidenceOK'
  <2>1. PICK p \in Process :
          /\ Move(c, p) /\ p.pc \in {"gather", "drain", "read"}
          /\ p.pc = "read" => \A v \in Slots : p.seen[v] \in {"unread", "skip"}
    BY <1>6, GatherStep
  <2>2. cmd'[c] = p /\ \A d \in Cmd : d # c => cmd'[d] = cmd[d]
    BY <2>1 DEF Move
  <2> QED BY <1>1, <2>1, <2>2, EvidenceMove DEF Evidence
<1>12. ASSUME NEW c \in Cmd, Advise(c) PROVE EvidenceOK'
  <2>1. cmd'[c].pc \in {"idle", "lock"} /\ \A d \in Cmd : d # c => cmd'[d] = cmd[d]
    <3>1. CASE Move(c, [Idle EXCEPT !.pc = "lock", !.kind = cmd[c].kind, !.conf = cmd[c].conf])
      BY <3>1 DEF Move, Idle
    <3>2. CASE Finish(c)
      BY <3>2 DEF Finish, Move, Idle
    <3> QED BY <1>12, <3>1, <3>2 DEF Advise
  <2> QED BY <1>1, <2>1
<1>7. ASSUME NEW c \in Cmd, Scan(c) \/ List(c) PROVE EvidenceOK'
  <2>1. /\ cmd'[c].pc \in {"look", "read"}
        /\ \A v \in Slots : cmd'[c].seen[v] \in {"unread", "skip"}
    <3>1. \E q \in {"look", "read"} :
            \E S : Move(c, [cmd[c] EXCEPT !.pc = q, !.seen = Unread(S)])
      BY <1>7 DEF Scan, List
    <3>3. PICK q \in {"look", "read"} :
            \E S : Move(c, [cmd[c] EXCEPT !.pc = q, !.seen = Unread(S)])
      BY <3>1
    <3>4. PICK S : Move(c, [cmd[c] EXCEPT !.pc = q, !.seen = Unread(S)])
      BY <3>3
    <3>2. cmd'[c].pc = q /\ cmd'[c].seen = Unread(S)
      BY <3>4 DEF Move, Process
    <3> QED BY <3>2 DEF Unread
  <2>2. \A d \in Cmd : d # c => cmd'[d] = cmd[d]
    BY <1>7 DEF Scan, List, Move
  <2> QED BY <2>1, <2>2, EvidenceMove DEF Evidence
<1>8. ASSUME NEW c \in Cmd, NEW v \in Slots, Read(c, v) PROVE EvidenceOK'
  <2> DEFINE p == cmd[c]
             x == IF verdict[p.rnd][v] = "none" THEN "null" ELSE verdict[p.rnd][v]
  <2>1. /\ cmd'[c].pc = p.pc /\ cmd'[c].rnd = p.rnd /\ p.pc \in {"look", "read"}
        /\ cmd'[c].seen = [p.seen EXCEPT ![v] = x] /\ verdict' = verdict
    BY <1>8 DEF Read, Move, Process
  <2>2. \A d \in Cmd : d # c => cmd'[d] = cmd[d]
    BY <1>8 DEF Read, Move
  <2>3. p.seen \in [Slots -> Marks] /\ Evidence(p, verdict)
    BY DEF Process, EvidenceOK
  <2>4. Evidence(cmd'[c], verdict')
    BY <2>1, <2>3 DEF Evidence
  <2> QED BY <2>2, <2>4, EvidenceMove
<1>9. ASSUME NEW c \in Cmd, Pass(c) PROVE EvidenceOK'
  <2> DEFINE p == cmd[c]
  <2>1. /\ cmd'[c] = [p EXCEPT !.pc = "write", !.head = receipts]
        /\ p.pc = "read" /\ verdict' = verdict /\ Passed(p)
    BY <1>9 DEF Pass, AllRead, Move
  <2>2. /\ cmd'[c].pc = "write" /\ cmd'[c].rnd = p.rnd /\ cmd'[c].seen = p.seen
        /\ cmd'[c].conf = p.conf
    BY <2>1 DEF Process
  <2>3. Matching(cmd'[c]) = Matching(p)
    BY <2>2 DEF Matching
  <2>4. \A d \in Cmd : d # c => cmd'[d] = cmd[d]
    BY <1>9 DEF Pass, Move
  <2>5. Evidence(p, verdict)
    BY DEF EvidenceOK
  <2>6. Evidence(cmd'[c], verdict')
    BY <2>1, <2>2, <2>3, <2>5 DEF Evidence, Passed
  <2> QED BY <2>4, <2>6, EvidenceMove
<1>10. ASSUME NEW c \in Cmd, Expire(c) PROVE EvidenceOK'
  <2>1. /\ cmd'[c].pc = cmd[c].pc /\ cmd'[c].rnd = cmd[c].rnd /\ cmd'[c].seen = cmd[c].seen
        /\ cmd[c].pc # "write" /\ verdict' = verdict
    BY <1>10 DEF Expire, Move, Process
  <2>2. \A d \in Cmd : d # c => cmd'[d] = cmd[d]
    BY <1>10 DEF Expire, Move
  <2>3. Evidence(cmd'[c], verdict')
    BY <2>1 DEF Evidence, EvidenceOK
  <2> QED BY <2>2, <2>3, EvidenceMove
<1>11. ASSUME UNCHANGED cmd PROVE EvidenceOK'
  <2>1. \A d \in Cmd : cmd[d] \in Process /\ FieldsOK(cmd[d], round) /\ Evidence(cmd[d], verdict)
    BY DEF ProcessOK, EvidenceOK
  <2> QED BY <1>11, <2>1, EvidenceKept DEF EvidenceOK
<1> QED
  BY <1>2, <1>3, <1>4, <1>5, <1>6, <1>7, <1>8, <1>9, <1>10, <1>11, <1>12
  DEF Next, Command, Probe, Locking, RunRound, Settle, Verifier, Register, AppendReceipt,
      Die, EditConfig, Busy, Cooldown, Fail, Write, Abort, vars

LEMMA EvidenceInit == Init => EvidenceOK
BY DEF Init, EvidenceOK, Evidence, Idle

\* What Write puts into completion.json is backed by the verdict files.
LEMMA WriteBacked ==
  ASSUME Typing, EvidenceOK, NEW c \in Cmd, Write(c)
  PROVE  /\ cmd[c].rnd \in Rounds
         /\ completion' = [round |-> cmd[c].rnd, matching |-> Matching(cmd[c]),
                           digest |-> Digest(cmd[c].rnd, Matching(cmd[c]), cmd[c].head),
                           need |-> cmd[c].conf.n]
         /\ Matching(cmd[c]) \subseteq Approvals(cmd[c].rnd)
         /\ Cardinality(Matching(cmd[c])) >= cmd[c].conf.n
         /\ cmd[c].conf.n \in 1..MaxSlot
<1> USE FilesTyped
<1>1. cmd[c].rnd \in Rounds /\ cmd[c].conf \in Configs
  BY DEF Write, ProcessOK, FieldsOK, Process, Rounds
<1>2. cmd[c].conf.n \in 1..MaxSlot
  BY <1>1, ConfigTypes
<1>3. Evidence(cmd[c], verdict) /\ cmd[c].pc = "write"
  BY DEF EvidenceOK, Write
<1>4. Matching(cmd[c]) \subseteq Approvals(cmd[c].rnd)
  BY <1>3 DEF Evidence, Matching, Approvals
<1> QED BY <1>1, <1>2, <1>3, <1>4 DEF Evidence, Write

\* Approvals are never withdrawn.
LEMMA ApprovalsGrow ==
  Typing /\ [Next]_vars => \A r \in Rounds : Approvals(r) \subseteq Approvals(r)'
BY VerdictsFinal DEF Approvals

\* Only Write touches completion.json.
LEMMA CompletionStep ==
  [Next]_vars => completion' = completion \/ \E c \in Cmd : Write(c)
BY ZenonT(60) DEF Next, Start, Command, Probe, Locking, RunRound, Settle, Verifier, vars,
       New, Create, Resume, Recover, List, Advise, Acquire, Busy, Bump, Cooldown, Healthy, Render, Mint, Launch,
       Reap, Timeout, Drain, Scan, Read, Pass, Fail, Poll, Expire, Register, AppendReceipt,
       Die, Abort, EditConfig

LEMMA BackedStep ==
  Typing /\ EvidenceOK /\ CompletionBacked /\ [Next]_vars => CompletionBacked'
<1> SUFFICES ASSUME Typing, EvidenceOK, CompletionBacked, [Next]_vars
             PROVE  CompletionBacked'
  OBVIOUS
<1>1. CASE completion' = completion
  <2>1. ASSUME completion # NoCompletion PROVE CompletionBacked'
    <3>1. PICK r \in Rounds : r = completion.round /\ completion.matching \subseteq Approvals(r)
      BY <2>1 DEF CompletionBacked
    <3>2. completion.matching \subseteq Approvals(r)'
      BY <3>1, ApprovalsGrow
    <3>3. Approvals(completion.round)' = Approvals(r)'
      BY <1>1, <3>1 DEF Approvals
    <3> QED BY <1>1, <2>1, <3>2, <3>3 DEF CompletionBacked
  <2> QED BY <1>1, <2>1 DEF CompletionBacked
<1>2. ASSUME NEW c \in Cmd, Write(c) PROVE CompletionBacked'
  <2>1. PICK r \in Rounds : r = cmd[c].rnd
    BY <1>2, WriteBacked
  <2>2. Matching(cmd[c]) \subseteq Approvals(r)'
    BY <1>2, <2>1, WriteBacked, ApprovalsGrow
  <2>3. /\ completion'.round = r /\ completion'.matching = Matching(cmd[c])
        /\ completion'.need = cmd[c].conf.n
    BY <1>2, <2>1, WriteBacked
  <2>4. Approvals(completion.round)' = Approvals(r)'
    BY <2>3 DEF Approvals
  <2>5. completion'.need >= 1 /\ Cardinality(completion'.matching) >= completion'.need
    BY <1>2, <2>3, WriteBacked
  <2> QED BY <2>2, <2>3, <2>4, <2>5 DEF CompletionBacked
<1> QED BY <1>1, <1>2, CompletionStep

LEMMA BackedInit == Init => CompletionBacked
BY DEF Init, CompletionBacked

\* A completion is always backed by n approvals on disk of its own round.
THEOREM Backed == Spec => []CompletionBacked
<1> QED
  BY TypingInit, TypingStep, EvidenceInit, EvidenceStep, BackedInit, BackedStep, PTL
  DEF Spec

\* What a process that has read all its slots finds decided below n is so: any
\* other process that looks at no other slots finds at most the same approvals.
LEMMA SameApprovals ==
  ASSUME Typing, EvidenceOK, NEW c \in Cmd, NEW d \in Cmd,
         cmd[c].pc = "look", cmd[d].pc = "write", cmd[d].rnd = cmd[c].rnd,
         ReadAll(cmd[c]), Nulls(cmd[c]) = {},
         Looked(cmd[c]) = SlotDirs(cmd[c].rnd)
  PROVE  Matching(cmd[d]) \subseteq Matching(cmd[c])
<1> SUFFICES ASSUME NEW v \in Slots, cmd[d].seen[v] = "approve"
             PROVE  cmd[c].seen[v] = "approve"
  BY DEF Matching
<1>1. Evidence(cmd[c], verdict) /\ Evidence(cmd[d], verdict)
  BY DEF EvidenceOK
<1>2. verdict[cmd[c].rnd][v] = "approve"
  BY <1>1 DEF Evidence
<1>3. cmd[c].seen[v] # "skip"
  BY <1>2 DEF Looked, SlotDirs
<1>4. cmd[c].seen[v] \notin {"unread", "null"}
  BY DEF ReadAll, Nulls
<1>5. cmd[c].seen[v] \in {"approve", "reject"}
  BY <1>3, <1>4, FilesTyped DEF Process, Marks
<1> QED BY <1>1, <1>2, <1>5 DEF Evidence

\* A round that STATUS gives up, having listed all of it, is never certified
\* afterwards by a process that requires as much.
THEOREM ResumeIsFinal == Spec => []ResumeAdviceFinal
<1>1. Typing /\ EvidenceOK => ResumeAdviceFinal
  <2> SUFFICES ASSUME Typing, EvidenceOK, NEW c \in Cmd, NEW d \in Cmd,
                      Advising(cmd[c]), Needs(cmd[c]) = "resume",
                      Looked(cmd[c]) = SlotDirs(cmd[c].rnd),
                      cmd[d].pc = "write", cmd[d].rnd = cmd[c].rnd
               PROVE  cmd[d].conf.n < cmd[c].conf.n
    BY DEF ResumeAdviceFinal
  <2>1. cmd[c].conf.n \in Nat /\ cmd[d].conf.n \in Nat
    BY FilesTyped, ConfigTypes DEF Process, NoConfig
  <2>2. Nulls(cmd[c]) = {} /\ Cardinality(Matching(cmd[c])) < cmd[c].conf.n
    BY DEF Needs, DecidedBelow
  <2>3. IsFiniteSet(Matching(cmd[c]))
    <3>1. IsFiniteSet(Slots)
      BY FS_Interval DEF Slots
    <3> QED BY <3>1, FS_Subset DEF Matching
  <2>4. Cardinality(Matching(cmd[c])) \in Nat
    BY <2>3, FS_CardinalityType
  <2>5. cmd[c].pc = "look" /\ ReadAll(cmd[c])
    BY <2>1, <2>2, <2>4 DEF Advising, Settled
  <2>6. Matching(cmd[d]) \subseteq Matching(cmd[c])
    BY <2>2, <2>5, SameApprovals
  <2>7. /\ Cardinality(Matching(cmd[d])) <= Cardinality(Matching(cmd[c]))
        /\ Cardinality(Matching(cmd[d])) \in Nat
    BY <2>3, <2>6, FS_Subset, FS_CardinalityType
  <2>8. Cardinality(Matching(cmd[d])) >= cmd[d].conf.n
    BY DEF EvidenceOK, Evidence
  <2> QED BY <2>1, <2>2, <2>4, <2>7, <2>8
<1> QED
  BY <1>1, TypingInit, TypingStep, EvidenceInit, EvidenceStep, PTL DEF Spec

-----------------------------------------------------------------------------
(***************************************************************************)
(* Refinement: GoalRound implements GoalCertificate                        *)
(***************************************************************************)

Ballots == [r \in Rounds |-> [v \in Slots |-> Ballot(r, v)]]
Issued  == [round |-> completion.round, matching |-> completion.matching,
            need |-> completion.need]

\* The abstract module counts as this one does.
LEMMA SameCardinality == \A S : Certificate!Cardinality(S) = Cardinality(S)
BY DEF Certificate!Cardinality, Cardinality, Certificate!IsFiniteSet, IsFiniteSet

LEMMA InitRefines == Init => Certificate!Init
BY DEF Init, Certificate!Init, Certificate!NoCertificate, NoCompletion, Ballot

\* Registering a verdict is casting a ballot.
LEMMA RegisterRefines ==
  ASSUME Typing, NEW r \in Rounds, NEW v \in Slots, Register(r, v)
  PROVE  Certificate!Cast(r, v)
<1> USE FilesTyped
<1>1. PICK b \in {"approve", "reject"} : verdict' = [verdict EXCEPT ![r][v] = b]
  BY DEF Register
<1>2. Ballots[r][v] = "none"
  BY DEF Register, Ballots, Ballot
<1>3. Ballots' = [Ballots EXCEPT ![r][v] = b]
  BY <1>1 DEF FilesOK, Ballots, Ballot
<1>4. UNCHANGED Issued
  BY DEF Register, Issued
<1> QED BY <1>2, <1>3, <1>4 DEF Certificate!Cast, Ballots, Issued

\* Writing completion.json is issuing a certificate.
LEMMA WriteRefines ==
  ASSUME Typing, EvidenceOK, NEW c \in Cmd, Write(c)
  PROVE  \E r \in Rounds : Certificate!Certify(r)
<1>1. PICK r \in Rounds : r = cmd[c].rnd
  BY WriteBacked
<1>2. Matching(cmd[c]) \in SUBSET Certificate!Approvals(r)
  BY <1>1, WriteBacked DEF Certificate!Approvals, Approvals, Ballot
<1>3. /\ cmd[c].conf.n \in 1..MaxSlot
      /\ Cardinality(Matching(cmd[c])) >= cmd[c].conf.n
      /\ Issued' = [round |-> r, matching |-> Matching(cmd[c]), need |-> cmd[c].conf.n]
  BY <1>1, WriteBacked DEF Issued
<1>4. UNCHANGED Ballots
  BY DEF Write, Ballots, Ballot
<1>5. Certificate!Certify(r)
  BY <1>2, <1>3, <1>4, SameCardinality DEF Certificate!Certify, Ballots, Issued
<1> QED BY <1>5

\* Nothing else can be seen from outside.
LEMMA OtherRefines ==
  ASSUME Typing, [Next]_vars,
         ~ \E c \in Cmd : Write(c),
         ~ \E r \in Rounds, v \in Slots : Register(r, v)
  PROVE  UNCHANGED <<Ballots, Issued>>
<1> USE FilesTyped
<1>1. UNCHANGED Issued
  BY CompletionStep DEF Issued
<1>2. ASSUME UNCHANGED verdict PROVE UNCHANGED Ballots
  BY <1>2 DEF Ballots, Ballot
<1>3. ASSUME NEW c \in Cmd, Render(c) PROVE UNCHANGED Ballots
  <2>1. \A r \in Rounds, v \in Slots :
          verdict'[r][v] = verdict[r][v] \/ (verdict[r][v] = "none" /\ verdict'[r][v] = "null")
    BY <1>3 DEF Render, FilesOK
  <2> QED BY <2>1 DEF Ballots, Ballot
<1>4. UNCHANGED verdict \/ \E c \in Cmd : Render(c)
  BY ZenonT(60) DEF Next, Start, Command, Probe, Locking, RunRound, Settle, Verifier, vars,
         New, Create, Resume, Recover, List, Advise, Acquire, Busy, Bump, Cooldown, Healthy, Mint, Launch,
         Reap, Timeout, Drain, Scan, Read, Pass, Fail, Poll, Expire, AppendReceipt,
         Die, Abort, EditConfig
<1> QED BY <1>1, <1>2, <1>3, <1>4

\* Every behaviour of the processes and the verifiers is one of the promise.
THEOREM Implements == Spec => CertifiesOnlyBallots
<1>1. Typing /\ EvidenceOK /\ [Next]_vars => [Certificate!Next]_Certificate!vars
  <2> SUFFICES ASSUME Typing, EvidenceOK, [Next]_vars
               PROVE  [Certificate!Next]_Certificate!vars
    OBVIOUS
  <2>1. ASSUME NEW r \in Rounds, NEW v \in Slots, Register(r, v) PROVE Certificate!Next
    BY <2>1, RegisterRefines DEF Certificate!Next
  <2>2. ASSUME NEW c \in Cmd, Write(c) PROVE Certificate!Next
    BY <2>2, WriteRefines DEF Certificate!Next
  <2>3. CASE ~(\E c \in Cmd : Write(c)) /\ ~(\E r \in Rounds, v \in Slots : Register(r, v))
    BY <2>3, OtherRefines DEF Certificate!vars, Ballots, Issued
  <2> QED BY <2>1, <2>2, <2>3
<1> QED
  BY <1>1, InitRefines, TypingInit, TypingStep, EvidenceInit, EvidenceStep, PTL
  DEF Spec, CertifiesOnlyBallots, Certificate!Spec

-----------------------------------------------------------------------------
(***************************************************************************)
(* Refinement: GoalRound implements VerdictLedger                          *)
(***************************************************************************)

Final == {"approve", "reject"}

\* A session that has registered, and a receipt, have a verdict on disk.
SignedOK ==
  /\ \A r \in Rounds, v \in Slots : session[r][v] = "signed" => verdict[r][v] \in Final
  /\ \A x \in receipts : verdict[x[1]][x[2]] \in Final

Owners    == [x \in Receipt |-> IF Ballot(x[1], x[2]) = "none" THEN <<>> ELSE Vote(x)]
Receipted == {Vote(x) : x \in receipts}

\* Only Register signs, and only AppendReceipt adds to the log.
LEMMA SessionsSign ==
  ASSUME Typing, [Next]_vars, NEW r \in Rounds, NEW v \in Slots,
         session'[r][v] = "signed"
  PROVE  session[r][v] = "signed" \/ Register(r, v)
<1> USE FilesTyped
<1>1. CASE UNCHANGED session
  BY <1>1
<1>2. ASSUME NEW c \in Cmd, Mint(c) \/ Launch(c) PROVE session[r][v] = "signed"
  BY <1>2, SMTT(30) DEF Mint, Launch, FilesOK
<1>3. ASSUME NEW c \in Cmd, Timeout(c) PROVE session[r][v] = "signed"
  BY <1>3, SMTT(30) DEF Timeout, FilesOK
<1>4. ASSUME NEW q \in Rounds, NEW u \in Slots, Register(q, u)
      PROVE  session[r][v] = "signed" \/ Register(r, v)
  BY <1>4 DEF Register, FilesOK
<1>5. ASSUME NEW q \in Rounds, NEW u \in Slots, AppendReceipt(q, u) \/ Die(q, u)
      PROVE  session[r][v] = "signed"
  BY <1>5 DEF AppendReceipt, Die, FilesOK
<1> QED
  BY <1>1, <1>2, <1>3, <1>4, <1>5, ZenonT(60)
  DEF Next, Start, Command, Probe, Locking, RunRound, Settle, Verifier, vars,
      New, Create, Resume, Recover, List, Advise, Acquire, Busy, Bump, Cooldown, Healthy, Render, Reap,
      Drain, Scan, Read, Pass, Fail, Poll, Expire, Write, Abort, EditConfig

LEMMA ReceiptsGrow ==
  [Next]_vars => \/ UNCHANGED receipts
                 \/ \E r \in Rounds, v \in Slots : AppendReceipt(r, v)
BY ZenonT(60) DEF Next, Start, Command, Probe, Locking, RunRound, Settle, Verifier, vars,
       New, Create, Resume, Recover, List, Advise, Acquire, Busy, Bump, Cooldown, Healthy, Render, Mint, Launch,
       Reap, Timeout, Drain, Scan, Read, Pass, Fail, Poll, Expire, Write, Register, Die,
       Abort, EditConfig

LEMMA SignedInit == Init => SignedOK
BY DEF Init, SignedOK

LEMMA SignedStep == Typing /\ SignedOK /\ [Next]_vars => SignedOK'
<1> SUFFICES ASSUME Typing, SignedOK, [Next]_vars PROVE SignedOK'
  OBVIOUS
<1> USE FilesTyped DEF Final
<1>1. ASSUME NEW r \in Rounds, NEW v \in Slots, verdict[r][v] \in Final
      PROVE  verdict'[r][v] \in Final
  BY <1>1, VerdictsFinal
<1>2. ASSUME NEW r \in Rounds, NEW v \in Slots, session'[r][v] = "signed"
      PROVE  verdict'[r][v] \in Final
  <2>1. CASE session[r][v] = "signed"
    BY <1>1, <2>1 DEF SignedOK
  <2>2. CASE Register(r, v)
    BY <2>2 DEF Register, FilesOK
  <2> QED BY <1>2, <2>1, <2>2, SessionsSign
<1>3. ASSUME NEW x \in receipts' PROVE verdict'[x[1]][x[2]] \in Final
  <2>1. ASSUME x \in receipts PROVE verdict'[x[1]][x[2]] \in Final
    BY <1>1, <2>1 DEF SignedOK, FilesOK, Receipt
  <2>2. ASSUME NEW r \in Rounds, NEW v \in Slots, AppendReceipt(r, v), x \notin receipts
        PROVE  verdict'[x[1]][x[2]] \in Final
    <3>1. x = <<r, v>> /\ verdict[r][v] \in Final
      BY <1>3, <2>2 DEF AppendReceipt, SignedOK
    <3> QED BY <1>1, <3>1
  <2> QED BY <1>3, <2>1, <2>2, ReceiptsGrow
<1> QED BY <1>2, <1>3 DEF SignedOK

\* The receipts that are there stay the receipts of the same votes.
LEMMA VotesStand ==
  ASSUME Typing, SignedOK, [Next]_vars, NEW x \in receipts
  PROVE  Vote(x)' = Vote(x)
BY VerdictsFinal, FilesTyped DEF SignedOK, Final, FilesOK, Receipt, Vote

LEMMA RegisterOwns ==
  ASSUME Typing, SignedOK, [Next]_vars, NEW r \in Rounds, NEW v \in Slots, Register(r, v)
  PROVE  \E x \in Receipt, c \in Receipt \X Final : Ledger!Register(x, c)
<1> USE FilesTyped
<1>1. PICK b \in Final : verdict' = [verdict EXCEPT ![r][v] = b]
  BY DEF Register, Final
<1> DEFINE x == <<r, v>>
<1>2. x \in Receipt /\ x[1] = r /\ x[2] = v
  BY DEF Receipt
<1>3. Owners[x] = <<>>
  BY <1>2 DEF Register, Owners, Ballot
<1>4. Vote(x)' = <<x, b>> /\ (Ballot(x[1], x[2]) # "none")'
  BY <1>1, <1>2 DEF Vote, FilesOK, Ballot, Final
<1>5. ASSUME NEW y \in Receipt, y # x
      PROVE  Vote(y)' = Vote(y) /\ (Ballot(y[1], y[2]))' = Ballot(y[1], y[2])
  <2>1. y[1] \in Rounds /\ y[2] \in Slots /\ ~(y[1] = r /\ y[2] = v)
    BY <1>5 DEF Receipt
  <2>2. verdict'[y[1]][y[2]] = verdict[y[1]][y[2]]
    BY <1>1, <2>1 DEF FilesOK
  <2> QED BY <2>2 DEF Vote, Ballot
<1> HIDE DEF x
<1>6. Owners' = [Owners EXCEPT ![x] = <<x, b>>]
  BY <1>2, <1>4, <1>5 DEF Owners
<1>7. UNCHANGED Receipted
  BY VotesStand DEF Register, Receipted
<1>8. Ledger!Register(x, <<x, b>>)
  BY <1>3, <1>6, <1>7 DEF Ledger!Register, Owners, Receipted
<1> QED BY <1>2, <1>8

LEMMA ReceiptAcknowledges ==
  ASSUME Typing, SignedOK, [Next]_vars, NEW r \in Rounds, NEW v \in Slots,
         AppendReceipt(r, v)
  PROVE  \E x \in Receipt : Ledger!Acknowledge(x)
<1> DEFINE x == <<r, v>>
<1>1. x \in Receipt /\ x[1] = r /\ x[2] = v
  BY DEF Receipt
<1>2. verdict[r][v] \in Final /\ UNCHANGED verdict /\ receipts' = receipts \cup {x}
  BY DEF AppendReceipt, SignedOK
<1>3. Owners[x] = Vote(x) /\ Vote(x) # <<>>
  BY <1>1, <1>2 DEF Owners, Ballot, Final, Vote
<1>4. UNCHANGED Owners
  BY <1>2 DEF Owners, Ballot, Vote
<1>5. Receipted' = Receipted \cup {Vote(x)}
  BY <1>2 DEF Receipted, Vote
<1> HIDE DEF x
<1>6. Ledger!Acknowledge(x)
  BY <1>3, <1>4, <1>5 DEF Ledger!Acknowledge, Owners, Receipted
<1> QED BY <1>1, <1>6

LEMMA OtherLeavesLedger ==
  ASSUME Typing, [Next]_vars,
         ~ \E r \in Rounds, v \in Slots : Register(r, v) \/ AppendReceipt(r, v)
  PROVE  UNCHANGED <<Owners, receipts>>
<1> USE FilesTyped
<1>1. UNCHANGED receipts
  BY ReceiptsGrow
<1>2. ASSUME UNCHANGED verdict PROVE UNCHANGED Owners
  BY <1>2 DEF Owners, Ballot, Vote
<1>3. ASSUME NEW c \in Cmd, Render(c) PROVE UNCHANGED Owners
  <2>1. ASSUME NEW x \in Receipt
        PROVE  /\ Ballot(x[1], x[2])' = Ballot(x[1], x[2])
               /\ Ballot(x[1], x[2]) # "none" => Vote(x)' = Vote(x)
    <3>1. x[1] \in Rounds /\ x[2] \in Slots
      BY DEF Receipt
    <3>2. \/ verdict'[x[1]][x[2]] = verdict[x[1]][x[2]]
          \/ verdict[x[1]][x[2]] = "none" /\ verdict'[x[1]][x[2]] = "null"
      BY <1>3, <3>1 DEF Render, FilesOK
    <3> QED BY <3>2 DEF Ballot, Vote
  <2> QED BY <2>1 DEF Owners
<1>4. UNCHANGED verdict \/ \E c \in Cmd : Render(c)
  BY ZenonT(60) DEF Next, Start, Command, Probe, Locking, RunRound, Settle, Verifier, vars,
         New, Create, Resume, Recover, List, Advise, Acquire, Busy, Bump, Cooldown, Healthy, Mint, Launch,
         Reap, Timeout, Drain, Scan, Read, Pass, Fail, Poll, Expire, Write, Die,
         Abort, EditConfig
<1> QED BY <1>1, <1>2, <1>3, <1>4

\* What GoalRound takes for granted of jewije is the ledger that jewije's file
\* steps implement (KeepsTheLedger): its Register and AppendReceipt are steps of
\* VerdictLedger, and no step of a command, a kill or an edit touches it.
THEOREM LedgerImplemented == Spec => ReceiptsFollowVerdicts
<1>1. Init => Ledger!Init
  <2> SUFFICES ASSUME Init PROVE Ledger!Init
    OBVIOUS
  <2>1. Owners = [x \in Receipt |-> <<>>]
    BY DEF Init, Owners, Ballot, Receipt
  <2>2. Receipted = {}
    BY DEF Init, Receipted
  <2> QED BY <2>1, <2>2 DEF Ledger!Init, Owners, Receipted
<1>2. Typing /\ SignedOK /\ [Next]_vars => [Ledger!Next]_(Ledger!ledger)
  <2> SUFFICES ASSUME Typing, SignedOK, [Next]_vars
               PROVE  [Ledger!Next]_(Ledger!ledger)
    OBVIOUS
  <2>1. ASSUME NEW r \in Rounds, NEW v \in Slots, Register(r, v) PROVE Ledger!Next
    BY <2>1, RegisterOwns DEF Ledger!Next, Final
  <2>2. ASSUME NEW r \in Rounds, NEW v \in Slots, AppendReceipt(r, v) PROVE Ledger!Next
    BY <2>2, ReceiptAcknowledges DEF Ledger!Next
  <2>3. CASE ~ \E r \in Rounds, v \in Slots : Register(r, v) \/ AppendReceipt(r, v)
    <3>1. UNCHANGED <<Owners, receipts>>
      BY <2>3, OtherLeavesLedger
    <3>2. UNCHANGED Receipted
      BY <3>1, VotesStand DEF Receipted
    <3> QED BY <3>1, <3>2 DEF Ledger!ledger, Owners, Receipted
  <2> QED BY <2>1, <2>2, <2>3
<1> QED
  BY <1>1, <1>2, TypingInit, TypingStep, SignedInit, SignedStep, PTL
  DEF Spec, ReceiptsFollowVerdicts, Ledger!Spec

-----------------------------------------------------------------------------
(***************************************************************************)
(* Fresh slots: no round is spawned into twice                             *)
(***************************************************************************)

\* The slots a process has yet to mint have no session, and those it has yet to
\* start have a key and no child. ss is session, r the current round; a RESUME
\* works on the current round, which is never 1.
Ahead(p, ss, r) ==
  /\ p.kind = "new" /\ p.pc \in {"lock", "health", "render"} =>
       \A v \in Slots : ss[1][v] = "none"
  /\ p.kind = "resume" /\ p.pc \in {"health", "render", "mint", "spawn"} =>
       p.rnd = r /\ p.rnd >= 2
  /\ p.kind = "resume" /\ p.pc \in {"health", "render"} =>
       \A v \in Slots : ss[p.rnd][v] = "none"
  /\ p.pc = "mint" =>
       \A v \in Slots : ss[p.rnd][v] = IF v < p.at THEN "minted" ELSE "none"
  /\ p.pc = "spawn" =>
       \A v \in Slots : v \in p.at..p.conf.m => ss[p.rnd][v] = "minted"

\* Rounds to come have no sessions, and a goal has one NEW.
FreshOK ==
  /\ \A r \in Rounds, v \in Slots : r > round => session[r][v] = "none"
  /\ \A c \in Cmd : Ahead(cmd[c], session, round)
  /\ \A c, d \in Cmd : cmd[c].kind = "new" /\ cmd[d].kind = "new" => c = d

\* While one process runs a round no other does.
LEMMA Alone ==
  ASSUME OneAtATime, NEW c \in Cmd, NEW d \in Cmd, d # c,
         cmd[c].pc \in {"bump", "health", "render", "mint", "spawn"}
  PROVE  cmd[d].pc \notin {"bump", "health", "render", "mint", "spawn"}
<1>1. \A x \in {"bump", "health", "render", "mint", "spawn"} : x \in Critical
  BY DEF Critical, PCs
<1> QED BY <1>1 DEF OneAtATime

\* A verifier that runs, or ends, leaves the slots that wait for theirs alone.
LEMMA AheadKept ==
  ASSUME NEW p, NEW ss, NEW tt, NEW r, Ahead(p, ss, r),
         p.pc \in {"health", "render", "mint", "spawn"} => p.rnd \in Rounds,
         \A q \in Rounds, v \in Slots :
           ss[q][v] \in {"none", "minted"} => tt[q][v] = ss[q][v]
  PROVE  Ahead(p, tt, r)
<1>1. 1 \in Rounds
  BY DEF Rounds
<1>2. p.pc = "mint" => \A v \in Slots : tt[p.rnd][v] = ss[p.rnd][v]
  BY DEF Ahead
<1>3. p.pc = "spawn" =>
        \A v \in Slots : v \in p.at..p.conf.m => tt[p.rnd][v] = "minted"
  BY DEF Ahead
<1>4. /\ p.kind = "resume" /\ p.pc \in {"health", "render"} =>
           \A v \in Slots : tt[p.rnd][v] = "none"
      /\ p.kind = "new" /\ p.pc \in {"lock", "health", "render"} =>
           \A v \in Slots : tt[1][v] = "none"
  BY <1>1 DEF Ahead
<1> QED BY <1>2, <1>3, <1>4 DEF Ahead

LEMMA FreshInit == Init => FreshOK
BY DEF Init, FreshOK, Ahead, Idle

LEMMA FreshStep == Typing /\ OneAtATime /\ FreshOK /\ [Next]_vars => FreshOK'
<1> SUFFICES ASSUME Typing, OneAtATime, FreshOK, [Next]_vars PROVE FreshOK'
  OBVIOUS
<1> USE FilesTyped
<1>1. ASSUME NEW c \in Cmd, \A d \in Cmd : d # c => cmd'[d] = cmd[d],
             UNCHANGED <<round, session>>,
             Ahead(cmd'[c], session, round),
             cmd'[c].kind = "new" => cmd[c].kind = "new"
      PROVE  FreshOK'
  BY <1>1 DEF FreshOK
<1>2. ASSUME NEW c \in Cmd, Create(c) PROVE FreshOK'
  <2>1. /\ cmd'[c] = [cmd[c] EXCEPT !.pc = "lock", !.rnd = 1]
        /\ \A d \in Cmd : d # c => cmd'[d] = cmd[d]
        /\ round = 0 /\ round' = 1 /\ session' = session
    BY <1>2 DEF Create, Move
  <2>2. cmd'[c].pc = "lock" /\ cmd[c].kind = "new" /\ cmd'[c].kind = "new"
    BY <1>2, <2>1 DEF Create, ProcessOK, FieldsOK, Process
  <2>3. \A d \in Cmd : cmd[d].pc \in {"idle", "create"}
    BY <2>1 DEF ProcessOK, FieldsOK
  <2>4. \A r \in Rounds, v \in Slots : session[r][v] = "none"
    BY <2>1 DEF FreshOK, Rounds
  <2>5. Ahead(cmd'[c], session', round')
    BY <2>1, <2>2, <2>4 DEF Ahead, Rounds
  <2>6. \A d \in Cmd : d # c => Ahead(cmd'[d], session', round')
    BY <2>1, <2>3 DEF Ahead
  <2>7. \A d \in Cmd : cmd'[d].kind = cmd[d].kind
    BY <2>1, <2>2
  <2> QED BY <2>1, <2>4, <2>5, <2>6, <2>7 DEF FreshOK
<1>14. ASSUME NEW c \in Cmd, New(c) PROVE FreshOK'
  <2>1. /\ cmd'[c] = [Idle EXCEPT !.pc = "create", !.kind = "new", !.conf = live]
        /\ \A d \in Cmd : d # c => cmd'[d] = cmd[d]
        /\ round = 0 /\ UNCHANGED <<round, session>>
    BY <1>14 DEF New, Move
  <2>2. cmd'[c].pc = "create"
    BY <2>1 DEF Idle
  <2>3. \A d \in Cmd : cmd[d].kind # "new"
    BY <1>14, <2>1 DEF New, ProcessOK, FieldsOK
  <2>4. Ahead(cmd'[c], session', round')
    BY <2>2 DEF Ahead
  <2> QED BY <2>1, <2>3, <2>4 DEF FreshOK
<1>3. ASSUME NEW c \in Cmd, Bump(c) PROVE FreshOK'
  <2>1. /\ cmd'[c] = [cmd[c] EXCEPT !.pc = "health", !.rnd = round + 1]
        /\ \A d \in Cmd : d # c => cmd'[d] = cmd[d]
        /\ round < MaxRound /\ round' = round + 1 /\ session' = session
        /\ cmd[c].pc = "bump" /\ cmd[c].kind = "resume" /\ round > 0
    BY <1>3 DEF Bump, Move, ProcessOK, FieldsOK
  <2>2. cmd'[c].pc = "health" /\ cmd'[c].kind = "resume" /\ cmd'[c].rnd = round + 1
    BY <2>1 DEF Process, FilesOK
  <2>3. round + 1 \in Rounds /\ \A v \in Slots : session[round + 1][v] = "none"
    BY <2>1 DEF FreshOK, Rounds, FilesOK
  <2>4. Ahead(cmd'[c], session', round')
    BY <2>1, <2>2, <2>3 DEF Ahead, FilesOK
  <2>5. ASSUME NEW d \in Cmd, d # c PROVE Ahead(cmd'[d], session', round')
    <3>1. cmd[d].pc \notin {"health", "render", "mint", "spawn"}
      BY <2>1, <2>5, Alone
    <3> QED BY <2>1, <2>5, <3>1 DEF Ahead, FreshOK
  <2>6. \A r \in Rounds, v \in Slots : r > round' => session'[r][v] = "none"
    BY <2>1 DEF FreshOK, Rounds, FilesOK
  <2>7. \A d \in Cmd : Ahead(cmd'[d], session', round') /\ cmd'[d].kind = cmd[d].kind
    BY <2>1, <2>2, <2>4, <2>5
  <2>8. \A d, e \in Cmd : cmd'[d].kind = "new" /\ cmd'[e].kind = "new" => d = e
    BY <2>7 DEF FreshOK
  <2> QED BY <2>6, <2>7, <2>8 DEF FreshOK
<1>4. ASSUME NEW c \in Cmd, Launch(c) PROVE FreshOK'
  <2> DEFINE p == cmd[c]
  <2>1. /\ p.pc = "spawn" /\ p.conf \in Configs /\ p.kind \in {"new", "resume"}
        /\ p.rnd \in Rounds /\ p.rnd <= round /\ p.at \in Slots
        /\ cmd'[c] = Step(p, "gather") /\ round' = round
        /\ \A d \in Cmd : d # c => cmd'[d] = cmd[d]
        /\ session' = [session EXCEPT ![p.rnd][p.at] = "live"]
    BY <1>4 DEF Launch, Move, ProcessOK, FieldsOK, Process, Rounds
  <2>2. \A r \in Rounds, v \in Slots :
          (r # p.rnd \/ v # p.at) => session'[r][v] = session[r][v]
    BY <2>1 DEF FilesOK
  <2>3. /\ cmd'[c].kind = p.kind /\ cmd'[c].rnd = p.rnd /\ cmd'[c].conf = p.conf
        /\ \/ cmd'[c].pc = "gather"
           \/ cmd'[c].pc = "spawn" /\ cmd'[c].at = p.at + 1
    BY <2>1 DEF Step, Process
  <2>4. Ahead(p, session, round)
    BY DEF FreshOK
  <2>5. Ahead(cmd'[c], session', round')
    <3>1. p.conf.m \in 1..MaxSlot /\ p.at \in 1..MaxSlot
      BY <2>1, ConfigTypes DEF Slots
    <3>2. ASSUME cmd'[c].pc = "spawn", NEW v \in Slots, v \in (p.at + 1)..p.conf.m
          PROVE  session'[p.rnd][v] = "minted"
      <4>1. v # p.at /\ v \in p.at..p.conf.m
        BY <3>1, <3>2
      <4> QED BY <2>1, <2>2, <2>4, <4>1 DEF Ahead
    <3>3. p.kind = "resume" => p.rnd = round /\ p.rnd >= 2
      BY <2>1, <2>4 DEF Ahead
    <3> QED BY <2>1, <2>3, <3>2, <3>3 DEF Ahead
  <2>6. ASSUME NEW d \in Cmd, d # c PROVE Ahead(cmd'[d], session', round')
    <3>1. cmd[d].pc \notin {"health", "render", "mint", "spawn"}
      BY <2>1, <2>6, Alone
    <3>2. cmd[d].kind = "new" => p.rnd # 1
      BY <2>1, <2>4, <2>6 DEF FreshOK, Ahead
    <3>3. 1 \in Rounds
      BY DEF Rounds
    <3>4. Ahead(cmd[d], session, round)
      BY DEF FreshOK
    <3> QED BY <2>1, <2>2, <2>6, <3>1, <3>2, <3>3, <3>4 DEF Ahead
  <2>7. \A r \in Rounds, v \in Slots : r > round' => session'[r][v] = "none"
    BY <2>1, <2>2 DEF FreshOK, Rounds, FilesOK
  <2>8. \A d \in Cmd : Ahead(cmd'[d], session', round') /\ cmd'[d].kind = cmd[d].kind
    BY <2>1, <2>3, <2>5, <2>6
  <2>9. \A d, e \in Cmd : cmd'[d].kind = "new" /\ cmd'[e].kind = "new" => d = e
    BY <2>8 DEF FreshOK
  <2> QED BY <2>7, <2>8, <2>9 DEF FreshOK
<1>15. ASSUME NEW c \in Cmd, Mint(c) PROVE FreshOK'
  <2> DEFINE p == cmd[c]
  <2>1. /\ p.pc = "mint" /\ p.conf \in Configs /\ p.kind \in {"new", "resume"}
        /\ p.rnd \in Rounds /\ p.rnd <= round /\ p.at \in Slots
        /\ cmd'[c] = Step(p, "spawn") /\ round' = round
        /\ \A d \in Cmd : d # c => cmd'[d] = cmd[d]
        /\ session' = [session EXCEPT ![p.rnd][p.at] = "minted"]
    BY <1>15 DEF Mint, Move, ProcessOK, FieldsOK, Process, Rounds
  <2>2. /\ \A r \in Rounds, v \in Slots :
             (r # p.rnd \/ v # p.at) => session'[r][v] = session[r][v]
        /\ session'[p.rnd][p.at] = "minted"
    BY <2>1 DEF FilesOK
  <2>3. /\ cmd'[c].kind = p.kind /\ cmd'[c].rnd = p.rnd /\ cmd'[c].conf = p.conf
        /\ \/ p.at >= p.conf.m /\ cmd'[c].pc = "spawn" /\ cmd'[c].at = 1
           \/ cmd'[c].pc = "mint" /\ cmd'[c].at = p.at + 1
    BY <2>1, ConfigTypes DEF Step, Process, Slots
  <2>4. Ahead(p, session, round)
    BY DEF FreshOK
  <2>10. p.conf.m \in 1..MaxSlot /\ p.at \in 1..MaxSlot
    BY <2>1, ConfigTypes DEF Slots
  <2>11. \A v \in Slots :
           session'[p.rnd][v] = IF v < p.at + 1 THEN "minted" ELSE "none"
    <3> SUFFICES ASSUME NEW v \in Slots
                 PROVE  session'[p.rnd][v] = IF v < p.at + 1 THEN "minted" ELSE "none"
      OBVIOUS
    <3>1. v \in 1..MaxSlot
      BY DEF Slots
    <3>2. CASE v = p.at
      BY <2>2, <2>10, <3>2
    <3>3. CASE v # p.at
      <4>1. session'[p.rnd][v] = IF v < p.at THEN "minted" ELSE "none"
        BY <2>1, <2>2, <2>4, <3>3 DEF Ahead
      <4>2. (v < p.at) <=> (v < p.at + 1)
        BY <2>10, <3>1, <3>3
      <4> QED BY <4>1, <4>2
    <3> QED BY <3>2, <3>3
  <2>5. Ahead(cmd'[c], session', round')
    <3>1. p.kind = "resume" => p.rnd = round /\ p.rnd >= 2
      BY <2>1, <2>4 DEF Ahead
    <3>2. CASE p.at >= p.conf.m /\ cmd'[c].pc = "spawn" /\ cmd'[c].at = 1
      <4>1. \A v \in Slots : v \in 1..p.conf.m => v < p.at + 1
        BY <2>10, <3>2 DEF Slots
      <4> QED BY <2>1, <2>3, <2>11, <3>1, <3>2, <4>1 DEF Ahead
    <3>3. CASE cmd'[c].pc = "mint" /\ cmd'[c].at = p.at + 1
      BY <2>1, <2>3, <2>11, <3>1, <3>3 DEF Ahead
    <3> QED BY <2>3, <3>2, <3>3
  <2>6. ASSUME NEW d \in Cmd, d # c PROVE Ahead(cmd'[d], session', round')
    <3>1. cmd[d].pc \notin {"health", "render", "mint", "spawn"}
      BY <2>1, <2>6, Alone
    <3>2. cmd[d].kind = "new" => p.rnd # 1
      BY <2>1, <2>4, <2>6 DEF FreshOK, Ahead
    <3>3. 1 \in Rounds
      BY DEF Rounds
    <3>4. Ahead(cmd[d], session, round)
      BY DEF FreshOK
    <3> QED BY <2>1, <2>2, <2>6, <3>1, <3>2, <3>3, <3>4 DEF Ahead
  <2>7. \A r \in Rounds, v \in Slots : r > round' => session'[r][v] = "none"
    BY <2>1, <2>2 DEF FreshOK, Rounds, FilesOK
  <2>8. \A d \in Cmd : Ahead(cmd'[d], session', round') /\ cmd'[d].kind = cmd[d].kind
    BY <2>1, <2>3, <2>5, <2>6
  <2>9. \A d, e \in Cmd : cmd'[d].kind = "new" /\ cmd'[e].kind = "new" => d = e
    BY <2>8 DEF FreshOK
  <2> QED BY <2>7, <2>8, <2>9 DEF FreshOK
<1>5. ASSUME NEW c \in Cmd, Finish(c), UNCHANGED <<round, session>> PROVE FreshOK'
  <2>1. cmd'[c] = Idle /\ \A d \in Cmd : d # c => cmd'[d] = cmd[d]
    BY <1>5 DEF Finish, Move
  <2> QED BY <1>1, <1>5, <2>1 DEF Ahead, Idle
<1>6. ASSUME NEW c \in Cmd, Resume(c) \/ Recover(c) PROVE FreshOK'
  <2>1. cmd'[c].pc \in {"lock", "probe"} /\ cmd'[c].kind # "new"
        /\ UNCHANGED <<round, session>>
    <3>1. CASE Resume(c)
      BY <3>1 DEF Resume, Move, Idle
    <3>2. CASE Recover(c)
      BY <3>2 DEF Recover, Move, Idle
    <3> QED BY <1>6, <3>1, <3>2
  <2>2. \A d \in Cmd : d # c => cmd'[d] = cmd[d]
    BY <1>6 DEF Resume, Recover, Move
  <2> QED BY <1>1, <2>1, <2>2 DEF Ahead
<1>16. ASSUME NEW c \in Cmd, Advise(c) PROVE FreshOK'
  <2>1. cmd[c].kind = "recover" /\ UNCHANGED <<round, session>>
    BY <1>16 DEF Advise, Advising, ProcessOK, FieldsOK
  <2>2. CASE Move(c, [Idle EXCEPT !.pc = "lock", !.kind = cmd[c].kind, !.conf = cmd[c].conf])
    <3>1. cmd'[c].pc = "lock" /\ cmd'[c].kind = "recover"
          /\ \A d \in Cmd : d # c => cmd'[d] = cmd[d]
      BY <2>1, <2>2 DEF Move, Idle
    <3> QED BY <1>1, <2>1, <3>1 DEF Ahead
  <2> QED BY <1>5, <1>16, <2>1, <2>2 DEF Advise
<1>7. ASSUME NEW c \in Cmd, Acquire(c) PROVE FreshOK'
  <2>1. cmd[c].pc = "lock" /\ cmd[c].kind \in {"new", "resume", "recover"}
    BY <1>7 DEF Acquire, ProcessOK, FieldsOK
  <2>2. /\ cmd'[c].kind = cmd[c].kind /\ UNCHANGED <<round, session>>
        /\ cmd'[c].pc = AfterLock[cmd[c].kind]
        /\ \A d \in Cmd : d # c => cmd'[d] = cmd[d]
    BY <1>7 DEF Acquire, Move, Process
  <2>3. Ahead(cmd[c], session, round)
    BY DEF FreshOK
  <2>4. Ahead(cmd'[c], session, round)
    BY <2>1, <2>2, <2>3 DEF Ahead, AfterLock
  <2> QED BY <1>1, <2>2, <2>4
<1>8. ASSUME NEW c \in Cmd, Healthy(c) PROVE FreshOK'
  <2>1. /\ cmd[c].pc = "health" /\ cmd'[c].pc = "render" /\ cmd'[c].kind = cmd[c].kind
        /\ cmd'[c].rnd = cmd[c].rnd /\ UNCHANGED <<round, session>>
        /\ \A d \in Cmd : d # c => cmd'[d] = cmd[d]
    BY <1>8 DEF Healthy, Move, Process
  <2>2. Ahead(cmd[c], session, round)
    BY DEF FreshOK
  <2>3. Ahead(cmd'[c], session, round)
    BY <2>1, <2>2 DEF Ahead
  <2> QED BY <1>1, <2>1, <2>3
<1>9. ASSUME NEW c \in Cmd, Render(c) PROVE FreshOK'
  <2>1. /\ cmd[c].pc = "render" /\ cmd[c].conf \in Configs /\ cmd'[c] = Step(cmd[c], "mint")
        /\ cmd[c].kind \in {"new", "resume"} /\ UNCHANGED <<round, session>>
        /\ \A d \in Cmd : d # c => cmd'[d] = cmd[d]
    BY <1>9 DEF Render, Move, ProcessOK, FieldsOK
  <2>2. /\ cmd'[c].kind = cmd[c].kind /\ cmd'[c].rnd = cmd[c].rnd
        /\ cmd'[c].pc = "render" \/ (cmd'[c].pc = "mint" /\ cmd'[c].at = 1)
    BY <2>1, ConfigTypes DEF Step, Process, Slots
  <2>3. cmd[c].kind = "new" => cmd[c].rnd = 1
    BY <2>1 DEF ProcessOK, FieldsOK
  <2>4. Ahead(cmd[c], session, round)
    BY DEF FreshOK
  <2>5. \A v \in Slots : session[cmd[c].rnd][v] = "none" /\ ~(v < 1)
    BY <2>1, <2>3, <2>4 DEF Ahead, Slots
  <2>6. Ahead(cmd'[c], session, round)
    BY <2>1, <2>2, <2>3, <2>4, <2>5 DEF Ahead
  <2> QED BY <1>1, <2>1, <2>2, <2>6
<1>10. ASSUME NEW c \in Cmd, Reap(c) \/ Timeout(c) \/ Drain(c) PROVE FreshOK'
  <2>1. PICK p \in Process :
          /\ Move(c, p) /\ p.pc \in {"gather", "drain", "read"} /\ p.kind = cmd[c].kind
    BY <1>10, GatherStep
  <2>2. cmd'[c] = p /\ \A d \in Cmd : d # c => cmd'[d] = cmd[d]
    BY <2>1 DEF Move
  <2>3. /\ round' = round
        /\ \A r \in Rounds, v \in Slots :
             session[r][v] \in {"none", "minted"} => session'[r][v] = session[r][v]
    BY <1>10, GatherSessions DEF Reap, Timeout, Drain
  <2>4. ASSUME NEW d \in Cmd PROVE Ahead(cmd[d], session', round)
    <3>1. Ahead(cmd[d], session, round)
      BY DEF FreshOK
    <3>2. cmd[d].pc \in {"health", "render", "mint", "spawn"} => cmd[d].rnd \in Rounds
      BY DEF ProcessOK, FieldsOK, Process, Rounds
    <3> QED BY <2>3, <3>1, <3>2, AheadKept
  <2>5. Ahead(cmd'[c], session', round)
    BY <2>1, <2>2 DEF Ahead
  <2> QED BY <2>1, <2>2, <2>3, <2>4, <2>5 DEF FreshOK
<1>11. ASSUME NEW c \in Cmd,
              List(c) \/ Scan(c) \/ Pass(c) \/ Poll(c) \/ Expire(c)
                \/ \E v \in Slots : Read(c, v)
       PROVE  FreshOK'
  <2>1. /\ cmd'[c].pc \in {"look", "scan", "read", "write"} /\ cmd'[c].kind = cmd[c].kind
        /\ UNCHANGED <<round, session>>
    <3>6. CASE List(c)
      BY <3>6 DEF List, Move, Process
    <3>1. CASE Scan(c)
      BY <3>1 DEF Scan, Move, Process
    <3>5. CASE Poll(c)
      BY <3>5 DEF Poll, Move, Process
    <3>4. CASE Pass(c)
      BY <3>4 DEF Pass, Move, Process
    <3>2. CASE Expire(c)
      BY <3>2 DEF Expire, Move, Process
    <3>3. ASSUME NEW v \in Slots, Read(c, v)
          PROVE  /\ cmd'[c].pc \in {"look", "read"} /\ cmd'[c].kind = cmd[c].kind
                 /\ UNCHANGED <<round, session>>
      BY <3>3 DEF Read, Move, Process
    <3> QED BY <1>11, <3>1, <3>2, <3>3, <3>4, <3>5, <3>6
  <2>2. \A d \in Cmd : d # c => cmd'[d] = cmd[d]
    BY <1>11 DEF List, Scan, Pass, Poll, Expire, Read, Move
  <2> QED BY <1>1, <2>1, <2>2 DEF Ahead
<1>12. ASSUME NEW r \in Rounds, NEW v \in Slots, Verifier(r, v) PROVE FreshOK'
  <2>1. /\ session[r][v] \notin {"none", "minted"} /\ UNCHANGED <<cmd, round>>
    BY <1>12 DEF Verifier, Register, AppendReceipt, Die
  <2>2. \A q \in Rounds, u \in Slots :
          session[q][u] \in {"none", "minted"} => session'[q][u] = session[q][u]
    <3>1. PICK s \in {"signed", "ended"} : session' = [session EXCEPT ![r][v] = s]
      BY <1>12 DEF Verifier, Register, AppendReceipt, Die
    <3> QED BY <2>1, <3>1 DEF FilesOK
  <2>3. ASSUME NEW c \in Cmd PROVE Ahead(cmd'[c], session', round')
    <3>1. Ahead(cmd[c], session, round)
      BY DEF FreshOK
    <3>2. cmd[c].pc \in {"health", "render", "mint", "spawn"} => cmd[c].rnd \in Rounds
      BY DEF ProcessOK, FieldsOK, Process, Rounds
    <3> QED BY <2>1, <2>2, <3>1, <3>2, AheadKept
  <2> QED BY <2>1, <2>2, <2>3 DEF FreshOK
<1>13. CASE EditConfig \/ UNCHANGED vars
  BY <1>13 DEF EditConfig, vars, FreshOK
<1> QED
  BY <1>2, <1>3, <1>4, <1>5, <1>6, <1>7, <1>8, <1>9, <1>10, <1>11, <1>12, <1>13, <1>14,
     <1>15, <1>16
  DEF Next, Start, Command, Probe, Locking, RunRound, Settle, Busy, Cooldown, Fail, Write, Abort

\* No process ever mints a slot that has a key, or launches a verifier into one
\* that has a child.
THEOREM NoSecondSpawn == Spec => []FreshSlots
<1>1. Typing /\ FreshOK => FreshSlots
  <2> SUFFICES ASSUME Typing, FreshOK, NEW c \in Cmd, NEW v \in Slots,
                      v \in cmd[c].at..cmd[c].conf.m
               PROVE  /\ cmd[c].pc = "mint"  => session[cmd[c].rnd][v] = "none"
                      /\ cmd[c].pc = "spawn" => session[cmd[c].rnd][v] = "minted"
    BY DEF FreshSlots
  <2>1. Ahead(cmd[c], session, round)
    BY DEF FreshOK
  <2>2. ASSUME cmd[c].pc = "mint" PROVE session[cmd[c].rnd][v] = "none"
    <3>1. cmd[c].conf.m \in 1..MaxSlot /\ cmd[c].at \in 1..MaxSlot
      BY <2>2, FilesTyped, ConfigTypes DEF ProcessOK, FieldsOK, Process, Slots
    <3>2. ~(v < cmd[c].at)
      BY <3>1
    <3> QED BY <2>1, <2>2, <3>2 DEF Ahead
  <2>3. ASSUME cmd[c].pc = "spawn" PROVE session[cmd[c].rnd][v] = "minted"
    BY <2>1, <2>3 DEF Ahead
  <2> QED BY <2>2, <2>3
<1> QED
  BY <1>1, TypingInit, TypingStep, LockInit, LockStep, FreshInit, FreshStep, PTL DEF Spec
-----------------------------------------------------------------------------
(***************************************************************************)
(* AUDIT and the configuration in goal.json                                *)
(***************************************************************************)

\* A process works for the configuration cf: it decides with it and looks at
\* none but its slots.
Loyal(p, cf) ==
  p.pc \notin {"idle", "create"} =>
    /\ p.conf = cf
    /\ p.at <= cf.m
    /\ \A v \in Slots : p.seen[v] # "skip" => v <= cf.m

\* A NEW that is about to create the goal, with the configuration cf.
Creating(cf) == [Idle EXCEPT !.pc = "create", !.kind = "new", !.conf = cf]

\* Nobody has worked with another configuration than goal.json's.
Unedited ==
  /\ created = IF round = 0 THEN NoConfig ELSE live
  /\ \A c \in Cmd : Loyal(cmd[c], created)
  /\ \A c \in Cmd : cmd[c].pc = "create" => cmd[c] = Creating(live)
  /\ \A r \in Rounds, v \in Slots : verdict[r][v] # "none" => v <= created.m
  /\ completion # NoCompletion =>
       /\ round > 0
       /\ completion.need = created.n
       /\ \A v \in completion.matching : v <= created.m

AgreedOK == edits = 0 => Unedited

LEMMA AgreedInit == Init => AgreedOK
BY DEF Init, AgreedOK, Unedited, Loyal, Idle

\* A step of process c that keeps to the configuration.
LEMMA LoyalMove ==
  ASSUME Typing, Unedited, NEW c \in Cmd, NEW p, Move(c, p), Loyal(p, created),
         p.pc # "create",
         UNCHANGED <<live, created, completion>>,
         round' = round \/ (round > 0 /\ round' > 0),
         \A r \in Rounds, v \in Slots :
           verdict'[r][v] # "none" => verdict[r][v] # "none" \/ v <= created.m
  PROVE  Unedited'
<1>1. \A d \in Cmd : /\ Loyal(cmd'[d], created)
                     /\ cmd'[d].pc = "create" => cmd'[d] = Creating(live)
  BY FilesTyped DEF Move, Unedited
<1>2. created' = IF round' = 0 THEN NoConfig ELSE live'
  BY FilesTyped DEF Unedited, FilesOK
<1> QED BY <1>1, <1>2 DEF Unedited

LEMMA LoyalFinish ==
  ASSUME Typing, Unedited, NEW c \in Cmd, Finish(c),
         UNCHANGED <<live, created, round, verdict>>,
         completion' = completion
           \/ /\ round > 0
              /\ completion'.need = created.n
              /\ \A v \in completion'.matching : v <= created.m
  PROVE  Unedited'
<1>1. \A d \in Cmd : /\ Loyal(cmd'[d], created)
                     /\ cmd'[d].pc = "create" => cmd'[d] = Creating(live)
  BY FilesTyped DEF Finish, Move, Unedited, Loyal, Idle
<1> QED BY <1>1 DEF Unedited

LEMMA LoyalStep ==
  ASSUME NEW p \in Process, NEW q \in PCs, NEW cf \in Configs, Loyal(p, cf),
         p.pc \notin {"idle", "create"}
  PROVE  Loyal(Step(p, q), cf) /\ Loyal(Gathered(p), cf)
<1>1. p.conf = cf /\ p.at <= cf.m /\ p.at \in Slots
  BY DEF Loyal, Process
<1>2. cf.m \in 1..MaxSlot
  BY ConfigTypes
<1>3. ASSUME NEW k \in PCs
      PROVE  /\ Step(p, k).conf = cf /\ Step(p, k).seen = p.seen
             /\ Step(p, k).at <= cf.m /\ Step(p, k) \in Process
  <2>1. CASE p.at < p.conf.m
    BY <1>1, <1>2, <2>1, SMTT(30) DEF Step, Process, Slots
  <2>2. CASE ~(p.at < p.conf.m)
    <3>1. Step(p, k) = [p EXCEPT !.at = 1, !.pc = k] /\ 1 \in Slots
      BY <2>2 DEF Step, Slots
    <3>2. [p EXCEPT !.at = 1, !.pc = k] \in Process
      BY <3>1 DEF Process
    <3> QED BY <1>1, <1>2, <3>1, <3>2 DEF Process
  <2> QED BY <2>1, <2>2
<1>4. "read" \in PCs
  BY DEF PCs
<1> DEFINE s == Step(p, "read")
           g == [s EXCEPT !.seen = Unread(1..p.conf.m)]
<1>5. Loyal(s, cf) /\ Loyal(Step(p, q), cf)
  BY <1>3, <1>4 DEF Loyal
<1>6. g.conf = cf /\ g.at <= cf.m /\ g.seen = Unread(1..cf.m)
  BY <1>1, <1>3, <1>4 DEF Process
<1>7. Loyal(g, cf)
  BY <1>2, <1>6 DEF Loyal, Unread, Slots
<1>8. Gathered(p) = s \/ Gathered(p) = g
  BY DEF Gathered
<1> QED BY <1>5, <1>7, <1>8

LEMMA AgreedStep == Typing /\ AgreedOK /\ [Next]_vars => AgreedOK'
<1> SUFFICES ASSUME Typing, AgreedOK, [Next]_vars, edits' = 0 PROVE Unedited'
  BY DEF AgreedOK
<1> USE FilesTyped
<1>1. CASE EditConfig
  BY <1>1 DEF EditConfig, FilesOK
<1>2. CASE ~EditConfig
  <2>1. edits' = edits /\ Unedited
    <3>1. ASSUME NEW c \in Cmd, Start(c) \/ Create(c) \/ Locking(c)
          PROVE  edits' = edits
      BY <3>1 DEF Start, New, Resume, Recover, Create, Locking, Acquire, Busy
    <3>6. ASSUME NEW c \in Cmd, Probe(c) PROVE edits' = edits
      BY <3>6 DEF Probe, List, Advise
    <3>2. ASSUME NEW c \in Cmd, RunRound(c) PROVE edits' = edits
      BY <3>2 DEF RunRound, Bump, Cooldown, Healthy, Render, Mint, Launch, Reap, Timeout, Drain
    <3>3. ASSUME NEW c \in Cmd, Settle(c) \/ Expire(c) \/ Abort(c)
          PROVE  edits' = edits
      BY <3>3 DEF Settle, Scan, Read, Pass, Fail, Poll, Write, Expire, Abort
    <3>4. ASSUME NEW r \in Rounds, NEW v \in Slots, Verifier(r, v)
          PROVE  edits' = edits
      BY <3>4 DEF Verifier, Register, AppendReceipt, Die
    <3>5. edits' = edits
      BY <1>2, <3>1, <3>2, <3>3, <3>4, <3>6 DEF Next, Command, vars
    <3> QED BY <3>5 DEF AgreedOK
  <2>2. \A c \in Cmd : cmd[c].pc \notin {"idle", "create"} => /\ created \in Configs /\ round > 0
                                             /\ created = live
                                             /\ cmd[c].conf = created
    BY <2>1 DEF Unedited, Loyal, ProcessOK, FieldsOK, FilesOK
  <2>3. ASSUME NEW c \in Cmd, Create(c) PROVE Unedited'
    <3>1. \A d \in Cmd : cmd[d].pc \in {"idle", "create"}
      BY <2>3 DEF Create, ProcessOK, FieldsOK
    <3>2. created = NoConfig
      BY <2>1, <2>3 DEF Create, Unedited
    <3>3. \A r \in Rounds, v \in Slots : verdict[r][v] = "none"
      BY <2>1, <3>2 DEF Unedited, NoConfig, Slots
    <3>4. created' = live /\ round' = 1 /\ live' = live /\ live.m \in 1..MaxSlot
      BY <2>3, ConfigTypes DEF Create, FilesOK
    <3>5. cmd'[c] = [Creating(live) EXCEPT !.pc = "lock", !.rnd = 1]
          /\ \A d \in Cmd : d # c => cmd'[d] = cmd[d]
      BY <2>1, <2>3 DEF Create, Move, Unedited
    <3>6. Loyal(cmd'[c], live) /\ cmd'[c].pc = "lock"
      BY <3>4, <3>5 DEF Creating, Idle, Loyal
    <3>7. \A d \in Cmd : Loyal(cmd'[d], live)
      BY <3>1, <3>5, <3>6 DEF Loyal
    <3>8. \A d \in Cmd : cmd'[d].pc = "create" => cmd'[d] = Creating(live)
      BY <2>1, <3>5, <3>6 DEF Unedited
    <3>9. completion = NoCompletion
      BY <2>1, <2>3 DEF Unedited, Create
    <3> QED BY <2>3, <3>3, <3>4, <3>7, <3>8, <3>9 DEF Unedited, Create
  <2>20. ASSUME NEW c \in Cmd, New(c) PROVE Unedited'
    <3>1. cmd'[c] = Creating(live) /\ \A d \in Cmd : d # c => cmd'[d] = cmd[d]
      BY <2>20 DEF New, Move, Creating
    <3>2. Loyal(cmd'[c], created)
      BY <3>1 DEF Creating, Idle, Loyal
    <3> QED BY <2>1, <2>20, <3>1, <3>2 DEF Unedited, New
  <2>4. ASSUME NEW c \in Cmd, Resume(c) \/ Recover(c) PROVE Unedited'
    <3>1. PICK p : /\ Move(c, p) /\ p.pc \in {"lock", "probe"} /\ p.conf = live
                   /\ p.at = 1 /\ \A v \in Slots : p.seen[v] = "skip"
      <4> DEFINE a == [Idle EXCEPT !.pc = "lock", !.kind = "resume", !.conf = live]
                 b == [Idle EXCEPT !.pc = "probe", !.kind = "recover", !.conf = live,
                                   !.rnd = round]
      <4>1. /\ a.pc = "lock" /\ a.conf = live /\ a.at = 1
            /\ \A v \in Slots : a.seen[v] = "skip"
        BY DEF Idle
      <4>2. /\ b.pc = "probe" /\ b.conf = live /\ b.at = 1
            /\ \A v \in Slots : b.seen[v] = "skip"
        BY DEF Idle
      <4>3. Move(c, a) \/ Move(c, b)
        BY <2>4 DEF Resume, Recover
      <4> HIDE DEF a, b
      <4> QED BY <4>1, <4>2, <4>3
    <3>2. round > 0 /\ created = live /\ live.m \in 1..MaxSlot
      BY <2>1, <2>4, ConfigTypes DEF Unedited, Resume, Recover, FilesOK
    <3>3. Loyal(p, created) /\ p.pc # "create"
      BY <3>1, <3>2 DEF Loyal
    <3> QED BY <2>1, <2>4, <3>1, <3>2, <3>3, LoyalMove DEF Resume, Recover
  <2>5. ASSUME NEW c \in Cmd, NEW p, Move(c, p), cmd[c].pc \notin {"idle", "create"},
               p.conf = cmd[c].conf, p.at = cmd[c].at,
               p.pc # "create",
               \A v \in Slots : p.seen[v] # "skip" => cmd[c].seen[v] # "skip" \/ v <= created.m,
               UNCHANGED <<live, created, completion, verdict>>,
               round' = round \/ round' > 0
        PROVE  Unedited'
    <3>1. Loyal(p, created)
      BY <2>1, <2>2, <2>5 DEF Unedited, Loyal
    <3> QED BY <2>1, <2>2, <2>5, <3>1, LoyalMove
  <2>6. ASSUME NEW c \in Cmd, Acquire(c) PROVE Unedited'
    <3> DEFINE p == [cmd[c] EXCEPT !.pc = AfterLock[cmd[c].kind],
                                   !.rnd = IF cmd[c].kind = "recover" THEN round ELSE @]
    <3>1. p.conf = cmd[c].conf /\ p.at = cmd[c].at /\ p.seen = cmd[c].seen
      BY DEF Process
    <3>2. /\ Move(c, p) /\ cmd[c].pc \notin {"idle", "create"} /\ p.pc # "create"
          /\ UNCHANGED <<live, created, completion, verdict>>
          /\ round' = round \/ round' > 0
      <4>1. p.pc = AfterLock[cmd[c].kind] /\ cmd[c].kind \in {"new", "resume", "recover"}
        BY <2>6 DEF Acquire, Process, ProcessOK, FieldsOK
      <4>2. p.pc # "create"
        BY <4>1 DEF AfterLock
      <4> QED BY <2>6, <4>2 DEF Acquire
    <3>3. \A u \in Slots : p.seen[u] # "skip" => cmd[c].seen[u] # "skip" \/ u <= created.m
      BY <3>1
    <3> HIDE DEF p
    <3> QED BY <2>5, <3>1, <3>2, <3>3
  <2>7. ASSUME NEW c \in Cmd, Bump(c) PROVE Unedited'
    <3> DEFINE p == [cmd[c] EXCEPT !.pc = "health", !.rnd = round + 1]
    <3>1. p.conf = cmd[c].conf /\ p.at = cmd[c].at /\ p.seen = cmd[c].seen
      BY DEF Process
    <3>2. round' > 0
      BY <2>7 DEF Bump, FilesOK
    <3>3. /\ Move(c, p) /\ cmd[c].pc \notin {"idle", "create"} /\ p.pc # "create"
          /\ UNCHANGED <<live, created, completion, verdict>>
          /\ round' = round \/ round' > 0
      BY <2>7, <3>2 DEF Bump
    <3>4. \A u \in Slots : p.seen[u] # "skip" => cmd[c].seen[u] # "skip" \/ u <= created.m
      BY <3>1, <3>2
    <3> HIDE DEF p
    <3> QED BY <2>5, <3>1, <3>2, <3>3, <3>4
  <2>8. ASSUME NEW c \in Cmd, Healthy(c) PROVE Unedited'
    <3> DEFINE p == [cmd[c] EXCEPT !.pc = "render"]
    <3>1. p.conf = cmd[c].conf /\ p.at = cmd[c].at /\ p.seen = cmd[c].seen
      BY DEF Process
    <3>2. /\ Move(c, p) /\ cmd[c].pc \notin {"idle", "create"} /\ p.pc # "create"
          /\ UNCHANGED <<live, created, completion, verdict>>
          /\ round' = round \/ round' > 0
      BY <2>8 DEF Healthy
    <3>3. \A u \in Slots : p.seen[u] # "skip" => cmd[c].seen[u] # "skip" \/ u <= created.m
      BY <3>1
    <3> HIDE DEF p
    <3> QED BY <2>5, <3>1, <3>2, <3>3
  <2>9. ASSUME NEW c \in Cmd, Pass(c) PROVE Unedited'
    <3> DEFINE p == [cmd[c] EXCEPT !.pc = "write", !.head = receipts]
    <3>1. p.conf = cmd[c].conf /\ p.at = cmd[c].at /\ p.seen = cmd[c].seen
      BY DEF Process
    <3>2. /\ Move(c, p) /\ cmd[c].pc \notin {"idle", "create"} /\ p.pc # "create"
          /\ UNCHANGED <<live, created, completion, verdict>>
          /\ round' = round \/ round' > 0
      BY <2>9 DEF Pass, AllRead
    <3>3. \A u \in Slots : p.seen[u] # "skip" => cmd[c].seen[u] # "skip" \/ u <= created.m
      BY <3>1
    <3> HIDE DEF p
    <3> QED BY <2>5, <3>1, <3>2, <3>3
  <2>10. ASSUME NEW c \in Cmd, Expire(c) PROVE Unedited'
    <3> DEFINE p == [cmd[c] EXCEPT !.due = TRUE]
    <3>1. p.conf = cmd[c].conf /\ p.at = cmd[c].at /\ p.seen = cmd[c].seen
      BY DEF Process
    <3>2. p.pc = cmd[c].pc
      BY DEF Process
    <3>3. /\ Move(c, p) /\ cmd[c].pc \notin {"idle", "create"} /\ p.pc # "create"
          /\ UNCHANGED <<live, created, completion, verdict, round>>
      BY <2>10, <3>2 DEF Expire
    <3> HIDE DEF p
    <3> QED BY <2>5, <3>1, <3>3
  <2>11. ASSUME NEW c \in Cmd, Poll(c) PROVE Unedited'
    <3> DEFINE p == [cmd[c] EXCEPT !.pc = "scan", !.seen = Unread({})]
    <3>1. p.conf = cmd[c].conf /\ p.at = cmd[c].at
          /\ \A v \in Slots : p.seen[v] = "skip"
      BY DEF Process, Unread
    <3>2. p.pc = "scan"
      BY DEF Process
    <3>3. /\ Move(c, p) /\ cmd[c].pc \notin {"idle", "create"}
          /\ UNCHANGED <<live, created, completion, verdict, round>>
      BY <2>11 DEF Poll, AllRead
    <3> HIDE DEF p
    <3> QED BY <2>5, <3>1, <3>2, <3>3
  <2>12. ASSUME NEW c \in Cmd, NEW v \in Slots, Read(c, v) PROVE Unedited'
    <3>1. PICK x : Move(c, [cmd[c] EXCEPT !.seen[v] = x])
      BY <2>12 DEF Read
    <3> DEFINE p == [cmd[c] EXCEPT !.seen[v] = x]
    <3>2. p.conf = cmd[c].conf /\ p.at = cmd[c].at
          /\ \A u \in Slots : u # v => p.seen[u] = cmd[c].seen[u]
      BY DEF Process
    <3>3. cmd[c].seen[v] # "skip"
      BY <2>12 DEF Read
    <3>4. /\ Move(c, p) /\ cmd[c].pc \notin {"idle", "create"} /\ p.pc # "create"
          /\ UNCHANGED <<live, created, completion, verdict>>
          /\ round' = round \/ round' > 0
      BY <2>12, <3>1 DEF Read
    <3>5. \A u \in Slots : p.seen[u] # "skip" => cmd[c].seen[u] # "skip" \/ u <= created.m
      BY <3>1, <3>2, <3>3
    <3> HIDE DEF p
    <3> QED BY <2>5, <3>1, <3>2, <3>3, <3>4, <3>5
  <2>13. ASSUME NEW c \in Cmd, Scan(c) PROVE Unedited'
    <3> DEFINE S == IF SlotDirs(cmd[c].rnd) = {} THEN 1..cmd[c].conf.m ELSE SlotDirs(cmd[c].rnd)
               p == [cmd[c] EXCEPT !.pc = "read", !.seen = Unread(S)]
    <3>1. cmd[c].rnd \in Rounds /\ cmd[c].conf = created
      BY <2>2, <2>13 DEF Scan, ProcessOK, FieldsOK, Process, Rounds
    <3>2. \A v \in Slots : v \in S => v <= created.m
      BY <2>1, <3>1 DEF Unedited, SlotDirs, Slots
    <3>3. p.conf = cmd[c].conf /\ p.at = cmd[c].at /\ p.seen = Unread(S)
      BY DEF Process
    <3>4. \A v \in Slots : p.seen[v] # "skip" => v <= created.m
      BY <3>2, <3>3 DEF Unread
    <3>5. /\ Move(c, p) /\ cmd[c].pc \notin {"idle", "create"} /\ p.pc # "create"
          /\ UNCHANGED <<live, created, completion, verdict>>
          /\ round' = round \/ round' > 0
      BY <2>13 DEF Scan
    <3>6. \A u \in Slots : p.seen[u] # "skip" => cmd[c].seen[u] # "skip" \/ u <= created.m
      BY <3>3, <3>4
    <3> HIDE DEF p
    <3> QED BY <2>5, <3>3, <3>4, <3>5, <3>6
  <2>21. ASSUME NEW c \in Cmd, List(c) PROVE Unedited'
    <3> DEFINE S == SlotDirs(cmd[c].rnd)
               p == [cmd[c] EXCEPT !.pc = "look", !.seen = Unread(S)]
    <3>1. cmd[c].rnd \in Rounds
      BY <2>21 DEF List, ProcessOK, FieldsOK, Process, Rounds
    <3>2. \A v \in Slots : v \in S => v <= created.m
      BY <2>1, <3>1 DEF Unedited, SlotDirs
    <3>3. p.conf = cmd[c].conf /\ p.at = cmd[c].at /\ p.seen = Unread(S)
      BY DEF Process
    <3>4. \A v \in Slots : p.seen[v] # "skip" => v <= created.m
      BY <3>2, <3>3 DEF Unread
    <3>5. /\ Move(c, p) /\ cmd[c].pc \notin {"idle", "create"} /\ p.pc # "create"
          /\ UNCHANGED <<live, created, completion, verdict>>
          /\ round' = round \/ round' > 0
      BY <2>21 DEF List
    <3>6. \A u \in Slots : p.seen[u] # "skip" => cmd[c].seen[u] # "skip" \/ u <= created.m
      BY <3>4
    <3> HIDE DEF p
    <3> QED BY <2>5, <3>3, <3>5, <3>6
  <2>22. ASSUME NEW c \in Cmd, Advise(c) PROVE Unedited'
    <3> DEFINE p == [Idle EXCEPT !.pc = "lock", !.kind = cmd[c].kind, !.conf = cmd[c].conf]
    <3>1. CASE Finish(c)
      BY <2>1, <2>22, <3>1, LoyalFinish DEF Advise
    <3>2. CASE Move(c, p)
      <4>1. cmd[c].conf = created /\ created.m \in 1..MaxSlot
        BY <2>2, <2>22, ConfigTypes DEF Advise, Advising
      <4>2. Loyal(p, created) /\ p.pc # "create"
        BY <4>1 DEF Loyal, Idle
      <4> HIDE DEF p
      <4> QED BY <2>1, <2>22, <3>2, <4>2, LoyalMove DEF Advise
    <3> QED BY <2>22, <3>1, <3>2 DEF Advise
  <2>14. ASSUME NEW c \in Cmd, Render(c) \/ Mint(c) \/ Launch(c) PROVE Unedited'
    <3>1. /\ cmd[c].pc \notin {"idle", "create"} /\ cmd[c] \in Process /\ created \in Configs
          /\ Loyal(cmd[c], created) /\ round > 0 /\ cmd[c].rnd \in Rounds
      BY <2>1, <2>2, <2>14 DEF Render, Mint, Launch, Unedited, ProcessOK, FieldsOK, Process, Rounds
    <3>2. PICK q \in PCs \ {"create"} : Move(c, Step(cmd[c], q))
      BY <2>14 DEF Render, Mint, Launch, PCs
    <3>6. cmd[c].pc # "create" /\ cmd[c].conf \in Configs
      BY <2>2, <2>14 DEF Render, Mint, Launch
    <3>3. Loyal(Step(cmd[c], q), created) /\ Step(cmd[c], q).pc # "create"
      BY <3>1, <3>6, LoyalStep, StepTyped, ConfigTypes
    <3>4. cmd[c].at <= created.m
      BY <2>14, <3>1 DEF Loyal, Render, Mint, Launch
    <3>5. \A r \in Rounds, v \in Slots :
            verdict'[r][v] # "none" => verdict[r][v] # "none" \/ v <= created.m
      <4>1. CASE Mint(c) \/ Launch(c)
        BY <4>1 DEF Mint, Launch
      <4>2. CASE Render(c)
        BY <3>1, <3>4, <4>2 DEF Render, FilesOK, Process
      <4> QED BY <2>14, <4>1, <4>2
    <3> QED BY <2>1, <2>14, <3>2, <3>3, <3>5, LoyalMove DEF Render, Mint, Launch
  <2>15. ASSUME NEW c \in Cmd, Reap(c) \/ Timeout(c) \/ Drain(c) PROVE Unedited'
    <3>1. /\ cmd[c].pc \notin {"idle", "create"} /\ cmd[c] \in Process /\ created \in Configs
          /\ Loyal(cmd[c], created)
      BY <2>1, <2>2, <2>15 DEF Reap, Timeout, Drain, Unedited
    <3>2. UNCHANGED <<live, created, completion, round, verdict>>
      BY <2>15 DEF Reap, Timeout, Drain
    <3> DEFINE g == [cmd[c] EXCEPT !.pc = "gather"]
               d == [cmd[c] EXCEPT !.pc = "drain"]
    <3>3. g \in Process /\ g.pc = "gather" /\ Loyal(g, created) /\ Loyal(d, created)
          /\ d.pc # "create"
          /\ (cmd[c].pc = "gather" => g = cmd[c])
      BY <3>1 DEF Process, PCs, Loyal
    <3>4. Loyal(Gathered(g), created) /\ Gathered(g).pc # "create"
      <4>1. g.conf \in Configs /\ g \in Process
        BY <2>2, <3>1, <3>3 DEF Process
      <4> HIDE DEF g
      <4>2. Gathered(g).pc \in {"gather", "read"}
        BY <3>3, <4>1, GatheredTyped
      <4>3. Loyal(Gathered(g), created)
        BY <3>1, <3>3, <4>1, LoyalStep DEF PCs
      <4> QED BY <4>2, <4>3
    <3> HIDE DEF g, d
    <3>5. Move(c, Gathered(g)) \/ Move(c, d)
      BY <2>15, <3>3 DEF Reap, Timeout, Drain, g, d
    <3>6. CASE Move(c, Gathered(g))
      BY <2>1, <3>2, <3>4, <3>6, LoyalMove
    <3>7. CASE Move(c, d)
      BY <2>1, <3>2, <3>3, <3>7, LoyalMove
    <3> QED BY <3>5, <3>6, <3>7
  <2>16. ASSUME NEW c \in Cmd, Busy(c) \/ Cooldown(c) \/ Fail(c) \/ Abort(c)
         PROVE  Unedited'
    BY <2>1, <2>16, LoyalFinish DEF Busy, Cooldown, Fail, Abort
  <2>17. ASSUME NEW c \in Cmd, Write(c) PROVE Unedited'
    <3>1. cmd[c].pc \notin {"idle", "create"} /\ round > 0 /\ cmd[c].conf = created /\ Loyal(cmd[c], created)
      BY <2>1, <2>2, <2>17 DEF Write, Unedited
    <3>2. completion'.need = created.n /\ completion'.matching = Matching(cmd[c])
      BY <2>17, <3>1 DEF Write
    <3>3. \A v \in Matching(cmd[c]) : v <= created.m
      BY <3>1 DEF Matching, Loyal
    <3> QED BY <2>1, <2>17, <3>1, <3>2, <3>3, LoyalFinish DEF Write
  <2>18. ASSUME NEW r \in Rounds, NEW v \in Slots, Verifier(r, v) PROVE Unedited'
    <3>1. UNCHANGED <<live, created, round, completion, cmd>>
      BY <2>18 DEF Verifier, Register, AppendReceipt, Die
    <3>2. \A s \in Rounds, u \in Slots : verdict'[s][u] # "none" => verdict[s][u] # "none"
      BY <2>18 DEF Verifier, Register, AppendReceipt, Die, FilesOK
    <3> QED BY <2>1, <3>1, <3>2 DEF Unedited
  <2>19. CASE UNCHANGED vars
    BY <2>1, <2>19 DEF vars, Unedited
  <2> QED
    BY <1>2, <2>3, <2>4, <2>6, <2>7, <2>8, <2>9, <2>10, <2>11, <2>12, <2>13, <2>14, <2>15,
       <2>16, <2>17, <2>18, <2>19, <2>20, <2>21, <2>22
    DEF Next, Start, Command, Probe, Locking, RunRound, Settle
<1> QED BY <1>1, <1>2

\* AUDIT's count check accepts every completion of a goal whose config.json was
\* never edited in flight, for any number of slots, rounds and processes.
THEOREM AuditCounts == Spec => []AuditAcceptsCount
<1>1. Typing /\ CompletionBacked /\ AgreedOK => AuditAcceptsCount
  <2> SUFFICES ASSUME Typing, CompletionBacked, AgreedOK, completion # NoCompletion,
                      edits = 0
               PROVE  AuditCount
    BY DEF AuditAcceptsCount
  <2>1. /\ created \in Configs /\ completion.need = created.n
        /\ \A v \in completion.matching : v <= created.m
    BY FilesTyped DEF AgreedOK, Unedited, FilesOK
  <2>2. created.m \in 1..MaxSlot /\ created.n \in 1..MaxSlot
    BY <2>1, ConfigTypes
  <2>3. completion.matching \subseteq 1..created.m
    BY <2>1, <2>2, FilesTyped DEF FilesOK, Completion, Slots
  <2>4. IsFiniteSet(1..created.m) /\ Cardinality(1..created.m) = created.m
    BY <2>2, FS_Interval
  <2>5. /\ Cardinality(completion.matching) <= created.m
        /\ Cardinality(completion.matching) \in Nat
    BY <2>3, <2>4, FS_Subset, FS_CardinalityType
  <2>6. Cardinality(completion.matching) >= created.n
    BY <2>1 DEF CompletionBacked
  <2> QED BY <2>2, <2>5, <2>6 DEF AuditCount
<1> QED
  BY <1>1, TypingInit, TypingStep, EvidenceInit, EvidenceStep, BackedInit, BackedStep,
     AgreedInit, AgreedStep, PTL
  DEF Spec
===============================================================================
