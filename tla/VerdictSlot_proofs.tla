-------------------------- MODULE VerdictSlot_proofs --------------------------
(***************************************************************************)
(* Theorems about VerdictSlot: its types; the receipt chain, for any       *)
(* number of callers, slots and kills; and, on the slots whose invocations *)
(* do not overlap, whole verdicts and the ledger's promise.                *)
(***************************************************************************)
EXTENDS VerdictSlot, SequenceTheorems, FiniteSetTheorems, TLAPS

USE CallerAssumption, SlotAssumption, CrashAssumption

\* What a write leaves at the end of the log, whole or cut short,
LEMMA GrownEnd ==
  ASSUME TypeOK, NEW c \in Caller, NEW ok \in BOOLEAN, ~cut, log' = Grown(c, ok)
  PROVE  /\ log' \in Seq(Line) /\ Len(log) \in Nat /\ Len(log') = Len(log) + 1
         /\ log'[Len(log) + 1].seq = seen[c].count + 1
         /\ log'[Len(log) + 1].prev = seen[c].head
         /\ log'[Len(log) + 1].hash = c
         /\ log'[Len(log) + 1].ok = ok
         /\ \A i \in 1..Len(log) : log'[i] = log[i]
<1> USE DEF TypeOK
<1> DEFINE e == [seq |-> seen[c].count + 1, prev |-> seen[c].head,
                 hash |-> c, ok |-> ok]
<1>1. e \in Line
  BY DEF Line
<1>2. log' = Append(log, e)
  BY DEF Grown
<1>3. /\ e.seq = seen[c].count + 1 /\ e.prev = seen[c].head
      /\ e.hash = c /\ e.ok = ok
  OBVIOUS
<1> HIDE DEF e
<1>4. /\ Len(log) \in Nat /\ log' \in Seq(Line) /\ Len(log') = Len(log) + 1
      /\ log'[Len(log) + 1] = e
      /\ \A i \in 1..Len(log) : log'[i] = log[i]
  BY <1>1, <1>2, AppendProperties, LenProperties
<1> QED BY <1>3, <1>4

\* and what behind a line that has no newline.
LEMMA GrownGlued ==
  ASSUME TypeOK, NEW c \in Caller, NEW ok \in BOOLEAN, cut, log' = Grown(c, ok)
  PROVE  /\ log' \in Seq(Line) /\ Len(log) \in Nat /\ Len(log') = Len(log)
         /\ Len(log) \in 1..Len(log)
         /\ ~log'[Len(log)].ok
         /\ log'[Len(log)].hash = log[Len(log)].hash
         /\ \A i \in 1..Len(log) : i # Len(log) => log'[i] = log[i]
<1> USE DEF TypeOK
<1> DEFINE n == Len(log)
           e == [log[n] EXCEPT !.ok = FALSE]
<1>1. n \in Nat /\ n \in 1..n
  BY EmptySeq, LenProperties
<1>2. log[n] \in Line
  BY <1>1, ElementOfSeq
<1>3. e \in Line /\ ~e.ok /\ e.hash = log[n].hash
  BY <1>2 DEF Line
<1>4. log' = [log EXCEPT ![n] = e]
  BY DEF Grown
<1> HIDE DEF e
<1>5. /\ log' \in Seq(Line) /\ Len(log') = n
      /\ \A i \in 1..n : log'[i] = IF i = n THEN e ELSE log[i]
  BY <1>1, <1>3, <1>4, ExceptSeq
<1> QED BY <1>1, <1>3, <1>5

LEMMA GrownType ==
  ASSUME TypeOK, NEW c \in Caller, NEW ok \in BOOLEAN, log' = Grown(c, ok)
  PROVE  log' \in Seq(Line) /\ log' # <<>>
<1>1. CASE ~cut
  BY <1>1, GrownEnd, EmptySeq
<1>2. CASE cut
  BY <1>2, GrownGlued, EmptySeq
<1> QED BY <1>1, <1>2

-----------------------------------------------------------------------------
(***************************************************************************)
(* Types                                                                   *)
(***************************************************************************)

LEMMA TypeStep == TypeOK /\ [Next]_vars => TypeOK'
<1> SUFFICES ASSUME TypeOK, [Next]_vars PROVE TypeOK'
  OBVIOUS
<1> USE DEF TypeOK
<1>1. ASSUME NEW c \in Caller, NEW p \in PCs, Go(c, p) PROVE pc' \in [Caller -> PCs]
  BY <1>1 DEF Go
<1>2. /\ {"idle", "check", "open", "fill", "rename", "lock", "read", "append",
          "unlock"} \subseteq PCs
      /\ {"final", "failed", "registered", "dead"} \subseteq PCs
  BY DEF PCs, Done
<1>3. ASSUME NEW c \in Caller, Start(c) PROVE TypeOK'
  BY <1>1, <1>2, <1>3 DEF Start
<1>4. ASSUME NEW c \in Caller, Check(c) PROVE TypeOK'
  BY <1>1, <1>2, <1>4 DEF Check
<1>5. ASSUME NEW c \in Caller, Open(c) PROVE TypeOK'
  <2> DEFINE i == IF tmp[slot[c]] = Nobody THEN c ELSE tmp[slot[c]]
  <2>1. i \in Caller
    OBVIOUS
  <2>2. /\ tmp' = [tmp EXCEPT ![slot[c]] = i] /\ fd' = [fd EXCEPT ![c] = i]
        /\ data' = [data EXCEPT ![i] = "empty"]
    BY <1>5 DEF Open
  <2> HIDE DEF i
  <2>3. /\ tmp' \in [Slots -> Caller \cup {Nobody}]
        /\ fd' \in [Caller -> Caller \cup {Nobody}]
        /\ data' \in [Caller -> Caller \cup {"empty", "torn"}]
    BY <2>1, <2>2
  <2> QED BY <1>1, <1>2, <1>5, <2>3 DEF Open
<1>6. ASSUME NEW c \in Caller, Fill(c) PROVE TypeOK'
  <2>1. PICK x \in {c, "torn"} : data' = [data EXCEPT ![fd[c]] = x]
    BY <1>6 DEF Fill
  <2>2. data' \in [Caller -> Caller \cup {"empty", "torn"}]
    BY <2>1
  <2> QED BY <1>1, <1>2, <1>6, <2>2 DEF Fill
<1>7. ASSUME NEW c \in Caller, Rename(c) PROVE TypeOK'
  <2>1. pc' \in [Caller -> PCs]
    BY <1>1, <1>2, <1>7 DEF Rename
  <2>2. tmp' \in [Slots -> Caller \cup {Nobody}] /\ target' \in [Slots -> Caller \cup {Nobody}]
    BY <1>7 DEF Rename
  <2> QED BY <1>7, <2>1, <2>2 DEF Rename
<1>8. ASSUME NEW c \in Caller, Lock(c) \/ Unlock(c) PROVE TypeOK'
  BY <1>1, <1>2, <1>8 DEF Lock, Unlock
<1>9. ASSUME NEW c \in Caller, ReadHead(c) PROVE TypeOK'
  <2>1. Len(log) \in Nat
    BY LenProperties
  <2>2. PICK h \in Caller \cup {Nobody} :
          seen' = [seen EXCEPT ![c] = [count |-> Len(log), head |-> h]]
    BY <1>9 DEF ReadHead
  <2>3. seen' \in [Caller -> [count : Nat, head : Caller \cup {Nobody}]]
    BY <2>1, <2>2
  <2> QED BY <1>1, <1>2, <1>9, <2>3 DEF ReadHead
<1>10. ASSUME NEW c \in Caller, AppendLine(c) \/ CutLine(c) PROVE TypeOK'
  <2>1. PICK ok \in BOOLEAN : log' = Grown(c, ok)
    BY <1>10 DEF AppendLine, CutLine
  <2>2. log' \in Seq(Line) /\ log' # <<>>
    BY <2>1, GrownType
  <2>3. cut' \in BOOLEAN
    BY <1>10, Zenon DEF AppendLine, CutLine
  <2>4. pc' \in [Caller -> PCs]
    BY <1>1, <1>2, <1>10 DEF AppendLine, CutLine
  <2>5. logLock' \in Caller \cup {Nobody} /\ crashes' \in 0..MaxCrashes
    <3>1. CASE AppendLine(c)
      BY <3>1 DEF AppendLine
    <3>2. CASE CutLine(c)
      <4>1. logLock' = Nobody /\ crashes < MaxCrashes /\ crashes' = crashes + 1
        BY <3>2, Zenon DEF CutLine
      <4> QED BY <4>1
    <3> QED BY <1>10, <3>1, <3>2
  <2>6. UNCHANGED <<slot, fd, data, tmp, target, seen>>
    BY <1>10 DEF AppendLine, CutLine
  <2> QED BY <2>2, <2>3, <2>4, <2>5, <2>6
<1>11. ASSUME NEW c \in Caller, Crash(c) PROVE TypeOK'
  BY <1>1, <1>2, <1>11 DEF Crash
<1>12. CASE UNCHANGED vars
  BY <1>12 DEF vars
<1> QED
  BY <1>3, <1>4, <1>5, <1>6, <1>7, <1>8, <1>9, <1>10, <1>11, <1>12
  DEF Next, Call, WriteFirstVerdict, AppendReceipt

LEMMA TypeInit == Init => TypeOK
<1> SUFFICES ASSUME Init PROVE TypeOK
  OBVIOUS
<1>1. cut \in BOOLEAN /\ ~cut
  BY Zenon DEF Init
<1>2. log \in Seq(Line)
  BY EmptySeq DEF Init
<1> QED BY <1>1, <1>2 DEF Init, TypeOK, PCs, NothingSeen

\* Every variable keeps its type.
THEOREM SlotTypes == Spec => []TypeOK
BY TypeInit, TypeStep, PTL DEF Spec

-----------------------------------------------------------------------------
(***************************************************************************)
(* The receipt chain                                                       *)
(***************************************************************************)

\* The lock's holder is alone, and what it has read of the log is still so.
LockOK ==
  \A c \in Caller :
    /\ pc[c] \in {"read", "append", "unlock"} => logLock = c
    /\ pc[c] = "append" => seen[c].count = Len(log) /\ LastHash(log, seen[c].head, Len(log))

LEMMA ChainStep ==
  TypeOK /\ LockOK /\ ReceiptsChained /\ [Next]_vars => LockOK' /\ ReceiptsChained'
<1> SUFFICES ASSUME TypeOK, LockOK, ReceiptsChained, [Next]_vars
             PROVE  LockOK' /\ ReceiptsChained'
  OBVIOUS
<1>0. /\ \A c \in Caller : pc[c] \in PCs
      /\ Len(log) \in Nat
  BY LenProperties DEF TypeOK
<1>1. ASSUME NEW c \in Caller, UNCHANGED <<log, logLock, seen>>,
             \A d \in Caller : d # c => pc'[d] = pc[d],
             pc'[c] \notin {"read", "append", "unlock"}
      PROVE  LockOK' /\ ReceiptsChained'
  BY <1>1 DEF LockOK, ReceiptsChained
<1>2. ASSUME NEW c \in Caller, Start(c) \/ WriteFirstVerdict(c)
      PROVE  LockOK' /\ ReceiptsChained'
  <2>1. /\ \A d \in Caller : d # c => pc'[d] = pc[d]
        /\ pc'[c] \notin {"read", "append", "unlock"}
        /\ UNCHANGED <<log, logLock, seen>>
    BY <1>2 DEF Start, WriteFirstVerdict, Check, Open, Fill, Rename, Go, TypeOK
  <2> QED BY <1>1, <2>1
<1>3. ASSUME NEW c \in Caller, Lock(c) PROVE LockOK' /\ ReceiptsChained'
  <2>1. \A d \in Caller : pc[d] \notin {"read", "append", "unlock"}
    BY <1>3 DEF Lock, LockOK
  <2>2. pc'[c] = "read" /\ \A d \in Caller : d # c => pc'[d] = pc[d]
    BY <1>3 DEF Lock, Go, TypeOK
  <2> QED BY <1>3, <2>1, <2>2 DEF Lock, LockOK, ReceiptsChained
<1>4. ASSUME NEW c \in Caller, ReadHead(c) PROVE LockOK' /\ ReceiptsChained'
  <2>1. /\ pc'[c] = "append" /\ \A d \in Caller : d # c => pc'[d] = pc[d]
        /\ pc[c] = "read" /\ UNCHANGED <<log, logLock>>
    BY <1>4 DEF ReadHead, Go, TypeOK
  <2>2. PICK h \in Caller \cup {Nobody} :
          /\ LastHash(log, h, Len(log))
          /\ seen' = [seen EXCEPT ![c] = [count |-> Len(log), head |-> h]]
    BY <1>4 DEF ReadHead
  <2>3. /\ seen'[c].count = Len(log) /\ LastHash(log, seen'[c].head, Len(log))
        /\ \A d \in Caller : d # c => seen'[d] = seen[d]
    BY <2>2 DEF TypeOK
  <2>4. \A d \in Caller : d # c => pc[d] # "append"
    BY <2>1 DEF LockOK
  <2>5. ReceiptsChained'
    BY <2>1 DEF ReceiptsChained
  <2> QED BY <2>1, <2>3, <2>4, <2>5 DEF LockOK
<1>5. ASSUME NEW c \in Caller, AppendLine(c) \/ CutLine(c)
      PROVE  LockOK' /\ ReceiptsChained'
  <2>1. PICK ok \in BOOLEAN : log' = Grown(c, ok)
    BY <1>5 DEF AppendLine, CutLine
  <2>2. /\ pc[c] = "append" /\ pc'[c] \in {"unlock", "dead"}
        /\ \A d \in Caller : d # c => pc'[d] = pc[d]
        /\ logLock = c /\ (pc'[c] = "unlock" => logLock' = c)
    BY <1>5 DEF AppendLine, CutLine, Go, TypeOK, LockOK
  <2>3. LockOK'
    BY <2>2 DEF LockOK
  <2>4. ASSUME NEW l \in Nat, \A i \in 1..l : log'[i] = log[i],
               NEW n \in 0..l, NEW h, LastHash(log, h, n)
        PROVE  LastHash(log', h, n)
    BY <2>4 DEF LastHash
  <2>5. ASSUME NEW l \in Nat, l <= Len(log), \A i \in 1..l : log'[i] = log[i],
               NEW i \in 1..l, log'[i].ok
        PROVE  log'[i].seq = i /\ LastHash(log', log'[i].prev, i - 1)
    <3>1. log[i].seq = i /\ LastHash(log, log[i].prev, i - 1)
      BY <1>0, <2>5 DEF ReceiptsChained
    <3>2. i - 1 \in 0..l /\ log'[i] = log[i]
      BY <2>5
    <3> QED BY <2>4, <2>5, <3>1, <3>2
  <2>6. CASE ~cut
    <3>1. /\ Len(log') = Len(log) + 1 /\ \A i \in 1..Len(log) : log'[i] = log[i]
          /\ log'[Len(log) + 1].seq = seen[c].count + 1
          /\ log'[Len(log) + 1].prev = seen[c].head
      BY <2>1, <2>6, GrownEnd
    <3>2. seen[c].count = Len(log) /\ LastHash(log, seen[c].head, Len(log))
      BY <2>2 DEF LockOK
    <3>3. LastHash(log', seen[c].head, Len(log)) /\ Len(log) \in 0..Len(log)
      BY <1>0, <2>4, <3>1, <3>2, SMTT(30)
    <3>4. ASSUME NEW i \in 1..Len(log'), log'[i].ok
          PROVE  log'[i].seq = i /\ LastHash(log', log'[i].prev, i - 1)
      <4>1. CASE i \in 1..Len(log)
        BY <1>0, <2>5, <3>1, <3>4, <4>1
      <4>2. CASE i = Len(log) + 1
        <5>1. i - 1 = Len(log)
          BY <1>0, <4>2
        <5> QED BY <3>1, <3>2, <3>3, <4>2, <5>1
      <4> QED BY <1>0, <3>1, <4>1, <4>2
    <3> QED BY <2>3, <3>4 DEF ReceiptsChained
  <2>7. CASE cut
    <3>1. /\ Len(log') = Len(log) /\ ~log'[Len(log)].ok
          /\ \A i \in 1..Len(log) : i # Len(log) => log'[i] = log[i]
          /\ Len(log) \in 1..Len(log)
      BY <2>1, <2>7, GrownGlued
    <3>2. /\ Len(log) - 1 \in Nat /\ Len(log) - 1 <= Len(log)
          /\ \A i \in 1..(Len(log) - 1) : log'[i] = log[i]
      BY <1>0, <3>1
    <3>3. ASSUME NEW i \in 1..Len(log'), log'[i].ok
          PROVE  log'[i].seq = i /\ LastHash(log', log'[i].prev, i - 1)
      <4>1. i \in 1..(Len(log) - 1)
        <5>1. i # Len(log)
          BY <3>1, <3>3
        <5> QED BY <1>0, <3>1, <5>1
      <4> QED BY <2>5, <3>2, <3>3, <4>1
    <3> QED BY <2>3, <3>3 DEF ReceiptsChained
  <2> QED BY <2>3, <2>6, <2>7
<1>6. ASSUME NEW c \in Caller, Unlock(c) PROVE LockOK' /\ ReceiptsChained'
  <2>1. pc'[c] = "registered" /\ \A d \in Caller : d # c => pc'[d] = pc[d]
    BY <1>6 DEF Unlock, Go, TypeOK
  <2>2. \A d \in Caller : d # c => pc[d] \notin {"read", "append", "unlock"}
    BY <1>6 DEF Unlock, LockOK
  <2> QED BY <1>6, <2>1, <2>2 DEF Unlock, LockOK, ReceiptsChained
<1>7. ASSUME NEW c \in Caller, Crash(c) PROVE LockOK' /\ ReceiptsChained'
  <2>1. pc'[c] = "dead" /\ \A d \in Caller : d # c => pc'[d] = pc[d]
    BY <1>7 DEF Crash, Go, TypeOK
  <2>2. \A d \in Caller : d # c /\ logLock = d => logLock' = d
    BY <1>7 DEF Crash
  <2>3. UNCHANGED <<log, seen>>
    BY <1>7 DEF Crash
  <2>4. ReceiptsChained'
    BY <2>3 DEF ReceiptsChained
  <2> QED BY <2>1, <2>2, <2>3, <2>4 DEF LockOK
<1>8. CASE UNCHANGED vars
  BY <1>8 DEF vars, LockOK, ReceiptsChained
<1> QED
  BY <1>2, <1>3, <1>4, <1>5, <1>6, <1>7, <1>8 DEF Next, Call, AppendReceipt

LEMMA ChainInit == Init => LockOK /\ ReceiptsChained
<1> SUFFICES ASSUME Init PROVE LockOK /\ ReceiptsChained
  OBVIOUS
<1>1. Len(log) = 0
  BY EmptySeq DEF Init
<1> QED BY <1>1 DEF Init, LockOK, ReceiptsChained

\* The receipts of any number of callers form one chain, whoever is killed and
\* whatever that leaves in the file.
THEOREM OneChain == Spec => []ReceiptsChained
BY ChainInit, ChainStep, TypeInit, TypeStep, PTL DEF Spec

\* A line without a newline is that of a dead caller, and has its kill to show.
LossInv ==
  /\ IsFiniteSet(Lost)
  /\ Cardinality(Lost) <= crashes
  /\ cut => Cardinality(Lost) + 1 <= crashes
  /\ cut => pc[log[Len(log)].hash] = "dead"

LEMMA LogCallers == TypeOK => \A i \in 1..Len(log) : log[i].hash \in Caller
<1> SUFFICES ASSUME TypeOK, NEW i \in 1..Len(log) PROVE log[i].hash \in Caller
  OBVIOUS
<1>1. log[i] \in Line
  BY ElementOfSeq DEF TypeOK
<1> QED BY <1>1 DEF Line

LEMMA LossStep ==
  ASSUME TypeOK, TypeOK', LossInv, [Next]_vars
  PROVE  LossInv'
<1> USE DEF LossInv
<1>0. /\ crashes \in Nat /\ crashes' \in Nat /\ Cardinality(Lost) \in Nat
      /\ pc \in [Caller -> PCs]
  BY FS_CardinalityType DEF TypeOK
<1>1. ASSUME Lost' \subseteq Lost
      PROVE  /\ IsFiniteSet(Lost') /\ Cardinality(Lost') \in Nat
             /\ Cardinality(Lost') <= Cardinality(Lost)
  BY <1>1, FS_Subset, FS_CardinalityType
\* Without a write in the log nothing gets lost.
<1>2. ASSUME UNCHANGED <<log, cut>>, crashes' >= crashes,
             \A d \in Caller : /\ pc[d] = "dead" => pc'[d] = "dead"
                               /\ pc'[d] \in {"unlock", "registered"} =>
                                    pc[d] \in {"unlock", "registered"}
      PROVE  LossInv'
  <2>1. Lost' \subseteq Lost
    BY <1>2 DEF Lost
  <2>2. cut => log[Len(log)].hash \in Caller
    <3>1. cut => Len(log) \in 1..Len(log)
      BY EmptySeq, LenProperties DEF TypeOK
    <3> QED BY <3>1, LogCallers
  <2> QED BY <1>0, <1>1, <1>2, <2>1, <2>2
<1>3. ASSUME NEW c \in Caller, Start(c) \/ WriteFirstVerdict(c) \/ Lock(c) \/ ReadHead(c)
                               \/ Unlock(c) \/ Crash(c)
      PROVE  LossInv'
  <2>1. UNCHANGED <<log, cut>> /\ (crashes' = crashes \/ crashes' = crashes + 1)
    BY <1>3 DEF Start, WriteFirstVerdict, Check, Open, Fill, Rename, Lock, ReadHead,
                Unlock, Crash
  <2>2. /\ pc[c] # "dead" /\ \A d \in Caller : d # c => pc'[d] = pc[d]
        /\ pc'[c] \in {"unlock", "registered"} => pc[c] \in {"unlock", "registered"}
    BY <1>0, <1>3 DEF Start, WriteFirstVerdict, Check, Open, Fill, Rename, Lock,
                      ReadHead, Unlock, Crash, Go, Done
  <2> QED BY <1>0, <1>2, <2>1, <2>2
<1>4. ASSUME NEW c \in Caller, NEW ok \in BOOLEAN, log' = Grown(c, ok),
             pc[c] = "append", \A d \in Caller : d # c => pc'[d] = pc[d]
      PROVE  /\ Lost' \subseteq Lost \cup {c}
             /\ ok /\ ~cut => Lost' \subseteq Lost
             /\ cut => log'[Len(log')].hash = log[Len(log)].hash
                       /\ pc'[log[Len(log)].hash] = "dead"
             /\ ~cut => log'[Len(log')].hash = c
  <2>0. c \notin Lost
    BY <1>4 DEF Lost
  <2>1. CASE ~cut
    <3>1. /\ Len(log) \in Nat /\ Len(log') = Len(log) + 1
          /\ log'[Len(log) + 1].hash = c /\ log'[Len(log) + 1].ok = ok
          /\ \A i \in 1..Len(log) : log'[i] = log[i]
      BY <1>4, <2>1, GrownEnd
    <3>2. /\ Len(log) + 1 \in 1..Len(log')
          /\ \A i \in 1..Len(log) : i \in 1..Len(log')
      BY <3>1
    <3>3. ASSUME NEW d \in Lost', d # c
          PROVE  d \in Lost
      BY <1>4, <3>1, <3>2, <3>3 DEF Lost
    <3>4. ok => c \notin Lost'
      BY <3>1, <3>2 DEF Lost
    <3> QED BY <2>1, <3>1, <3>3, <3>4
  <2>2. CASE cut
    <3>1. /\ Len(log') = Len(log) /\ Len(log) \in 1..Len(log)
          /\ log'[Len(log)].hash = log[Len(log)].hash
          /\ \A i \in 1..Len(log) : i # Len(log) => log'[i] = log[i]
      BY <1>4, <2>2, GrownGlued
    <3>2. log[Len(log)].hash \in Caller /\ pc[log[Len(log)].hash] = "dead"
      BY <2>2, <3>1, LogCallers
    <3>3. log[Len(log)].hash # c /\ pc'[log[Len(log)].hash] = "dead"
      BY <1>4, <3>2
    <3>4. ASSUME NEW d \in Lost', d # c
          PROVE  d \in Lost
      <4>1. d # log[Len(log)].hash
        BY <3>3 DEF Lost
      <4> QED BY <1>4, <3>1, <3>4, <4>1 DEF Lost
    <3> QED BY <2>2, <3>1, <3>3, <3>4
  <2> QED BY <2>1, <2>2
<1>5. ASSUME NEW c \in Caller, AppendLine(c) PROVE LossInv'
  <2>1. /\ log' = Grown(c, TRUE) /\ cut' = FALSE /\ crashes' = crashes
        /\ pc[c] = "append" /\ \A d \in Caller : d # c => pc'[d] = pc[d]
    BY <1>5 DEF AppendLine, Go, TypeOK
  <2>2. ~cut'
    BY <2>1
  <2>3. CASE ~cut
    <3>1. Lost' \subseteq Lost
      BY <1>4, <2>1, <2>3
    <3>2. Cardinality(Lost) <= crashes
      BY <2>3
    <3>3. IsFiniteSet(Lost') /\ Cardinality(Lost') <= crashes'
      BY <1>0, <1>1, <2>1, <3>1, <3>2
    <3> QED BY <2>2, <3>3
  <2>4. CASE cut
    <3>0. Cardinality(Lost) + 1 <= crashes
      BY <2>4
    <3>1. Lost' \subseteq Lost \cup {c}
      BY <1>4, <2>1
    <3>2. /\ IsFiniteSet(Lost \cup {c}) /\ Cardinality(Lost \cup {c}) \in Nat
          /\ Cardinality(Lost \cup {c}) <= Cardinality(Lost) + 1
      <4>1. IsFiniteSet(Lost \cup {c})
        BY FS_AddElement
      <4>2. Cardinality(Lost \cup {c}) \in {Cardinality(Lost), Cardinality(Lost) + 1}
        BY FS_AddElement
      <4> QED BY <1>0, <4>1, <4>2
    <3>3. /\ IsFiniteSet(Lost') /\ Cardinality(Lost') \in Nat
          /\ Cardinality(Lost') <= Cardinality(Lost \cup {c})
      BY <3>1, <3>2, FS_Subset, FS_CardinalityType
    <3>4. IsFiniteSet(Lost') /\ Cardinality(Lost') <= crashes'
      BY <1>0, <2>1, <3>0, <3>2, <3>3
    <3> QED BY <2>2, <3>4
  <2> QED BY <2>3, <2>4
<1>6. ASSUME NEW c \in Caller, CutLine(c) PROVE LossInv'
  <2>1. PICK ok \in BOOLEAN : log' = Grown(c, ok)
    BY <1>6 DEF CutLine
  <2>2. /\ cut' = TRUE /\ crashes' = crashes + 1 /\ pc[c] = "append"
        /\ pc'[c] = "dead" /\ \A d \in Caller : d # c => pc'[d] = pc[d]
    BY <1>6 DEF CutLine, Go, TypeOK
  <2>3. Lost' \subseteq Lost
    <3>1. c \notin Lost'
      BY <2>2 DEF Lost
    <3> QED BY <1>4, <2>1, <2>2, <3>1
  <2>4. pc'[log'[Len(log')].hash] = "dead"
    BY <1>4, <2>1, <2>2
  <2>5. Cardinality(Lost) <= crashes
    BY <1>0
  <2> QED BY <1>0, <1>1, <2>2, <2>3, <2>4, <2>5
<1>7. CASE UNCHANGED vars
  BY <1>0, <1>2, <1>7 DEF vars
<1> QED
  BY <1>3, <1>5, <1>6, <1>7 DEF Next, Call, AppendReceipt

\* read_head_and_count steps over lines that do not parse: every kill or error
\* in a write costs one acknowledged receipt at most, however many calls follow.
THEOREM FewLost == Spec => []LossesBounded
<1>1. Init => LossInv
  <2> SUFFICES ASSUME Init PROVE LossInv
    OBVIOUS
  <2>1. Lost = {}
    BY DEF Init, Lost
  <2> QED BY <2>1, FS_EmptySet DEF Init, LossInv
<1>2. TypeOK /\ LossInv => LossesBounded
  <2> SUFFICES ASSUME TypeOK, LossInv PROVE LossesBounded
    OBVIOUS
  <2>1. Cardinality(Lost) \in Nat /\ crashes \in Nat
    BY FS_CardinalityType DEF LossInv, TypeOK
  <2> QED BY <2>1 DEF LossInv, LossesBounded
<1> QED BY <1>1, <1>2, LossStep, TypeInit, TypeStep, PTL DEF Spec

-----------------------------------------------------------------------------
(***************************************************************************)
(* Slots whose invocations do not overlap                                  *)
(***************************************************************************)

Active(c) == pc[c] \in {"check", "open", "fill", "rename", "lock", "read",
                        "append", "unlock"}
Alone(c)  == slot[c] \notin Racing

\* Caller c's record is what verdict.json of its slot holds.
InPlace(c) == target[slot[c]] # Nobody /\ data[target[slot[c]]] = c

\* A slot has one active caller at most.
OneActive ==
  \A c, d \in Caller :
    c # d /\ slot[c] = slot[d] /\ Alone(c) => ~ (Active(c) /\ Active(d))

\* An inode never moves to another slot.
InodesStay ==
  /\ \A v \in Slots : tmp[v] # Nobody => slot[tmp[v]] = v
  /\ \A v \in Slots : target[v] # Nobody => slot[target[v]] = v
  /\ \A c \in Caller : fd[c] # Nobody => slot[fd[c]] = slot[c]

\* What an active caller relies on from one file step to the next.
CallerOK(c) ==
  /\ pc[c] \in {"open", "fill", "rename"} => target[slot[c]] = Nobody
  /\ pc[c] = "fill" => /\ fd[c] # Nobody /\ fd[c] = tmp[slot[c]]
                       /\ data[fd[c]] = "empty"
  /\ pc[c] = "rename" => tmp[slot[c]] # Nobody /\ data[tmp[slot[c]]] = c
  /\ pc[c] \in {"lock", "read", "append", "unlock"} => InPlace(c)

WriterOK == \A c \in Caller : Alone(c) => CallerOK(c)

\* A verdict that is in place is a caller's whole record.
WholeOK == \A v \in Slots \ Racing : target[v] # Nobody => data[target[v]] \in Caller

\* A receipt's verdict is in place.
ReceiptOK == \A i \in 1..Len(log) : Alone(log[i].hash) => InPlace(log[i].hash)

SlotInv == OneActive /\ InodesStay /\ WriterOK /\ WholeOK /\ ReceiptOK

LEMMA SlotInit == Init => SlotInv
<1> SUFFICES ASSUME Init PROVE SlotInv
  OBVIOUS
<1>1. Len(log) = 0
  BY EmptySeq DEF Init
<1>2. OneActive /\ InodesStay /\ WriterOK
  BY DEF Init, OneActive, InodesStay, WriterOK, CallerOK, Active
<1>3. WholeOK /\ ReceiptOK
  BY <1>1 DEF Init, WholeOK, ReceiptOK
<1> QED BY <1>2, <1>3 DEF SlotInv

\* A step of caller c: what may change is c itself and what belongs to its slot.
Touches(c) ==
  /\ slot' = slot
  /\ \A d \in Caller : d # c => pc'[d] = pc[d] /\ fd'[d] = fd[d]
  /\ \A v \in Slots : v # slot[c] => tmp'[v] = tmp[v] /\ target'[v] = target[v]
  /\ \A i \in Caller : slot[i] # slot[c] => data'[i] = data[i]

\* Other slots keep their invariant under a step of c.
LEMMA Elsewhere ==
  ASSUME TypeOK, InodesStay, NEW c \in Caller, Touches(c)
  PROVE  /\ \A d \in Caller : slot[d] # slot[c] /\ CallerOK(d) => CallerOK(d)'
         /\ \A d \in Caller : slot[d] # slot[c] /\ InPlace(d) => InPlace(d)'
         /\ WholeOK => \A v \in Slots \ Racing :
              v # slot[c] /\ target'[v] # Nobody => data'[target'[v]] \in Caller
<1>1. ASSUME NEW d \in Caller, slot[d] # slot[c], InPlace(d) PROVE InPlace(d)'
  <2>1. target[slot[d]] \in Caller /\ slot[target[slot[d]]] = slot[d]
    BY <1>1 DEF InPlace, InodesStay, TypeOK
  <2> QED BY <1>1, <2>1 DEF InPlace, Touches, TypeOK
<1>2. ASSUME NEW d \in Caller, slot[d] # slot[c], CallerOK(d) PROVE CallerOK(d)'
  <2> USE DEF CallerOK, Touches, TypeOK
  <2>1. d # c /\ slot[d] \in Slots /\ pc'[d] = pc[d] /\ fd'[d] = fd[d] /\ slot'[d] = slot[d]
    BY <1>2
  <2>2. tmp'[slot[d]] = tmp[slot[d]] /\ target'[slot[d]] = target[slot[d]]
    BY <1>2, <2>1
  <2>3. ASSUME pc[d] = "fill"
        PROVE  fd'[d] # Nobody /\ fd'[d] = tmp'[slot[d]] /\ data'[fd'[d]] = "empty"
    <3>1. fd[d] \in Caller /\ slot[fd[d]] = slot[d]
      BY <1>2, <2>3 DEF InodesStay
    <3> QED BY <1>2, <2>1, <2>2, <2>3, <3>1
  <2>4. ASSUME pc[d] = "rename"
        PROVE  tmp'[slot[d]] # Nobody /\ data'[tmp'[slot[d]]] = d
    <3>1. tmp[slot[d]] \in Caller /\ slot[tmp[slot[d]]] = slot[d]
      BY <1>2, <2>1, <2>4 DEF InodesStay
    <3> QED BY <1>2, <2>1, <2>2, <2>4, <3>1
  <2> QED BY <1>1, <1>2, <2>1, <2>2, <2>3, <2>4
<1>3. ASSUME WholeOK, NEW v \in Slots \ Racing, v # slot[c], target'[v] # Nobody
      PROVE  data'[target'[v]] \in Caller
  <2>1. target'[v] = target[v] /\ target[v] \in Caller /\ slot[target[v]] = v
    BY <1>3 DEF Touches, InodesStay, TypeOK
  <2> QED BY <1>3, <2>1 DEF Touches, WholeOK
<1> QED BY <1>1, <1>2, <1>3

\* So a step of an active caller keeps the invariant if it does so at home.
LEMMA AtHome ==
  ASSUME TypeOK, SlotInv, NEW c \in Caller, Touches(c), InodesStay',
         Active(c), log' = log,
         Alone(c) => CallerOK(c)',
         Alone(c) /\ target'[slot[c]] # Nobody => data'[target'[slot[c]]] \in Caller,
         \A d \in Caller : slot[d] = slot[c] /\ Alone(c) /\ InPlace(d) => InPlace(d)'
  PROVE  SlotInv'
<1> USE DEF SlotInv
<1>1. OneActive'
  BY DEF OneActive, Touches, Active, Alone
<1>2. WriterOK'
  <2> SUFFICES ASSUME NEW d \in Caller, Alone(d)' PROVE CallerOK(d)'
    BY DEF WriterOK
  <2>1. Alone(d) /\ CallerOK(d)
    BY DEF Alone, Touches, WriterOK
  <2>2. CASE slot[d] # slot[c]
    BY <2>1, <2>2, Elsewhere
  <2>3. CASE d = c
    BY <2>1, <2>3
  <2>4. CASE slot[d] = slot[c] /\ d # c
    <3>1. ~ Active(d) /\ pc'[d] = pc[d]
      BY <2>1, <2>4 DEF OneActive, Touches
    <3> QED BY <3>1 DEF CallerOK, Active
  <2> QED BY <2>2, <2>3, <2>4
<1>3. WholeOK'
  <2> SUFFICES ASSUME NEW v \in Slots \ Racing, target'[v] # Nobody
               PROVE  data'[target'[v]] \in Caller
    BY DEF WholeOK
  <2>1. CASE v = slot[c]
    BY <2>1 DEF Alone
  <2>2. CASE v # slot[c]
    BY <2>2, Elsewhere
  <2> QED BY <2>1, <2>2
<1>4. ReceiptOK'
  <2>1. ASSUME NEW d \in Caller, Alone(d), InPlace(d) PROVE InPlace(d)'
    BY <2>1, Elsewhere DEF Alone
  <2>2. ASSUME NEW i \in 1..Len(log), Alone(log[i].hash)' PROVE InPlace(log[i].hash)'
    <3>1. log[i].hash \in Caller
      BY LogCallers
    <3>2. Alone(log[i].hash) /\ InPlace(log[i].hash)
      BY <2>2 DEF Alone, Touches, ReceiptOK
    <3> QED BY <2>1, <3>1, <3>2 DEF InPlace
  <2> QED BY <2>2 DEF ReceiptOK
<1> QED BY <1>1, <1>2, <1>3, <1>4

LEMMA SlotStep == TypeOK /\ TypeOK' /\ SlotInv /\ [Next]_vars => SlotInv'
<1> SUFFICES ASSUME TypeOK, TypeOK', SlotInv, [Next]_vars PROVE SlotInv'
  OBVIOUS
<1> USE DEF SlotInv
<1>1. ASSUME NEW c \in Caller, Start(c) PROVE SlotInv'
  <2>1. /\ pc[c] = "idle" /\ pc'[c] = "check"
        /\ \A d \in Caller : d # c => pc'[d] = pc[d]
        /\ UNCHANGED <<slot, fd, data, tmp, target, log>>
    BY <1>1 DEF Start, Go, TypeOK
  <2>2. Alone(c) => \A d \in Caller : d # c /\ slot[d] = slot[c] => ~ Active(d)
    BY <1>1 DEF Start, Alone, Active, Done
  <2>3. OneActive'
    BY <2>1, <2>2 DEF OneActive, Active, Alone
  <2>4. WriterOK'
    BY <2>1 DEF WriterOK, CallerOK, InPlace, Alone
  <2>5. InodesStay' /\ WholeOK' /\ ReceiptOK'
    BY <2>1 DEF InodesStay, WholeOK, ReceiptOK, InPlace, Alone
  <2> QED BY <2>3, <2>4, <2>5
<1>2. ASSUME NEW c \in Caller, Check(c) PROVE SlotInv'
  <2>1. /\ pc[c] = "check" /\ pc'[c] \in {"open", "final", "failed"}
        /\ pc'[c] = "open" => Content(slot[c]) = "null"
        /\ \A d \in Caller : d # c => pc'[d] = pc[d]
        /\ UNCHANGED <<slot, fd, data, tmp, target, log>>
    BY <1>2 DEF Check, Go, TypeOK
  <2>2. pc'[c] = "open" /\ Alone(c) => target[slot[c]] = Nobody
    BY <2>1 DEF Content, WholeOK, Alone, TypeOK
  <2>3. Touches(c) /\ InodesStay' /\ Active(c)
    BY <2>1 DEF Touches, InodesStay, Active
  <2>4. Alone(c) => CallerOK(c)'
    BY <2>1, <2>2 DEF CallerOK
  <2>5. /\ Alone(c) /\ target'[slot[c]] # Nobody => data'[target'[slot[c]]] \in Caller
        /\ \A d \in Caller : InPlace(d) => InPlace(d)'
    BY <2>1 DEF WholeOK, InPlace, Alone, TypeOK
  <2> QED BY <2>1, <2>3, <2>4, <2>5, AtHome
<1>3. ASSUME NEW c \in Caller, Open(c) PROVE SlotInv'
  <2> DEFINE v == slot[c]
             i == IF tmp[v] = Nobody THEN c ELSE tmp[v]
  <2>1. /\ pc[c] = "open" /\ pc'[c] = "fill" /\ v \in Slots
        /\ \A d \in Caller : d # c => pc'[d] = pc[d] /\ fd'[d] = fd[d]
        /\ UNCHANGED <<slot, target, log>>
    BY <1>3 DEF Open, Go, TypeOK
  <2>2. i \in Caller /\ slot[i] = v
    BY <2>1 DEF InodesStay, TypeOK
  <2>3. /\ tmp' = [tmp EXCEPT ![v] = i] /\ fd' = [fd EXCEPT ![c] = i]
        /\ data' = [data EXCEPT ![i] = "empty"]
    BY <1>3 DEF Open
  <2> HIDE DEF i
  <2>4. /\ tmp'[v] = i /\ fd'[c] = i /\ data'[i] = "empty"
        /\ \A w \in Slots : w # v => tmp'[w] = tmp[w]
        /\ \A j \in Caller : j # i => data'[j] = data[j]
    BY <2>1, <2>2, <2>3 DEF TypeOK
  <2>5. Touches(c) /\ Active(c)
    BY <2>1, <2>2, <2>4 DEF Touches, Active
  <2>6. InodesStay'
    BY <2>1, <2>2, <2>4 DEF InodesStay
  <2>7. Alone(c) => target[v] = Nobody
    BY <2>1 DEF WriterOK, CallerOK
  <2>8. Alone(c) => CallerOK(c)'
    BY <2>1, <2>2, <2>4, <2>7 DEF CallerOK
  <2>9. \A d \in Caller : slot[d] = slot[c] /\ Alone(c) => ~ InPlace(d)
    BY <2>7 DEF InPlace
  <2> QED BY <2>1, <2>5, <2>6, <2>7, <2>8, <2>9, AtHome
<1>4. ASSUME NEW c \in Caller, Fill(c) PROVE SlotInv'
  <2>1. /\ pc[c] = "fill" /\ pc'[c] = "rename" /\ slot[c] \in Slots
        /\ \A d \in Caller : d # c => pc'[d] = pc[d]
        /\ UNCHANGED <<slot, fd, tmp, target, log>>
    BY <1>4 DEF Fill, Go, TypeOK
  <2>2. PICK x \in {c} \cup (IF data[fd[c]] = "empty" THEN {} ELSE {"torn"}) :
          data' = [data EXCEPT ![fd[c]] = x]
    BY <1>4 DEF Fill
  <2>3. \A j \in Caller : j # fd[c] => data'[j] = data[j]
    BY <2>2 DEF TypeOK
  <2>4. fd[c] # Nobody => slot[fd[c]] = slot[c]
    BY DEF InodesStay
  <2>5. Touches(c) /\ InodesStay' /\ Active(c)
    BY <2>1, <2>3, <2>4 DEF Touches, InodesStay, Active, TypeOK
  <2>6. ASSUME Alone(c)
        PROVE  /\ target[slot[c]] = Nobody /\ fd[c] = tmp[slot[c]]
               /\ fd[c] \in Caller /\ data'[fd[c]] = c
    <3>1. /\ target[slot[c]] = Nobody /\ fd[c] = tmp[slot[c]] /\ fd[c] # Nobody
          /\ data[fd[c]] = "empty"
      BY <2>1, <2>6 DEF WriterOK, CallerOK
    <3> QED BY <2>2, <3>1 DEF TypeOK
  <2>7. Alone(c) => CallerOK(c)'
    BY <2>1, <2>6 DEF CallerOK
  <2>8. \A d \in Caller : slot[d] = slot[c] /\ Alone(c) => ~ InPlace(d)
    BY <2>6 DEF InPlace
  <2> QED BY <2>1, <2>5, <2>6, <2>7, <2>8, AtHome
<1>5. ASSUME NEW c \in Caller, Rename(c) PROVE SlotInv'
  <2> DEFINE v == slot[c]
  <2>1. /\ pc[c] = "rename" /\ v \in Slots
        /\ \A d \in Caller : d # c => pc'[d] = pc[d]
        /\ UNCHANGED <<slot, fd, data, log>>
    BY <1>5 DEF Rename, Go, TypeOK
  <2>2. Active(c)
    BY <2>1 DEF Active
  <2>3. CASE tmp[v] # Nobody /\ target' = [target EXCEPT ![v] = tmp[v]]
             /\ tmp' = [tmp EXCEPT ![v] = Nobody] /\ Go(c, "lock")
    <3>1. /\ pc'[c] = "lock" /\ target'[v] = tmp[v] /\ tmp'[v] = Nobody
          /\ \A w \in Slots : w # v => tmp'[w] = tmp[w] /\ target'[w] = target[w]
      BY <2>1, <2>3 DEF Go, TypeOK
    <3>2. Touches(c) /\ InodesStay'
      BY <2>1, <2>3, <3>1 DEF Touches, InodesStay
    <3>3. Alone(c) => target[v] = Nobody /\ data[tmp[v]] = c
      BY <2>1 DEF WriterOK, CallerOK
    <3>4. Alone(c) => CallerOK(c)'
      BY <2>1, <2>3, <3>1, <3>3 DEF CallerOK, InPlace
    <3>5. \A d \in Caller : slot[d] = slot[c] /\ Alone(c) => ~ InPlace(d)
      BY <3>3 DEF InPlace
    <3> QED BY <2>1, <2>2, <3>1, <3>2, <3>3, <3>4, <3>5, AtHome
  <2>4. CASE tmp[v] = Nobody /\ Go(c, "failed") /\ UNCHANGED <<tmp, target>>
    <3>1. pc'[c] = "failed"
      BY <2>1, <2>4 DEF Go, TypeOK
    <3>2. ~ Alone(c)
      BY <2>1, <2>4 DEF WriterOK, CallerOK
    <3>3. Touches(c) /\ InodesStay'
      BY <2>1, <2>4 DEF Touches, InodesStay
    <3> QED BY <2>1, <2>2, <3>2, <3>3, AtHome
  <2> QED BY <1>5, <2>3, <2>4 DEF Rename
<1>6. ASSUME NEW c \in Caller, Lock(c) \/ ReadHead(c) \/ Unlock(c) \/ Crash(c)
      PROVE  SlotInv'
  <2>0. pc[c] \in PCs /\ pc \in [Caller -> PCs]
    BY DEF TypeOK
  <2>1. /\ Active(c) /\ \A d \in Caller : d # c => pc'[d] = pc[d]
        /\ UNCHANGED <<slot, fd, data, tmp, target, log>>
        /\ \/ pc[c] = "lock" /\ pc'[c] = "read"
           \/ pc[c] = "read" /\ pc'[c] = "append"
           \/ pc'[c] \in {"registered", "dead"}
    <3>1. CASE Lock(c)
      BY <2>0, <3>1 DEF Lock, Go, Active
    <3>2. CASE ReadHead(c)
      BY <2>0, <3>2 DEF ReadHead, Go, Active
    <3>3. CASE Unlock(c)
      BY <2>0, <3>3 DEF Unlock, Go, Active
    <3>4. CASE Crash(c)
      BY <2>0, <3>4 DEF Crash, Go, Active, PCs, Done
    <3> QED BY <1>6, <3>1, <3>2, <3>3, <3>4
  <2>2. Touches(c) /\ InodesStay'
    BY <2>1 DEF Touches, InodesStay
  <2>3. Alone(c) => CallerOK(c)'
    BY <2>1 DEF WriterOK, CallerOK, InPlace
  <2>4. /\ Alone(c) /\ target'[slot[c]] # Nobody => data'[target'[slot[c]]] \in Caller
        /\ \A d \in Caller : InPlace(d) => InPlace(d)'
    BY <2>1 DEF WholeOK, InPlace, Alone, TypeOK
  <2> QED BY <2>1, <2>2, <2>3, <2>4, AtHome DEF Active
<1>7. ASSUME NEW c \in Caller, AppendLine(c) \/ CutLine(c) PROVE SlotInv'
  <2>1. /\ pc[c] = "append" /\ pc'[c] \in {"unlock", "dead"}
        /\ \A d \in Caller : d # c => pc'[d] = pc[d]
        /\ UNCHANGED <<slot, fd, data, tmp, target>>
    BY <1>7 DEF AppendLine, CutLine, Go, TypeOK
  <2>2. OneActive' /\ InodesStay' /\ WholeOK'
    BY <2>1 DEF OneActive, InodesStay, WholeOK, Active, Alone
  <2>3. WriterOK'
    BY <2>1 DEF WriterOK, CallerOK, InPlace, Alone
  <2>4. Alone(c) => InPlace(c)
    BY <2>1 DEF WriterOK, CallerOK
  <2>5. PICK ok \in BOOLEAN : log' = Grown(c, ok)
    BY <1>7 DEF AppendLine, CutLine
  <2>6. \A i \in 1..Len(log') :
          log'[i].hash = c \/ (i \in 1..Len(log) /\ log'[i].hash = log[i].hash)
    <3>1. CASE ~cut
      BY <2>5, <3>1, GrownEnd
    <3>2. CASE cut
      BY <2>5, <3>2, GrownGlued
    <3> QED BY <3>1, <3>2
  <2>7. ReceiptOK'
    BY <2>1, <2>4, <2>6 DEF ReceiptOK, InPlace, Alone
  <2> QED BY <2>2, <2>3, <2>7
<1>8. CASE UNCHANGED vars
  BY <1>8 DEF vars, OneActive, InodesStay, WriterOK, WholeOK, ReceiptOK, CallerOK,
              InPlace, Alone, Active
<1> QED
  BY <1>1, <1>2, <1>3, <1>4, <1>5, <1>6, <1>7, <1>8
  DEF Next, Call, WriteFirstVerdict, AppendReceipt

\* verdict.json holds the placeholder or a whole record (write_first_verdict's
\* promise to be atomic), for any number of calls and kills.
THEOREM WholeVerdicts == Spec => []VerdictWhole
<1>1. TypeOK /\ SlotInv => VerdictWhole
  BY DEF SlotInv, WholeOK, VerdictWhole, Content, TypeOK
<1> QED BY <1>1, TypeInit, TypeStep, SlotInit, SlotStep, PTL DEF Spec

-----------------------------------------------------------------------------
(***************************************************************************)
(* The ledger                                                              *)
(***************************************************************************)

LEMMA LedgerInit == Init => Ledger!Init
<1> SUFFICES ASSUME Init PROVE Ledger!Init
  OBVIOUS
<1>1. Len(log) = 0
  BY EmptySeq DEF Init
<1>2. Owner = [v \in Slots \ Racing |-> Nobody]
  BY DEF Init, Owner
<1>3. Receipted = {}
  BY <1>1 DEF Receipted
<1> QED BY <1>2, <1>3 DEF Ledger!Init

\* Where nothing is in place yet, files may change unseen.
LEMMA Unseen ==
  ASSUME TypeOK, InodesStay, NEW c \in Caller, Touches(c), log' = log, cut' = cut,
         target' = target, Alone(c) /\ target[slot[c]] # Nobody => data' = data
  PROVE  Owner' = Owner /\ Receipted' = Receipted
<1>1. ASSUME NEW v \in Slots \ Racing, target[v] # Nobody
      PROVE  data'[target[v]] = data[target[v]]
  <2>1. target[v] \in Caller /\ slot[target[v]] = v
    BY <1>1 DEF InodesStay, TypeOK
  <2> QED BY <1>1, <2>1 DEF Touches, Alone
<1> QED BY <1>1 DEF Owner, Receipted, Touches

\* The receipt of d is in the lines l, and ended.
Ended(l, k, d) ==
  \E i \in 1..Len(l) : /\ l[i].ok /\ l[i].hash = d
                       /\ i = Len(l) => ~k

LEMMA LedgerStep == TypeOK /\ SlotInv /\ [Next]_vars => [Ledger!Next]_(Ledger!ledger)
<1> SUFFICES ASSUME TypeOK, SlotInv, [Next]_vars
             PROVE  Ledger!Next \/ (Owner' = Owner /\ Receipted' = Receipted)
  BY DEF Ledger!ledger
<1> USE DEF SlotInv
<1>1. ASSUME UNCHANGED <<slot, data, target, log, cut>>
      PROVE  Owner' = Owner /\ Receipted' = Receipted
  BY <1>1 DEF Owner, Receipted
<1>2. ASSUME NEW c \in Caller, Open(c) \/ Fill(c)
      PROVE  Owner' = Owner /\ Receipted' = Receipted
  <2>1. pc[c] \in {"open", "fill"} /\ UNCHANGED <<slot, target, log, cut>>
    BY <1>2 DEF Open, Fill
  <2>2. Alone(c) => target[slot[c]] = Nobody
    BY <2>1 DEF WriterOK, CallerOK
  <2>3. Touches(c)
    <3>1. CASE Open(c)
      <4> DEFINE i == IF tmp[slot[c]] = Nobody THEN c ELSE tmp[slot[c]]
      <4>1. i \in Caller /\ slot[i] = slot[c]
        BY DEF InodesStay, TypeOK
      <4>2. /\ tmp' = [tmp EXCEPT ![slot[c]] = i] /\ fd' = [fd EXCEPT ![c] = i]
            /\ data' = [data EXCEPT ![i] = "empty"]
            /\ \A d \in Caller : d # c => pc'[d] = pc[d]
        BY <3>1 DEF Open, Go, TypeOK
      <4> HIDE DEF i
      <4> QED BY <2>1, <4>1, <4>2 DEF Touches, TypeOK
    <3>2. CASE Fill(c)
      <4>1. PICK x \in {c, "torn"} : data' = [data EXCEPT ![fd[c]] = x]
        BY <3>2 DEF Fill
      <4>2. /\ UNCHANGED <<fd, tmp>> /\ \A d \in Caller : d # c => pc'[d] = pc[d]
            /\ \A j \in Caller : j # fd[c] => data'[j] = data[j]
        BY <3>2, <4>1 DEF Fill, Go, TypeOK
      <4> QED BY <2>1, <4>2 DEF Touches, InodesStay, TypeOK
    <3> QED BY <1>2, <3>1, <3>2
  <2> QED BY <2>1, <2>2, <2>3, Unseen
<1>3. ASSUME NEW c \in Caller, Rename(c)
      PROVE  Ledger!Next \/ (Owner' = Owner /\ Receipted' = Receipted)
  <2> DEFINE v == slot[c]
  <2>1. pc[c] = "rename" /\ v \in Slots /\ UNCHANGED <<slot, data, log, cut>>
    BY <1>3 DEF Rename, TypeOK
  <2>2. Receipted' = Receipted
    BY <2>1 DEF Receipted
  <2>3. CASE target' = target
    BY <1>1, <2>1, <2>3
  <2>4. CASE target' = [target EXCEPT ![v] = tmp[v]] /\ ~ Alone(c)
    <3>1. \A w \in Slots \ Racing : target'[w] = target[w]
      BY <2>1, <2>4 DEF Alone, TypeOK
    <3> QED BY <2>1, <2>2, <3>1 DEF Owner
  <2>5. CASE target' = [target EXCEPT ![v] = tmp[v]] /\ Alone(c)
    <3>1. /\ target[v] = Nobody /\ tmp[v] # Nobody /\ data[tmp[v]] = c
          /\ v \in Slots \ Racing
      BY <2>1, <2>5 DEF WriterOK, CallerOK, Alone
    <3>2. \A w \in Slots : target'[w] = IF w = v THEN tmp[v] ELSE target[w]
      BY <2>5 DEF TypeOK
    <3>3. Owner[v] = Nobody
      BY <3>1 DEF Owner
    <3>4. Owner' = [Owner EXCEPT ![v] = c]
      BY <2>1, <3>1, <3>2 DEF Owner
    <3> QED BY <2>2, <3>1, <3>3, <3>4 DEF Ledger!Next, Ledger!Register
  <2> QED BY <1>3, <2>3, <2>4, <2>5 DEF Rename
<1>4. ASSUME NEW c \in Caller, AppendLine(c) \/ CutLine(c)
      PROVE  Ledger!Next \/ (Owner' = Owner /\ Receipted' = Receipted)
  <2>1. PICK ok \in BOOLEAN : log' = Grown(c, ok) /\ (cut' \/ ok)
    BY <1>4 DEF AppendLine, CutLine
  <2>2. pc[c] = "append" /\ UNCHANGED <<slot, data, target>>
    BY <1>4 DEF AppendLine, CutLine
  <2>3. Owner' = Owner
    BY <2>2 DEF Owner
  <2>4. ASSUME NEW d \in Caller
        PROVE  Ended(log', cut', d) <=> Ended(log, cut, d) \/ (d = c /\ ~cut /\ ~cut')
    <3>1. CASE ~cut
      <4>1. /\ Len(log) \in Nat /\ Len(log') = Len(log) + 1
            /\ log'[Len(log) + 1].hash = c /\ log'[Len(log) + 1].ok = ok
            /\ \A i \in 1..Len(log) : log'[i] = log[i]
        BY <2>1, <3>1, GrownEnd
      <4>2. /\ Len(log') \in 1..Len(log')
            /\ \A i \in 1..Len(log) : i \in 1..Len(log') /\ i # Len(log')
            /\ \A i \in 1..Len(log') : i \in 1..Len(log) \/ i = Len(log')
        BY <4>1
      <4>3. CASE cut'
        BY <3>1, <4>1, <4>2, <4>3 DEF Ended
      <4>4. CASE ~cut'
        <5>1. ok
          BY <2>1, <4>4
        <5> QED BY <3>1, <4>1, <4>2, <4>4, <5>1 DEF Ended
      <4> QED BY <4>3, <4>4
    <3>2. CASE cut
      <4>1. /\ Len(log') = Len(log) /\ Len(log) \in 1..Len(log) /\ ~log'[Len(log)].ok
            /\ \A i \in 1..Len(log) : i # Len(log) => log'[i] = log[i]
        BY <2>1, <3>2, GrownGlued
      <4> QED BY <3>2, <4>1 DEF Ended
    <3> QED BY <3>1, <3>2
  <2>5. Receipted = {d \in Caller : Alone(d) /\ Ended(log, cut, d)}
    BY DEF Receipted, Alone, Ended
  <2>6. Receipted' = {d \in Caller : Alone(d) /\ Ended(log', cut', d)}
    BY <2>2 DEF Receipted, Alone, Ended
  <2>7. CASE ~ Alone(c) \/ cut \/ cut'
    <3>1. Receipted' = Receipted
      BY <2>4, <2>5, <2>6, <2>7
    <3> QED BY <2>3, <3>1
  <2>8. CASE Alone(c) /\ ~cut /\ ~cut'
    <3>1. InPlace(c) /\ slot[c] \in Slots \ Racing
      BY <2>2, <2>8 DEF WriterOK, CallerOK, Alone, TypeOK
    <3>2. Owner[slot[c]] = c
      BY <3>1 DEF Owner, InPlace
    <3>3. Receipted' = Receipted \cup {c}
      BY <2>4, <2>5, <2>6, <2>8
    <3> QED BY <2>3, <3>1, <3>2, <3>3 DEF Ledger!Next, Ledger!Acknowledge
  <2> QED BY <2>7, <2>8
<1>5. ASSUME NEW c \in Caller, \/ Start(c) \/ Check(c) \/ Lock(c)
                               \/ ReadHead(c) \/ Unlock(c) \/ Crash(c)
      PROVE  Owner' = Owner /\ Receipted' = Receipted
  BY <1>1, <1>5 DEF Start, Check, Lock, ReadHead, Unlock, Crash
<1>6. CASE UNCHANGED vars
  BY <1>1, <1>6 DEF vars
<1> QED
  BY <1>2, <1>3, <1>4, <1>5, <1>6 DEF Next, Call, WriteFirstVerdict, AppendReceipt

\* On slots whose calls do not overlap, the first verdict is the last and a
\* receipt means that its verdict is on disk: jewije implements the ledger.
THEOREM KeepsTheLedger == Spec => FirstVerdictCounts
BY TypeInit, TypeStep, SlotInit, SlotStep, LedgerInit, LedgerStep, PTL
DEF Spec, FirstVerdictCounts, Ledger!Spec

-----------------------------------------------------------------------------
(***************************************************************************)
(* What the ledger gives                                                   *)
(***************************************************************************)

\* VerdictFinal where calls do not overlap.
FinalWithoutOverlap ==
  [][\A v \in Slots \ Racing :
       Content(v) \in Caller => Content(v)' = Content(v)]_vars

\* "A non-null verdict is never overwritten" is true of every slot that takes
\* one jewije call at a time: no later call, kill or leftover temporary file
\* changes verdict.json once a verdict is in it.
THEOREM FirstIsFinal == Spec => FinalWithoutOverlap
<1>1. TypeOK /\ SlotInv /\ [Next]_vars =>
        [\A v \in Slots \ Racing : Content(v) \in Caller => Content(v)' = Content(v)]_vars
  <2> SUFFICES ASSUME TypeOK, SlotInv, [Next]_vars,
                      NEW v \in Slots \ Racing, Content(v) \in Caller
               PROVE  Content(v)' = Content(v)
    BY DEF vars
  <2>1. [Ledger!Next]_(Ledger!ledger)
    BY LedgerStep
  <2>2. Owner[v] = Content(v) /\ Content(v) # Nobody
    BY DEF Content, Owner
  <2>3. Owner'[v] = Owner[v]
    <3>1. DOMAIN Owner = Slots \ Racing
      BY DEF Owner
    <3>2. CASE Owner' = Owner
      BY <3>2
    <3>3. ASSUME NEW w \in Slots \ Racing, NEW c \in Caller, Owner[w] = Nobody,
                 Owner' = [Owner EXCEPT ![w] = c]
          PROVE  Owner'[v] = Owner[v]
      BY <2>2, <3>1, <3>3
    <3> QED BY <2>1, <3>2, <3>3
            DEF Ledger!Next, Ledger!ledger, Ledger!Register, Ledger!Acknowledge
  <2>4. Owner'[v] = IF target'[v] = Nobody THEN Nobody ELSE data'[target'[v]]
    BY DEF Owner
  <2> QED BY <2>2, <2>3, <2>4 DEF Content
<1> QED BY <1>1, TypeInit, TypeStep, SlotInit, SlotStep, PTL
        DEF Spec, FinalWithoutOverlap

\* A receipt that parses is that of the verdict in its slot, so that no slot
\* has receipts of two callers.
ReceiptsMatchVerdicts ==
  \A i \in 1..Len(log) :
    LET c == log[i].hash IN
    log[i].ok /\ slot[c] \notin Racing => Content(slot[c]) = c

\* append_receipt follows write_first_verdict: whatever is killed in between,
\* AUDIT finds no receipt without its verdict, nor two for one slot.
THEOREM ReceiptsHaveVerdicts == Spec => []ReceiptsMatchVerdicts
<1>1. TypeOK /\ SlotInv => ReceiptsMatchVerdicts
  <2> SUFFICES ASSUME TypeOK, SlotInv, NEW i \in 1..Len(log),
                      slot[log[i].hash] \notin Racing
               PROVE  Content(slot[log[i].hash]) = log[i].hash
    BY DEF ReceiptsMatchVerdicts
  <2>1. log[i].hash \in Caller
    BY LogCallers
  <2> QED BY <2>1 DEF SlotInv, ReceiptOK, InPlace, Alone, Content
<1> QED BY <1>1, TypeInit, TypeStep, SlotInit, SlotStep, PTL DEF Spec
-----------------------------------------------------------------------------
(***************************************************************************)
(* The log's lock                                                          *)
(***************************************************************************)

\* The holder of the lock is within append_receipt and has its next step to
\* take without waiting for anybody. CallsEnd rests on it: a caller that is
\* done, failed or killed never keeps the others waiting.
LockServed ==
  \A c \in Caller : logLock = c <=> pc[c] \in {"read", "append", "unlock"}

\* The flock of the receipt log is never left behind, whichever way a call ends.
THEOREM LockIsServed == Spec => []LockServed
<1>1. Init => LockServed
  BY CallerAssumption DEF Init, LockServed
<1>2. TypeOK /\ LockServed /\ [Next]_vars => LockServed'
  <2> SUFFICES ASSUME TypeOK, LockServed, [Next]_vars PROVE LockServed'
    OBVIOUS
  <2> USE CallerAssumption DEF TypeOK, LockServed, Go, Done
  <2>1. CASE UNCHANGED vars
    BY <2>1 DEF vars
  <2>2. ASSUME NEW c \in Caller, Start(c) \/ WriteFirstVerdict(c) \/ ReadHead(c) \/ AppendLine(c)
        PROVE  LockServed'
    BY <2>2 DEF Start, WriteFirstVerdict, Check, Open, Fill, Rename, ReadHead, AppendLine
  <2>3. ASSUME NEW c \in Caller, Lock(c) \/ Unlock(c)
        PROVE  LockServed'
    BY <2>3 DEF Lock, Unlock
  <2>4. ASSUME NEW c \in Caller, Crash(c) \/ CutLine(c)
        PROVE  LockServed'
    BY <2>4 DEF Crash, CutLine
  <2> QED BY <2>1, <2>2, <2>3, <2>4 DEF Next, Call, AppendReceipt
<1> QED BY <1>1, <1>2, TypeInit, TypeStep, PTL DEF Spec
==============================================================================
