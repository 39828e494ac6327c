--------------------------- MODULE AcpStream_proofs ---------------------------
(***************************************************************************)
(* What the extractors of AcpStream return for every stream, and what is   *)
(* left of it when the stream is cut short.                                *)
(***************************************************************************)
EXTENDS AcpStream, SequenceTheorems, WellFoundedInduction, TLAPS

LEMMA LeastIn ==
  ASSUME NEW S \in SUBSET Nat, S # {}
  PROVE  \E i \in S : \A j \in S : i <= j
<1> DEFINE less == OpToRel(<, Nat)
<1>1. IsWellFoundedOn(less, Nat)
  BY NatLessThanWellFounded
<1>2. \A x, y \in Nat : y < x => <<y, x>> \in less
  BY DEF OpToRel
<1> HIDE DEF less
<1>3. PICK x \in S : \A y \in S : <<y, x>> \notin less
  BY <1>1, WFMin
<1>4. \A y \in S : y \in Nat /\ x \in Nat /\ ~(y < x)
  BY <1>2, <1>3
<1> QED BY <1>3, <1>4

LEMMA GreatestIn ==
  ASSUME NEW n \in Nat, NEW S \in SUBSET (1..n), S # {}
  PROVE  \E i \in S : \A j \in S : j <= i
<1> DEFINE T == {n - i : i \in S}
<1>1. T \in SUBSET Nat /\ T # {}
  <2>1. \A i \in S : n - i \in Nat
    OBVIOUS
  <2> QED BY <2>1
<1>2. PICK x \in T : \A y \in T : x <= y
  BY <1>1, LeastIn
<1>3. PICK i \in S : x = n - i
  OBVIOUS
<1>4. \A j \in S : n - i <= n - j
  BY <1>2, <1>3
<1>5. \A j \in S : j <= i
  BY <1>4
<1> QED BY <1>5

-------------------------------------------------------------------------------
\* A stream: any lines whatever.
AnyLine == [type : LineTypes, fields : BOOLEAN, id : Nat, answer : BOOLEAN]
IsStream(lines) == lines \in Seq(AnyLine)

LEMMA SidFound ==
  ASSUME NEW lines, IsStream(lines), EventsOf(lines, "session") # {}
  PROVE  \E i \in EventsOf(lines, "session") :
           /\ \A j \in EventsOf(lines, "session") : i <= j
           /\ ExtractSid(lines) = lines[i].id
<1> DEFINE at == EventsOf(lines, "session")
<1>1. at \in SUBSET Nat
  BY DEF EventsOf
<1>2. \E i \in at : \A j \in at : i <= j
  BY <1>1, LeastIn
<1>3. ExtractSid(lines) = lines[CHOOSE i \in at : \A j \in at : i <= j].id
  BY DEF ExtractSid
<1> HIDE DEF at
<1>4. /\ (CHOOSE i \in at : \A j \in at : i <= j) \in at
      /\ \A j \in at : (CHOOSE i \in at : \A j2 \in at : i <= j2) <= j
  BY <1>2
<1> QED BY <1>3, <1>4 DEF at

LEMMA OutputFound ==
  ASSUME NEW lines, IsStream(lines)
  PROVE  /\ ExtractFinalOutput(lines) \in Nat
         /\ ExtractFinalOutput(lines) # 0 <=>
              \E i \in EventsOf(lines, "agent_end") : lines[i].answer
<1> DEFINE at == {i \in EventsOf(lines, "agent_end") : lines[i].answer}
<1>1. Len(lines) \in Nat /\ at \in SUBSET (1..Len(lines))
  BY DEF EventsOf, IsStream
<1>2. at # {} => \E i \in at : \A j \in at : j <= i
  BY <1>1, GreatestIn
<1>3. ExtractFinalOutput(lines) =
        IF at = {} THEN 0 ELSE CHOOSE i \in at : \A j \in at : j <= i
  BY DEF ExtractFinalOutput
<1>4. at = {} <=> ~ \E i \in EventsOf(lines, "agent_end") : lines[i].answer
  OBVIOUS
<1> HIDE DEF at
<1>5. at # {} => (CHOOSE i \in at : \A j \in at : j <= i) \in at
  BY <1>2
<1>6. CASE at = {}
  BY <1>3, <1>4, <1>6
<1>7. CASE at # {}
  <2>1. ExtractFinalOutput(lines) \in at
    BY <1>3, <1>5, <1>7
  <2>2. \A i \in at : i \in 1..Len(lines)
    BY <1>1
  <2>3. ExtractFinalOutput(lines) \in 1..Len(lines)
    BY <2>1, <2>2
  <2>4. ExtractFinalOutput(lines) \in Nat /\ ExtractFinalOutput(lines) # 0
    BY <1>1, <2>3
  <2> QED BY <1>4, <1>7, <2>4
<1> QED BY <1>6, <1>7

\* A backend that prints no session id but its own is reported under its own
\* or under none.
LEMMA SidOwn ==
  ASSUME NEW s, NEW lines, IsStream(lines), \A i \in 1..Len(lines) : lines[i].id = s
  PROVE  ExtractSid(lines) \in {NoSid, s}
<1>1. CASE EventsOf(lines, "session") = {}
  BY <1>1 DEF ExtractSid
<1>2. CASE EventsOf(lines, "session") # {}
  BY <1>2, SidFound DEF EventsOf
<1> QED BY <1>1, <1>2

-------------------------------------------------------------------------------
\* The events of a stream's first k lines are events of the stream.
LEMMA EventsOfCut ==
  ASSUME NEW lines, IsStream(lines), NEW k \in 0..Len(lines), NEW type
  PROVE  /\ IsStream(SubSeq(lines, 1, k))
         /\ EventsOf(SubSeq(lines, 1, k), type) = {i \in EventsOf(lines, type) : i <= k}
         /\ \A i \in 1..k : SubSeq(lines, 1, k)[i] = lines[i]
<1> DEFINE cut == SubSeq(lines, 1, k)
<1>1. /\ IsStream(cut) /\ Len(cut) = k /\ Len(lines) \in Nat
      /\ \A i \in 1..k : cut[i] = lines[i]
  <2>1. Len(lines) \in Nat /\ \A i \in 1..k : lines[i] \in AnyLine
    BY LenProperties, ElementOfSeq DEF IsStream
  <2>2. /\ cut \in Seq(AnyLine)
        /\ Len(cut) = IF 1 <= k THEN k - 1 + 1 ELSE 0
        /\ \A i \in 1..(k - 1 + 1) : cut[i] = lines[1 + i - 1]
    BY <2>1, SubSeqProperties
  <2> QED BY <2>1, <2>2 DEF IsStream
<1> QED BY <1>1 DEF EventsOf

\* Output that is cut short, where the verifier was killed or the drain gave up,
\* never makes gather take another session for the verifier's, nor believe in a
\* compaction or an answer that was not there: what it reports is lost or true.
THEOREM CutShort ==
  ASSUME NEW lines, IsStream(lines), NEW k \in 0..Len(lines)
  PROVE  LET cut == SubSeq(lines, 1, k)
         IN  /\ ExtractSid(cut) \in {NoSid, ExtractSid(lines)}
             /\ ExtractCompactionObserved(cut) => ExtractCompactionObserved(lines)
             /\ ExtractFinalOutput(cut) # 0 => ExtractFinalOutput(lines) # 0
<1> DEFINE cut == SubSeq(lines, 1, k)
<1>1. /\ IsStream(cut)
      /\ \A i \in 1..k : cut[i] = lines[i]
  BY EventsOfCut
<1>2. \A t : EventsOf(cut, t) = {i \in EventsOf(lines, t) : i <= k}
  BY EventsOfCut
<1>3. \A t : EventsOf(cut, t) \subseteq 1..k
  BY <1>2 DEF EventsOf
<1> HIDE DEF cut
<1>4. ExtractSid(cut) \in {NoSid, ExtractSid(lines)}
  <2>1. CASE EventsOf(cut, "session") = {}
    BY <2>1 DEF ExtractSid
  <2>2. CASE EventsOf(cut, "session") # {}
    <3>1. PICK i \in EventsOf(cut, "session") :
            /\ \A j \in EventsOf(cut, "session") : i <= j
            /\ ExtractSid(cut) = cut[i].id
      BY <1>1, <2>2, SidFound
    <3>2. PICK h \in EventsOf(lines, "session") :
            /\ \A j \in EventsOf(lines, "session") : h <= j
            /\ ExtractSid(lines) = lines[h].id
      BY <1>2, <3>1, SidFound
    <3>3. h = i
      <4>1. i \in EventsOf(lines, "session") /\ i \in 1..k /\ h <= i
        BY <1>2, <1>3, <3>1, <3>2
      <4>2. h \in Nat /\ h <= k
        BY <3>2, <4>1 DEF EventsOf
      <4>3. h \in EventsOf(cut, "session")
        BY <1>2, <3>2, <4>2
      <4> QED BY <3>1, <4>1, <4>2, <4>3
    <3> QED BY <1>1, <1>3, <3>1, <3>2, <3>3
  <2> QED BY <2>1, <2>2
<1>5. ExtractCompactionObserved(cut) => ExtractCompactionObserved(lines)
  BY <1>2 DEF ExtractCompactionObserved
<1>6. ExtractFinalOutput(cut) # 0 => ExtractFinalOutput(lines) # 0
  <2>1. ASSUME NEW i \in EventsOf(cut, "agent_end"), cut[i].answer
        PROVE  i \in EventsOf(lines, "agent_end") /\ lines[i].answer
    BY <1>1, <1>2, <1>3, <2>1
  <2> QED BY <1>1, <2>1, OutputFound
<1> QED BY <1>4, <1>5, <1>6 DEF cut
=============================================================================
