------------------------ MODULE HealthCooldown_proofs ------------------------
(***************************************************************************)
(* Proofs about HealthCooldown, for any number of goals, verifiers and     *)
(* rounds. The invariant says which events the log may hold (Numbered,     *)
(* Once) and that those of rounds that are over never exceed the threshold *)
(* (Before): a round starts only when the log is within it. What is left   *)
(* are the rounds in flight, one of each goal.                             *)
(***************************************************************************)
EXTENDS HealthCooldown, FiniteSetTheorems, FunctionTheorems, TLAPS

USE CmdAssumption, MaxSlotAssumption, ThresholdAssumption, WindowAssumption,
    MaxRunAssumption

\* Where a command is, it has what it needs.
Underway ==
  \A c \in Cmd : /\ pc[c] # "idle" => run[c] > 0
                 /\ pc[c] = "tail" => left[c] > 0

\* Events are numbered downwards, those of a round after it has gathered.
Numbered ==
  \A e \in events :
    /\ e.id[2] <= run[e.id[1]]
    /\ e.id[2] = run[e.id[1]] => pc[e.id[1]] # "gather" /\ e.id[3] > left[e.id[1]]

Once == \A e, f \in events : e.id = f.id => e = f

Named(S) == {e.id : e \in S}
Current(e) == e.id[2] = run[e.id[1]]
Past == {e \in Recent : ~Current(e)}
Before == Cardinality(Named(Past)) <= Threshold

HealthInv == TypeOK /\ Underway /\ Numbered /\ Once /\ Before

-----------------------------------------------------------------------------
\* Finite sets of events

LEMMA IdsFinite == IsFiniteSet(Ids)
<1> DEFINE T == (Cmd \X (1 .. MaxRun)) \X (1 .. MaxSlot)
           f == [i \in Ids |-> <<<<i[1], i[2]>>, i[3]>>]
<1>1. IsFiniteSet(1 .. MaxRun) /\ IsFiniteSet(1 .. MaxSlot)
  BY FS_Interval
<1>2. IsFiniteSet(T)
  <2>1. IsFiniteSet(Cmd \X (1 .. MaxRun))
    BY <1>1, FS_Product
  <2> QED BY <1>1, <2>1, FS_Product
<1>3. f \in [Ids -> T]
  BY DEF Ids
<1>4. ASSUME NEW i \in Ids, NEW j \in Ids, f[i] = f[j] PROVE i = j
  BY <1>4 DEF Ids
<1>5. f \in Injection(Ids, T)
  BY <1>3, <1>4, Fun_IsInj
<1> QED BY <1>2, <1>5, FS_Injection

\* Counting events is counting their names.
LEMMA NamedOnce ==
  ASSUME TypeOK, Once, NEW S, S \subseteq events
  PROVE  /\ IsFiniteSet(S) /\ IsFiniteSet(Named(S))
         /\ Cardinality(Named(S)) = Cardinality(S)
         /\ Cardinality(S) \in Nat
<1> DEFINE f == [e \in S |-> e.id]
<1>1. Named(S) \subseteq Ids
  BY DEF Named, TypeOK
<1>2. IsFiniteSet(Named(S))
  BY <1>1, IdsFinite, FS_Subset
<1>3. f \in [S -> Named(S)]
  BY DEF Named
<1>4. ASSUME NEW d \in S, NEW e \in S, f[d] = f[e] PROVE d = e
  BY <1>4 DEF Once
<1>5. f \in Injection(S, Named(S))
  BY <1>3, <1>4, Fun_IsInj
<1>6. \A i \in Named(S) : \E e \in S : f[e] = i
  BY DEF Named
<1>7. f \in Bijection(S, Named(S))
  BY <1>3, <1>4, <1>6, Fun_IsBij
<1>8. IsFiniteSet(S)
  BY <1>2, <1>5, FS_Injection
<1>9. Cardinality(S) = Cardinality(Named(S))
  BY <1>7, <1>8, FS_Bijection DEF ExistsBijection
<1> QED BY <1>2, <1>8, <1>9, FS_CardinalityType

\* Fewer names, fewer events.
LEMMA NamedWithin ==
  ASSUME TypeOK, Once, NEW S, S \subseteq events, NEW T, T \subseteq Named(S)
  PROVE  Cardinality(T) <= Cardinality(S)
BY NamedOnce, FS_Subset

-----------------------------------------------------------------------------
\* The invariant

LEMMA HealthInit == Init => HealthInv
<1> SUFFICES ASSUME Init PROVE HealthInv
  OBVIOUS
<1>1. TypeOK
  BY DEF Init, TypeOK, Ages
<1>2. Underway /\ Numbered /\ Once
  BY DEF Init, Underway, Numbered, Once
<1>3. Named(Past) = {}
  BY DEF Init, Named, Past, Recent
<1>4. Before
  BY <1>3, FS_EmptySet DEF Before
<1> QED BY <1>1, <1>2, <1>4 DEF HealthInv

LEMMA HealthStep == HealthInv /\ [Next]_vars => HealthInv'
<1> SUFFICES ASSUME HealthInv, [Next]_vars PROVE HealthInv'
  OBVIOUS
<1> USE DEF HealthInv
\* Steps that leave the log as it is, but for the unfinished line.
<1>1. ASSUME UNCHANGED <<events, run>>, TypeOK' PROVE Once' /\ Before'
  <2>1. Named(Past)' = Named(Past)
    BY <1>1 DEF Named, Past, Recent, Current
  <2> QED BY <1>1, <2>1 DEF Once, Before
<1>2. CASE \E c \in Cmd : Begin(c)
  <2>1. PICK c \in Cmd : Begin(c)
    BY <1>2
  <2>2. /\ pc[c] = "idle" /\ run[c] < MaxRun /\ ~InCooldown
        /\ run' \in [Cmd -> 0 .. MaxRun] /\ run'[c] = run[c] + 1
        /\ \A d \in Cmd \ {c} : run'[d] = run[d] /\ pc'[d] = pc[d]
        /\ pc' \in [Cmd -> {"idle", "gather", "record", "tail"}]
        /\ pc'[c] = "gather"
        /\ UNCHANGED <<pipelined, left, age, events, line>>
    BY <2>1 DEF Begin, TypeOK
  <2>3. TypeOK'
    BY <2>2 DEF TypeOK
  <2>4. \A d \in Cmd : run[d] \in Nat /\ run'[d] \in Nat
    BY <2>2 DEF TypeOK
  <2>5. Underway'
    BY <2>2, <2>4 DEF Underway
  <2>6. Numbered'
    <3> SUFFICES ASSUME NEW e \in events
                 PROVE  /\ e.id[2] <= run'[e.id[1]]
                        /\ e.id[2] = run'[e.id[1]] =>
                             pc'[e.id[1]] # "gather" /\ e.id[3] > left[e.id[1]]
      BY <2>2 DEF Numbered
    <3>1. e.id[1] \in Cmd /\ e.id[2] \in Nat /\ e.id[2] <= run[e.id[1]]
      BY DEF TypeOK, Ids, Numbered
    <3>2. CASE e.id[1] = c
      BY <2>2, <2>4, <3>1, <3>2
    <3>3. CASE e.id[1] # c
      BY <2>2, <3>1, <3>3 DEF Numbered
    <3> QED BY <3>2, <3>3
  <2>7. Once'
    BY <2>2 DEF Once
  <2>8. Before'
    <3>1. Recent \subseteq events /\ Recent' = Recent
      BY <2>2 DEF Recent
    <3>2. Named(Past)' \subseteq Named(Recent)
      BY <2>2, <3>1 DEF Named, Past
    <3>3. Cardinality(Recent) <= Threshold
      BY <2>2, <3>1, NamedOnce DEF InCooldown
    <3>4. Cardinality(Named(Past)') <= Cardinality(Recent)
      BY <3>1, <3>2, NamedWithin
    <3>5. Cardinality(Named(Past)') \in Nat
      <4>1. IsFiniteSet(Named(Past)')
        BY <3>1, <3>2, NamedOnce, FS_Subset
      <4> QED BY <4>1, FS_CardinalityType
    <3>6. Cardinality(Recent) \in Nat
      BY <3>1, NamedOnce
    <3> QED BY <3>3, <3>4, <3>5, <3>6 DEF Before
  <2> QED BY <2>3, <2>5, <2>6, <2>7, <2>8
<1>3. CASE \E c \in Cmd : Gather(c)
  <2>1. PICK c \in Cmd : Gather(c)
    BY <1>3
  <2>2. left' \in [Cmd -> 0 .. MaxSlot] /\ \A d \in Cmd \ {c} : left'[d] = left[d]
    <3>1. CASE c \in pipelined
      BY <2>1, <3>1 DEF Gather, TypeOK
    <3>2. CASE c \notin pipelined
      <4>1. PICK runs \in [1 .. MaxSlot -> Reports] :
              left' = [left EXCEPT ![c] =
                         Cardinality({i \in 1 .. MaxSlot : IsRunUnhealthy(runs[i])})]
        BY <2>1, <3>2 DEF Gather
      <4>2. IsFiniteSet(1 .. MaxSlot) /\ Cardinality(1 .. MaxSlot) = MaxSlot
        BY FS_Interval
      <4> DEFINE U == {i \in 1 .. MaxSlot : IsRunUnhealthy(runs[i])}
      <4>3. IsFiniteSet(U) /\ Cardinality(U) <= MaxSlot
        BY <4>2, FS_Subset
      <4>4. Cardinality(U) \in 0 .. MaxSlot
        BY <4>3, FS_CardinalityType
      <4> HIDE DEF U
      <4>5. left' = [left EXCEPT ![c] = Cardinality(U)]
        BY <4>1 DEF U
      <4> QED BY <4>4, <4>5 DEF TypeOK
    <3> QED BY <3>1, <3>2
  <2>3. /\ pc[c] = "gather" /\ pc'[c] = "record"
        /\ pc' \in [Cmd -> {"idle", "gather", "record", "tail"}]
        /\ \A d \in Cmd \ {c} : pc'[d] = pc[d]
        /\ UNCHANGED <<pipelined, run, events, line>>
    BY <2>1 DEF Gather, TypeOK
  <2>4. age' \in [Cmd -> Ages]
    BY <2>1 DEF Gather, TypeOK, Ages
  <2>5. TypeOK'
    BY <2>2, <2>3, <2>4 DEF TypeOK
  <2>6. Underway'
    BY <2>2, <2>3 DEF Underway
  <2>7. Numbered'
    <3>1. \A e \in events : e.id[1] \in Cmd
      BY DEF TypeOK, Ids
    <3> QED BY <2>2, <2>3, <3>1 DEF Numbered
  <2> QED BY <1>1, <2>3, <2>5, <2>6, <2>7
<1>4. CASE \E c \in Cmd : OpenLine(c)
  <2>1. PICK c \in Cmd : OpenLine(c)
    BY <1>4
  <2>2. /\ pc[c] = "record" /\ left[c] > 0 /\ pc'[c] = "tail"
        /\ pc' \in [Cmd -> {"idle", "gather", "record", "tail"}]
        /\ \A d \in Cmd \ {c} : pc'[d] = pc[d]
        /\ UNCHANGED <<pipelined, run, left, age, events>>
    BY <2>1 DEF OpenLine, TypeOK
  <2>3. Event(c) \in Ids
    BY <2>2 DEF Event, Ids, TypeOK, Underway
  <2>4. TypeOK'
    BY <2>1, <2>2, <2>3 DEF OpenLine, TypeOK
  <2>5. Underway'
    BY <2>2 DEF Underway
  <2>6. Numbered'
    <3>1. \A e \in events : e.id[1] \in Cmd
      BY DEF TypeOK, Ids
    <3> QED BY <2>2, <3>1 DEF Numbered
  <2> QED BY <1>1, <2>2, <2>4, <2>5, <2>6
<1>5. CASE \E c \in Cmd : CloseLine(c)
  <2>1. PICK c \in Cmd : CloseLine(c)
    BY <1>5
  <2>2. /\ pc[c] = "tail" /\ pc'[c] = "record" /\ line' = NoLine
        /\ pc' \in [Cmd -> {"idle", "gather", "record", "tail"}]
        /\ \A d \in Cmd \ {c} : pc'[d] = pc[d] /\ left'[d] = left[d]
        /\ left'[c] = left[c] - 1
        /\ UNCHANGED <<pipelined, run, age>>
    BY <2>1 DEF CloseLine, EndLine, TypeOK
  <2>3. left[c] \in 1 .. MaxSlot /\ run[c] \in 1 .. MaxRun
    BY <2>2 DEF TypeOK, Underway
  <2>4. left' \in [Cmd -> 0 .. MaxSlot]
    <3>1. left[c] - 1 \in 0 .. MaxSlot
      BY <2>3
    <3> QED BY <2>1, <3>1 DEF CloseLine, TypeOK
  <2> DEFINE new == [id |-> Event(c), age |-> age[c]]
  <2>5. /\ new \in [id : Ids, age : Ages] /\ new.id = Event(c)
        /\ new.id[1] = c /\ new.id[2] = run[c] /\ new.id[3] = left[c]
    BY <2>3 DEF Event, Ids, TypeOK
  <2>6. events' \in {events, events \cup {new}}
    BY <2>1 DEF CloseLine, EndLine
  <2> HIDE DEF new
  <2>7. TypeOK'
    BY <2>2, <2>4, <2>5, <2>6 DEF TypeOK
  <2>8. Underway'
    BY <2>2 DEF Underway
  <2>9. \A e \in events : /\ e.id[1] \in Cmd /\ e.id[3] \in Nat
                          /\ left[e.id[1]] \in Nat
    BY DEF TypeOK, Ids
  <2>10. \A e \in events : e.id # new.id
    BY <2>3, <2>5, <2>9 DEF Numbered
  <2>11. Once'
    BY <2>6, <2>10 DEF Once
  <2>12. Numbered'
    <3> SUFFICES ASSUME NEW e \in events'
                 PROVE  /\ e.id[2] <= run[e.id[1]]
                        /\ e.id[2] = run[e.id[1]] =>
                             pc'[e.id[1]] # "gather" /\ e.id[3] > left'[e.id[1]]
      BY <2>2 DEF Numbered
    <3>1. CASE e = new
      BY <2>2, <2>3, <2>5, <3>1
    <3>2. CASE e \in events
      <4>1. CASE e.id[1] = c
        BY <2>2, <2>3, <2>9, <3>2, <4>1 DEF Numbered
      <4>2. CASE e.id[1] # c
        BY <2>2, <2>9, <3>2, <4>2 DEF Numbered
      <4> QED BY <4>1, <4>2
    <3> QED BY <2>6, <3>1, <3>2
  <2>13. Before'
    <3>1. Past' = Past
      BY <2>2, <2>5, <2>6 DEF Past, Recent, Current
    <3> QED BY <3>1 DEF Before, Named
  <2> QED BY <2>7, <2>8, <2>11, <2>12, <2>13
<1>6. CASE \E c \in Cmd : Drop(c) \/ Leave(c)
  <2>1. PICK c \in Cmd : Drop(c) \/ Leave(c)
    BY <1>6
  <2>2. /\ pc[c] # "idle" /\ pc'[c] \in {"record", "idle"}
        /\ pc' \in [Cmd -> {"idle", "gather", "record", "tail"}]
        /\ \A d \in Cmd \ {c} : pc'[d] = pc[d] /\ left'[d] = left[d]
        /\ UNCHANGED <<pipelined, run, events, line>>
    BY <2>1 DEF Drop, Leave, Recording, TypeOK
  <2>3. left[c] \in 0 .. MaxSlot
    BY DEF TypeOK
  <2>4. left'[c] \in 0 .. MaxSlot /\ (left'[c] = 0 \/ left'[c] < left[c])
    BY <2>1, <2>3 DEF Drop, Leave, TypeOK
  <2>5. left' \in [Cmd -> 0 .. MaxSlot]
    <3>1. CASE Drop(c)
      <4>1. left[c] - 1 \in 0 .. MaxSlot
        BY <2>3, <3>1 DEF Drop
      <4> QED BY <3>1, <4>1 DEF Drop, TypeOK
    <3>2. CASE Leave(c)
      BY <3>2 DEF Leave, TypeOK
    <3> QED BY <2>1, <3>1, <3>2
  <2>6. age' \in [Cmd -> Ages]
    BY <2>1 DEF Drop, Leave, TypeOK, Ages
  <2>7. TypeOK'
    BY <2>2, <2>5, <2>6 DEF TypeOK
  <2>8. Underway'
    BY <2>2 DEF Underway
  <2>9. Numbered'
    <3> SUFFICES ASSUME NEW e \in events, e.id[2] = run[e.id[1]]
                 PROVE  pc'[e.id[1]] # "gather" /\ e.id[3] > left'[e.id[1]]
      BY <2>2 DEF Numbered
    <3>1. /\ e.id[1] \in Cmd /\ e.id[3] \in 1 .. MaxSlot
          /\ pc[e.id[1]] # "gather" /\ e.id[3] > left[e.id[1]]
      BY DEF TypeOK, Ids, Numbered
    <3>2. CASE e.id[1] = c
      BY <2>2, <2>3, <2>4, <3>1, <3>2
    <3>3. CASE e.id[1] # c
      BY <2>2, <3>1, <3>3
    <3> QED BY <3>2, <3>3
  <2> QED BY <1>1, <2>2, <2>7, <2>8, <2>9
<1>7. CASE Tick
  <2>1. UNCHANGED <<pipelined, pc, run, left, line>>
    BY <1>7 DEF Tick
  <2>2. \A a \in Ages : Older(a) \in Ages /\ Older(a) >= a
    BY DEF Ages, Older
  <2>3. age' \in [Cmd -> Ages]
    BY <1>7, <2>2 DEF Tick, TypeOK
  <2>4. ASSUME NEW e \in events'
        PROVE  \E d \in events : /\ e.id = d.id /\ e.age = Older(d.age)
                                 /\ e = [d EXCEPT !.age = Older(d.age)]
                                 /\ e \in [id : Ids, age : Ages]
                                 /\ e.age >= d.age /\ d.age \in Nat /\ e.age \in Nat
    <3>1. PICK d \in events : e = [d EXCEPT !.age = Older(@)]
      BY <1>7, <2>4 DEF Tick
    <3>2. d \in [id : Ids, age : Ages]
      BY DEF TypeOK
    <3> QED BY <2>2, <3>1, <3>2 DEF Ages
  <2>5. TypeOK'
    BY <2>1, <2>3, <2>4 DEF TypeOK
  <2>6. Underway'
    BY <2>1 DEF Underway
  <2>7. Numbered'
    BY <2>1, <2>4 DEF Numbered
  <2>8. Once'
    BY <2>4 DEF Once
  <2>9. Before'
    <3>1. Named(Past)' \subseteq Named(Past)
      BY <2>1, <2>4 DEF Named, Past, Recent, Current
    <3>2. Past \subseteq events
      BY DEF Past, Recent
    <3>3. /\ IsFiniteSet(Named(Past)) /\ Cardinality(Named(Past)) <= Threshold
          /\ Cardinality(Named(Past)) \in Nat
      BY <3>2, NamedOnce, FS_CardinalityType DEF Before
    <3>4. /\ Cardinality(Named(Past)') <= Cardinality(Named(Past))
          /\ Cardinality(Named(Past)') \in Nat
      BY <3>1, <3>3, FS_Subset, FS_CardinalityType
    <3> QED BY <3>3, <3>4 DEF Before
  <2> QED BY <2>5, <2>6, <2>7, <2>8, <2>9
<1>8. CASE UNCHANGED vars
  <2>1. TypeOK' /\ Underway' /\ Numbered'
    BY <1>8 DEF vars, TypeOK, Underway, Numbered
  <2> QED BY <1>1, <1>8, <2>1 DEF vars
<1> QED BY <1>2, <1>3, <1>4, <1>5, <1>6, <1>7, <1>8 DEF Next, Command

LEMMA HealthAlways == Spec => []HealthInv
BY HealthInit, HealthStep, PTL DEF Spec

\* The types of the log and of the commands, for any goals and rounds.
THEOREM HealthTypes == Spec => []TypeOK
<1>1. HealthInv => TypeOK
  BY DEF HealthInv
<1> QED BY HealthAlways, <1>1, PTL

\* However the commands of the goals overlap, the failures that the log shows
\* for one window exceed the threshold by at most one round of every goal.
THEOREM OneRoundOver == Spec => []Overshoot
<1>1. HealthInv => Overshoot
  <2> SUFFICES ASSUME HealthInv PROVE Overshoot
    OBVIOUS
  <2> USE DEF HealthInv
  <2> DEFINE Flying == {e \in Recent : Current(e)}
             T == Cmd \X (1 .. MaxSlot)
             f == [e \in Flying |-> <<e.id[1], e.id[3]>>]
  <2>1. Flying \subseteq events /\ Past \subseteq events /\ Recent = Flying \cup Past
    BY DEF Past, Recent
  <2>2. \A e \in Flying : /\ e.id \in Ids /\ e.id[1] \in Cmd /\ e.id[3] \in 1 .. MaxSlot
                          /\ e.id = <<e.id[1], run[e.id[1]], e.id[3]>>
    <3> SUFFICES ASSUME NEW e \in Flying
                 PROVE  /\ e.id \in Ids /\ e.id[1] \in Cmd /\ e.id[3] \in 1 .. MaxSlot
                        /\ e.id = <<e.id[1], run[e.id[1]], e.id[3]>>
      OBVIOUS
    <3>1. e.id \in Ids /\ e.id[2] = run[e.id[1]]
      BY <2>1 DEF TypeOK, Current
    <3> QED BY <3>1 DEF Ids
  <2>3. f \in [Flying -> T]
    BY <2>2
  <2>4. ASSUME NEW d \in Flying, NEW e \in Flying, f[d] = f[e] PROVE d = e
    <3>1. d.id[1] = e.id[1] /\ d.id[3] = e.id[3]
      BY <2>4
    <3>2. d.id = e.id
      BY <2>2, <3>1
    <3> QED BY <2>1, <3>2 DEF Once
  <2>5. f \in Injection(Flying, T)
    BY <2>3, <2>4, Fun_IsInj
  <2>6. /\ IsFiniteSet(1 .. MaxSlot) /\ Cardinality(1 .. MaxSlot) = MaxSlot
    BY FS_Interval
  <2>7. IsFiniteSet(T) /\ Cardinality(T) = Cardinality(Cmd) * MaxSlot
    BY <2>6, FS_Product
  <2>8. Cardinality(Flying) <= Cardinality(Cmd) * MaxSlot
    BY <2>5, <2>7, FS_Injection
  <2>9. /\ IsFiniteSet(Flying) /\ IsFiniteSet(Past) /\ Cardinality(Past) <= Threshold
        /\ Cardinality(Flying) \in Nat /\ Cardinality(Past) \in Nat
    BY <2>1, NamedOnce DEF Before
  <2>10. Flying \cap Past = {}
    BY DEF Past
  <2>11. Cardinality(Recent) = Cardinality(Flying) + Cardinality(Past)
    BY <2>1, <2>9, <2>10, FS_Union, FS_EmptySet
  <2>12. Cardinality(Cmd) * MaxSlot \in Nat
    BY <2>7, FS_CardinalityType
  <2> QED BY <2>8, <2>9, <2>11, <2>12 DEF Overshoot
<1> QED BY HealthAlways, <1>1, PTL

-----------------------------------------------------------------------------
(***************************************************************************)
(* What a cooldown can still be fed                                        *)
(***************************************************************************)

\* How many events command c may still append before it is over.
Owed(c) ==
  CASE pc[c] = "idle"                         -> 0
    [] pc[c] = "gather" /\ c \in pipelined    -> 0
    [] pc[c] = "gather" /\ c \notin pipelined -> MaxSlot
    [] Recording(c)                           -> left[c]

\* Events that rounds in flight may still append to health.jsonl.
Supply == {i \in Ids : i[2] = run[i[1]] /\ i[3] <= Owed(i[1])}

\* A command leaves the others where they are.
LEMMA OthersWait ==
  ASSUME TypeOK, NEW c \in Cmd, Command(c), NEW d \in Cmd \ {c}
  PROVE  pc'[d] = pc[d] /\ left'[d] = left[d]
<1>1. CASE Begin(c) \/ OpenLine(c) \/ Leave(c)
  BY <1>1 DEF Begin, OpenLine, Leave, TypeOK
<1>2. CASE Gather(c)
  <2>1. PICK l : left' = [left EXCEPT ![c] = l]
    BY <1>2 DEF Gather, TypeOK
  <2> QED BY <1>2, <2>1 DEF Gather, TypeOK
<1>3. CASE CloseLine(c) \/ Drop(c)
  BY <1>3 DEF CloseLine, Drop, TypeOK
<1> QED BY <1>1, <1>2, <1>3 DEF Command

\* A command owes nothing before it has gathered.
Settled == \A c \in Cmd : pc[c] \in {"idle", "gather"} => left[c] = 0

LEMMA SettledStep == TypeOK /\ Settled /\ [Next]_vars => Settled'
<1> SUFFICES ASSUME TypeOK, Settled, [Next]_vars PROVE Settled'
  OBVIOUS
<1>1. ASSUME NEW c \in Cmd, Command(c) PROVE Settled'
  <2>1. \A d \in Cmd \ {c} : pc'[d] = pc[d] /\ left'[d] = left[d]
    BY <1>1, OthersWait
  <2>2. pc'[c] \in {"idle", "gather"} => left'[c] = 0
    <3>1. CASE Begin(c)
      BY <3>1 DEF TypeOK, Settled, Begin
    <3>2. CASE Gather(c) \/ OpenLine(c) \/ CloseLine(c) \/ Drop(c)
      BY <3>2 DEF TypeOK, Gather, OpenLine, CloseLine, Drop
    <3>3. CASE Leave(c)
      BY <3>3 DEF TypeOK, Leave
    <3> QED BY <1>1, <3>1, <3>2, <3>3 DEF Command
  <2> QED BY <2>1, <2>2 DEF Settled
<1>2. CASE Tick \/ UNCHANGED vars
  BY <1>2 DEF Tick, vars, Settled
<1> QED BY <1>1, <1>2 DEF Next

\* A step of one command takes from what it owes.
LEMMA OwedStep ==
  ASSUME TypeOK, TypeOK', Settled, NEW c \in Cmd, Command(c), InCooldown
  PROVE  /\ run' = run
         /\ \A d \in Cmd : Owed(d) \in Nat /\ Owed(d)' \in Nat /\ Owed(d)' <= Owed(d)
         /\ CloseLine(c) => Owed(c) = left[c] /\ Owed(c)' < left[c]
<1>1. /\ pc[c] \in {"idle", "gather", "record", "tail"} /\ left[c] \in 0 .. MaxSlot
      /\ run' = run /\ pipelined' = pipelined
      /\ \A d \in Cmd \ {c} : pc'[d] = pc[d] /\ left'[d] = left[d]
  <2>1. pc[c] \in {"idle", "gather", "record", "tail"} /\ left[c] \in 0 .. MaxSlot
    BY DEF TypeOK
  <2>2. run' = run /\ pipelined' = pipelined
    BY DEF Command, Begin, Gather, OpenLine, CloseLine, Drop, Leave
  <2>3. \A d \in Cmd \ {c} : pc'[d] = pc[d] /\ left'[d] = left[d]
    BY OthersWait
  <2> QED BY <2>1, <2>2, <2>3
<1>2. \A d \in Cmd : Owed(d) \in Nat
  BY DEF TypeOK, Owed, Recording
<1>3. \A d \in Cmd \ {c} : Owed(d)' = Owed(d)
  BY <1>1 DEF Owed, Recording
<1>4. /\ Owed(c)' \in Nat /\ Owed(c)' <= Owed(c)
      /\ CloseLine(c) => Owed(c) = left[c] /\ Owed(c)' < left[c]
  <2>0. left'[c] \in 0 .. MaxSlot
    BY DEF TypeOK
  <2>1. CASE Gather(c)
    <3>1. /\ pc[c] = "gather" /\ pc'[c] = "record"
          /\ c \in pipelined => left'[c] = left[c] /\ left[c] = 0
      BY <2>1 DEF Gather, TypeOK, Settled
    <3>2. ~CloseLine(c)
      BY <3>1 DEF CloseLine, EndLine
    <3> QED BY <1>1, <2>0, <3>1, <3>2 DEF Owed, Recording
  <2>2. CASE OpenLine(c)
    <3>1. pc[c] = "record" /\ pc'[c] = "tail" /\ left'[c] = left[c]
      BY <2>2 DEF OpenLine, TypeOK
    <3>2. ~CloseLine(c)
      BY <3>1 DEF CloseLine, EndLine
    <3> QED BY <1>1, <3>1, <3>2 DEF Owed, Recording
  <2>3. CASE CloseLine(c)
    <3>1. pc[c] = "tail" /\ pc'[c] = "record" /\ left'[c] = left[c] - 1
      BY <2>3 DEF CloseLine, EndLine, TypeOK
    <3> QED BY <1>1, <2>0, <3>1 DEF Owed, Recording
  <2>4. CASE Drop(c)
    <3>1. /\ pc[c] \in {"record", "tail"} /\ pc'[c] = "record" /\ left'[c] = left[c] - 1
      BY <2>4 DEF Drop, Recording, TypeOK
    <3> QED BY <1>1, <2>0, <3>1 DEF Owed, Recording
  <2>5. CASE Leave(c)
    <3>1. pc'[c] = "idle" /\ left'[c] = 0
      BY <2>5 DEF Leave, TypeOK
    <3>2. CloseLine(c) => pc'[c] = "record"
      BY DEF CloseLine, TypeOK
    <3>3. Owed(c)' = 0
      BY <3>1 DEF Owed
    <3>4. Owed(c) \in Nat
      BY <1>2
    <3> QED BY <3>1, <3>2, <3>3, <3>4
  <2> QED BY <2>1, <2>2, <2>3, <2>4, <2>5 DEF Command, Begin
<1> QED BY <1>1, <1>2, <1>3, <1>4

\* During a cooldown the log gets nothing but what rounds in flight owe it, and
\* each of these events at most once.
CooldownDrains ==
  [][InCooldown =>
       /\ Supply' \subseteq Supply
       /\ \A e \in events' : \/ e.id \in Supply \ Supply'
                             \/ \E d \in events : e.id = d.id]_vars

\* Why a cooldown ends by itself: nothing is spawned in it, so that the supply
\* of new failures, finite from the start, only shrinks, by every event that
\* any of the goals' commands still appends.
THEOREM CooldownsAreNotFed == Spec => CooldownDrains /\ [](IsFiniteSet(Supply))
<1>1. HealthInv /\ HealthInv' /\ Settled /\ [Next]_vars =>
        [InCooldown =>
           /\ Supply' \subseteq Supply
           /\ \A e \in events' : \/ e.id \in Supply \ Supply'
                                 \/ \E d \in events : e.id = d.id]_vars
  <2> SUFFICES ASSUME HealthInv, HealthInv', Settled, Next, InCooldown
               PROVE  /\ Supply' \subseteq Supply
                      /\ \A e \in events' : \/ e.id \in Supply \ Supply'
                                            \/ \E d \in events : e.id = d.id
    OBVIOUS
  <2> USE DEF HealthInv
  <2>1. CASE Tick
    <3>1. Supply' = Supply
      BY <2>1 DEF Tick, Supply, Owed, Recording
    <3>2. \A e \in events' : \E d \in events : e.id = d.id
      BY <2>1 DEF Tick, TypeOK
    <3> QED BY <3>1, <3>2
  <2>2. ASSUME NEW c \in Cmd, Command(c)
        PROVE  /\ Supply' \subseteq Supply
               /\ \A e \in events' : \/ e.id \in Supply \ Supply'
                                     \/ \E d \in events : e.id = d.id
    <3>1. /\ run' = run
          /\ \A d \in Cmd : Owed(d) \in Nat /\ Owed(d)' \in Nat /\ Owed(d)' <= Owed(d)
          /\ CloseLine(c) => Owed(c) = left[c] /\ Owed(c)' < left[c]
      BY <2>2, OwedStep
    <3>2. \A i \in Ids : i[1] \in Cmd /\ i[3] \in Nat
      BY DEF Ids
    <3>3. Supply' = {i \in Ids : i[2] = run'[i[1]] /\ i[3] <= Owed(i[1])'}
      BY DEF Supply
    <3>4. Supply' \subseteq Supply
      BY <3>1, <3>2, <3>3 DEF Supply
    <3>5. CASE CloseLine(c)
      <4>1. \A e \in events' : e \in events \/ e.id = Event(c)
        BY <3>5 DEF CloseLine, EndLine
      <4>2. /\ left[c] \in 1 .. MaxSlot /\ run[c] \in 1 .. MaxRun
        BY <3>5 DEF CloseLine, EndLine, TypeOK, Underway
      <4>3. /\ Event(c) \in Ids /\ Event(c)[1] = c
            /\ Event(c)[2] = run[c] /\ Event(c)[3] = left[c]
        BY <4>2 DEF Event, Ids
      <4>4. Event(c) \in Supply /\ Event(c) \notin Supply'
        <5>1. Event(c) \in Supply
          BY <3>1, <3>5, <4>2, <4>3 DEF Supply
        <5>2. ~(left[c] <= Owed(c)')
          BY <3>1, <3>5, <4>2
        <5> QED BY <3>3, <4>3, <5>1, <5>2
      <4> QED BY <3>4, <4>1, <4>4
    <3>6. CASE ~CloseLine(c)
      <4>1. events' = events
        BY <2>2, <3>6 DEF Command, Begin, Gather, OpenLine, Drop, Leave
      <4> QED BY <3>4, <4>1
    <3> QED BY <3>5, <3>6
  <2> QED BY <2>1, <2>2 DEF Next
<1>2. HealthInv => IsFiniteSet(Supply)
  <2>1. Supply \subseteq Ids
    BY DEF Supply
  <2> QED BY <2>1, IdsFinite, FS_Subset
<1>3. Init => Settled
  BY DEF Init, Settled
<1>4. HealthInv => TypeOK
  BY DEF HealthInv
<1> QED BY <1>1, <1>2, <1>3, <1>4, SettledStep, HealthAlways, PTL DEF Spec, CooldownDrains
=============================================================================
