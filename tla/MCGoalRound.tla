---------------------------- MODULE MCGoalRound ----------------------------
(***************************************************************************)
(* TLC instances of GoalRound: two jewilo processes, two verifier slots,   *)
(* two rounds.                                                             *)
(***************************************************************************)
EXTENDS GoalRound, TLC

CONSTANTS jewilo1, jewilo2

AnyOfTwo == [n |-> 1, m |-> 2]
TwoOfTwo == [n |-> 2, m |-> 2]
OneOfOne == [n |-> 1, m |-> 1]

OneConfig  == {AnyOfTwo}
TwoConfigs == {TwoOfTwo, OneOfOne}

\* The two processes are interchangeable: only New, which one of them does
\* once, and the lock tell them apart.
Processes == Permutations({jewilo1, jewilo2})

\* The receipt log, and the head that a completion is hashed over, guard no
\* step, and a session that has only its receipt left to append matters to none
\* but the command that awaits it. The safety run takes states that differ in
\* these alone for one state.
Awaited(r) ==
  \E c \in Cmd : cmd[c].rnd = r /\ cmd[c].pc \in {"spawn", "gather", "drain"}

WithoutReceipt(s) == IF s = "signed" THEN "ended" ELSE s

NoReceipts ==
  <<live, created, round, verdict,
    [r \in Rounds, v \in Slots |->
       IF Awaited(r) THEN session[r][v] ELSE WithoutReceipt(session[r][v])],
    [completion EXCEPT !.digest = {}],
    holder, [c \in Cmd |-> [cmd[c] EXCEPT !.head = {}]], aborts, edits>>
=============================================================================
