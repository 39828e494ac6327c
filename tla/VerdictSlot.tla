----------------------------- MODULE VerdictSlot -----------------------------
(***************************************************************************)
(* jewije: the file steps by which verifiers register verdicts in the      *)
(* slots of one round and append receipts to their goal's log.             *)
(*                                                                         *)
(* A caller is one signed jewije invocation (its secret matches the slot's *)
(* pin; any other call changes nothing, or, without pin and secret, stops  *)
(* after the rename). The verdict goes to verdict.json.tmp, one name for   *)
(* all callers of a slot, and is renamed over verdict.json. Files are      *)
(* inodes, each named for the caller that created it. A receipt line is    *)
(* named for its caller, and so is its hash. A kill or a full disk may cut *)
(* a line short, or leave it without its newline: the next line is then    *)
(* written behind it, and the two are one line that does not parse.        *)
(***************************************************************************)
EXTENDS Integers, Sequences, FiniteSets

CONSTANTS
  Caller,      \* jewije invocations
  Slots,       \* verifier slots
  Racing,      \* slots on which several invocations may overlap
  Nobody,      \* no caller; also the hash before the first receipt
  MaxCrashes   \* bound: callers that are killed or fail

ASSUME CallerAssumption ==
  /\ Nobody \notin Caller
  /\ Caller \cap {"null", "empty", "torn"} = {}
ASSUME SlotAssumption == Racing \subseteq Slots
ASSUME CrashAssumption == MaxCrashes \in Nat

VARIABLES
  pc,        \* where each caller is
  slot,      \* the slot each caller registers in
  fd,        \* the inode each caller has opened for writing
  data,      \* data[i]: "empty", "torn", or the caller whose record it holds
  tmp,       \* tmp[v]: the inode named verdict.json.tmp, or Nobody
  target,    \* target[v]: the inode named verdict.json; Nobody: placeholder
  log,       \* the lines of receipt-log.jsonl; ok: the line parses
  cut,       \* whether the last of them has no newline
  logLock,   \* the caller that holds the flock on the log
  seen,      \* the line count and the head each caller has read
  crashes

vars == <<pc, slot, fd, data, tmp, target, log, cut, logLock, seen, crashes>>

Done == {"final", "failed", "registered", "dead"}
NothingSeen == [count |-> 0, head |-> Nobody]

\* pre_create_verifier_dir has written the null placeholders.
Init ==
  /\ pc = [c \in Caller |-> "idle"]
  /\ slot \in [Caller -> Slots]
  /\ fd = [c \in Caller |-> Nobody]
  /\ data = [c \in Caller |-> "empty"]
  /\ tmp = [v \in Slots |-> Nobody]
  /\ target = [v \in Slots |-> Nobody]
  /\ log = <<>>
  /\ cut = FALSE
  /\ logLock = Nobody
  /\ seen = [c \in Caller |-> NothingSeen]
  /\ crashes = 0

-----------------------------------------------------------------------------
\* What is in verdict.json: a caller's record, the placeholder, or garbage

Content(v) == IF target[v] = Nobody THEN "null" ELSE data[target[v]]

Go(c, p) == pc' = [pc EXCEPT ![c] = p]

\* Outside Racing a slot's next invocation starts when the last one is over.
Start(c) ==
  /\ pc[c] = "idle"
  /\ slot[c] \notin Racing =>
       \A d \in Caller \ {c} : slot[d] = slot[c] => pc[d] \in Done \cup {"idle"}
  /\ Go(c, "check")
  /\ UNCHANGED <<slot, fd, data, tmp, target, log, cut, logLock, seen, crashes>>

-----------------------------------------------------------------------------
\* write_first_verdict

\* Mutant: an existing verdict is taken for this caller's own.
CheckIdempotent(c) ==
  /\ pc[c] = "check"
  /\ \/ Content(slot[c]) = "null" /\ Go(c, "open")
     \/ Content(slot[c]) \in Caller /\ Go(c, "lock")
     \/ Content(slot[c]) \in {"empty", "torn"} /\ Go(c, "failed")
  /\ UNCHANGED <<slot, fd, data, tmp, target, log, cut, logLock, seen, crashes>>

\* A final verdict refuses the call; one that does not parse fails it.
Check(c) ==
  /\ pc[c] = "check"
  /\ \/ Content(slot[c]) = "null" /\ Go(c, "open")
     \/ Content(slot[c]) \in Caller /\ Go(c, "final")
     \/ Content(slot[c]) \in {"empty", "torn"} /\ Go(c, "failed")
  /\ UNCHANGED <<slot, fd, data, tmp, target, log, cut, logLock, seen, crashes>>

\* Mutant: the record is written in place, without a temporary file.
OpenTarget(c) ==
  LET v == slot[c] IN
  /\ pc[c] = "open"
  /\ tmp' = [tmp EXCEPT ![v] = c]
  /\ target' = [target EXCEPT ![v] = c]
  /\ fd' = [fd EXCEPT ![c] = c]
  /\ data' = [data EXCEPT ![c] = "empty"]
  /\ Go(c, "fill")
  /\ UNCHANGED <<slot, log, cut, logLock, seen, crashes>>

\* fs::write opens verdict.json.tmp: a new file, or the one that is there
\* (another caller's, or one left by a killed caller), which it truncates.
Open(c) ==
  LET v == slot[c]
      i == IF tmp[v] = Nobody THEN c ELSE tmp[v] IN
  /\ pc[c] = "open"
  /\ tmp' = [tmp EXCEPT ![v] = i]
  /\ fd' = [fd EXCEPT ![c] = i]
  /\ data' = [data EXCEPT ![i] = "empty"]
  /\ Go(c, "fill")
  /\ UNCHANGED <<slot, target, log, cut, logLock, seen, crashes>>

\* It writes from the start of the file. Over another caller's record, the
\* longer record keeps its tail.
Fill(c) ==
  /\ pc[c] = "fill"
  /\ \E x \in {c} \cup (IF data[fd[c]] = "empty" THEN {} ELSE {"torn"}) :
        data' = [data EXCEPT ![fd[c]] = x]
  /\ Go(c, "rename")
  /\ UNCHANGED <<slot, fd, tmp, target, log, cut, logLock, seen, crashes>>

\* Whatever file has the name by now becomes verdict.json.
Rename(c) ==
  LET v == slot[c] IN
  /\ pc[c] = "rename"
  /\ \/ /\ tmp[v] # Nobody
        /\ target' = [target EXCEPT ![v] = tmp[v]]
        /\ tmp' = [tmp EXCEPT ![v] = Nobody]
        /\ Go(c, "lock")
     \/ /\ tmp[v] = Nobody
        /\ Go(c, "failed")
        /\ UNCHANGED <<tmp, target>>
  /\ UNCHANGED <<slot, fd, data, log, cut, logLock, seen, crashes>>

-----------------------------------------------------------------------------
\* append_receipt, under an exclusive flock it waits for

\* Mutant: a shared lock.
LockShared(c) ==
  /\ pc[c] = "lock"
  /\ logLock' = c
  /\ Go(c, "read")
  /\ UNCHANGED <<slot, fd, data, tmp, target, log, cut, seen, crashes>>

Lock(c) ==
  /\ pc[c] = "lock"
  /\ logLock = Nobody
  /\ logLock' = c
  /\ Go(c, "read")
  /\ UNCHANGED <<slot, fd, data, tmp, target, log, cut, seen, crashes>>

\* h is the hash of the last line, of the first n, that parses.
LastHash(lines, h, n) ==
  \/ h = Nobody /\ \A i \in 1..n : ~lines[i].ok
  \/ \E i \in 1..n : /\ lines[i].ok /\ lines[i].hash = h
                     /\ \A j \in (i + 1)..n : ~lines[j].ok

\* Mutant: the last line is not counted.
ReadHeadShort(c) ==
  /\ pc[c] = "read"
  /\ \E h \in Caller \cup {Nobody} :
        /\ LastHash(log, h, Len(log))
        /\ seen' = [seen EXCEPT ![c] = [count |-> Len(log) - 1, head |-> h]]
  /\ Go(c, "append")
  /\ UNCHANGED <<slot, fd, data, tmp, target, log, cut, logLock, crashes>>

\* Every line counts; the head is that of the last one that parses.
ReadHead(c) ==
  /\ pc[c] = "read"
  /\ \E h \in Caller \cup {Nobody} :
        /\ LastHash(log, h, Len(log))
        /\ seen' = [seen EXCEPT ![c] = [count |-> Len(log), head |-> h]]
  /\ Go(c, "append")
  /\ UNCHANGED <<slot, fd, data, tmp, target, log, cut, logLock, crashes>>

\* Bytes at the end of the file: a line of its own, or more of one that was
\* cut short.
Grown(c, ok) ==
  IF cut THEN [log EXCEPT ![Len(log)].ok = FALSE]
         ELSE Append(log, [seq |-> seen[c].count + 1, prev |-> seen[c].head,
                           hash |-> c, ok |-> ok])

\* Mutant: write! for writeln!, a line without its newline.
AppendBare(c) ==
  /\ pc[c] = "append"
  /\ log' = Grown(c, TRUE)
  /\ cut' = TRUE
  /\ Go(c, "unlock")
  /\ UNCHANGED <<slot, fd, data, tmp, target, logLock, seen, crashes>>

AppendLine(c) ==
  /\ pc[c] = "append"
  /\ log' = Grown(c, TRUE)
  /\ cut' = FALSE
  /\ Go(c, "unlock")
  /\ UNCHANGED <<slot, fd, data, tmp, target, logLock, seen, crashes>>

\* A kill or an error within the write: some of the line is there, or all of
\* it but the newline. Either way the call is over and the lock is free.
CutLine(c) ==
  /\ pc[c] = "append"
  /\ crashes < MaxCrashes
  /\ crashes' = crashes + 1
  /\ \E ok \in BOOLEAN : log' = Grown(c, ok)
  /\ cut' = TRUE
  /\ Go(c, "dead")
  /\ logLock' = Nobody
  /\ UNCHANGED <<slot, fd, data, tmp, target, seen>>

\* Mutant: the lock is left to its holder.
UnlockNot(c) ==
  /\ pc[c] = "unlock"
  /\ Go(c, "registered")
  /\ UNCHANGED <<slot, fd, data, tmp, target, log, cut, logLock, seen, crashes>>

Unlock(c) ==
  /\ pc[c] = "unlock"
  /\ logLock' = Nobody
  /\ Go(c, "registered")
  /\ UNCHANGED <<slot, fd, data, tmp, target, log, cut, seen, crashes>>

-----------------------------------------------------------------------------
\* The caller is killed, or fails; the OS drops its lock.
Crash(c) ==
  /\ pc[c] \notin Done \cup {"idle"}
  /\ crashes < MaxCrashes
  /\ crashes' = crashes + 1
  /\ Go(c, "dead")
  /\ logLock' = IF logLock = c THEN Nobody ELSE logLock
  /\ UNCHANGED <<slot, fd, data, tmp, target, log, cut, seen>>

WriteFirstVerdict(c) == Check(c) \/ Open(c) \/ Fill(c) \/ Rename(c)
AppendReceipt(c) == Lock(c) \/ ReadHead(c) \/ AppendLine(c) \/ Unlock(c)
Call(c) == WriteFirstVerdict(c) \/ AppendReceipt(c)

Next == \E c \in Caller : Start(c) \/ Call(c) \/ Crash(c) \/ CutLine(c)

Spec == Init /\ [][Next]_vars

\* A running process runs, and a free flock goes to a waiter.
FairSpec == Spec /\ \A c \in Caller : WF_vars(Call(c))

-----------------------------------------------------------------------------
(***************************************************************************)
(* Properties                                                              *)
(***************************************************************************)

PCs == {"idle", "check", "open", "fill", "rename", "lock", "read", "append",
        "unlock"} \cup Done

Line == [seq : Nat, prev : Caller \cup {Nobody}, hash : Caller, ok : BOOLEAN]

\* Every variable holds a value of its kind.
TypeOK ==
  /\ pc \in [Caller -> PCs]
  /\ slot \in [Caller -> Slots]
  /\ fd \in [Caller -> Caller \cup {Nobody}]
  /\ data \in [Caller -> Caller \cup {"empty", "torn"}]
  /\ tmp \in [Slots -> Caller \cup {Nobody}]
  /\ target \in [Slots -> Caller \cup {Nobody}]
  /\ log \in Seq(Line)
  /\ cut \in BOOLEAN /\ (cut => log # <<>>)
  /\ logLock \in Caller \cup {Nobody}
  /\ seen \in [Caller -> [count : Nat, head : Caller \cup {Nobody}]]
  /\ crashes \in 0..MaxCrashes

\* The receipts that can be read form one chain: each is numbered for its line
\* and links to the one before it, whichever callers append at once, wherever
\* one of them is killed and whatever that leaves in the file
\* (append_receipt_locked, verify_chain).
ReceiptsChained ==
  \A i \in 1..Len(log) :
    log[i].ok => log[i].seq = i /\ LastHash(log, log[i].prev, i - 1)

\* Callers that were told their receipt is in the log, where none can be read.
Lost ==
  {c \in Caller : /\ pc[c] \in {"unlock", "registered"}
                  /\ \A i \in 1..Len(log) : ~(log[i].ok /\ log[i].hash = c)}

\* A write cut short costs one acknowledged receipt at most, that of the next
\* caller: read_head_and_count steps over what does not parse.
LossesBounded == Cardinality(Lost) <= crashes

\* On a slot whose invocations do not overlap a reader always finds the
\* placeholder or one whole record in verdict.json, whoever was killed while
\* writing ("atomically", write_first_verdict).
VerdictWhole ==
  \A v \in Slots \ Racing : Content(v) \notin {"empty", "torn"}

\* The caller whose verdict is in each of those slots, and the callers on them
\* that have a receipt, which it is once its line is ended.
Owner == [v \in Slots \ Racing |-> IF target[v] = Nobody THEN Nobody
                                   ELSE data[target[v]]]
Receipted ==
  {c \in Caller : /\ slot[c] \notin Racing
                  /\ \E i \in 1..Len(log) : /\ log[i].ok /\ log[i].hash = c
                                            /\ i = Len(log) => ~cut}

Ledger == INSTANCE VerdictLedger WITH
  Slots     <- Slots \ Racing,
  Callers   <- Caller,
  Null      <- Nobody,
  owner     <- Owner,
  receipted <- Receipted

\* There, too, the files do what the ledger says: the first verdict in a slot
\* is its last, and a receipt means that its caller's verdict is on disk.
FirstVerdictCounts == Ledger!Spec

\* Every invocation ends, also when the holder of the log's lock is killed.
CallsEnd == \A c \in Caller : pc[c] = "check" ~> pc[c] \in Done

-----------------------------------------------------------------------------
\* A claim of the documentation that the code keeps only without overlap:
\* "a non-null verdict is never overwritten".
VerdictFinal ==
  [][\A v \in Slots :
       Content(v) \in Caller => Content(v)' = Content(v)]_vars
==============================================================================
