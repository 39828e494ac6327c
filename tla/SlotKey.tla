------------------------------ MODULE SlotKey -------------------------------
(***************************************************************************)
(* The key of one verifier slot: mint_and_pin_pubkey, called by the        *)
(* jewilo process that spawns the slot, jewije's gate, which lets a        *)
(* verifier sign only with the key that is pinned, and evaluate's check    *)
(* of the record (of a slot without a phase). A key pair is named for the  *)
(* call that has made it; a file holds a whole key or does not exist,      *)
(* since it is written under a temporary name that no other call uses.     *)
(* Several calls may meet on a slot: the code takes a lock against it,     *)
(* although GoalRound shows (FreshSlots) that a command never spawns a     *)
(* slot twice.                                                             *)
(*                                                                         *)
(* Simplification: what is renamed stays renamed; a loss of power that     *)
(* undoes directory entries (the fsync calls) is left out.                 *)
(***************************************************************************)
EXTENDS Integers

CONSTANTS
  Minter,     \* calls of mint_and_pin_pubkey
  Verifier,   \* verifier processes, each with its call of jewije
  Nobody,     \* no call: a file that does not exist, an empty variable
  MaxFaults   \* bound: calls that are killed or meet an I/O error

ASSUME NobodyAssumption == Nobody \notin Minter
ASSUME FaultAssumption  == MaxFaults \in Nat

VARIABLES
  pc,       \* where each mint is
  lock,     \* the mint that holds the flock on .mint.lock
  secret,   \* verifier-secret.hex: whose secret key it holds
  pin,      \* verifier-pubkey.json: whose public key it holds
  stage,    \* where each verifier is
  env,      \* VERIFIER_LOOP_VERIFIER_SECRET of each verifier
  faults

vars == <<pc, lock, secret, pin, stage, env, faults>>

Init ==
  /\ pc = [m \in Minter |-> "look"]
  /\ lock = Nobody
  /\ secret = Nobody
  /\ pin = Nobody
  /\ stage = [v \in Verifier |-> "none"]
  /\ env = [v \in Verifier |-> Nobody]
  /\ faults = 0

Go(m, p) == pc' = [pc EXCEPT ![m] = p]

-----------------------------------------------------------------------------
\* mint_and_pin_pubkey

\* Mutant: a slot that has a pin counts as minted by this call.
LookIdempotent(m) ==
  /\ pc[m] = "look"
  /\ Go(m, IF pin = Nobody THEN "lock" ELSE "minted")
  /\ UNCHANGED <<lock, secret, pin, stage, env, faults>>

\* The first look, without the lock.
Look(m) ==
  /\ pc[m] = "look"
  /\ Go(m, IF pin = Nobody THEN "lock" ELSE "pinned")
  /\ UNCHANGED <<lock, secret, pin, stage, env, faults>>

\* Mutant: a shared lock.
LockShared(m) ==
  /\ pc[m] = "lock"
  /\ lock' = m
  /\ Go(m, "recheck")
  /\ UNCHANGED <<secret, pin, stage, env, faults>>

Lock(m) ==
  /\ pc[m] = "lock"
  /\ lock = Nobody
  /\ lock' = m
  /\ Go(m, "recheck")
  /\ UNCHANGED <<secret, pin, stage, env, faults>>

\* Mutant: no second look.
RecheckNot(m) ==
  /\ pc[m] = "recheck"
  /\ Go(m, "prepare")
  /\ UNCHANGED <<lock, secret, pin, stage, env, faults>>

\* Another call may have pinned before the lock was free.
Recheck(m) ==
  /\ pc[m] = "recheck"
  /\ \/ /\ pin = Nobody
        /\ Go(m, "prepare")
        /\ UNCHANGED lock
     \/ /\ pin # Nobody
        /\ Go(m, "pinned")
        /\ lock' = Nobody
  /\ UNCHANGED <<secret, pin, stage, env, faults>>

\* A fresh pair, both halves in temporary files of this call.
Prepare(m) ==
  /\ pc[m] = "prepare"
  /\ Go(m, "secret")
  /\ UNCHANGED <<lock, secret, pin, stage, env, faults>>

\* Mutant: a secret that is there already is kept.
PlaceSecretOnce(m) ==
  /\ pc[m] = "secret"
  /\ secret' = IF secret = Nobody THEN m ELSE secret
  /\ Go(m, "pin")
  /\ UNCHANGED <<lock, pin, stage, env, faults>>

\* rename: the secret comes first, over one that a failed call has left.
PlaceSecret(m) ==
  /\ pc[m] = "secret"
  /\ secret' = m
  /\ Go(m, "pin")
  /\ UNCHANGED <<lock, pin, stage, env, faults>>

\* hard_link: the pin comes last, and never over another one.
PlacePin(m) ==
  /\ pc[m] = "pin"
  /\ \/ /\ pin = Nobody
        /\ pin' = m
        /\ Go(m, "return")
        /\ UNCHANGED lock
     \/ /\ pin # Nobody
        /\ Go(m, "pinned")
        /\ lock' = Nobody
        /\ UNCHANGED pin
  /\ UNCHANGED <<secret, stage, env, faults>>

\* Mutant: the lock file is kept open.
ReturnLocked(m) ==
  /\ pc[m] = "return"
  /\ Go(m, "minted")
  /\ UNCHANGED <<lock, secret, pin, stage, env, faults>>

Return(m) ==
  /\ pc[m] = "return"
  /\ Go(m, "minted")
  /\ lock' = Nobody
  /\ UNCHANGED <<secret, pin, stage, env, faults>>

Unlocked(m) == IF lock = m THEN Nobody ELSE lock

\* An I/O error before the pin. If the pin itself fails, the secret is moved
\* away again, which may fail too.
Fail(m) ==
  /\ pc[m] \in {"look", "lock", "prepare", "secret", "pin"}
  /\ faults < MaxFaults
  /\ faults' = faults + 1
  /\ secret' \in IF pc[m] = "pin" /\ pin = Nobody THEN {secret, Nobody}
                 ELSE {secret}
  /\ Go(m, "failed")
  /\ lock' = Unlocked(m)
  /\ UNCHANGED <<pin, stage, env>>

\* The command is killed in the call, and the OS drops its lock.
Kill(m) ==
  /\ pc[m] \notin {"minted", "pinned", "failed", "dead"}
  /\ faults < MaxFaults
  /\ faults' = faults + 1
  /\ Go(m, "dead")
  /\ lock' = Unlocked(m)
  /\ UNCHANGED <<secret, pin, stage, env>>

Mint(m) == \/ Look(m) \/ Lock(m) \/ Recheck(m) \/ Prepare(m)
           \/ PlaceSecret(m) \/ PlacePin(m) \/ Return(m)

-----------------------------------------------------------------------------
\* Verifiers of a slot whose mint has succeeded

\* The first child gets the secret from the call itself.
SpawnChild(v) ==
  /\ stage[v] = "none"
  /\ \E m \in Minter : pc[m] = "minted" /\ env' = [env EXCEPT ![v] = m]
  /\ stage' = [stage EXCEPT ![v] = "gate"]
  /\ UNCHANGED <<pc, lock, secret, pin, faults>>

\* A nudge child gets it from the file; none there is an empty secret.
SpawnNudge(v) ==
  /\ stage[v] = "none"
  /\ \E m \in Minter : pc[m] = "minted"
  /\ env' = [env EXCEPT ![v] = secret]
  /\ stage' = [stage EXCEPT ![v] = "gate"]
  /\ UNCHANGED <<pc, lock, secret, pin, faults>>

\* jewije's regime gate: a pin and a secret, or neither.
Gate(v) ==
  /\ stage[v] = "gate"
  /\ stage' = [stage EXCEPT ![v] =
       IF pin = Nobody /\ env[v] = Nobody THEN "unsigned"
       ELSE IF pin # Nobody /\ env[v] # Nobody THEN "sign" ELSE "refused"]
  /\ UNCHANGED <<pc, lock, secret, pin, env, faults>>

\* build_signed_record reads the pin again and compares.
Sign(v) ==
  /\ stage[v] = "sign"
  /\ stage' = [stage EXCEPT ![v] = IF pin = env[v] THEN "signed" ELSE "refused"]
  /\ UNCHANGED <<pc, lock, secret, pin, env, faults>>

\* verify_record: signed, and with the key that is pinned now.
VerifyRecord(v) == stage[v] = "signed" /\ pin = env[v]

\* evaluate: a slot without a pin is from before signing and counts as it is.
Evaluate(v) ==
  /\ stage[v] \in {"signed", "unsigned"}
  /\ stage' = [stage EXCEPT ![v] =
       IF pin = Nobody \/ VerifyRecord(v) THEN "counted" ELSE "untrusted"]
  /\ UNCHANGED <<pc, lock, secret, pin, env, faults>>

Verify(v) == \/ SpawnChild(v) \/ SpawnNudge(v)
             \/ Gate(v) \/ Sign(v) \/ Evaluate(v)

Next == \/ \E m \in Minter : Mint(m) \/ Fail(m) \/ Kill(m)
        \/ \E v \in Verifier : Verify(v)

Spec == Init /\ [][Next]_vars

\* A running call runs, and a free flock goes to a waiter.
FairSpec == Spec /\ \A m \in Minter : WF_vars(Mint(m))

-----------------------------------------------------------------------------
(***************************************************************************)
(* Properties                                                              *)
(***************************************************************************)

Done   == {"minted", "pinned", "failed", "dead"}
PCs    == {"look", "lock", "recheck", "prepare", "secret", "pin", "return"}
Inside == {"recheck", "prepare", "secret", "pin", "return"}
Stages == {"none", "gate", "sign", "signed", "unsigned", "refused",
           "counted", "untrusted"}

\* Types, and what the type of a lock is: whoever is between taking it and
\* returning holds it, and nobody else does.
TypeOK ==
  /\ pc \in [Minter -> PCs \cup Done]
  /\ lock \in Minter \cup {Nobody}
  /\ secret \in Minter \cup {Nobody}
  /\ pin \in Minter \cup {Nobody}
  /\ stage \in [Verifier -> Stages]
  /\ env \in [Verifier -> Minter \cup {Nobody}]
  /\ faults \in 0..MaxFaults
  /\ \A m \in Minter : lock = m <=> pc[m] \in Inside

\* "Both must land or neither lands": once the pin is visible, the secret
\* beside it is the secret of that pin, whichever calls have met on the slot,
\* failed at a step, been rolled back or been killed.
KeyPaired == pin # Nobody => secret = pin

\* A slot has one key for ever, a call that returns a key returns that key,
\* and a call that is refused finds the slot pinned.
Keys == INSTANCE OneKey WITH
  key     <- pin,
  owners  <- {m \in Minter : pc[m] = "minted"},
  refused <- {m \in Minter : pc[m] = "pinned"}

KeyFinal == Keys!Spec

\* No verifier of a slot is turned away by jewije, none registers without a
\* signature, and no verdict is distrusted by evaluate, whether the verifier
\* got its secret from the call or, as a nudge child, from the file.
NobodyRefused ==
  \A v \in Verifier : stage[v] \notin {"unsigned", "refused", "untrusted"}

\* Every call ends, also when others are killed while they hold the lock.
MintsEnd == \A m \in Minter : <>(pc[m] \in Done)
=============================================================================
