--------------------------- MODULE SlotKey_proofs ---------------------------
(***************************************************************************)
(* A slot gets one key with its secret, for ever, for any number of mints, *)
(* failures and kills. The invariant follows the call that holds the lock: *)
(* until it has placed the pin there is none, and from placing the secret  *)
(* on the secret is its own.                                               *)
(***************************************************************************)
EXTENDS SlotKey, TLAPS

\* What the holder of the lock has done, and what a call that has returned
\* knows of the pin.
HolderInv ==
  \A m \in Minter :
    /\ pc[m] \in {"prepare", "secret", "pin"} => pin = Nobody
    /\ pc[m] = "pin" => secret = m
    /\ pc[m] \in {"return", "minted"} => pin = m
    /\ pin = m => pc[m] \in {"return", "minted", "dead"}
    /\ pc[m] = "pinned" => pin # Nobody

\* A verifier exists only where a mint has succeeded, and has its key.
VerifierInv ==
  \A v \in Verifier : stage[v] # "none" => pin # Nobody /\ env[v] = pin

KeyInv == TypeOK /\ HolderInv /\ KeyPaired /\ VerifierInv /\ NobodyRefused

\* No two calls are inside the lock.
LEMMA OneInside ==
  ASSUME TypeOK, NEW m \in Minter, NEW k \in Minter,
         pc[m] \in Inside, pc[k] \in Inside
  PROVE  m = k
BY DEF TypeOK

LEMMA InitKey == Init => KeyInv
BY NobodyAssumption, FaultAssumption
DEF Init, KeyInv, TypeOK, HolderInv, KeyPaired, VerifierInv, NobodyRefused,
    PCs, Done, Inside, Stages

-----------------------------------------------------------------------------
\* Types

LEMMA KeyTypeStep == TypeOK /\ [Next]_vars => TypeOK'
<1> SUFFICES ASSUME TypeOK, [Next]_vars PROVE TypeOK'
  OBVIOUS
<1> USE NobodyAssumption, FaultAssumption
    DEF TypeOK, PCs, Done, Inside, Stages
<1>1. ASSUME NEW m \in Minter, Mint(m) PROVE TypeOK'
  <2>1. CASE Look(m) BY <2>1 DEF Look, Go
  <2>2. CASE Lock(m) BY <2>2 DEF Lock, Go
  <2>3. CASE Recheck(m) BY <2>3 DEF Recheck, Go
  <2>4. CASE Prepare(m) BY <2>4 DEF Prepare, Go
  <2>5. CASE PlaceSecret(m) BY <2>5 DEF PlaceSecret, Go
  <2>6. CASE PlacePin(m) BY <2>6 DEF PlacePin, Go
  <2>7. CASE Return(m) BY <2>7 DEF Return, Go
  <2> QED BY <1>1, <2>1, <2>2, <2>3, <2>4, <2>5, <2>6, <2>7 DEF Mint
<1>2. ASSUME NEW m \in Minter, Fail(m) PROVE TypeOK'
  BY <1>2 DEF Fail, Go, Unlocked
<1>3. ASSUME NEW m \in Minter, Kill(m) PROVE TypeOK'
  BY <1>3 DEF Kill, Go, Unlocked
<1>4. ASSUME NEW v \in Verifier, Verify(v) PROVE TypeOK'
  <2>1. CASE SpawnChild(v) BY <2>1 DEF SpawnChild
  <2>2. CASE SpawnNudge(v) BY <2>2 DEF SpawnNudge
  <2>3. CASE Gate(v) BY <2>3 DEF Gate
  <2>4. CASE Sign(v) BY <2>4 DEF Sign
  <2>5. CASE Evaluate(v) BY <2>5 DEF Evaluate
  <2> QED BY <1>4, <2>1, <2>2, <2>3, <2>4, <2>5 DEF Verify
<1>5. CASE UNCHANGED vars BY <1>5 DEF vars
<1> QED BY <1>1, <1>2, <1>3, <1>4, <1>5 DEF Next

-----------------------------------------------------------------------------
(***************************************************************************)
(* The invariant                                                           *)
(***************************************************************************)

LEMMA MintStep ==
  ASSUME KeyInv, NEW m \in Minter, Mint(m), TypeOK'
  PROVE  KeyInv'
<1> USE NobodyAssumption DEF KeyInv, Inside
<1>1. CASE Look(m) \/ Lock(m) \/ Recheck(m) \/ Prepare(m)
  <2>1. UNCHANGED <<secret, pin, stage, env>>
    BY <1>1 DEF Look, Lock, Recheck, Prepare
  <2>2. \A k \in Minter : k # m => pc'[k] = pc[k]
    BY <1>1 DEF Look, Lock, Recheck, Prepare, Go, TypeOK
  <2>3. /\ pc'[m] \in {"prepare", "secret"} => pin = Nobody
        /\ pc'[m] \in {"lock", "recheck", "prepare", "secret", "pinned"}
        /\ pc'[m] = "pinned" => pin # Nobody
        /\ pc[m] \in {"look", "lock", "recheck", "prepare"}
    BY <1>1 DEF Look, Lock, Recheck, Prepare, Go, TypeOK, HolderInv
  <2> QED BY <2>1, <2>2, <2>3
          DEF HolderInv, KeyPaired, VerifierInv, NobodyRefused
<1>2. CASE PlaceSecret(m)
  <2>1. pin = Nobody /\ UNCHANGED <<pin, stage, env>>
    BY <1>2 DEF PlaceSecret, HolderInv
  <2>2. secret' = m /\ pc'[m] = "pin" /\ \A k \in Minter : k # m => pc'[k] = pc[k]
    BY <1>2 DEF PlaceSecret, Go, TypeOK
  <2>3. \A k \in Minter : k # m => pc[k] # "pin"
    BY <1>2, OneInside DEF PlaceSecret
  <2> QED BY <2>1, <2>2, <2>3
          DEF HolderInv, KeyPaired, VerifierInv, NobodyRefused
<1>3. CASE PlacePin(m)
  <2>1. pin = Nobody /\ secret = m
    BY <1>3 DEF PlacePin, HolderInv
  <2>2. pin' = m /\ UNCHANGED <<secret, stage, env>>
    BY <1>3, <2>1 DEF PlacePin
  <2>3. pc'[m] = "return" /\ \A k \in Minter : k # m => pc'[k] = pc[k]
    BY <1>3, <2>1 DEF PlacePin, Go, TypeOK
  <2>4. \A k \in Minter : k # m => pc[k] \notin {"prepare", "secret", "pin", "return"}
    BY <1>3, OneInside DEF PlacePin
  <2>5. \A k \in Minter : pc[k] # "minted"
    BY <2>1 DEF HolderInv
  <2>6. \A v \in Verifier : stage[v] = "none"
    BY <2>1 DEF VerifierInv
  <2>7. HolderInv'
    BY <2>1, <2>2, <2>3, <2>4, <2>5 DEF HolderInv
  <2> QED BY <2>1, <2>2, <2>6, <2>7 DEF KeyPaired, VerifierInv, NobodyRefused
<1>4. CASE Return(m)
  <2>1. UNCHANGED <<secret, pin, stage, env>> /\ pin = m
    BY <1>4 DEF Return, HolderInv
  <2>2. pc'[m] = "minted" /\ \A k \in Minter : k # m => pc'[k] = pc[k]
    BY <1>4 DEF Return, Go, TypeOK
  <2> QED BY <2>1, <2>2 DEF HolderInv, KeyPaired, VerifierInv, NobodyRefused
<1> QED BY <1>1, <1>2, <1>3, <1>4 DEF Mint

\* A call that ends early takes away at most a secret that has no pin yet.
LEMMA EndStep ==
  ASSUME KeyInv, NEW m \in Minter, Fail(m) \/ Kill(m), TypeOK'
  PROVE  KeyInv'
<1> USE NobodyAssumption DEF KeyInv
<1>1. UNCHANGED <<pin, stage, env>> /\ pc'[m] \in {"failed", "dead"}
  BY DEF Fail, Kill, Go, TypeOK
<1>2. \A k \in Minter : k # m => pc'[k] = pc[k]
  BY DEF Fail, Kill, Go, TypeOK
<1>3. pin = m => pc'[m] = "dead"
  BY DEF Fail, Kill, Go, TypeOK, HolderInv
<1>4. secret' # secret => pc[m] = "pin" /\ pin = Nobody
  BY DEF Fail, Kill
<1>5. secret' # secret => \A k \in Minter : k # m => pc[k] # "pin"
  BY <1>4, OneInside DEF Inside
<1>6. HolderInv'
  BY <1>1, <1>2, <1>3, <1>5 DEF HolderInv
<1>7. KeyPaired'
  BY <1>1, <1>4 DEF KeyPaired
<1> QED BY <1>1, <1>6, <1>7 DEF VerifierInv, NobodyRefused

\* Verifiers change no key. The file a nudge child reads has the key of the
\* pin, because a mint has succeeded.
LEMMA VerifierStep ==
  ASSUME KeyInv, NEW v \in Verifier, Verify(v), TypeOK'
  PROVE  KeyInv'
<1> USE NobodyAssumption DEF KeyInv
<1>1. UNCHANGED <<pc, secret, pin>>
  BY DEF Verify, SpawnChild, SpawnNudge, Gate, Sign, Evaluate
<1>2. HolderInv' /\ KeyPaired'
  BY <1>1 DEF HolderInv, KeyPaired
<1>3. \A w \in Verifier : w # v => stage'[w] = stage[w] /\ env'[w] = env[w]
  BY DEF Verify, SpawnChild, SpawnNudge, Gate, Sign, Evaluate, TypeOK
<1>4. CASE SpawnChild(v) \/ SpawnNudge(v)
  <2>1. PICK m \in Minter : pc[m] = "minted" /\ env'[v] \in {m, secret}
    BY <1>4 DEF SpawnChild, SpawnNudge, TypeOK
  <2>2. pin # Nobody /\ env'[v] = pin
    BY <2>1 DEF HolderInv, KeyPaired
  <2>3. stage'[v] = "gate"
    BY <1>4 DEF SpawnChild, SpawnNudge, TypeOK
  <2> QED BY <1>1, <1>2, <1>3, <2>2, <2>3 DEF VerifierInv, NobodyRefused
<1>5. CASE Gate(v) \/ Sign(v) \/ Evaluate(v)
  <2>1. env' = env /\ stage[v] # "none"
    BY <1>5 DEF Gate, Sign, Evaluate
  <2>2. pin # Nobody /\ env[v] = pin
    BY <2>1 DEF VerifierInv
  <2>3. stage'[v] \in {"sign", "signed", "counted"}
    BY <1>5, <2>2 DEF Gate, Sign, Evaluate, VerifyRecord, TypeOK, NobodyRefused
  <2> QED BY <1>1, <1>2, <1>3, <2>1, <2>2, <2>3 DEF VerifierInv, NobodyRefused
<1> QED BY <1>4, <1>5 DEF Verify

LEMMA KeyStep == KeyInv /\ [Next]_vars => KeyInv'
<1> SUFFICES ASSUME KeyInv, [Next]_vars PROVE KeyInv'
  OBVIOUS
<1>1. TypeOK'
  BY KeyTypeStep DEF KeyInv
<1>2. CASE Next
  BY <1>1, <1>2, MintStep, EndStep, VerifierStep DEF Next
<1>3. CASE UNCHANGED vars
  BY <1>1, <1>3
  DEF vars, KeyInv, HolderInv, KeyPaired, VerifierInv, NobodyRefused
<1> QED BY <1>2, <1>3

LEMMA KeyAlways == Spec => []KeyInv
BY InitKey, KeyStep, PTL DEF Spec

-----------------------------------------------------------------------------
(***************************************************************************)
(* Theorems                                                                *)
(***************************************************************************)

\* The files, the lock and the verifiers of a slot keep their types, and a
\* call is between taking the lock and giving it back exactly while it is the
\* owner (mint_and_pin_pubkey).
THEOREM KeyTypes == Spec => []TypeOK
BY KeyAlways, PTL DEF KeyInv

\* A pin that is visible has its secret beside it: "both must land or neither
\* lands", at any number of calls, failures, failed rollbacks and kills.
THEOREM KeepsThePair == Spec => []KeyPaired
BY KeyAlways, PTL DEF KeyInv

\* Every verifier of a slot, first child or nudge child, gets the secret of
\* the pinned key, so jewije lets it sign and evaluate trusts the record.
THEOREM TurnsNobodyAway == Spec => []NobodyRefused
BY KeyAlways, PTL DEF KeyInv

\* The file steps of mint_and_pin_pubkey implement OneKey: the pin is placed
\* once, by the call that returns the key, and AlreadyPinned means that some
\* other call has placed it.
THEOREM OneKeyEver == Spec => KeyFinal
<1> USE NobodyAssumption
<1> DEFINE owners  == {m \in Minter : pc[m] = "minted"}
           refused == {m \in Minter : pc[m] = "pinned"}
<1>1. Init => Keys!Init
  BY DEF Init, Keys!Init
<1>2. ASSUME KeyInv, [Next]_vars
      PROVE  [Keys!Next]_<<pin, owners, refused>>
  <2> USE <1>2 DEF KeyInv
  <2>1. ASSUME NEW m \in Minter, Mint(m) \/ Fail(m) \/ Kill(m)
        PROVE  \/ Keys!Pin(m) \/ Keys!Hand(m) \/ Keys!Refuse(m)
               \/ UNCHANGED <<pin, owners, refused>>
    <3>1. \A k \in Minter : k # m => pc'[k] = pc[k]
      BY <2>1 DEF Mint, Look, Lock, Recheck, Prepare, PlaceSecret, PlacePin,
                  Return, Fail, Kill, Go, TypeOK
    <3>2. pc[m] \notin {"minted", "pinned"}
      BY <2>1 DEF Mint, Look, Lock, Recheck, Prepare, PlaceSecret, PlacePin,
                  Return, Fail, Kill
    <3>3. CASE pc'[m] \notin {"minted", "pinned"}
      <4>1. UNCHANGED <<owners, refused>>
        BY <3>1, <3>2, <3>3
      <4>2. pin' # pin => pin = Nobody /\ pin' = m
        BY <2>1 DEF Mint, Look, Lock, Recheck, Prepare, PlaceSecret, PlacePin,
                    Return, Fail, Kill
      <4> QED BY <4>1, <4>2 DEF Keys!Pin
    <3>4. CASE pc'[m] = "minted"
      <4>1. owners' = owners \cup {m} /\ refused' = refused
        BY <3>1, <3>2, <3>4
      <4>2. Return(m)
        BY <2>1, <3>4 DEF Mint, Look, Lock, Recheck, Prepare, PlaceSecret,
                          PlacePin, Return, Fail, Kill, Go, TypeOK
      <4>3. pin = m /\ pin' = pin
        BY <4>2 DEF Return, HolderInv
      <4> QED BY <4>1, <4>3 DEF Keys!Hand
    <3>5. CASE pc'[m] = "pinned"
      <4>1. refused' = refused \cup {m} /\ owners' = owners
        BY <3>1, <3>2, <3>5
      <4>2. Look(m) \/ Recheck(m) \/ PlacePin(m)
        BY <2>1, <3>5 DEF Mint, Look, Lock, Recheck, Prepare, PlaceSecret,
                          PlacePin, Return, Fail, Kill, Go, TypeOK
      <4>3. pin # Nobody /\ pin' = pin
        BY <3>5, <4>2 DEF Look, Recheck, PlacePin, Go, TypeOK
      <4>4. pin # m
        BY <4>2 DEF Look, Recheck, PlacePin, HolderInv
      <4> QED BY <4>1, <4>3, <4>4 DEF Keys!Refuse
    <3> QED BY <3>3, <3>4, <3>5
  <2>2. ASSUME NEW v \in Verifier, Verify(v)
        PROVE  UNCHANGED <<pin, owners, refused>>
    <3>1. UNCHANGED <<pc, pin>>
      BY <2>2 DEF Verify, SpawnChild, SpawnNudge, Gate, Sign, Evaluate
    <3> QED BY <3>1
  <2>3. CASE UNCHANGED vars
    BY <2>3 DEF vars
  <2> HIDE DEF owners, refused
  <2> QED BY <2>1, <2>2, <2>3 DEF Next, Keys!Next
<1> QED BY <1>1, <1>2, KeyAlways, PTL DEF Spec, KeyFinal, Keys!Spec

\* Once a key is pinned, neither the pin nor the secret beside it ever changes.
KeyFrozen == [][pin # Nobody => pin' = pin /\ secret' = secret]_vars

\* No later call replaces the secret of a slot that is pinned, not even one
\* that has passed the first look before: of any number of calls on a slot,
\* one at most returns a key, and its two halves stay as it has left them.
THEOREM OneMintWins ==
  Spec => /\ KeyFrozen
          /\ [](\A m, k \in Minter : pc[m] = "minted" /\ pc[k] = "minted" => m = k)
<1>1. KeyInv /\ [Next]_vars => [pin # Nobody => pin' = pin /\ secret' = secret]_vars
  <2> SUFFICES ASSUME KeyInv, Next, pin # Nobody
               PROVE  pin' = pin /\ secret' = secret
    OBVIOUS
  <2>1. \A m \in Minter : pc[m] \notin {"prepare", "secret", "pin"}
    BY DEF KeyInv, HolderInv
  <2>2. ASSUME NEW m \in Minter, Mint(m) \/ Fail(m) \/ Kill(m)
        PROVE  pin' = pin /\ secret' = secret
    BY <2>1, <2>2 DEF Mint, Look, Lock, Recheck, Prepare, PlaceSecret, PlacePin,
                      Return, Fail, Kill
  <2>3. ASSUME NEW v \in Verifier, Verify(v)
        PROVE  pin' = pin /\ secret' = secret
    BY <2>3 DEF Verify, SpawnChild, SpawnNudge, Gate, Sign, Evaluate
  <2> QED BY <2>2, <2>3 DEF Next
<1>2. KeyInv => \A m, k \in Minter : pc[m] = "minted" /\ pc[k] = "minted" => m = k
  BY DEF KeyInv, HolderInv
<1> QED BY <1>1, <1>2, KeyAlways, PTL DEF Spec, KeyFrozen
=============================================================================
