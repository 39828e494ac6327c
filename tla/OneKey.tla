------------------------------- MODULE OneKey -------------------------------
(***************************************************************************)
(* What minting promises, without files, locks or crashes: a verifier slot *)
(* gets at most one key and keeps it; a mint that succeeds has made that   *)
(* key, and one that is refused finds a key. SlotKey implements this with  *)
(* the steps of mint_and_pin_pubkey.                                       *)
(***************************************************************************)
CONSTANTS Minter, Nobody

VARIABLES
  key,      \* the mint whose key the slot has, or Nobody
  owners,   \* mints that have returned their key
  refused   \* mints that have returned AlreadyPinned

Init == key = Nobody /\ owners = {} /\ refused = {}

Pin(m)    == key = Nobody /\ key' = m /\ UNCHANGED <<owners, refused>>
Hand(m)   == key = m /\ owners' = owners \cup {m} /\ UNCHANGED <<key, refused>>
Refuse(m) == /\ key \notin {Nobody, m}
             /\ refused' = refused \cup {m}
             /\ UNCHANGED <<key, owners>>

Next == \E m \in Minter : Pin(m) \/ Hand(m) \/ Refuse(m)

Spec == Init /\ [][Next]_<<key, owners, refused>>
=============================================================================
