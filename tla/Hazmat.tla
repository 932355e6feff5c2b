-------------------------------- MODULE Hazmat --------------------------------
(***************************************************************************)
(* Raw signing, src/hazmat.rs: a key of either instance is generated from a   *)
(* caller's random source or imported, and signs at leaves the caller         *)
(* allocates.  The random source is a callback, so a call is a step for each   *)
(* time it asks the source.  The caller keeps the rule the module states: one  *)
(* attempt for each leaf, and a repetition only with the accepted salt.       *)
(***************************************************************************)
EXTENDS TargetSum, FiniteSets

CONSTANTS
  HEIGHT,       \* of the tree of the XMSS instance
  MAX_TRIALS,   \* salts tried before a call gives up
  Parameters,   \* what the source may fill P with
  Salts,        \* and a salt
  Messages,
  MaxAttempts   \* bound: leaves attempted

ASSUME HazmatConstantsOK ==
  /\ HEIGHT \in Nat \ {0} /\ MAX_TRIALS \in Nat \ {0} /\ MaxAttempts \in Nat

VARIABLES
  kind,      \* the instance
  buffer,    \* the secrets generate collects
  key,       \* the key, once there is one
  call,      \* the call in progress
  attempted, \* leaves the caller has allocated
  released,  \* what sign_at and sign_at_with_salt have returned
  result     \* of the last call
vars == <<kind, buffer, key, call, attempted, released, result>>

W == INSTANCE Winternitz
X == INSTANCE Xmss

\* What the crate's hash yields at the arguments it gets.
ASSUME DigestsAreBytes ==
  \A salt \in Salts, parameter \in Parameters, leaf \in 0 .. X!LEAVES - 1, message \in Messages :
    Digest(salt, parameter, leaf, message) \in Digests

-----------------------------------------------------------------------------
(* The operations of the instance a key belongs to *)

Kinds == {"winternitz", "xmss"}

LeavesOf(k) == IF k = "winternitz" THEN W!LEAVES ELSE X!LEAVES

FromSecrets(k, secrets, parameter) ==
  IF k = "winternitz" THEN W!FromSecrets(secrets, parameter) ELSE X!FromSecrets(secrets, parameter)

VerifyingKey(k) == IF kind = "winternitz" THEN W!VerifyingKey(k) ELSE X!VerifyingKey(k)

SignAtWithSalt(k, leaf, message, salt) ==
  IF kind = "winternitz"
  THEN W!SignAtWithSalt(k, leaf, message, salt)
  ELSE X!SignAtWithSalt(k, leaf, message, salt)

Verify(verifying_key, message, signature) ==
  IF kind = "winternitz"
  THEN W!Verify(verifying_key, message, signature)
  ELSE X!Verify(verifying_key, message, signature)

-----------------------------------------------------------------------------
Idle == [op |-> "none"]
Cells(k) == 0 .. LeavesOf(k) * CHAINS - 1

\* Chain i of a leaf as the random source, or the importing caller, gave it.
Zero == <<"zero">>
Sampled(n) == <<"start", n \div CHAINS, n % CHAINS>>

Wipe(b) == [n \in DOMAIN b |-> Zero]

Init ==
  /\ kind \in Kinds
  /\ buffer = <<>>
  /\ key = {}
  /\ call = Idle
  /\ attempted = {}
  /\ released = {}
  /\ result = "none"

-----------------------------------------------------------------------------
(* Keys *)

Generate ==
  /\ call = Idle /\ key = {}
  /\ call' = [op |-> "generate", filled |-> 0]
  /\ buffer' = [n \in Cells(kind) |-> Zero]
  /\ UNCHANGED <<kind, key, attempted, released, result>>

\* One request for the chain starts of each leaf.
FillLeaf ==
  /\ call.op = "generate" /\ call.filled < LeavesOf(kind)
  /\ buffer' = [n \in DOMAIN buffer |-> IF n \div CHAINS = call.filled THEN Sampled(n) ELSE buffer[n]]
  /\ call' = [call EXCEPT !.filled = @ + 1]
  /\ UNCHANGED <<kind, key, attempted, released, result>>

FillParameter ==
  /\ call.op = "generate" /\ call.filled = LeavesOf(kind)
  /\ \E parameter \in Parameters : key' = FromSecrets(kind, buffer, parameter)
  /\ result' = IF key' = {} THEN "Corrupt" ELSE "Ok"
  /\ buffer' = Wipe(buffer)
  /\ call' = Idle
  /\ UNCHANGED <<kind, attempted, released>>

\* The caller's copy of either instance's secrets.
Import ==
  /\ call = Idle /\ key = {}
  /\ \E k \in Kinds, parameter \in Parameters :
       key' = FromSecrets(kind, [n \in Cells(k) |-> Sampled(n)], parameter)
  /\ result' = IF key' = {} THEN "InvalidLength" ELSE "Ok"
  /\ UNCHANGED <<kind, buffer, call, attempted, released>>

-----------------------------------------------------------------------------
(* Signatures *)

SignInvalidLeaf(leaf) ==
  /\ call = Idle /\ key # {} /\ leaf >= LeavesOf(kind)
  /\ result' = "InvalidLeaf"
  /\ UNCHANGED <<kind, buffer, key, call, attempted, released>>

SignAt(leaf, message) ==
  /\ call = Idle /\ key # {} /\ leaf < LeavesOf(kind)
  /\ leaf \notin attempted /\ Cardinality(attempted) < MaxAttempts
  /\ attempted' = attempted \cup {leaf}
  /\ call' = [op |-> "sign_at", leaf |-> leaf, message |-> message, trials |-> 0]
  /\ UNCHANGED <<kind, buffer, key, released, result>>

Accepted(k, salt) == Encode(salt, k.parameter, call.leaf, call.message)

Released(k, leaf, message, salt) ==
  {[leaf |-> leaf, message |-> message, signature |-> s] : s \in SignAtWithSalt(k, leaf, message, salt)}

AcceptSalt(salt) ==
  /\ call.op = "sign_at"
  /\ \E k \in key :
       /\ Accepted(k, salt) # {}
       /\ LET returned == Released(k, call.leaf, call.message, salt)
          IN /\ released' = released \cup returned
             /\ result' = IF returned = {} THEN "Corrupt" ELSE "Ok"
  /\ call' = Idle
  /\ UNCHANGED <<kind, buffer, key, attempted>>

\* mutant: the counter is too narrow and wraps
RejectWrapping(salt) ==
  /\ call.op = "sign_at"
  /\ \E k \in key : Accepted(k, salt) = {}
  /\ call' = [call EXCEPT !.trials = (@ + 1) % MAX_TRIALS]
  /\ UNCHANGED <<kind, buffer, key, attempted, released, result>>

\* mutant: one trial too many
RejectLate(salt) ==
  /\ call.op = "sign_at"
  /\ \E k \in key : Accepted(k, salt) = {}
  /\ IF call.trials = MAX_TRIALS
     THEN call' = Idle /\ result' = "SaltsExhausted"
     ELSE call' = [call EXCEPT !.trials = @ + 1] /\ UNCHANGED result
  /\ UNCHANGED <<kind, buffer, key, attempted, released>>

RejectSalt(salt) ==
  /\ call.op = "sign_at"
  /\ \E k \in key : Accepted(k, salt) = {}
  /\ IF call.trials + 1 = MAX_TRIALS
     THEN call' = Idle /\ result' = "SaltsExhausted"
     ELSE call' = [call EXCEPT !.trials = @ + 1] /\ UNCHANGED result
  /\ UNCHANGED <<kind, buffer, key, attempted, released>>

\* mutant: the error leaves generate before the wipe
FailUnwiped ==
  /\ call # Idle
  /\ result' = "Random"
  /\ call' = Idle
  /\ UNCHANGED <<kind, buffer, key, attempted, released>>

\* The source returns an error; the buffer holds nothing outside generate.
FillFails ==
  /\ call # Idle
  /\ result' = "Random"
  /\ buffer' = Wipe(buffer)
  /\ call' = Idle
  /\ UNCHANGED <<kind, key, attempted, released>>

\* A stored signature reproduced from its salt.
Reproduce(r) ==
  /\ call = Idle
  /\ \E k \in key :
       LET returned == Released(k, r.leaf, r.message, r.signature.salt)
       IN /\ released' = released \cup returned
          /\ result' = IF returned = {} THEN "none" ELSE "Ok"
  /\ UNCHANGED <<kind, buffer, key, call, attempted>>

Next ==
  \/ Generate \/ FillLeaf \/ FillParameter \/ Import
  \/ \E leaf \in 0 .. X!LEAVES :
       \/ SignInvalidLeaf(leaf)
       \/ \E message \in Messages : SignAt(leaf, message)
  \/ \E salt \in Salts : AcceptSalt(salt) \/ RejectSalt(salt)
  \/ FillFails
  \/ \E r \in released : Reproduce(r)

Spec == Init /\ [][Next]_vars

\* The random source returns, with or without an error of its own.
FairSpec ==
  /\ Spec
  /\ WF_vars(FillLeaf \/ FillParameter)
  /\ WF_vars(\E salt \in Salts : AcceptSalt(salt) \/ RejectSalt(salt))
=============================================================================
