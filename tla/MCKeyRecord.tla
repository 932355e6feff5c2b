----------------------------- MODULE MCKeyRecord -----------------------------
(***************************************************************************)
(* KeyRecord with fields of one byte of three values and a tree of four leaves:*)
(* every header there is, behind it the chain starts of either instance.  And   *)
(* HashInputs at the same sizes, where the inputs of a leaf, of a node and of a   *)
(* chain have equal lengths.                                                  *)
(***************************************************************************)
EXTENDS KeyRecord, HashInputs

\* Every leaf and message has accepted and rejected salts, which differ.
SomeSalts(salt, parameter, leaf, message) ==
  salt[1] # (leaf + message[1] + parameter[1]) % BYTE

EveryHeader ==
  {header \o secrets : header \in Strings(SECRETS),
                       secrets \in {<<1, 2>>, <<1, 2, 0>>, <<1, 2, 0, 1, 2, 0, 1, 2>>}}
AllDigests == Strings(MESSAGE_LEN)

\* The two do not interact: a hash is called before any file is looked at, which may
\* then be any one file.
AnyOneFile == CHOOSE f \in Files : TRUE
MCInit == Init /\ HashInit
MCNext ==
  \/ Next /\ UNCHANGED call
  \/ Hash /\ file = AnyOneFile /\ result = "none" /\ UNCHANGED vars
MCSpec == MCInit /\ [][MCNext]_<<vars, call>>
=============================================================================
