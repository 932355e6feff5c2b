------------------------------- MODULE EndToEnd -------------------------------
(***************************************************************************)
(* A signer, the chain and the people between them: SigningKey and           *)
(* KeyAccount composed.  What a signer returns is put in transactions, which  *)
(* the network may lose, delay, reorder and deliver more than once: every      *)
(* signature that ever left may reach the program at any time.  A caller that  *)
(* does not see its transaction land asks for the same message again.  The     *)
(* operator may put an older copy of the key file back, which the README       *)
(* warns against and require_next_leaf_at_least is there to notice.  Processes *)
(* fail in every way SigningKey knows; the machine does not lose power.       *)
(***************************************************************************)
EXTENDS SigningKey, FiniteSets

CONSTANTS
  Account,    \* the key account
  Backups,    \* whether the operator keeps copies of the key file
  MaxRuns,    \* bound: how far runs are counted; 2 is all a property tells apart
  Malformed   \* an argument of the wrong length

ASSUME RunsOK == MaxRuns \in Nat /\ MaxRuns >= 2

VARIABLES
  owner, len, tag, key, used, accepted, verdict,  \* the program, see KeyAccount
  copies,     \* the records that were ever at `path`
  restored,   \* an older copy has been put back (history variable)
  view,       \* the leaves the account had used when the operator last read it
  checked,    \* checked[p]: the view p's handle was checked against, {} if it was not
  asked,      \* the message the callers asked for last, as long as runs are counted
  runs,       \* runs[m]: how often they came back to m after another one
  landed      \* the signatures the program has accepted (history variable)

accountVars == <<owner, len, tag, key, used, accepted, verdict>>
clientVars == <<copies, restored, view, checked, asked, runs>>
allVars == <<vars, accountVars, clientVars, landed>>

Leaves == 0 .. LEAVES - 1
Kind == IF LEAVES = 1 THEN "winternitz" ELSE "xmss"
Wire == [kind : {Kind}, key : Keys, leaf : Leaves, digest : Messages]
OnWire(s) == [kind |-> Kind, key |-> s.key, leaf |-> s.leaf, digest |-> s.msg]

Program == INSTANCE KeyAccount WITH
  Accounts <- {Account}, PublicKeys <- Keys, Digests <- Messages,
  Submitted <- Wire, Genuine <- Wire, result <- verdict

-----------------------------------------------------------------------------
(* The signer.  Every record that becomes visible at `path` may be copied.  *)

Copied == copies' = IF Backups THEN copies \cup ({file'.data} \cap Record) ELSE {}

\* A call or a step of p; its check, if any, ends with its handle.
SignerMoves(p) ==
  /\ Copied
  /\ checked' = [checked EXCEPT ![p] = IF pc'[p] = "closed" THEN {} ELSE @]
  /\ UNCHANGED <<accountVars, restored, view, landed>>

HostStep(p) ==
  /\ \/ \E op \in {"create", "open"} : Lock(p, op)
     \/ Drop(p)
     \/ SignUnusable(p)
     \/ Progress(p)
     \/ Failure(p)
  /\ SignerMoves(p)
  /\ UNCHANGED <<asked, runs>>

\* Coming back to m after another message starts a new run.
Again(m) == IF asked = m \/ runs[m] = MaxRuns THEN runs[m] ELSE runs[m] + 1

Sign(p, m) ==
  /\ SignRetry(p, m) \/ SignExhausted(p, m) \/ SignAttempt(p, m)
  /\ asked' = IF restored THEN None ELSE m
  /\ runs' = [runs EXCEPT ![m] = Again(m)]
  /\ SignerMoves(p)

-----------------------------------------------------------------------------
(* The operator *)

Restore ==
  /\ \E r \in copies : file' = [data |-> r, synced |-> TRUE] /\ stable' = {r}
  /\ restored' = TRUE
  /\ asked' = None
  /\ runs' = [m \in Messages |-> MaxRuns]  \* from here on runs are not counted
  /\ UNCHANGED <<lock, tmp, procVars, drawn, released, accountVars,
                 copies, view, checked, landed>>

UsedLeaves == {leaf \in Leaves : Program!BitOf(leaf) \in used[Account]}

\* "A chain's last accepted leaf plus one."  The account's bitmap does not keep the order
\* in which its leaves were accepted, so the last one is the highest.
Minimum(leaves) ==
  {n \in 0 .. LEAVES : (n = 0 \/ n - 1 \in leaves) /\ \A l \in leaves : l < n}

ReadChain ==
  /\ view' = UsedLeaves
  /\ UNCHANGED <<vars, accountVars, copies, restored, checked, asked, runs, landed>>

\* The check of an opened handle against what was read, which may be old by now.
Check(p) ==
  /\ \E minimum \in Minimum(view) : RequireNextLeaf(p, minimum)
  /\ checked' = [checked EXCEPT ![p] = IF pc'[p] = "closed" THEN {} ELSE view]
  /\ UNCHANGED <<accountVars, copies, restored, view, asked, runs, landed>>

-----------------------------------------------------------------------------
(* The chain *)

Register ==
  /\ \/ Program!Allocate(Account, Program!KEY_ACCOUNT_LEN)
     \/ \E k \in drawn : Program!Create(Account, TRUE, IF LEAVES = 1 THEN 0 ELSE 1, k)
  /\ UNCHANGED <<vars, clientVars, landed>>

Deliver(s) ==
  /\ \/ Program!VerifyRefused(Account, s.msg, OnWire(s))
     \/ Program!VerifyGenuine(Account, s.msg, OnWire(s))
  /\ landed' = IF verdict' = "Ok" THEN landed \cup {s} ELSE landed
  /\ UNCHANGED <<vars, clientVars>>

-----------------------------------------------------------------------------
EndToEndInit ==
  /\ Init
  /\ Program!Init
  /\ copies = {}
  /\ restored = FALSE
  /\ view = {}
  /\ checked = [p \in Procs |-> {}]
  /\ asked = None
  /\ runs = [m \in Messages |-> 0]
  /\ landed = {}

EndToEndNext ==
  \/ \E p \in Procs : HostStep(p) \/ Check(p) \/ \E m \in Messages : Sign(p, m)
  \/ Restore
  \/ ReadChain
  \/ Register
  \/ \E s \in released : Deliver(s)

EndToEndSpec == EndToEndInit /\ [][EndToEndNext]_allVars

-----------------------------------------------------------------------------
(* Properties *)

\* What the minimum-leaf check covers: a handle that passed it is past every leaf
\* that had landed when the chain was read, however old the copy it opened, so that
\* a leaf it spends again can only be one of "transactions that never landed".
LandedLeavesStaySpent ==
  \A p \in Procs : \A leaf \in checked[p] : leaf < mem[p].next

\* The check raises no false alarm: as long as no older copy is put back, the
\* record at `path` is never behind the chain, wherever signers die.
ChainNeverAhead ==
  ~restored /\ released # {} =>
    \A minimum \in Minimum(UsedLeaves) : file.data.next >= minimum

\* "Exact retries return the saved signature": whatever the network does with the
\* transactions and wherever signers die, a message that is asked for until it
\* lands, without another one in between, lands once.
RetryLandsOnce ==
  \A m \in Messages :
    ~restored /\ runs[m] < 2 => Cardinality({s.leaf : s \in {t \in landed : t.msg = m}}) <= 1

\* As long as no older copy is put back, the only signature of the signer the
\* program refuses as reused is one it has accepted before.
RefusedOnlyIfLanded ==
  ~restored => \A s \in released : s.leaf \in UsedLeaves => s \in landed
=============================================================================
