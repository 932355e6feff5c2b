# A verification project for solana-winternitz

TLA+ specifications of this repository, the TLC configurations that model-check
them and the theorems TLAPS proves about them. Paths are relative to the
repository's root; every definition that models code is listed with its lines in
`PROJECT.json` under `map`.

## The system

| Part | Code | State | Operations |
|---|---|---|---|
| Persistent signer (Rust) | `src/signer.rs` | key file, `.tmp` sibling, `.lock` sidecar; in memory `next_leaf`, `last_message`, `last_salt`, `failed` | `create`, `open`, `require_next_leaf_at_least`, `sign`/`sign_with_rng`, drop |
| Persistent signer (TypeScript) | `packages/winternitz/src/signing-key.ts` | the same files; `#closed`, `#sampling` | the same, and `close` |
| Raw signing | `src/hazmat.rs` | none (the caller allocates leaves) | `generate`, `sample_salt`, `sign_at` |
| Target-sum encoding, hash chains | `src/lib.rs` | none | `encode`, `Chain::walk`, `Chain::ends`, `leaf_hash`, `node` |
| Winternitz and XMSS instances | `src/winternitz.rs`, `src/xmss.rs` | the cached tree | `from_secrets`, `sign_at_with_salt`, `verify` |
| Example program | `program/src/lib.rs` | key account: tag, public key, bitmap of used leaves | `create`, `verify` |
| TypeScript core | `core.ts`, `verifying-key.ts`, `hazmat/*.ts` of `packages/winternitz/src` | none | `encode`, `walk`, key and signature of each instance, `verify` |
| Key file format | `src/signer.rs:107-113,163-208,283-297` | the bytes of a record | `write_record`, the checks and reads of `open` |
| Codecs | `src/lib.rs`, `src/winternitz.rs`, `src/xmss.rs` | none | the byte forms of keys and signatures |
| Hash inputs, hash, syscalls | `src/lib.rs`, `src/hash.rs`, `src/syscalls.rs` | none | what is hashed, Keccak-256 |

How they interact: a host program calls the signer, which calls the raw signing
functions of its instance and keeps its state in the key file; the operating
system gives it `flock`, `fsync` and `rename`. The signature travels in a
transaction, which the network may drop, delay or land more than once, to the
program, which calls the verifier and marks the leaf in its account. A host that does not see its
transaction land asks the signer again. The operator may keep copies of the key file,
put one back, and check an opened signer against the leaves the account has used
(`require_next_leaf_at_least`). The Rust and the TypeScript signer share the
key file and the lock.

What is hard here:

* **Crashes.** A signer may die, see an I/O error or lose power between any two
  system calls of `create` and `write`. What is visible and what is durable differ.
* **Several signers on a path.** Other processes, or other handles of one
  process, run between any two system calls.
* **Retries.** The recorded message may be signed again on the same handle or on
  a reopened one, at the last leaf too, and must reproduce its signature.
* **Delivery.** Signatures reach the program in any order and any number of times.
* **Restores.** An older key file knows nothing of the leaves spent since.
* **Callbacks.** A random source is the caller's code. It may fail at any request
  and, in TypeScript, call the signer that is asking it.
* **Indices.** Leaf to bit, leaf to path, position to tweak, level to array offset.
* **Layouts.** Hash inputs, records and instructions have no separators: what a byte
  means follows from where it is, and the leaf has one byte order in the signature,
  another in the message's tweak.

## Modules

| Module | Models | How it corresponds |
|---|---|---|
| `KeyFile` | the operating system's part: lock, file, temporary file, durability | external; one operator per system call the signers make. A file is its visible content and whether that much is synced; `stable` is the set of contents a power loss may leave at `path` |
| `SigningKey` | `src/signer.rs` | `pc[p]` is the next system call of signer `p`, one action per call; `mem[p]`, `failed[p]` are the handle's fields; `result[p]` what the last call returned; `released` collects every signature that has left (history) |
| `SigningKeyInvariant` | | the inductive invariants, in three layers: `SignerInv`, `LeafInv`, `RecordInv` |
| `Definition8` | the promise of `src/signer.rs:1-2,115,269-270` | abstract specification: one key, one attempt per leaf, only the recorded attempt's signature leaves |
| `SigningKeyRefinement` | | the refinement mapping from `SigningKey` to `Definition8` |
| `SigningKeyTs` | `packages/winternitz/src/signing-key.ts`, on one path with Rust signers | the actions of `SigningKey` where the system calls are the same; `sampling[p]` is `#sampling` with the local `leaf`, `closed[p]` the fields of a closed signer, which is still an object |
| `TargetSum` | encoding, chains, leaf and node hashes of `src/lib.rs` | operators named for the functions; a hash is the tuple of its inputs, an option a set of at most one value |
| `Winternitz`, `Xmss` | `src/winternitz.rs`, `src/xmss.rs` | `FromSecrets`, `SignAtWithSalt`, `Verify` of each instance; the tree in its level-major array |
| `Hazmat` | `src/hazmat.rs` | the composition: a key of either instance, `call` the request in progress (one step for each time it asks the random source), `buffer` the secrets `generate` collects |
| `Construction3` | the scheme the comments cite | reference definitions without buffers, offsets or loops, and the properties that compare |
| `KeyAccount` | `program/src/lib.rs` | `tag`, `key`, `used` are the account's bytes; one action per outcome of `process_instruction`; `accepted` counts what `verify` has accepted (history) |
| `EndToEnd` | a host, its operator, the network and the account around one signer or more | extends `SigningKey` and instantiates `KeyAccount`: any signature that ever left may reach the program at any time (`Deliver`), `Restore` puts a copy back, `ReadChain` and `Check` are the minimum check on a view that may be old |
| `Bytes`, `HashInputs` | slices, byte orders and sizes; the layouts of `encode`, `Chain::walk`, `leaf_hash`, `node` | one operator per layout; `call` is the call of `hashv` that has been made |
| `KeyRecord` | the key file's bytes, `src/signer.rs` | `WriteRecord` is `write_record`, `Corrupt` and `Read` the checks and reads of `open`; actions `Open`, `Attempt`, `Drop` |
| `Encodings`, `AccountBytes` | the byte forms of keys and signatures; `program/src/lib.rs` on bytes | `data` is the account's 74 bytes; implements `KeyAccount` |
| `CoreTs` | the TypeScript core, raw keys and verifier | `Ts`-operators named for the functions, next to the Rust ones |
| `MC*` | | values for the constants |
| `*Proofs` | | theorems and proofs |

Lines marked *mutant* in the modules are plausible bugs. Each replaces one
definition in a run and breaks the property it is listed with in `PROJECT.json`;
no specification uses them.

### Abstractions

* A signature is the key, leaf, message and salt it was made from, and a record
  is its key, next leaf, message and salt: the code computes the other bytes from
  these (or never varies them). A file of any other length is `Partial`. `KeyRecord`
  justifies this: a file that opens is exactly what was written of what is read.
* `Accepting` is the set of signatures whose salt hits the target sum. In the
  large run it differs between neighbouring leaves, so a signature
  computed for the wrong leaf is noticed.
* Keccak-256 is free of collisions by construction: only equal inputs hash alike.
  That a role, its tweak and its data stand for the whole layout is what
  `HashInputs` shows: no two calls hash the same bytes. The digests the encoding takes apart are given by the
  constant `Digest`, so what depends on particular digests is checked for the given
  ones, and `OnlyTheSignedDigest` for all of them.
* Key generation never draws one key twice; a salt may be any accepted one.
* `KeyAccount` knows an instruction by its parts and the bitmap as a set of bits;
  `AccountBytes` implements it on the account's and the instruction's bytes. There a
  signature closes on a key if and only if the key's signer made it.
* In `EndToEnd` the operator's copies are complete records, and the minimum is "a chain's
  last accepted leaf plus one" (`src/signer.rs:212`). The account's bitmap does not keep
  the order in which leaves were accepted, so the last one is the highest; an operator who
  went by the leaf of the latest transaction could set a lower minimum, to which
  `LandedLeavesStaySpent` does not apply. The account belongs to a key the signer drew. Power losses are left to the runs of the signer alone.
* The random source of the program's own signer is trusted: it fills what it is
  asked to or fails (`"entropy"` in `Faults`). A caller's may fail with any
  `SigningError`, which `sign_with_rng` passes on; `Random` and `Io` stand for them.
* `FilePowerLoss` picks any content of `stable`; the kernel may also write
  everything back at any time (`Flush`). After a power loss the leftover
  temporary file is gone: nothing reads it before `OpenTmp` truncates it.

## What the runs show

| Run | Instance | Question |
|---|---|---|
| `signer_process_faults` | 2 signers, 2 keys, 2 messages, 3 salts, 2 leaves; I/O errors, entropy failures, kills | While the machine stays up, do the signers behave as one Definition 8 state? Type correctness, exclusion, one signature and one key, leaves in order, `Corrupt` never from `sign`, refinement |
| `signer_power_loss` | the same, power losses instead of dying processes | Does the oldest record a power loss may leave behave as a Definition 8 state? |
| `signer_every_fault` | 2 signers, 1 key, 2 messages, 1 salt, 2 leaves, every fault, fair | Is a returned attempt durable, is an established record never torn, does every call end? |
| `end_to_end` | 1 signer, 1 key, 2 messages, 1 salt, 2 leaves; I/O errors, kills, copies put back at any time | Is a handle that passed the minimum check past every landed leaf? And as long as nothing is put back: does the check raise no false alarm, does a retried message land once, does the program refuse nothing but repetitions? |
| `key_account` | 2 accounts, a key of each instance, leaves 0, 4, 7, 8, 255 and 256, 2 digests | Whatever is submitted and in whatever order: each leaf once, no leaf in place of another, no panic, keys stay |
| `mixed_signers` | a Rust and a TypeScript signer, 1 key, 2 messages, 2 salts, 2 leaves; I/O errors, entropy failures, kills | Do they stay one Definition 8 state when random sources call back, closed signers are called again, and one continues where the other died? |
| `mixed_signers_power` | the same, power losses instead | The same of the oldest surviving record, so that what either returned is durable |
| `raw_signing` | both instances; 4 leaves, 4 digits of base 3, 3 salts, 2 messages, 2 parameters, 2 trials, 2 leaves attempted | Is the array the Merkle tree, is everything released the scheme's signature, does nothing changed verify, does one signature expose the elements of no other digest, is the buffer wiped, does every call return? Does the TypeScript port make the same keys, signatures and verdicts? |
| `record_and_hash_bytes` | a byte of 3 values, fields of 1 byte, 2 chains, a tree of 4 leaves: every header, behind it secrets of the right and of a wrong length | Does only what was written open, and open again as it was? Do no two hash calls have one input? |
| `account_bytes` | the code's sizes, 1 account, a key of each instance, leaves 0, 7, 8, 255, 256 and 2^24, instructions as made, a byte shorter and a byte longer | Do only exact instructions succeed, and do the bytes implement `KeyAccount`? |
| `leaf_reuse_after_reopen` | 1 signer, 1 leaf, kills and power losses | violated: see below |
| `exists_without_key` | 1 signer, entropy failures | violated: see below |

The bounds. Two signers suffice for every race the lock can lose, as only the
holder acts; two messages and two accepted salts per leaf tell signatures of one
leaf apart in each component; two leaves give a first, a last and an exhausted
state, with a retry at each (the code has 1 leaf or 256 and treats all but the
last alike). Two keys allow a second creation. The run that checks
liveness, where symmetry is not sound, has one key and one salt instead: that an
established record never changes its key (`RecordNeverTorn`) is there shown by
the theorem `NeverTorn`, and by `signer_power_loss`, as `Definition8` has one key. For the account, the sampled
leaves sit on both sides of a byte boundary, four apart within a byte, at the
end of the tree and one past it. `LEAVES`, `Keys` bound the runs by themselves:
no counter of the model grows beyond them.

For raw signing, two levels of the tree tell a node's own bit from its parent's and
a level's offset from its index; three positions tell a tweak relative to
the walk from an absolute one; four digits from two bytes show both digits of a
byte and both bytes. `OnlyTheSignedDigest` ranges over all 81 digests. The given
digests leave one leaf and message without an accepted salt, so exhaustion
happens, and give every other one both accepted and rejected salts.
`MaxAttempts` bounds the leaves attempted; leaves do not influence one another, so
two show every case. Two levels and four leaves also show each side and each offset
at which the TypeScript port could differ.

In `end_to_end` two leaves let a restored signer spend again a leaf that has landed, or
one that has not. `MaxRuns` bounds how far runs of requests for one message are counted:
the properties tell one run from more, and counting ends when a copy is put back. In
`record_and_hash_bytes` sizes are scaled so that every header can be tried: a byte
of three values still has both flags and an invalid one, there are next leaves below, at
and above the number of leaves, and the byte orders differ. `LayoutOK` holds of
these sizes and of the code's. `account_bytes` uses the code's; 2^24 is the leaf whose
bytes are those of leaf 1 read backwards, and every field is filled with one byte, as
the program does not look into it.

`AttemptDurableBeforeReturn` is about calls that write. A retry writes nothing; what
becomes of its signature is the question of `leaf_reuse_after_reopen`, below.

Fairness. `FairSpec` assumes weak fairness of each signer's *call in progress*:
the calls are straight-line code in a thread the scheduler runs, and every
system call returns. Nothing is assumed of the callers, and faults may always
happen. `Hazmat`'s `FairSpec` assumes that the random source returns whenever it is
asked, as its contract says (`src/hazmat.rs`, "must fill every byte with CSPRNG
output or return an error"); it may reject every time.

### Two disagreements

* `leaf_reuse_after_reopen`. `write` renames the new record and the process dies
  (or the directory sync fails, for which `src/signer.rs:67` says "Drop the
  signer and reopen the file") before the directory is synced. `open` does not
  sync, and a retry of the recorded message (`src/signer.rs:257-262`) writes
  nothing, so the signature leaves while its record is visible but not durable. A
  power loss brings the previous record back, and the next message is signed on
  the same leaf. `src/signer.rs:269-270`: "Definition 8 permits one attempt per
  leaf, including failure. Persist the attempt before returning either a signature
  or error." One directory sync in `open` would restore it. The TypeScript
  signer has the same steps.
* `exists_without_key`. `create` makes the file before it draws the key. If
  it fails in between, the empty file stays: `create` then says "a key file already
  exists at this path: open it instead" (`src/signer.rs:82`) and `open`
  says `Corrupt`.

### What the minimum check does not see

`end_to_end` shows that a handle that passed `require_next_leaf_at_least` does not
spend a *landed* leaf again. The comment at `src/signer.rs:212-213` says that the check
cannot account for signatures that never landed, and the run agrees: nothing stronger
holds. The same is true of a retry. Let a signer return a signature on leaf 0, and an
older copy be put back; let it be opened *without* the check, record an attempt for
another message on leaf 0 and die before it returns. Once the first signature lands,
the next handle is at leaf 1, passes the minimum 1, and an exact retry
(`src/signer.rs:257-262`) exposes a second signature on landed leaf 0: the check
looks at the next leaf, the retry at the one before. The operator has skipped the check
once, so this contradicts no documented promise and is not listed as a finding.

## What is proved

For every set of signers, keys, messages, salts, accounts and instructions and for any
number of leaves, from the named assumptions on the constants, which TLC evaluates in
the runs. They say what the code's types say (`ConstantsOK`, `TsConstantsOK`,
`ProgramConstantsOK`, `HazmatConstantsOK`, `RecordOK`, ...) and, where a layout or an
encoding needs it, what holds of the code's sizes: `LayoutOK` (the message's hash input
differs in length from the others), `EncodingOK` (an even number of chains, two to a
byte), `DigestsAreBytes` (a digest has as many bytes, each of two digits),
`AccountSizes` (the three numbers `KeyAccount` counts with). `AccountBytesOK` says of the
signatures that signers made them: they decode, and a Winternitz one is at leaf 0.

Types alone are seldom inductive. `SigningKey` therefore has them in two parts:
`FieldsOK` holds of signers of both languages, and `TypeOK` adds the answers of the Rust
one.

### The signer

* `SigningKeyProofs`, under every fault: `TypeCorrect`, `LockExclusion`,
  `HandleIsCurrent`, `AttemptIsDurable`. They are conjuncts of `SignerInv` or
  follow from it. A step that reads `mem[p].next` needs a record there, exclusion is
  needed to know that no other signer moves the file, and `FileFollowsMem` says for each
  step of the holder how the file and the temporary file relate to memory.
* `NeverCorrupt` and `NeverTorn`, under every fault, from `RecordInv`: whatever a
  handle holds reproduces a signature, also after failed samplings, writes and
  reopenings, and the contents a power loss may leave are valid, of one key, one to a
  leaf and never ahead of the visible file. That the visible content is always one of
  them is what the file's synced flag is for: a name is only ever given to synced bytes
  once a key is established.
* `OneSignature` and `OneKey`, assuming `NotBoth`: processes may die and see
  errors, or the machine may lose power, but not both in one history. The
  run `leaf_reuse_after_reopen` shows that the assumption is necessary.
  `LeafInv` adds to `SignerInv` what every record that may survive knows: it has
  spent the leaves of all signatures that left and names the last
  one (`SurvivorsKnow`). That needs how far the survivors lag behind the visible
  file at each step (`Lag`) and that they do not lag between calls (`Settled`).
* `LeavesInOrder`, while the machine stays up: the record at the path advances by
  single attempts.
* `SignersAreDefinition8`, assuming `NotBoth`: any number
  of signers implement `Definition8`. Every step either releases a signature of the
  committed attempt, or moves the committed state, the oldest record that may be
  found, by nothing or one attempt (`Advances`): a rename or a write only adds newer
  contents, and a sync, a power loss or a writeback leaves one of those that could
  survive, at most one attempt ahead (`ShrinkAdvances`, from all three invariants).
* `Definition8OneSignature`: the abstract state alone signs no leaf twice. What was
  released is of the committed attempt or of a leaf before it (`Definition8Inv`).
  `OneSignature` is proved of the signers directly because `released` there is what
  callers hold, and because the same invariant carries the refinement.
* `SigningKeyTsProofs`: the same for Rust and TypeScript signers on one path, whose
  random sources may call them back at any time: `TsTypeCorrect`, `MixedLockExclusion`,
  `MixedHandleIsCurrent`, `MixedAttemptIsDurable`, `MixedNeverCorrupt` and
  `MixedNeverTorn` under every fault, `MixedLeavesInOrder` while the machine stays up,
  `MixedOneSignature`, `MixedOneKey` and `MixedSignersAreDefinition8` assuming `NotBoth`. The
  TypeScript signer keeps the leaf in a local while it samples and records and signs the
  attempt from it afterwards; what makes that safe is `SamplingOK`: while a random source runs, its signer
  holds the lock, is between calls and is still at the leaf it set aside, because a
  callback may neither sign nor close it. `EveryStepIsMixed` splits a step into one that a
  Rust signer could take as well and the few that only the port has (`MixedStep`), so that
  the earlier lemmas carry the rest.

### Raw signing and the scheme

`HazmatProofs`, for every height of the tree, number of chains, positions and target and
for every random source. `HazmatInv` says what each state's buffer, key and signatures
are made of; the rest is what that means.

* `TypeCorrect`, `NoSecretsLeft`: neither is inductive without the form of the call in
  progress (`CallOK`: what is filled, how many trials are left).
* `TreesAreRight`: the level-major array is the Merkle tree and the public key its root.
  `LevelsApart` and `LevelOf` show that the offsets of the levels are disjoint and cover
  the array, `Ancestors` and `Siblings` where the nodes above a leaf are.
* `SignaturesVerify`, `OnlySignaturesVerify`, `VerdictsHonest`: a verifier accepts the
  signatures of the scheme and nothing else, whatever elements and path it is shown.
  `ClimbReachesRoot` is one direction; the other (`ClimbTellsParameter`, `RootMeets`,
  `ChainTells`) goes down from the root and back along the chains, equal hashes having
  equal inputs.
* `OtherDigestsUnreachable`: from what a signature exposes no walk reaches the elements
  of another digest. Two codewords of one sum are never one below the other
  (`Incomparable`, from `SumsTell`), and digits determine the digest
  (`DigitsInjective`). That is the reason for the target sum.
* `SignersOfBothLanguages`, `VerifiersOfBothLanguages`: crate and TypeScript port compute
  the same public keys, signatures and verdicts. The two lay the tree out and climb it
  alike, in code written separately; `TsNodesAreLaid` and `TsCurrentIsRoot` say that the
  translations of both meet the one definition.
* `WalkSplits`, Lemma 2 of the paper, which `Chain::walk` cites: a walk may be split
  anywhere.

These need induction over positions, levels and chains. The library's induction theorems
take the induction hypothesis as an operator, which the provers cannot instantiate;
`Induction` takes it as a *set* of numbers instead, and follows from the well-foundedness
of `<` (`NatLessThanWellFounded`, `WFMin`), whose parameters are sets. A recursive
function is first shown to exist (`WalkExists`, `TreeExists`, `SumExists`,
`LaidExists`, `ClimbExists`, `PowersExist`), as a function on a larger and larger
interval, before what it computes is proved.

### Bytes

* `BytesProofs`: slices, concatenations and the byte orders; for example that parts of
  equal lengths are equal part by part (`SplitEqual`) and that a leaf comes back from its
  four bytes (`ValueOfBigEndian`, `BigEndianOfValue`).
* `LayoutProofs`, for all field sizes and contents: `DomainSeparation`. Roles other than
  the message's begin with parameter and tweak at the same offsets; the message input
  begins with a salt and is told apart by its length alone.
* The same module: `NothingUnread` and `RoundTrip`. `OpenedIsWritten` cuts a file into
  its fields and puts it back together; `WrittenReopens` goes the other way.
* `AccountBytesProofs`: `OnlyExactInstructions`, and `BytesImplementKeyAccount`, whatever
  instructions reach the program. `Outcomes` sorts what an instruction can do: it is
  refused, creates, or carries a signature, to the last byte (`KeyOfParts`,
  `SignatureOfParts`: encoding what was decoded gives the same bytes). `BytesInv` adds
  that what is allocated has one of three tags and, once registered, the right length and
  one of the keys. Setting a bit of the bitmap changes that bit and no other, neither of
  its byte nor of the others (`SetMask`, `ChangedBit`), so that the bytes' bits are
  `KeyAccount`'s set. `KeyAccountProofs` is then instantiated through that mapping, its
  assumption about what is submitted being a lemma here (`SubmittedOK`), and gives
  `EachLeafOnce`, `IndexInside` and `RegisteredBytesStay` for the bytes themselves.

### The program, and all of it together

* `KeyAccountProofs`: `TypeCorrect`, `AcceptedOnce`, `UsedMeansAccepted`,
  `IndexInBounds`, `RegistrationStays`. The invariant adds that an unregistered account
  has no history; the step that accepts rests on `BitsTellLeavesApart` (leaf to byte and
  bit is injective on all naturals) and `BitsAreInside`.
* `EndToEndProofs`: `MinimumCovers`, for any number of signers and copies and wherever
  signers die. `SignerInv` is false here, because a restore changes the file under an
  open handle; what remains is `CheckInv`: a handle in use holds a record, never goes
  back (`NeverBack`) and is past what it was checked against.
* The same module, as long as nothing is put back: `NoFalseAlarm`,
  `OnlyRepetitionsRefused`, `RetriesLandOnce`. The signer's part of a step is then one of
  `SigningKey` (`SignerPart`), so `SignerInv` and `LeafInv` hold here too, and `Landing`
  ties the account's bits to the signatures that landed. Retries need `Runs`: in a
  message's first run all its signatures are of one leaf, and as long as the callers stay
  with it the record at the path names it and nothing is being written, so that asking
  again cannot spend a leaf. `RunsOK` lets runs be counted at least to 2.

Every safety property and every refinement that a run checks is proved. Only
model-checked: that calls end (`CallsFinish` of the signer, `CallsReturn` of raw signing: liveness
under fairness, which is out of the prover's reach), and the two counterexamples, which
are TLC's. A theorem is about the model; TLC's runs, on instances where each property's
mutant is noticed, are what shows that the model says something.

## Not modelled, and the plan

The minimum check and the other end-to-end properties for mixed signers: `EndToEnd`'s
signers are the crate's.

Never: Keccak-256 and the number of its syscall (fixed functions that TLC cannot
evaluate usefully and tests compare with known values), wiping of memory
other than `generate`'s buffer, error formatting, tests and CI. `generateKey` and
`sampleSalt` of the TypeScript port are not repeated: their control flow is `Hazmat`'s.
