------------------------------- MODULE KeyRecord -------------------------------
(***************************************************************************)
(* The bytes of the key file, src/signer.rs: what write_record writes and     *)
(* what open takes.  SigningKey calls a file a record and its fields, and says  *)
(* that a handle reads back what was written; this module is why it may.       *)
(* A file is found at the path with any content: written by the signer of       *)
(* either instance, by another version, or damaged.                          *)
(***************************************************************************)
EXTENDS Bytes

CONSTANTS
  XMSS_HEIGHT,      \* 8
  XMSS_LEAVES,      \* 256
  Accepts(_, _, _, _),  \* encode(salt, parameter, leaf, message).is_some()
  None,             \* Option::None, and the zero salt stored with it
  Files,            \* the contents a file may be found with
  Digests           \* the messages that are signed

Instances == {"winternitz", "xmss"}

ASSUME RecordOK ==
  /\ XMSS_HEIGHT \in Byte \ {0}
  /\ XMSS_LEAVES \in U32
  /\ BYTE > 2
  /\ None \notin Strings(MESSAGE_LEN) \cup Strings(SALT_LENGTH)
  /\ Files \subseteq Seq(Byte)
  /\ Digests \subseteq Strings(MESSAGE_LEN)

HEIGHT(k) == IF k = "xmss" THEN XMSS_HEIGHT ELSE 0
LEAVES(k) == IF k = "xmss" THEN XMSS_LEAVES ELSE 1

\* The offsets of the header.
VERSION == 2
PARAMETER == 2
NEXT_LEAF == PARAMETER + PARAMETER_LEN
HAS_MESSAGE == NEXT_LEAF + 4
MESSAGE == HAS_MESSAGE + 1
SALT == MESSAGE + MESSAGE_LEN
SECRETS == SALT + SALT_LENGTH

Zeros(n) == [i \in 1 .. n |-> 0]

VARIABLES
  file,    \* the bytes at `path`
  kind,    \* the instance open was last called for
  handle,  \* its fields, None if there is none
  result   \* what open returned

vars == <<file, kind, handle, result>>

-----------------------------------------------------------------------------
\* write_record: a zeroed header, the message and its salt only if there are any.
RetryState(h) ==
  IF h.message = None THEN Zeros(1 + MESSAGE_LEN + SALT_LENGTH)
                      ELSE <<1>> \o (h.message \o h.salt)
WriteRecordLittle(k, h) ==  \* mutant: the leaf is written the least significant byte first
  <<VERSION, HEIGHT(k)>> \o (h.parameter \o (LittleEndian(h.next) \o (RetryState(h) \o h.secrets)))
WriteRecord(k, h) ==
  <<VERSION, HEIGHT(k)>> \o (h.parameter \o (BigEndian(h.next) \o (RetryState(h) \o h.secrets)))

\* What open reads.
Parameter(f) == Slice(f, PARAMETER, NEXT_LEAF)
NextLeaf(f) == FromBigEndian(Slice(f, NEXT_LEAF, HAS_MESSAGE))
LastMessage(f) == IF f[HAS_MESSAGE + 1] = 1 THEN Slice(f, MESSAGE, SALT) ELSE None
LastSalt(f) == Slice(f, SALT, SECRETS)

\* The leaf of the recorded attempt, of which there is none before the first.
RecordedLeaf(f) == NextLeaf(f) - 1

Read(f) ==
  [parameter |-> Parameter(f), next |-> NextLeaf(f), message |-> LastMessage(f),
   salt |-> IF LastMessage(f) = None THEN None ELSE LastSalt(f),
   secrets |-> Slice(f, SECRETS, Len(f))]

CorruptUnlessMessage(k, f) ==  \* mutant: any other flag means that there is no message
  \/ Len(f) # SECRETS + LEAVES(k) * ELEMENTS_LENGTH
  \/ f[1] # VERSION
  \/ f[2] # HEIGHT(k)
  \/ NextLeaf(f) > LEAVES(k)
  \/ LastMessage(f) # None /\ NextLeaf(f) = 0
  \/ /\ LastMessage(f) # None
     /\ NextLeaf(f) # 0
     /\ ~Accepts(LastSalt(f), Parameter(f), RecordedLeaf(f), LastMessage(f))
  \/ LastMessage(f) = None /\ Slice(f, MESSAGE, SECRETS) # Zeros(MESSAGE_LEN + SALT_LENGTH)

\* In the order of open: the checks of the header presume the length, and only a record
\* that names a leaf is encoded again.
Corrupt(k, f) ==
  \/ Len(f) # SECRETS + LEAVES(k) * ELEMENTS_LENGTH
  \/ f[1] # VERSION
  \/ f[2] # HEIGHT(k)
  \/ f[HAS_MESSAGE + 1] > 1
  \/ NextLeaf(f) > LEAVES(k)
  \/ LastMessage(f) # None /\ NextLeaf(f) = 0
  \/ /\ LastMessage(f) # None
     /\ NextLeaf(f) # 0
     /\ ~Accepts(LastSalt(f), Parameter(f), RecordedLeaf(f), LastMessage(f))
  \/ LastMessage(f) = None /\ Slice(f, MESSAGE, SECRETS) # Zeros(MESSAGE_LEN + SALT_LENGTH)

-----------------------------------------------------------------------------
Open(k) ==
  /\ handle = None
  /\ \/ Corrupt(k, file) /\ result' = "Corrupt" /\ UNCHANGED handle
     \/ ~Corrupt(k, file) /\ result' = "Ok" /\ handle' = Read(file)
  /\ kind' = k
  /\ UNCHANGED file

\* sign_with_rng, a new attempt: what it records of a success and of a failure.
AttemptedKeeping(m, s) ==  \* mutant: a failed sampling leaves the last message
  [parameter |-> handle.parameter, next |-> handle.next + 1,
   message |-> IF s = None THEN handle.message ELSE m,
   salt |-> IF s = None THEN handle.salt ELSE s, secrets |-> handle.secrets]
Attempted(m, s) ==
  [parameter |-> handle.parameter, next |-> handle.next + 1,
   message |-> IF s = None THEN None ELSE m, salt |-> s, secrets |-> handle.secrets]

Attempt(m) ==
  /\ handle # None
  /\ handle.message # m
  /\ handle.next < LEAVES(kind)
  /\ \E s \in Strings(SALT_LENGTH) \cup {None} :
       /\ s # None => Accepts(s, handle.parameter, handle.next, m)
       /\ handle' = Attempted(m, s)
       /\ file' = WriteRecord(kind, Attempted(m, s))
  /\ UNCHANGED <<kind, result>>

Drop ==
  /\ handle # None
  /\ handle' = None
  /\ UNCHANGED <<file, kind, result>>

Init ==
  /\ file \in Files
  /\ kind = None
  /\ handle = None
  /\ result = "none"

Next == (\E k \in Instances : Open(k)) \/ (\E m \in Digests : Attempt(m)) \/ Drop

Spec == Init /\ [][Next]_vars

-----------------------------------------------------------------------------
(* Properties *)

\* A file that open takes is, to the last byte, the one write_record writes of the
\* state it was read as: nothing in it goes unread, no two files mean one state, and
\* neither a foreign version nor a damaged retry state passes for a record.
OnlyWrittenFilesOpen ==
  handle # None => file = WriteRecord(kind, handle)

\* Whatever attempts were recorded, at the last leaf and after failed samplings too,
\* the signer of the instance opens its file again as it left it, and the signer of
\* the other instance refuses it.
ReopensAsItself ==
  handle # None =>
    /\ ~Corrupt(kind, file)
    /\ Read(file) = handle
    /\ \A k \in Instances \ {kind} : Corrupt(k, file)
=============================================================================
