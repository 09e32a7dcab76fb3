------------------------------ MODULE Payload -------------------------------
(***************************************************************************)
(* The wire form of a ticket (TicketSigningService): what is packed into   *)
(* the bytes that are signed, and what a scanner reads out of them.        *)
(*                                                                         *)
(* A text is the sequence of its UTF-8 bytes, so an identifier is a        *)
(* Seq(Byte); Spelling gives the text of a uuid of given bytes.  A hash    *)
(* column is its HASH_BYTES bytes.  The widths are constants: 256 byte     *)
(* values, version 5, codes of 8 bytes, uuids of 16 and hashes of 4.       *)
(*                                                                         *)
(* Ed25519 signatures are deterministic and taken to be unforgeable: the   *)
(* only signature that verifies for some bytes is Sign of these bytes.     *)
(***************************************************************************)
EXTENDS Naturals, Sequences

CONSTANTS ByteCount, FORMAT_VERSION, TicketCodeSize, UuidBytes, HASH_BYTES,
          Spelling   \* text of a uuid

Byte == 0 .. ByteCount - 1
Bytes(n) == [1 .. n -> Byte]
Text == Seq(Byte)
UUID_MARKER == ByteCount - 1

ASSUME WidthAssumption ==
  /\ ByteCount \in Nat \ {0}
  /\ FORMAT_VERSION \in Byte
  /\ {TicketCodeSize, UuidBytes, HASH_BYTES} \subseteq Nat

ASSUME SpellingAssumption ==
  /\ Spelling \in [Bytes(UuidBytes) -> Text]
  /\ \A a, b \in Bytes(UuidBytes) : Spelling[a] = Spelling[b] => a = b

Uuid == {Spelling[b] : b \in Bytes(UuidBytes)}   \* what UUID_RE matches

\* idToBuffer refuses a longer text that is no uuid.
Identifier == Uuid \cup {id \in Text : Len(id) < UUID_MARKER}

TicketHash ==
  [index : Nat, ticketCode : Bytes(TicketCodeSize), eventId : Identifier,
   orderIdHash : Bytes(HASH_BYTES), typeIdHash : Bytes(HASH_BYTES),
   holderNameHash : Bytes(HASH_BYTES), customFieldsHash : Bytes(HASH_BYTES)]

-----------------------------------------------------------------------------
(* pack() and unpack() *)

UuidOf(id) == CHOOSE b \in Bytes(UuidBytes) : Spelling[b] = id

\* A uuid is marked and written as its bytes, another text by its length.
IdToBuffer(id) ==
  IF id \in Uuid THEN <<UUID_MARKER>> \o UuidOf(id) ELSE <<Len(id)>> \o id

\* Mutant: a byte is as wide as it takes.
AsIs(n) == n

\* Buffer.from([n]) keeps n modulo the byte.
ToByte(n) == n % ByteCount

PackHashes(t) == t.orderIdHash \o t.typeIdHash \o t.holderNameHash \o t.customFieldsHash

\* Mutant: the ticket's code is left out of the signed bytes.
PackNoCode(t) ==
  <<FORMAT_VERSION, ToByte(t.index)>> \o IdToBuffer(t.eventId) \o PackHashes(t)

Pack(t) ==
  <<FORMAT_VERSION, ToByte(t.index)>> \o t.ticketCode \o IdToBuffer(t.eventId)
    \o PackHashes(t)

\* Offsets in a buffer: of the marker, after the identifier, of the k-th hash.
IdAt == TicketCodeSize + 3
IdLength(buf) == IF buf[IdAt] = UUID_MARKER THEN UuidBytes ELSE buf[IdAt]
HashAt(buf, k) == IdAt + IdLength(buf) + k * HASH_BYTES + 1

\* unpack() does not throw: nothing is missing at the end and nothing left over.
WellFormed(buf) ==
  /\ Len(buf) >= IdAt
  /\ buf[1] = FORMAT_VERSION
  /\ Len(buf) + 1 = HashAt(buf, 4)

\* Mutant: the slice starts at the marker, not after it.
IdFromMarker(buf) ==
  LET id == SubSeq(buf, IdAt, IdAt + IdLength(buf) - 1)
  IN IF buf[IdAt] = UUID_MARKER THEN Spelling[id] ELSE id

IdIn(buf) ==
  LET id == SubSeq(buf, IdAt + 1, IdAt + IdLength(buf))
  IN IF buf[IdAt] = UUID_MARKER THEN Spelling[id] ELSE id

HashIn(buf, k) == SubSeq(buf, HashAt(buf, k), HashAt(buf, k + 1) - 1)

Unpack(buf) ==
  [index            |-> buf[2],
   ticketCode       |-> SubSeq(buf, 3, IdAt - 1),
   eventId          |-> IdIn(buf),
   orderIdHash      |-> HashIn(buf, 0),
   typeIdHash       |-> HashIn(buf, 1),
   holderNameHash   |-> HashIn(buf, 2),
   customFieldsHash |-> HashIn(buf, 3)]

-----------------------------------------------------------------------------
(* Signatures *)

Sign(buf) == [signed |-> buf]

\* Mutant: a signature only has to be one.
AnySignature(buf, signature) == TRUE

VerifyPayload(buf, signature) == signature = Sign(buf)

VerifyHash(t, signature) == VerifyPayload(Pack(t), signature)

\* What comes back of a ticket that was packed.
Carried(t) == [t EXCEPT !.index = ToByte(@)]
=============================================================================
