-------------------------- MODULE ScanningTheorems --------------------------
(***************************************************************************)
(* Scanning, for every width of the fields and every set of order lines,   *)
(* events and scans: what the bytes of a ticket say is enough for its QR   *)
(* code to lead to it alone, although hashes may collide and the index of  *)
(* a unit is cut to a byte.                                                *)
(***************************************************************************)
EXTENDS Scanning, SequenceTheorems, TLAPS

(***************************************************************************)
(* Payload: reading back a packed ticket gives the ticket, its index       *)
(* reduced to a byte, for every width of the fields.                       *)
(***************************************************************************)

(* A slice in the middle of a buffer is the part that was put there.       *)
LEMMA Slice ==
  ASSUME NEW S, NEW a \in Seq(S), NEW f \in Seq(S), NEW z \in Seq(S),
         NEW buf, buf = a \o f \o z
  PROVE  /\ buf \in Seq(S)
         /\ Len(buf) = Len(a) + Len(f) + Len(z)
         /\ SubSeq(buf, Len(a) + 1, Len(a) + Len(f)) = f
         /\ \A i \in 1 .. Len(a) : buf[i] = a[i]
         /\ \A i \in 1 .. Len(f) : buf[Len(a) + i] = f[i]
<1>1. \A s1, s2 \in Seq(S) :
        /\ s1 \o s2 \in Seq(S)
        /\ Len(s1 \o s2) = Len(s1) + Len(s2)
        /\ \A i \in 1 .. Len(s1) + Len(s2) :
             (s1 \o s2)[i] = IF i <= Len(s1) THEN s1[i] ELSE s2[i - Len(s1)]
  BY ConcatProperties
<1>2. Len(a) \in Nat /\ Len(f) \in Nat /\ Len(z) \in Nat
  BY LenProperties
<1> DEFINE af == a \o f
<1>3. /\ af \in Seq(S)
      /\ Len(af) = Len(a) + Len(f)
      /\ \A i \in 1 .. Len(a) + Len(f) :
           af[i] = IF i <= Len(a) THEN a[i] ELSE f[i - Len(a)]
  BY <1>1, Zenon
<1>4. /\ buf \in Seq(S)
      /\ Len(buf) = Len(af) + Len(z)
      /\ \A i \in 1 .. Len(af) + Len(z) :
           buf[i] = IF i <= Len(af) THEN af[i] ELSE z[i - Len(af)]
  BY <1>1, <1>3, Zenon
<1> HIDE DEF af
<1>5. \A i \in 1 .. Len(a) : buf[i] = a[i]
  BY <1>2, <1>3, <1>4
<1>6. \A i \in 1 .. Len(f) : buf[Len(a) + i] = f[i]
  BY <1>2, <1>3, <1>4
<1> DEFINE m == Len(a) + 1
           n == Len(a) + Len(f)
<1>7. \A i \in m .. n : buf[i] \in S
  BY <1>2, <1>3, <1>4, ElementOfSeq
<1>8. /\ SubSeq(buf, m, n) \in Seq(S)
      /\ Len(SubSeq(buf, m, n)) = IF m <= n THEN n - m + 1 ELSE 0
      /\ \A i \in 1 .. n - m + 1 : SubSeq(buf, m, n)[i] = buf[m + i - 1]
  <2>1. m \in Int /\ n \in Int
    BY <1>2
  <2> HIDE DEF m, n
  <2>2. \A i \in m .. n : buf[i] \in S
    BY <1>7
  <2>3. \A s : (\A i \in m .. n : s[i] \in S) =>
          /\ SubSeq(s, m, n) \in Seq(S)
          /\ Len(SubSeq(s, m, n)) = IF m <= n THEN n - m + 1 ELSE 0
          /\ \A i \in 1 .. n - m + 1 : SubSeq(s, m, n)[i] = s[m + i - 1]
    BY <2>1, SubSeqProperties
  <2> QED
    BY <2>2, <2>3, Zenon
<1>9. Len(SubSeq(buf, m, n)) = Len(f)
  BY <1>2, <1>8
<1>10. \A i \in 1 .. Len(f) : SubSeq(buf, m, n)[i] = f[i]
  BY <1>2, <1>6, <1>8
<1>11. SubSeq(buf, m, n) = f
  BY <1>8, <1>9, <1>10, SeqEqual
<1> QED
  BY <1>2, <1>3, <1>4, <1>5, <1>6, <1>11

(* Parts of a concatenation may be regrouped. *)
LEMMA Regroup ==
  ASSUME NEW S
  PROVE  \A x, y, z \in Seq(S) :
           /\ x \o y \in Seq(S)
           /\ Len(x \o y) = Len(x) + Len(y)
           /\ x \o y \o z = x \o (y \o z)
BY ConcatProperties, ConcatAssociative

(* A field of n bytes is a sequence of that length.                        *)
LEMMA BytesAreText ==
  ASSUME NEW n \in Nat, NEW b \in Bytes(n)
  PROVE  b \in Text /\ Len(b) = n
BY SeqDef, LenProperties DEF Bytes, Text

(* What idToBuffer writes as the marker, and after it.                     *)
IdBytes(id) == IF id \in Uuid THEN UuidOf(id) ELSE id
Marker(id) == IF id \in Uuid THEN UUID_MARKER ELSE Len(id)

(* bufferToId finds the length of an identifier from its marker, and the   *)
(* identifier from both.                                                   *)
LEMMA IdReadsBack ==
  ASSUME NEW id \in Identifier
  PROVE  /\ IdBytes(id) \in Text
         /\ Marker(id) \in Byte
         /\ IdToBuffer(id) = <<Marker(id)>> \o IdBytes(id)
         /\ Len(IdBytes(id)) = IF Marker(id) = UUID_MARKER THEN UuidBytes ELSE Marker(id)
         /\ id = IF Marker(id) = UUID_MARKER THEN Spelling[IdBytes(id)] ELSE IdBytes(id)
<1>1. CASE id \in Uuid
  <2>1. UuidOf(id) \in Bytes(UuidBytes) /\ Spelling[UuidOf(id)] = id
    BY <1>1 DEF Uuid, UuidOf
  <2>2. UuidOf(id) \in Text /\ Len(UuidOf(id)) = UuidBytes
    BY <2>1, BytesAreText, WidthAssumption
  <2>3. UUID_MARKER \in Byte
    BY WidthAssumption DEF UUID_MARKER, Byte
  <2> QED
    BY <1>1, <2>1, <2>2, <2>3 DEF IdBytes, Marker, IdToBuffer
<1>2. CASE id \notin Uuid
  <2>1. id \in Text /\ Len(id) \in Nat /\ Len(id) < UUID_MARKER
    BY <1>2, LenProperties DEF Identifier, Text
  <2>2. Len(id) \in Byte /\ Len(id) # UUID_MARKER
    BY <2>1, WidthAssumption DEF UUID_MARKER, Byte
  <2> QED
    BY <1>2, <2>1, <2>2 DEF IdBytes, Marker, IdToBuffer
<1> QED
  BY <1>1, <1>2

(***************************************************************************)
(* The layout of a packed ticket: each of its parts, with what is before   *)
(* it and what is after.  Parts are regrouped one at a time.               *)
(***************************************************************************)
LEMMA Layout ==
  ASSUME NEW t \in TicketHash
  PROVE  LET buf == Pack(t)
             at  == TicketCodeSize + 3
             n   == Len(IdBytes(t.eventId))
             h   == HASH_BYTES
         IN /\ buf \in Text
            /\ Len(buf) = at + n + 4 * h
            /\ buf[1] = FORMAT_VERSION
            /\ buf[2] = ToByte(t.index)
            /\ SubSeq(buf, 3, at - 1) = t.ticketCode
            /\ buf[at] = Marker(t.eventId)
            /\ SubSeq(buf, at + 1, at + n) = IdBytes(t.eventId)
            /\ SubSeq(buf, at + n + 1, at + n + h) = t.orderIdHash
            /\ SubSeq(buf, at + n + h + 1, at + n + 2 * h) = t.typeIdHash
            /\ SubSeq(buf, at + n + 2 * h + 1, at + n + 3 * h) = t.holderNameHash
            /\ SubSeq(buf, at + n + 3 * h + 1, at + n + 4 * h) = t.customFieldsHash
<1> DEFINE code == t.ticketCode
           mark == <<Marker(t.eventId)>>
           id   == IdBytes(t.eventId)
           h0   == t.orderIdHash
           h1   == t.typeIdHash
           h2   == t.holderNameHash
           h3   == t.customFieldsHash
           head == <<FORMAT_VERSION, ToByte(t.index)>>
           buf  == Pack(t)
           at   == TicketCodeSize + 3
           n    == Len(id)
           h    == HASH_BYTES
<1>1. /\ code \in Text /\ Len(code) = TicketCodeSize
      /\ h0 \in Text /\ Len(h0) = h
      /\ h1 \in Text /\ Len(h1) = h
      /\ h2 \in Text /\ Len(h2) = h
      /\ h3 \in Text /\ Len(h3) = h
  <2>1. TicketCodeSize \in Nat /\ HASH_BYTES \in Nat
    BY WidthAssumption
  <2>2. /\ code \in Bytes(TicketCodeSize)
        /\ h0 \in Bytes(HASH_BYTES) /\ h1 \in Bytes(HASH_BYTES)
        /\ h2 \in Bytes(HASH_BYTES) /\ h3 \in Bytes(HASH_BYTES)
    BY DEF TicketHash
  <2> QED
    BY <2>1, <2>2, BytesAreText
<1>2. /\ id \in Text /\ n \in Nat
      /\ mark \in Text /\ Len(mark) = 1 /\ mark[1] = Marker(t.eventId)
      /\ IdToBuffer(t.eventId) = mark \o id
  <2>1. t.eventId \in Identifier
    BY DEF TicketHash
  <2> QED
    BY <2>1, IdReadsBack, LenProperties DEF Text
<1>3. /\ head \in Text /\ Len(head) = 2
      /\ head[1] = FORMAT_VERSION /\ head[2] = ToByte(t.index)
  <2>1. FORMAT_VERSION \in Byte /\ ToByte(t.index) \in Byte
    <3>1. t.index \in Nat
      BY DEF TicketHash
    <3> QED
      BY <3>1, WidthAssumption DEF ToByte, Byte
  <2> QED
    BY <2>1 DEF Text
<1>4. buf = head \o code \o (mark \o id) \o (h0 \o h1 \o h2 \o h3)
  BY <1>2, Zenon DEF Pack, PackHashes
<1>5. TicketCodeSize \in Nat /\ h \in Nat
  BY WidthAssumption
<1> HIDE DEF code, mark, id, h0, h1, h2, h3, head, buf, n
<1> DEFINE z2 == h2 \o h3
           z1 == h1 \o z2
           z0 == h0 \o z1
           p2 == head \o code
           p3 == p2 \o mark
           p4 == p3 \o id
           p5 == p4 \o h0
           p6 == p5 \o h1
           p7 == p6 \o h2
<1>6. \A x, y, z \in Text : /\ x \o y \in Text
                            /\ Len(x \o y) = Len(x) + Len(y)
                            /\ x \o y \o z = x \o (y \o z)
  BY Regroup DEF Text
<1>7. \A a, f, z \in Text :
        buf = a \o f \o z =>
          /\ buf \in Text
          /\ Len(buf) = Len(a) + Len(f) + Len(z)
          /\ SubSeq(buf, Len(a) + 1, Len(a) + Len(f)) = f
          /\ \A i \in 1 .. Len(a) : buf[i] = a[i]
          /\ \A i \in 1 .. Len(f) : buf[Len(a) + i] = f[i]
  BY Slice DEF Text
<1>8. /\ z2 = h2 \o h3 /\ z1 = h1 \o z2 /\ z0 = h0 \o z1
      /\ p2 = head \o code /\ p3 = p2 \o mark /\ p4 = p3 \o id
      /\ p5 = p4 \o h0 /\ p6 = p5 \o h1 /\ p7 = p6 \o h2
  OBVIOUS
<1> HIDE DEF z0, z1, z2, p2, p3, p4, p5, p6, p7
<1>9. z2 \in Text /\ z1 \in Text /\ z0 \in Text /\ (mark \o id) \in Text
  BY <1>1, <1>2, <1>6, <1>8, ZenonT(40)
<1>10. /\ p2 \in Text /\ p3 \in Text /\ p4 \in Text
       /\ p5 \in Text /\ p6 \in Text /\ p7 \in Text
  BY <1>1, <1>2, <1>3, <1>6, <1>8, ZenonT(40)
<1>11. /\ Len(p2) = at - 1 /\ Len(p3) = at /\ Len(p4) = at + n
       /\ Len(p5) = at + n + h /\ Len(p6) = at + n + 2 * h
       /\ Len(p7) = at + n + 3 * h
  <2>1. \A x, y \in Text : Len(x \o y) = Len(x) + Len(y)
    BY <1>6, ZenonT(40)
  <2>2. Len(head \o code) = Len(head) + Len(code)
    BY <1>1, <1>3, <2>1, ZenonT(40)
  <2>3. Len(p2 \o mark) = Len(p2) + Len(mark)
    BY <1>2, <1>10, <2>1, ZenonT(40)
  <2>4. Len(p3 \o id) = Len(p3) + Len(id)
    BY <1>2, <1>10, <2>1, ZenonT(40)
  <2>5. Len(p4 \o h0) = Len(p4) + Len(h0)
    BY <1>1, <1>10, <2>1, ZenonT(40)
  <2>6. Len(p5 \o h1) = Len(p5) + Len(h1)
    BY <1>1, <1>10, <2>1, ZenonT(40)
  <2>7. Len(p6 \o h2) = Len(p6) + Len(h2)
    BY <1>1, <1>10, <2>1, ZenonT(40)
  <2>8. /\ Len(p2) = Len(head) + Len(code) /\ Len(p3) = Len(p2) + Len(mark)
        /\ Len(p4) = Len(p3) + Len(id) /\ Len(p5) = Len(p4) + Len(h0)
        /\ Len(p6) = Len(p5) + Len(h1) /\ Len(p7) = Len(p6) + Len(h2)
    BY <1>8, <2>2, <2>3, <2>4, <2>5, <2>6, <2>7, ZenonT(40)
  <2> QED
    BY <1>1, <1>2, <1>3, <1>5, <2>8 DEF n
<1>12. buf = p2 \o (mark \o id) \o z0
  <2>1. h0 \o h1 \in Text
    BY <1>1, <1>6, ZenonT(40)
  <2>2. h0 \o h1 \o h2 \o h3 = h0 \o h1 \o z2
    BY <1>1, <1>6, <1>8, <2>1, ZenonT(40)
  <2>3. h0 \in Text /\ h1 \in Text /\ z2 \in Text
    BY <1>1, <1>9
  <2>4. h0 \o h1 \o z2 = h0 \o (h1 \o z2)
    BY <1>6, <2>3, ZenonT(40)
  <2> QED
    BY <1>4, <1>8, <2>2, <2>4, ZenonT(40)
<1>13. buf = p4 \o z0
  <2>1. p2 \in Text /\ mark \in Text /\ id \in Text
    BY <1>2, <1>10
  <2>2. p2 \o mark \o id = p2 \o (mark \o id)
    BY <1>6, <2>1, ZenonT(40)
  <2> QED
    BY <1>8, <1>12, <2>2, ZenonT(40)
<1>14. buf = p3 \o id \o z0
  BY <1>8, <1>13, ZenonT(40)
<1>15. buf = p4 \o h0 \o z1
  <2>1. p4 \in Text /\ h0 \in Text /\ z1 \in Text
    BY <1>1, <1>9, <1>10
  <2>2. p4 \o h0 \o z1 = p4 \o (h0 \o z1)
    BY <1>6, <2>1, ZenonT(40)
  <2> QED
    BY <1>8, <1>13, <2>2, ZenonT(40)
<1>16. buf = p2 \o mark \o (id \o z0) /\ id \o z0 \in Text
  <2>1. p3 \in Text /\ id \in Text /\ z0 \in Text
    BY <1>2, <1>9, <1>10
  <2>2. p3 \o id \o z0 = p3 \o (id \o z0) /\ id \o z0 \in Text
    BY <1>6, <2>1, ZenonT(40)
  <2> QED
    BY <1>8, <1>14, <2>2, ZenonT(40)
<1>17. buf = p5 \o h1 \o z2
  <2>1. p5 \in Text /\ h1 \in Text /\ z2 \in Text
    BY <1>1, <1>9, <1>10
  <2>2. p5 \o h1 \o z2 = p5 \o (h1 \o z2)
    BY <1>6, <2>1, ZenonT(40)
  <2> QED
    BY <1>8, <1>15, <2>2, ZenonT(40)
<1>18. buf = p6 \o h2 \o h3
  <2>1. p6 \in Text /\ h2 \in Text /\ h3 \in Text
    BY <1>1, <1>9, <1>10
  <2>2. p6 \o h2 \o h3 = p6 \o (h2 \o h3)
    BY <1>6, <2>1, ZenonT(40)
  <2> QED
    BY <1>8, <1>17, <2>2, ZenonT(40)
<1>19. buf = p7 \o h3 \o << >> /\ << >> \in Text
  <2>1. << >> \in Text
    BY DEF Text
  <2>2. p7 \o h3 \in Text
    BY <1>1, <1>6, <1>10, ZenonT(40)
  <2>3. p7 \o h3 \o << >> = p7 \o h3
    BY <2>2, ConcatEmptySeq DEF Text
  <2> QED
    BY <1>8, <1>18, <2>1, <2>3, ZenonT(40)
<1>20. buf = head \o code \o ((mark \o id) \o z0) /\ (mark \o id) \o z0 \in Text
  <2>1. p2 \in Text /\ (mark \o id) \in Text /\ z0 \in Text
    BY <1>9, <1>10
  <2>2. /\ p2 \o (mark \o id) \o z0 = p2 \o ((mark \o id) \o z0)
        /\ (mark \o id) \o z0 \in Text
    BY <1>6, <2>1, ZenonT(40)
  <2> QED
    BY <1>8, <1>12, <2>2, ZenonT(40)
<1>21. /\ buf[1] = FORMAT_VERSION /\ buf[2] = ToByte(t.index)
       /\ SubSeq(buf, 3, at - 1) = code
  <2>1. /\ SubSeq(buf, Len(head) + 1, Len(head) + Len(code)) = code
        /\ \A i \in 1 .. Len(head) : buf[i] = head[i]
    BY <1>1, <1>3, <1>7, <1>20, ZenonT(40)
  <2> QED
    BY <1>1, <1>3, <1>5, <2>1
<1>22. buf[at] = Marker(t.eventId)
  <2>1. \A i \in 1 .. Len(mark) : buf[Len(p2) + i] = mark[i]
    BY <1>2, <1>7, <1>10, <1>16, ZenonT(40)
  <2>2. buf[Len(p2) + 1] = mark[1]
    BY <1>2, <2>1
  <2>3. at = Len(p2) + 1
    BY <1>5, <1>11
  <2> QED
    BY <1>2, <2>2, <2>3
<1>23. SubSeq(buf, at + 1, at + n) = id
  <2>1. SubSeq(buf, Len(p3) + 1, Len(p3) + Len(id)) = id
    BY <1>2, <1>7, <1>9, <1>10, <1>14, ZenonT(40)
  <2> QED
    BY <1>11, <2>1, Zenon DEF n
<1>24. SubSeq(buf, at + n + 1, at + n + h) = h0
  <2>1. SubSeq(buf, Len(p4) + 1, Len(p4) + Len(h0)) = h0
    BY <1>1, <1>7, <1>9, <1>10, <1>15, Zenon
  <2> QED
    BY <1>1, <1>11, <2>1, Zenon
<1>25. SubSeq(buf, at + n + h + 1, at + n + 2 * h) = h1
  <2>1. SubSeq(buf, Len(p5) + 1, Len(p5) + Len(h1)) = h1
    BY <1>1, <1>7, <1>9, <1>10, <1>17, Zenon
  <2>2. at + n + h + h = at + n + 2 * h
    BY <1>2, <1>5
  <2> QED
    BY <1>1, <1>11, <2>1, <2>2, Zenon
<1>26. SubSeq(buf, at + n + 2 * h + 1, at + n + 3 * h) = h2
  <2>1. SubSeq(buf, Len(p6) + 1, Len(p6) + Len(h2)) = h2
    BY <1>1, <1>7, <1>10, <1>18, Zenon
  <2>2. at + n + 2 * h + h = at + n + 3 * h
    BY <1>2, <1>5
  <2> QED
    BY <1>1, <1>11, <2>1, <2>2, Zenon
<1>27. /\ SubSeq(buf, at + n + 3 * h + 1, at + n + 4 * h) = h3
       /\ buf \in Text /\ Len(buf) = at + n + 4 * h
  <2>0. p7 \in Text /\ h3 \in Text /\ << >> \in Text
    BY <1>1, <1>10, <1>19
  <2>1. /\ SubSeq(buf, Len(p7) + 1, Len(p7) + Len(h3)) = h3
        /\ buf \in Text /\ Len(buf) = Len(p7) + Len(h3) + Len(<< >>)
    BY <1>7, <1>19, <2>0, Zenon
  <2>2. /\ at + n + 3 * h + h = at + n + 4 * h
        /\ at + n + 3 * h + h + Len(<< >>) = at + n + 4 * h
    BY <1>2, <1>5
  <2> QED
    BY <1>1, <1>11, <2>1, <2>2, Zenon
<1> QED
  BY <1>21, <1>22, <1>23, <1>24, <1>25, <1>26, <1>27, Zenon
    DEF code, id, h0, h1, h2, h3, buf, n

(* Every ticket that is packed is accepted by unpack(), which returns each *)
(* of its fields, but of its index only the byte that was kept             *)
(* ("Inverse of compress()").                                              *)
THEOREM RoundTrip ==
  \A t \in TicketHash : WellFormed(Pack(t)) /\ Unpack(Pack(t)) = Carried(t)
<1> SUFFICES ASSUME NEW t \in TicketHash
             PROVE  WellFormed(Pack(t)) /\ Unpack(Pack(t)) = Carried(t)
  OBVIOUS
<1> DEFINE buf == Pack(t)
           n   == Len(IdBytes(t.eventId))
           h   == HASH_BYTES
<1>1. TicketCodeSize \in Nat /\ h \in Nat
  BY WidthAssumption
<1>2. /\ IdBytes(t.eventId) \in Text /\ Marker(t.eventId) \in Byte
      /\ n = IF Marker(t.eventId) = UUID_MARKER THEN UuidBytes ELSE Marker(t.eventId)
      /\ t.eventId = IF Marker(t.eventId) = UUID_MARKER
                     THEN Spelling[IdBytes(t.eventId)] ELSE IdBytes(t.eventId)
  <2>1. t.eventId \in Identifier
    BY DEF TicketHash
  <2> QED
    BY <2>1, IdReadsBack
<1>3. n \in Nat
  BY <1>2, LenProperties DEF Text
<1>4. /\ Len(buf) = IdAt + n + 4 * h
      /\ buf[1] = FORMAT_VERSION
      /\ buf[2] = ToByte(t.index)
      /\ SubSeq(buf, 3, IdAt - 1) = t.ticketCode
      /\ buf[IdAt] = Marker(t.eventId)
      /\ SubSeq(buf, IdAt + 1, IdAt + n) = IdBytes(t.eventId)
      /\ SubSeq(buf, IdAt + n + 1, IdAt + n + h) = t.orderIdHash
      /\ SubSeq(buf, IdAt + n + h + 1, IdAt + n + 2 * h) = t.typeIdHash
      /\ SubSeq(buf, IdAt + n + 2 * h + 1, IdAt + n + 3 * h) = t.holderNameHash
      /\ SubSeq(buf, IdAt + n + 3 * h + 1, IdAt + n + 4 * h) = t.customFieldsHash
  BY Layout, Zenon DEF IdAt
<1>5. IdAt \in Nat /\ IdAt >= 3
  BY <1>1 DEF IdAt
<1> HIDE DEF buf, n, h
<1>6. IdLength(buf) = n
  BY <1>2, <1>4, Zenon DEF IdLength
<1>7. /\ HashAt(buf, 0) = IdAt + n + 1
      /\ HashAt(buf, 1) = IdAt + n + h + 1 /\ HashAt(buf, 1) - 1 = IdAt + n + h
      /\ HashAt(buf, 2) = IdAt + n + 2 * h + 1 /\ HashAt(buf, 2) - 1 = IdAt + n + 2 * h
      /\ HashAt(buf, 3) = IdAt + n + 3 * h + 1 /\ HashAt(buf, 3) - 1 = IdAt + n + 3 * h
      /\ HashAt(buf, 4) = IdAt + n + 4 * h + 1 /\ HashAt(buf, 4) - 1 = IdAt + n + 4 * h
  BY <1>1, <1>3, <1>5, <1>6 DEF HashAt, h
<1>8. WellFormed(buf)
  BY <1>1, <1>3, <1>4, <1>5, <1>7 DEF WellFormed
<1>9. IdIn(buf) = t.eventId
  BY <1>2, <1>4, <1>6, Zenon DEF IdIn
<1>10. HashIn(buf, 0) = t.orderIdHash /\ HashIn(buf, 1) = t.typeIdHash
  <2>1. 0 + 1 = 1 /\ 1 + 1 = 2
    OBVIOUS
  <2> QED
    BY <1>4, <1>7, <2>1, Zenon DEF HashIn
<1>11. HashIn(buf, 2) = t.holderNameHash /\ HashIn(buf, 3) = t.customFieldsHash
  <2>1. 2 + 1 = 3 /\ 3 + 1 = 4
    OBVIOUS
  <2> QED
    BY <1>4, <1>7, <2>1, Zenon DEF HashIn
<1>12. Unpack(buf) = Carried(t)
  <2>1. Carried(t) = [index            |-> ToByte(t.index),
                      ticketCode       |-> t.ticketCode,
                      eventId          |-> t.eventId,
                      orderIdHash      |-> t.orderIdHash,
                      typeIdHash       |-> t.typeIdHash,
                      holderNameHash   |-> t.holderNameHash,
                      customFieldsHash |-> t.customFieldsHash]
    BY DEF Carried, TicketHash
  <2> QED
    BY <1>4, <1>9, <1>10, <1>11, <2>1, Zenon DEF Unpack
<1> QED
  BY <1>8, <1>12 DEF buf

(* Two tickets with the same bytes, so with the same signature in the      *)
(* unique column `code', agree in every field but the index, and there     *)
(* modulo a byte.                                                          *)
THEOREM PackInjective ==
  \A t, u \in TicketHash : Pack(t) = Pack(u) => Carried(t) = Carried(u)
BY RoundTrip

-----------------------------------------------------------------------------
(***************************************************************************)
(* Scanning: the life of a code built on such payloads.                    *)
(***************************************************************************)

(* A part of a buffer is made of its bytes.                                *)
LEMMA Part ==
  ASSUME NEW buf \in Text, NEW m \in Nat \ {0}, NEW n \in Nat, m + n - 1 <= Len(buf)
  PROVE  SubSeq(buf, m, m + n - 1) \in Bytes(n)
<1>1. \A i \in m .. m + n - 1 : buf[i] \in Byte
  BY ElementOfSeq, LenProperties DEF Text
<1> DEFINE z == m + n - 1
<1>2. m \in Int /\ z \in Int /\ (m <= z => z - m + 1 = n) /\ (~ (m <= z) => n = 0)
  OBVIOUS
<1> HIDE DEF z
<1>3. \A s : (\A i \in m .. z : s[i] \in Byte) =>
        /\ SubSeq(s, m, z) \in Seq(Byte)
        /\ Len(SubSeq(s, m, z)) = IF m <= z THEN z - m + 1 ELSE 0
  BY <1>2, SubSeqProperties
<1>4. \A i \in m .. z : buf[i] \in Byte
  BY <1>1 DEF z
<1>5. /\ SubSeq(buf, m, z) \in Seq(Byte)
      /\ Len(SubSeq(buf, m, z)) = IF m <= z THEN z - m + 1 ELSE 0
  BY <1>3, <1>4, Zenon
<1>6. SubSeq(buf, m, z) \in Seq(Byte) /\ Len(SubSeq(buf, m, z)) = n
  BY <1>2, <1>5
<1>7. SubSeq(buf, m, z) \in Bytes(n)
  BY <1>6, SeqDef, LenProperties DEF Bytes
<1> QED
  BY <1>7 DEF z

(* What unpack() returns is a ticket that survives packing.                *)
LEMMA UnpackTyped ==
  ASSUME NEW buf \in Text, WellFormed(buf)
  PROVE  Unpack(buf) \in TicketHash /\ Carried(Unpack(buf)) = Unpack(buf)
<1> USE WidthAssumption
<1> DEFINE n == IdLength(buf)
<1>1. \A i \in 1 .. Len(buf) : buf[i] \in Byte
  BY ElementOfSeq DEF Text
<1>2. /\ Len(buf) \in Nat /\ TicketCodeSize \in Nat /\ HASH_BYTES \in Nat
      /\ Len(buf) >= TicketCodeSize + 3
  BY LenProperties DEF Text, WellFormed, IdAt
<1>3. buf[2] \in Byte /\ buf[IdAt] \in Byte
  BY <1>1, <1>2 DEF IdAt
<1>4. n \in Nat /\ (n = UuidBytes \/ n < UUID_MARKER) /\ (n = UuidBytes \/ buf[IdAt] # UUID_MARKER)
  BY <1>3 DEF IdLength, UUID_MARKER, Byte
<1>5. Len(buf) + 1 = IdAt + n + 4 * HASH_BYTES + 1
  BY DEF WellFormed, HashAt
<1> HIDE DEF n
<1>6. SubSeq(buf, 3, IdAt - 1) \in Bytes(TicketCodeSize)
  <2>1. SubSeq(buf, 3, 3 + TicketCodeSize - 1) \in Bytes(TicketCodeSize)
    BY <1>2, Part
  <2>2. 3 + TicketCodeSize - 1 = IdAt - 1
    BY <1>2 DEF IdAt
  <2> QED
    BY <2>1, <2>2
<1>7. SubSeq(buf, IdAt + 1, IdAt + n) \in Bytes(n)
  <2>1. SubSeq(buf, IdAt + 1, (IdAt + 1) + n - 1) \in Bytes(n)
    BY <1>2, <1>4, <1>5, Part DEF IdAt
  <2>2. (IdAt + 1) + n - 1 = IdAt + n
    BY <1>2, <1>4 DEF IdAt
  <2> QED
    BY <2>1, <2>2
<1>8. IdIn(buf) \in Identifier
  <2>1. CASE buf[IdAt] = UUID_MARKER
    <3>1. n = UuidBytes
      BY <2>1 DEF n, IdLength
    <3> QED
      BY <1>7, <2>1, <3>1 DEF IdIn, Identifier, Uuid, n
  <2>2. CASE buf[IdAt] # UUID_MARKER
    <3>1. n < UUID_MARKER
      BY <1>3, <2>2 DEF n, IdLength, UUID_MARKER, Byte
    <3>2. SubSeq(buf, IdAt + 1, IdAt + n) \in Text /\ Len(SubSeq(buf, IdAt + 1, IdAt + n)) = n
      BY <1>4, <1>7, BytesAreText
    <3> QED
      BY <2>2, <3>1, <3>2 DEF IdIn, Identifier, n
  <2> QED
    BY <2>1, <2>2
<1>9. \A k \in 0 .. 3 : HashIn(buf, k) \in Bytes(HASH_BYTES)
  <2> SUFFICES ASSUME NEW k \in 0 .. 3 PROVE HashIn(buf, k) \in Bytes(HASH_BYTES)
    OBVIOUS
  <2> DEFINE m == IdAt + n + k * HASH_BYTES + 1
  <2>1. k * HASH_BYTES \in Nat /\ (k + 1) * HASH_BYTES = k * HASH_BYTES + HASH_BYTES
        /\ (k + 1) * HASH_BYTES <= 4 * HASH_BYTES
    BY <1>2
  <2>2. m \in Nat \ {0} /\ m + HASH_BYTES - 1 <= Len(buf)
    BY <1>2, <1>4, <1>5, <2>1 DEF IdAt
  <2>3. HashIn(buf, k) = SubSeq(buf, m, m + HASH_BYTES - 1)
    <3>1. HashAt(buf, k) = m /\ HashAt(buf, k + 1) = IdAt + n + (k + 1) * HASH_BYTES + 1
      BY DEF HashAt, n
    <3>2. IdAt \in Nat
      BY <1>2 DEF IdAt
    <3> HIDE DEF IdAt
    <3>3. \A h : h = IdAt + n + (k + 1) * HASH_BYTES + 1 => h - 1 = m + HASH_BYTES - 1
      BY <1>2, <1>4, <2>1, <3>2
    <3> HIDE DEF m
    <3>4. HashAt(buf, k + 1) - 1 = m + HASH_BYTES - 1
      BY <3>1, <3>3, Zenon
    <3> QED
      BY <3>1, <3>4, Zenon DEF HashIn
  <2> HIDE DEF m
  <2> QED
    BY <1>2, <2>2, <2>3, Part
<1>10. Unpack(buf) \in TicketHash
  BY <1>3, <1>6, <1>8, <1>9 DEF Unpack, TicketHash, Byte
<1>11. ToByte(buf[2]) = buf[2]
  BY <1>3 DEF ToByte, Byte
<1>12. Unpack(buf).index = buf[2]
  BY DEF Unpack
<1>13. \A t \in TicketHash : [t EXCEPT !.index = t.index] = t
  BY DEF TicketHash
<1> QED
  BY <1>10, <1>11, <1>12, <1>13 DEF Carried

-----------------------------------------------------------------------------
(* The ticket that is signed for a unit is one of the wire format.         *)
LEMMA HashTyped ==
  ASSUME NEW i \in OrderItem, NEW n \in 0 .. i.quantity - 1, NEW code \in TicketCode
  PROVE  HashTicket(i, n, code) \in TicketHash
<1>1. IsOrderItem(i) /\ i.eventId \in Identifier /\ code \in Bytes(TicketCodeSize)
  BY OrderItemAssumption DEF Identifier, IsOrderItem
<1> QED
  BY <1>1 DEF HashTicket, TicketHash, IsOrderItem

(* What comes back of a ticket packs to the same bytes.                    *)
LEMMA PackCarried ==
  ASSUME NEW t \in TicketHash
  PROVE  Pack(Carried(t)) = Pack(t)
<1>1. ToByte(ToByte(t.index)) = ToByte(t.index)
  BY WidthAssumption DEF ToByte, TicketHash
<1>2. /\ Carried(t).index = ToByte(t.index) /\ Carried(t).ticketCode = t.ticketCode
      /\ Carried(t).eventId = t.eventId /\ PackHashes(Carried(t)) = PackHashes(t)
  BY DEF Carried, TicketHash, PackHashes
<1> QED
  BY <1>1, <1>2 DEF Pack

(* What is signed for a unit is well formed, and its event and code can be *)
(* read off the bytes.                                                     *)
LEMMA SignedUnit ==
  ASSUME NEW i \in OrderItem, NEW n \in 0 .. i.quantity - 1, NEW code \in TicketCode
  PROVE  LET t == HashTicket(i, n, code)
         IN /\ Pack(t) \in Seq(Byte)
            /\ WellFormed(Pack(t))
            /\ Unpack(Pack(t)).eventId = i.eventId
            /\ Unpack(Pack(t)).ticketCode = code
<1> DEFINE t == HashTicket(i, n, code)
<1>2. t \in TicketHash /\ t.eventId = i.eventId /\ t.ticketCode = code
  BY HashTyped DEF HashTicket
<1> HIDE DEF t
<1>3. Pack(t) \in Text
  BY <1>2, Layout
<1>4. WellFormed(Pack(t)) /\ Unpack(Pack(t)) = Carried(t)
  BY <1>2, RoundTrip
<1>5. Carried(t).eventId = t.eventId /\ Carried(t).ticketCode = t.ticketCode
  BY <1>2 DEF Carried, TicketHash
<1>6. /\ Pack(t) \in Seq(Byte) /\ WellFormed(Pack(t))
      /\ Unpack(Pack(t)).eventId = i.eventId /\ Unpack(Pack(t)).ticketCode = code
  BY <1>2, <1>3, <1>4, <1>5 DEF Text
<1> QED
  BY <1>6 DEF t

(* A row of table Ticket is one that createTicket makes for its unit, and  *)
(* its event is still there.                                               *)
Signed ==
  \A u \in DOMAIN ticket :
    /\ u.line \in issued
    /\ u \in UnitsOf(u.line)
    /\ ticket[u].eventId = item[u.line].eventId
    /\ ticket[u].eventId \in event
    /\ ticket[u].payload = Pack(HashTicket(item[u.line], u.index, ticket[u].ticketCode))
    /\ ticket[u].code = Sign(ticket[u].payload)

(* What the unique index on the signature says.                            *)
OnePerSignature ==
  \A u, v \in DOMAIN ticket : SameSignature(ticket[u], ticket[v]) => u = v

(* A QR code goes with a ticket, or its event is gone.                     *)
Printed ==
  \A q \in printed :
    /\ q.signature = Sign(q.data)
    /\ \/ \E u \in DOMAIN ticket : Qr(ticket[u]) = q
       \/ Unpack(q.data).eventId \notin event

(* A request carries a signature that was printed, and found nothing that  *)
(* was not there.                                                          *)
Carrying ==
  \A s \in ScanId :
    /\ \A qr \in scanned[s] : \E q \in printed : q.signature = qr.signature
    /\ \A u \in found[s] : u.line \in issued

ScanningInv ==
  /\ ScanningTypeOK /\ Signed /\ OnePerSignature /\ Printed /\ Carrying
  /\ QrFindsItsTicket /\ FoundAsRead

(* What Signed lets be read off a ticket's payload.                        *)
LEMMA SignedTicket ==
  ASSUME ScanningTypeOK, Signed, NEW u \in DOMAIN ticket
  PROVE  LET row == ticket[u]
         IN /\ row.payload \in Text /\ WellFormed(row.payload)
            /\ Unpack(row.payload).eventId = row.eventId
            /\ Unpack(row.payload).ticketCode = row.ticketCode
            /\ row.code = Sign(row.payload)
<1>1. ticket[u] \in TicketRow /\ u.line \in LineId /\ item[u.line] \in OrderItem
      /\ ticket[u].ticketCode \in TicketCode
  BY DEF ScanningTypeOK, IsTable, TicketId, TicketRow
<1>2. /\ u.index \in 0 .. item[u.line].quantity - 1
      /\ ticket[u].eventId = item[u.line].eventId
      /\ ticket[u].payload = Pack(HashTicket(item[u.line], u.index, ticket[u].ticketCode))
      /\ ticket[u].code = Sign(ticket[u].payload)
  BY DEF Signed, UnitsOf
<1> QED
  BY <1>1, <1>2, SignedUnit DEF Text

(* A signature gives the bytes that were signed.                           *)
LEMMA SignInjective ==
  \A a, b : Sign(a) = Sign(b) => a = b
<1> SUFFICES ASSUME NEW a, NEW b, Sign(a) = Sign(b) PROVE a = b
  OBVIOUS
<1>1. Sign(a).signed = a /\ Sign(b).signed = b
  BY DEF Sign
<1> QED
  BY <1>1

(* The rows of a line, and what can be read off their payloads.            *)
LEMMA RowsOf ==
  ASSUME ScanningTypeOK, NEW l \in LineId, NEW codes \in [UnitsOf(l) -> TicketCode]
  PROVE  LET rows == Rows(l, codes)
         IN /\ DOMAIN rows = UnitsOf(l)
            /\ UnitsOf(l) \subseteq TicketId
            /\ \A u \in UnitsOf(l) :
                 /\ u.line = l
                 /\ rows[u] \in TicketRow
                 /\ rows[u].eventId = item[l].eventId
                 /\ rows[u].payload = Pack(HashTicket(item[l], u.index, rows[u].ticketCode))
                 /\ rows[u].code = Sign(rows[u].payload)
                 /\ Unpack(rows[u].payload).eventId = rows[u].eventId
                 /\ Unpack(rows[u].payload).ticketCode = rows[u].ticketCode
<1>1. item[l] \in OrderItem /\ IsOrderItem(item[l])
  BY OrderItemAssumption DEF ScanningTypeOK
<1>2. UnitsOf(l) \subseteq TicketId /\ DOMAIN Rows(l, codes) = UnitsOf(l)
  BY <1>1 DEF UnitsOf, TicketId, IsOrderItem, Rows
<1>3. ASSUME NEW u \in UnitsOf(l)
      PROVE  LET row == Rows(l, codes)[u]
             IN /\ u.line = l
                /\ row \in TicketRow
                /\ row.eventId = item[l].eventId
                /\ row.payload = Pack(HashTicket(item[l], u.index, row.ticketCode))
                /\ row.code = Sign(row.payload)
                /\ Unpack(row.payload).eventId = row.eventId
                /\ Unpack(row.payload).ticketCode = row.ticketCode
  <2> DEFINE p == Pack(HashTicket(item[l], u.index, codes[u]))
  <2>1. u.line = l /\ u.index \in 0 .. item[l].quantity - 1 /\ codes[u] \in TicketCode
    BY DEF UnitsOf
  <2>2. /\ p \in Seq(Byte)
        /\ Unpack(p).eventId = item[l].eventId /\ Unpack(p).ticketCode = codes[u]
    BY <1>1, <2>1, SignedUnit
  <2>3. Rows(l, codes)[u] = [eventId |-> item[l].eventId, ticketCode |-> codes[u],
                             payload |-> p, code |-> Sign(p)]
    BY DEF Rows
  <2>4. p = Pack(HashTicket(item[l], u.index, codes[u]))
    OBVIOUS
  <2> HIDE DEF p
  <2>5. Sign(p) \in Signature
    BY <2>2 DEF Sign, Signature
  <2> QED
    BY <1>1, <2>1, <2>2, <2>3, <2>4, <2>5 DEF TicketRow, IsOrderItem
<1> QED
  BY <1>2, <1>3

(* Two rows of one signature have one event and one code: a row to be made *)
(* against another, or against a ticket there is.                          *)
LEMMA SignatureTellsCode ==
  ASSUME ScanningTypeOK, Signed, NEW l \in LineId, NEW codes \in [UnitsOf(l) -> TicketCode]
  PROVE  LET rows == Rows(l, codes)
         IN /\ \A u, v \in DOMAIN rows :
                 SameSignature(rows[u], rows[v]) => SameCode(rows[u], rows[v])
            /\ \A u \in DOMAIN rows, v \in DOMAIN ticket :
                 SameSignature(rows[u], ticket[v]) => SameCode(rows[u], ticket[v])
<1> DEFINE rows == Rows(l, codes)
           Readable(row) == /\ row.code = Sign(row.payload)
                            /\ Unpack(row.payload).eventId = row.eventId
                            /\ Unpack(row.payload).ticketCode = row.ticketCode
<1>1. \A u \in DOMAIN rows : Readable(rows[u])
  BY RowsOf
<1>2. \A v \in DOMAIN ticket : Readable(ticket[v])
  BY SignedTicket
<1>3. \A row1, row2 : Readable(row1) /\ Readable(row2) /\ SameSignature(row1, row2)
        => SameCode(row1, row2)
  <2> SUFFICES ASSUME NEW row1, NEW row2, Readable(row1), Readable(row2), row1.code = row2.code
               PROVE  SameCode(row1, row2)
    BY DEF SameSignature
  <2>1. row1.payload = row2.payload
    BY SignInjective
  <2> QED
    BY <2>1 DEF SameCode
<1> HIDE DEF rows, Readable
<1>4. /\ \A u, v \in DOMAIN rows : SameSignature(rows[u], rows[v]) => SameCode(rows[u], rows[v])
      /\ \A u \in DOMAIN rows, v \in DOMAIN ticket :
           SameSignature(rows[u], ticket[v]) => SameCode(rows[u], ticket[v])
  BY <1>1, <1>2, <1>3
<1> QED
  BY <1>4 DEF rows

-----------------------------------------------------------------------------
(* Nothing is signed, printed or read at first.                            *)
LEMMA ScanningInv_Init == ScanningInit => ScanningInv
  BY DEF ScanningInit, ScanningInv, ScanningTypeOK, IsTable, Signed, OnePerSignature,
         Printed, Carrying, QrFindsItsTicket, FoundAsRead

(* Tickets are issued with QR codes that nobody holds yet.                 *)
LEMMA Issue_Step ==
  ASSUME ScanningInv, NEW l \in LineId, NEW codes \in [UnitsOf(l) -> TicketCode],
         Issue(l, codes)
  PROVE  ScanningInv'
<1> USE DEF ScanningInv
<1> DEFINE rows == Rows(l, codes)
<1>1. /\ DOMAIN rows = UnitsOf(l)
      /\ UnitsOf(l) \subseteq TicketId
      /\ \A u \in UnitsOf(l) :
           /\ u.line = l
           /\ rows[u] \in TicketRow
           /\ rows[u].eventId = item[l].eventId
           /\ rows[u].payload = Pack(HashTicket(item[l], u.index, rows[u].ticketCode))
           /\ rows[u].code = Sign(rows[u].payload)
           /\ Unpack(rows[u].payload).eventId = rows[u].eventId
  BY RowsOf
<1>2. /\ UNCHANGED <<item, event, route, gate, scanned, found>>
      /\ l \notin issued /\ issued' = issued \cup {l}
  BY DEF Issue, scanVars
<1>3. CASE UNCHANGED <<ticket, printed>>
  <2>1. ScanningTypeOK' /\ Signed'
    BY <1>2, <1>3 DEF ScanningTypeOK, IsTable, Signed, UnitsOf
  <2>2. OnePerSignature' /\ Printed' /\ Carrying'
    BY <1>2, <1>3 DEF OnePerSignature, Printed, Carrying
  <2>3. QrFindsItsTicket' /\ FoundAsRead'
    BY <1>2, <1>3 DEF QrFindsItsTicket, FoundAsRead
  <2> QED
    BY <2>1, <2>2, <2>3
<1>4. CASE /\ item[l].eventId \in event
           /\ Admits(SameSignature, rows)
           /\ ticket' = Insert(ticket, rows)
           /\ printed' = printed \cup {Qr(rows[u]) : u \in DOMAIN rows}
  <2>1. /\ \A u, v \in UnitsOf(l) : SameSignature(rows[u], rows[v]) => u = v
        /\ \A u \in UnitsOf(l), v \in DOMAIN ticket : ~ SameSignature(rows[u], ticket[v])
    BY <1>1, <1>4 DEF Admits
  <2>2. \A u \in DOMAIN ticket : u \notin UnitsOf(l)
    BY <1>1, <1>2 DEF Signed
  <2>3. /\ DOMAIN ticket' = DOMAIN ticket \cup UnitsOf(l)
        /\ \A u \in UnitsOf(l) : ticket'[u] = rows[u]
        /\ \A u \in DOMAIN ticket : ticket'[u] = ticket[u]
        /\ IsTable(ticket', TicketId, TicketRow)
    <3>1. IsTable(ticket, TicketId, TicketRow) /\ ticket' = Insert(ticket, rows)
          /\ DOMAIN rows = UnitsOf(l) /\ (\A u \in UnitsOf(l) : rows[u] \in TicketRow)
          /\ UnitsOf(l) \subseteq TicketId
      BY <1>1, <1>4 DEF ScanningTypeOK
    <3> HIDE DEF rows
    <3> QED
      BY <2>2, <3>1 DEF IsTable, Insert
  <2>4. printed' = printed \cup {Qr(rows[u]) : u \in UnitsOf(l)}
    BY <1>1, <1>4
  <2> HIDE DEF rows
  <2>5. \A u \in UnitsOf(l) : Qr(rows[u]) \in QrCode
    BY <1>1 DEF Qr, QrCode, TicketRow
  <2>6. ScanningTypeOK'
    BY <1>2, <2>3, <2>4, <2>5 DEF ScanningTypeOK
  <2>7. Signed'
    <3>1. UnitsOf(l)' = UnitsOf(l) /\ \A m : UnitsOf(m)' = UnitsOf(m)
      BY <1>2 DEF UnitsOf
    <3>2. ASSUME NEW u \in UnitsOf(l)
          PROVE  /\ u.line \in issued' /\ u \in UnitsOf(u.line)
                 /\ ticket'[u].eventId = item[u.line].eventId
                 /\ ticket'[u].eventId \in event
                 /\ ticket'[u].payload
                      = Pack(HashTicket(item[u.line], u.index, ticket'[u].ticketCode))
                 /\ ticket'[u].code = Sign(ticket'[u].payload)
      BY <1>1, <1>2, <1>4, <2>3
    <3>3. ASSUME NEW u \in DOMAIN ticket
          PROVE  /\ u.line \in issued' /\ u \in UnitsOf(u.line)
                 /\ ticket'[u].eventId = item[u.line].eventId
                 /\ ticket'[u].eventId \in event
                 /\ ticket'[u].payload
                      = Pack(HashTicket(item[u.line], u.index, ticket'[u].ticketCode))
                 /\ ticket'[u].code = Sign(ticket'[u].payload)
      BY <1>2, <2>3 DEF Signed
    <3> QED
      BY <1>2, <2>3, <3>1, <3>2, <3>3 DEF Signed
  <2>8. OnePerSignature'
    BY <2>1, <2>2, <2>3 DEF OnePerSignature, SameSignature
  <2>9. Printed'
    <3>1. \A q \in printed : /\ q.signature = Sign(q.data)
                              /\ \/ \E u \in DOMAIN ticket' : Qr(ticket'[u]) = q
                                 \/ Unpack(q.data).eventId \notin event'
      BY <1>2, <2>3 DEF Printed
    <3>2. \A u \in UnitsOf(l) : /\ Qr(rows[u]).signature = Sign(Qr(rows[u]).data)
                                 /\ Qr(ticket'[u]) = Qr(rows[u])
      BY <1>1, <2>3 DEF Qr
    <3> QED
      BY <2>3, <2>4, <3>1, <3>2 DEF Printed
  <2>10. Carrying'
    BY <1>2, <2>4 DEF Carrying
  <2>11. QrFindsItsTicket'
    <3>1. ASSUME NEW s \in ScanId, NEW u \in UnitsOf(l), Qr(rows[u]) \in scanned[s]
          PROVE  FALSE
      <4>1. PICK q \in printed : q.signature = Qr(rows[u]).signature
        BY <3>1 DEF Carrying
      <4>2. q.signature = Sign(q.data) /\ q.signature = rows[u].code
            /\ rows[u].code = Sign(rows[u].payload)
        BY <1>1, <4>1 DEF Printed, Qr
      <4>3. q.data = rows[u].payload
        BY <4>2, SignInjective
      <4>4. Unpack(q.data).eventId \in event
        BY <1>1, <1>4, <4>3
      <4>5. PICK v \in DOMAIN ticket : Qr(ticket[v]) = q
        BY <4>4 DEF Printed
      <4>6. SameSignature(rows[u], ticket[v])
        BY <4>2, <4>5 DEF Qr, SameSignature
      <4> QED
        BY <2>1, <4>6
    <3> QED
      BY <1>2, <2>3, <3>1 DEF QrFindsItsTicket
  <2>12. FoundAsRead'
    <3>1. \A s \in ScanId : \A u \in found[s] : u \notin UnitsOf(l)
      BY <1>1, <1>2 DEF Carrying
    <3> QED
      BY <1>2, <2>3, <3>1 DEF FoundAsRead
  <2> QED
    BY <2>6, <2>7, <2>8, <2>9, <2>10, <2>11, <2>12
<1> QED
  BY <1>3, <1>4 DEF Issue

(* The QR codes of a deleted event's tickets lead nowhere.                 *)
LEMMA RemoveEvent_Step ==
  ASSUME ScanningInv, NEW e \in EventId, RemoveEvent(e)
  PROVE  ScanningInv'
<1> USE DEF ScanningInv
<1>1. /\ UNCHANGED <<item, printed, issued, route, gate, scanned, found>>
      /\ event' = event \ {e}
      /\ ticket' = Delete(ticket, {u \in DOMAIN ticket : ticket[u].eventId = e})
  BY DEF RemoveEvent, scanVars
<1>2. /\ \A u : u \in DOMAIN ticket' <=> u \in DOMAIN ticket /\ ticket[u].eventId # e
      /\ \A u \in DOMAIN ticket' : ticket'[u] = ticket[u]
      /\ IsTable(ticket', TicketId, TicketRow)
  BY <1>1 DEF Delete, Restrict, ScanningTypeOK, IsTable
<1>3. ScanningTypeOK'
  BY <1>1, <1>2 DEF ScanningTypeOK
<1>4. Signed' /\ OnePerSignature' /\ Carrying'
  BY <1>1, <1>2 DEF Signed, OnePerSignature, Carrying, UnitsOf
<1>5. Printed'
  <2>1. ASSUME NEW q \in printed, NEW u \in DOMAIN ticket, Qr(ticket[u]) = q,
               ticket[u].eventId = e
        PROVE  Unpack(q.data).eventId \notin event'
    <3>1. Unpack(ticket[u].payload).eventId = e /\ q.data = ticket[u].payload
      BY <2>1, SignedTicket DEF Qr
    <3> QED
      BY <1>1, <3>1
  <2> QED
    BY <1>1, <1>2, <2>1 DEF Printed
<1>6. QrFindsItsTicket'
  BY <1>1, <1>2 DEF QrFindsItsTicket
<1>7. FoundAsRead'
  BY <1>1, <1>2 DEF FoundAsRead
<1> QED
  BY <1>3, <1>4, <1>5, <1>6, <1>7

(* What a request finds, given what it carries.                            *)
LEMMA ScanFinds ==
  ASSUME ScanningTypeOK, Signed, OnePerSignature, NEW s \in ScanId, NEW qr \in QrCode
  PROVE  LET answer == IF route[s] = "GET" THEN FindOneSigned(qr) ELSE CheckInSignature(s, qr)
         IN /\ answer \subseteq DOMAIN ticket
            /\ \A u \in DOMAIN ticket : Qr(ticket[u]) = qr =>
                 answer = IF route[s] = "GET" \/ ticket[u].eventId = gate[s] THEN {u} ELSE {}
            /\ \A u \in answer :
                 /\ WellFormed(qr.data)
                 /\ Unpack(ticket[u].payload) = Unpack(qr.data)
                 /\ route[s] = "GET" \/ ticket[u].eventId = gate[s]
<1> DEFINE answer == IF route[s] = "GET" THEN FindOneSigned(qr) ELSE CheckInSignature(s, qr)
<1>1. \A u \in DOMAIN ticket :
        /\ ticket[u].payload \in Text /\ WellFormed(ticket[u].payload)
        /\ Unpack(ticket[u].payload).eventId = ticket[u].eventId
        /\ ticket[u].code = Sign(ticket[u].payload)
  BY SignedTicket
<1>2. \A u, v \in DOMAIN ticket : ticket[u].code = ticket[v].code => u = v
  BY DEF OnePerSignature, SameSignature
<1>3. qr.data \in Text
  BY DEF QrCode, Text
<1> SUFFICES /\ answer \subseteq DOMAIN ticket
             /\ \A u \in DOMAIN ticket : Qr(ticket[u]) = qr =>
                  answer = IF route[s] = "GET" \/ ticket[u].eventId = gate[s] THEN {u} ELSE {}
             /\ \A u \in answer :
                  /\ WellFormed(qr.data)
                  /\ Unpack(ticket[u].payload) = Unpack(qr.data)
                  /\ route[s] = "GET" \/ ticket[u].eventId = gate[s]
  OBVIOUS
<1>4. CASE route[s] = "GET"
  <2>1. answer = {u \in SignedBy(qr.signature) :
                    /\ WellFormed(qr.data)
                    /\ ticket[u].eventId = Unpack(qr.data).eventId
                    /\ qr.signature = Sign(Pack(Unpack(qr.data)))}
    BY <1>4 DEF FindOneSigned, VerifyHash, VerifyPayload
  <2> HIDE DEF answer
  <2>2. ASSUME NEW u \in DOMAIN ticket, Qr(ticket[u]) = qr
        PROVE  answer = {u}
    <3>1. qr.data = ticket[u].payload /\ qr.signature = ticket[u].code
      BY <2>2 DEF Qr
    <3>2. SignedBy(qr.signature) = {u}
      BY <1>2, <3>1 DEF SignedBy
    <3>3. Pack(Unpack(qr.data)) = qr.data
      <4>1. /\ u.index \in 0 .. item[u.line].quantity - 1
            /\ ticket[u].payload = Pack(HashTicket(item[u.line], u.index, ticket[u].ticketCode))
        BY <2>2 DEF Signed, UnitsOf
      <4>2. item[u.line] \in OrderItem /\ ticket[u].ticketCode \in TicketCode
        BY <2>2 DEF ScanningTypeOK, IsTable, TicketId, TicketRow
      <4> DEFINE t == HashTicket(item[u.line], u.index, ticket[u].ticketCode)
      <4>3. t \in TicketHash
        BY <4>1, <4>2, HashTyped
      <4> HIDE DEF t
      <4>4. Pack(Carried(t)) = Pack(t) /\ Unpack(Pack(t)) = Carried(t)
        BY <4>3, PackCarried, RoundTrip
      <4> QED
        BY <3>1, <4>1, <4>4 DEF t
    <3> QED
      BY <1>1, <2>1, <3>1, <3>2, <3>3
  <2>3. ASSUME NEW u \in answer
        PROVE  /\ u \in DOMAIN ticket /\ WellFormed(qr.data)
               /\ Unpack(ticket[u].payload) = Unpack(qr.data)
    <3>1. /\ u \in DOMAIN ticket /\ WellFormed(qr.data)
          /\ Sign(ticket[u].payload) = Sign(Pack(Unpack(qr.data)))
      BY <1>1, <2>1, <2>3 DEF SignedBy
    <3>2. ticket[u].payload = Pack(Unpack(qr.data))
      BY <3>1, SignInjective
    <3>3. Unpack(qr.data) \in TicketHash /\ Carried(Unpack(qr.data)) = Unpack(qr.data)
      BY <1>3, <3>1, UnpackTyped
    <3> QED
      BY <3>1, <3>2, <3>3, RoundTrip
  <2> QED
    BY <1>4, <2>2, <2>3
<1>5. CASE route[s] # "GET"
  <2>1. answer = IF WellFormed(qr.data) /\ Unpack(qr.data).eventId = gate[s]
                    /\ qr.signature = Sign(qr.data)
                 THEN SignedBy(qr.signature) ELSE {}
    BY <1>5 DEF CheckInSignature, CanActivate, VerifyPayload
  <2> HIDE DEF answer
  <2>2. ASSUME NEW u \in DOMAIN ticket, Qr(ticket[u]) = qr
        PROVE  answer = IF ticket[u].eventId = gate[s] THEN {u} ELSE {}
    <3>1. qr.data = ticket[u].payload /\ qr.signature = ticket[u].code
      BY <2>2 DEF Qr
    <3>2. SignedBy(qr.signature) = {u}
      BY <1>2, <3>1 DEF SignedBy
    <3> QED
      BY <1>1, <2>1, <3>1, <3>2
  <2>3. ASSUME NEW u \in answer
        PROVE  /\ u \in DOMAIN ticket /\ WellFormed(qr.data)
               /\ Unpack(ticket[u].payload) = Unpack(qr.data)
               /\ ticket[u].eventId = gate[s]
    <3>1. /\ u \in DOMAIN ticket /\ WellFormed(qr.data)
          /\ Unpack(qr.data).eventId = gate[s]
          /\ Sign(ticket[u].payload) = Sign(qr.data)
      BY <1>1, <2>1, <2>3 DEF SignedBy
    <3>2. ticket[u].payload = qr.data
      BY <3>1, SignInjective
    <3> QED
      BY <1>1, <3>1, <3>2
  <2> QED
    BY <1>5, <2>2, <2>3
<1> QED
  BY <1>4, <1>5

(* A request answers for the code it carries and leaves the others'        *)
(* answers alone.                                                          *)
LEMMA Scan_Step ==
  ASSUME ScanningInv, NEW s \in ScanId, NEW p \in printed, NEW q \in printed,
         NEW cut \in 0 .. MaxCut,
         Scan(s, [data |-> SubSeq(q.data, 1, Len(q.data) - cut), signature |-> p.signature])
  PROVE  ScanningInv'
<1> USE DEF ScanningInv
<1> DEFINE qr == [data |-> SubSeq(q.data, 1, Len(q.data) - cut), signature |-> p.signature]
           answer == IF route[s] = "GET" THEN FindOneSigned(qr) ELSE CheckInSignature(s, qr)
<1>1. qr \in QrCode /\ qr.signature = p.signature
  <2> DEFINE z == Len(q.data) - cut
  <2>1. q.data \in Seq(Byte) /\ p.signature \in Signature
    BY DEF ScanningTypeOK, QrCode
  <2>2. z \in Int /\ \A i \in 1 .. z : q.data[i] \in Byte
    <3>1. Len(q.data) \in Nat /\ \A i \in 1 .. Len(q.data) : q.data[i] \in Byte
      BY <2>1, LenProperties, ElementOfSeq
    <3> QED
      BY <3>1, OrderItemAssumption
  <2> HIDE DEF z
  <2>3. \A t : (\A i \in 1 .. z : t[i] \in Byte) => SubSeq(t, 1, z) \in Seq(Byte)
    BY <2>2, SubSeqProperties
  <2>4. SubSeq(q.data, 1, z) \in Seq(Byte)
    BY <2>2, <2>3, Zenon
  <2> QED
    BY <2>1, <2>4 DEF QrCode, z
<1>2. /\ UNCHANGED <<item, event, ticket, printed, issued, route, gate>>
      /\ scanned[s] = {}
      /\ scanned' = [scanned EXCEPT ![s] = {qr}]
      /\ found' = [found EXCEPT ![s] = answer]
  BY DEF Scan
<1> HIDE DEF qr
<1>3. /\ answer \subseteq DOMAIN ticket
      /\ \A u \in DOMAIN ticket : Qr(ticket[u]) = qr =>
           answer = IF route[s] = "GET" \/ ticket[u].eventId = gate[s] THEN {u} ELSE {}
      /\ \A u \in answer :
           /\ WellFormed(qr.data)
           /\ Unpack(ticket[u].payload) = Unpack(qr.data)
           /\ route[s] = "GET" \/ ticket[u].eventId = gate[s]
  BY <1>1, ScanFinds
<1> HIDE DEF answer
<1>4. ScanningTypeOK'
  <2>1. answer \subseteq TicketId
    BY <1>3 DEF ScanningTypeOK, IsTable
  <2> QED BY <1>1, <1>2, <2>1 DEF ScanningTypeOK
<1>5. Signed' /\ OnePerSignature' /\ Printed'
  BY <1>2 DEF Signed, OnePerSignature, Printed, UnitsOf
<1>6. /\ scanned'[s] = {qr} /\ found'[s] = answer
      /\ \A r \in ScanId \ {s} : scanned'[r] = scanned[r] /\ found'[r] = found[r]
  BY <1>2 DEF ScanningTypeOK
<1>7. Carrying'
  <2>1. \A u \in answer : u.line \in issued
    BY <1>3 DEF Signed
  <2>2. \E z \in printed : z.signature = qr.signature
    BY <1>1
  <2> QED BY <1>2, <1>6, <2>1, <2>2 DEF Carrying
<1>8. QrFindsItsTicket'
  <2>1. ASSUME NEW r \in ScanId, NEW u \in DOMAIN ticket, Qr(ticket[u]) \in scanned'[r]
        PROVE  found'[r] = IF route[r] = "GET" \/ ticket[u].eventId = gate[r]
                             THEN {u} ELSE {}
    <3>1. CASE r = s
      <4>1. Qr(ticket[u]) = qr
        BY <1>6, <2>1, <3>1
      <4> QED BY <1>3, <1>6, <3>1, <4>1
    <3>2. CASE r # s
      BY <1>6, <2>1, <3>2 DEF QrFindsItsTicket
    <3> QED BY <3>1, <3>2
  <2>2. \A u : Qr(ticket[u])' = Qr(ticket'[u])
    BY DEF Qr
  <2>3. UNCHANGED <<ticket, route, gate>>
    BY <1>2
  <2> QED BY <2>1, <2>2, <2>3 DEF QrFindsItsTicket
<1>9. FoundAsRead'
  <2> SUFFICES ASSUME NEW r \in ScanId, NEW read \in scanned'[r],
                      NEW u \in found'[r] \cap DOMAIN ticket
               PROVE  /\ WellFormed(read.data)
                      /\ Unpack(ticket[u].payload) = Unpack(read.data)
                      /\ route[r] = "GET" \/ ticket[u].eventId = gate[r]
    BY <1>2 DEF FoundAsRead
  <2>1. CASE r = s
    BY <1>3, <1>6, <2>1
  <2>2. CASE r # s
    BY <1>6, <2>2 DEF FoundAsRead
  <2> QED
    BY <2>1, <2>2
<1> QED
  BY <1>4, <1>5, <1>7, <1>8, <1>9

(* ScanningInv holds in every reachable state.                             *)
LEMMA ScanningInvariant == ScanningSpec => []ScanningInv
<1>1. ScanningInv /\ [ScanningNext]_scanningVars => ScanningInv'
  <2> SUFFICES ASSUME ScanningInv, [ScanningNext]_scanningVars PROVE ScanningInv'
    OBVIOUS
  <2>1. CASE UNCHANGED scanningVars
    <3>1. UNCHANGED <<item, event, ticket, printed, issued, route, gate, scanned, found>>
      BY <2>1 DEF scanningVars, scanVars
    <3>2. ScanningTypeOK' /\ Signed' /\ OnePerSignature' /\ Printed' /\ Carrying'
      BY <3>1 DEF ScanningInv, ScanningTypeOK, IsTable, Signed, OnePerSignature, Printed,
                  Carrying, UnitsOf
    <3>3. QrFindsItsTicket'
      BY <3>1 DEF ScanningInv, QrFindsItsTicket
    <3>4. FoundAsRead'
      BY <3>1 DEF ScanningInv, FoundAsRead
    <3> QED
      BY <3>2, <3>3, <3>4 DEF ScanningInv
  <2> QED
    BY <2>1, Issue_Step, RemoveEvent_Step, Scan_Step DEF ScanningNext
<1> QED
  BY <1>1, ScanningInv_Init, PTL DEF ScanningSpec

(* Payloads, signatures and QR codes are made of bytes.                    *)
THEOREM ScanningTypes == ScanningSpec => []ScanningTypeOK
<1>1. ScanningInv => ScanningTypeOK
  BY DEF ScanningInv
<1> QED
  BY <1>1, ScanningInvariant, PTL

(* The index on the signature refuses no order that the index on the code  *)
(* admits.                                                                 *)
THEOREM OneIndexDecides == ScanningSpec => []CodeIndexSuffices
<1>1. ScanningInv => CodeIndexSuffices
  BY SignatureTellsCode DEF ScanningInv, CodeIndexSuffices, Admits
<1> QED
  BY <1>1, ScanningInvariant, PTL

(* A QR code as it was printed leads to its ticket and to no other.        *)
THEOREM QrLeadsHome == ScanningSpec => []QrFindsItsTicket
<1>1. ScanningInv => QrFindsItsTicket
  BY DEF ScanningInv
<1> QED
  BY <1>1, ScanningInvariant, PTL

(* However a QR code was read, it leads to no ticket but the one read.     *)
THEOREM NoOtherTicket == ScanningSpec => []FoundAsRead
<1>1. ScanningInv => FoundAsRead
  BY DEF ScanningInv
<1> QED
  BY <1>1, ScanningInvariant, PTL
=============================================================================
