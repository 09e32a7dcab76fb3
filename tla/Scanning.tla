------------------------------ MODULE Scanning ------------------------------
(***************************************************************************)
(* From the units of an order line to a ticket in a scanner's hands: what  *)
(* OrdersService.createTicket signs and stores, the QR code that           *)
(* TicketsService.url makes of it, and the two routes that read one,       *)
(* POST /tickets/check-in and GET /tickets.                                *)
(*                                                                         *)
(* Orders and Tickets know a ticket by its key, and take for granted that  *)
(* only the (eventId, ticketCode) index can refuse one and that its QR     *)
(* code leads back to it.  Here both are consequences of the bytes.        *)
(*                                                                         *)
(* A request reads the database once; what it computes before and after    *)
(* is its own, so it is one action, up to the ticket it finds.  A scanner  *)
(* may misread: the two halves of a QR code need not come from one ticket, *)
(* and the first may be cut short.                                         *)
(***************************************************************************)
EXTENDS Payload, Tables, FiniteSets

CONSTANTS LineId,       \* order lines
          OrderItem,    \* what an order line may hold
          TicketCode,   \* values of generateCode()
          EventId,      \* uuids of events
          ScanId,       \* requests that read a QR code
          MaxCut        \* bound: bytes missing at the end of what was read

\* An order line, the hashes of what its tickets have in common, and that
\* of the answers for each unit.
IsOrderItem(i) ==
  /\ i.eventId \in EventId
  /\ i.quantity \in Nat
  /\ {i.orderIdHash, i.typeIdHash, i.holderNameHash} \subseteq Bytes(HASH_BYTES)
  /\ i.customFieldsHash \in [0 .. i.quantity - 1 -> Bytes(HASH_BYTES)]

ASSUME OrderItemAssumption ==
  /\ \A i \in OrderItem : IsOrderItem(i)
  /\ TicketCode \subseteq Bytes(TicketCodeSize)
  /\ EventId \subseteq Uuid
  /\ MaxCut \in Nat

VARIABLES item,      \* the order lines
          event,     \* the events not deleted
          ticket,    \* table Ticket
          printed,   \* the QR codes that were ever to be had from url()
          issued,    \* the lines createTicket was called for
          route,     \* the route each request calls
          gate,      \* the event of the scanner's token
          scanned,   \* what each request carries
          found      \* the answer of each: the ticket it found, if any

scanVars == <<route, gate, scanned, found>>
scanningVars == <<item, event, ticket, printed, issued, scanVars>>

TicketId  == [line : LineId, index : Nat]
Signature == [signed : Seq(Byte)]
QrCode    == [data : Seq(Byte), signature : Signature]
TicketRow == [eventId : EventId, ticketCode : TicketCode,
              payload : Seq(Byte), code : Signature]

ScanningTypeOK ==
  /\ item \in [LineId -> OrderItem]
  /\ event \subseteq EventId
  /\ IsTable(ticket, TicketId, TicketRow)
  /\ printed \subseteq QrCode
  /\ issued \subseteq LineId
  /\ route \in [ScanId -> {"POST check-in", "GET"}]
  /\ gate \in [ScanId -> EventId]
  /\ scanned \in [ScanId -> SUBSET QrCode]
  /\ found \in [ScanId -> SUBSET TicketId]

ScanningInit ==
  /\ item    \in [LineId -> OrderItem]
  /\ event   = EventId
  /\ ticket  = [x \in {} |-> 0]
  /\ printed = {}
  /\ issued  = {}
  /\ route   \in [ScanId -> {"POST check-in", "GET"}]
  /\ gate    \in [ScanId -> EventId]
  /\ scanned = [s \in ScanId |-> {}]
  /\ found   = [s \in ScanId |-> {}]

-----------------------------------------------------------------------------
(* createTicket() *)

HashTicket(i, n, code) ==
  [index            |-> n,
   ticketCode       |-> code,
   eventId          |-> i.eventId,
   orderIdHash      |-> i.orderIdHash,
   typeIdHash       |-> i.typeIdHash,
   holderNameHash   |-> i.holderNameHash,
   customFieldsHash |-> i.customFieldsHash[n]]

UnitsOf(l) == {[line |-> l, index |-> n] : n \in 0 .. item[l].quantity - 1}

\* The rows of line l, given the codes drawn for its units.
Rows(l, codes) ==
  [u \in UnitsOf(l) |->
     LET payload == Pack(HashTicket(item[l], u.index, codes[u]))
     IN [eventId    |-> item[l].eventId,
         ticketCode |-> codes[u],
         payload    |-> payload,
         code       |-> Sign(payload)]]

\* A unique index admits new rows that differ by Clash, from each other and
\* from every row there is.
Admits(Clash(_, _), rows) ==
  /\ \A u, v \in DOMAIN rows : u # v => ~ Clash(rows[u], rows[v])
  /\ \A u \in DOMAIN rows, v \in DOMAIN ticket : ~ Clash(rows[u], ticket[v])

SameCode(row1, row2) == row1.eventId = row2.eventId /\ row1.ticketCode = row2.ticketCode
SameSignature(row1, row2) == row1.code = row2.code

Qr(row) == [data |-> row.payload, signature |-> row.code]

\* ticket.createMany: all the rows, or none and an error.
Issue(l, codes) ==
  LET rows == Rows(l, codes)
  IN /\ l \notin issued
     /\ issued' = issued \cup {l}
     /\ \/ /\ item[l].eventId \in event
           /\ Admits(SameCode, rows) /\ Admits(SameSignature, rows)
           /\ ticket' = Insert(ticket, rows)
           /\ printed' = printed \cup {Qr(rows[u]) : u \in DOMAIN rows}
        \/ /\ \/ item[l].eventId \notin event
              \/ ~ (Admits(SameCode, rows) /\ Admits(SameSignature, rows))
           /\ UNCHANGED <<ticket, printed>>
     /\ UNCHANGED <<item, event, scanVars>>

\* An event's tickets are deleted with it; their holders keep their codes.
RemoveEvent(e) ==
  /\ e \in event
  /\ event' = event \ {e}
  /\ ticket' = Delete(ticket, {u \in DOMAIN ticket : ticket[u].eventId = e})
  /\ UNCHANGED <<item, printed, issued, scanVars>>

-----------------------------------------------------------------------------
(* The routes *)

\* ticket.findUnique by the unique column "code".
SignedBy(signature) == {u \in DOMAIN ticket : ticket[u].code = signature}

\* CheckInOwnershipGuard: 404 for what does not unpack, 403 for the payload
\* of another event.
CanActivate(s, data) == WellFormed(data) /\ Unpack(data).eventId = gate[s]

\* checkInSignature(), up to checkIn().
CheckInSignature(s, qr) ==
  IF CanActivate(s, qr.data) /\ VerifyPayload(qr.data, qr.signature)
  THEN SignedBy(qr.signature)
  ELSE {}

FindOneSigned(qr) ==
  {u \in SignedBy(qr.signature) :
     /\ WellFormed(qr.data)
     /\ ticket[u].eventId = Unpack(qr.data).eventId
     /\ VerifyHash(Unpack(qr.data), qr.signature)}

Scan(s, qr) ==
  /\ scanned[s] = {}
  /\ scanned' = [scanned EXCEPT ![s] = {qr}]
  /\ found' = [found EXCEPT ![s] = IF route[s] = "GET" THEN FindOneSigned(qr)
                                                       ELSE CheckInSignature(s, qr)]
  /\ UNCHANGED <<item, event, ticket, printed, issued, route, gate>>

ScanningNext ==
  \/ \E l \in LineId : \E codes \in [UnitsOf(l) -> TicketCode] : Issue(l, codes)
  \/ \E e \in EventId : RemoveEvent(e)
  \/ \E s \in ScanId, p \in printed, q \in printed : \E cut \in 0 .. MaxCut :
       Scan(s, [data |-> SubSeq(q.data, 1, Len(q.data) - cut), signature |-> p.signature])

ScanningSpec == ScanningInit /\ [][ScanningNext]_scanningVars

-----------------------------------------------------------------------------
(* Tickets whose codes the (eventId, ticketCode) index admits are never    *)
(* refused by the index on the signature, although the other signed fields *)
(* are hashes that may collide and the index of a unit wraps.              *)
CodeIndexSuffices ==
  \A l \in LineId \ issued : \A codes \in [UnitsOf(l) -> TicketCode] :
    Admits(SameCode, Rows(l, codes)) => Admits(SameSignature, Rows(l, codes))

(* The QR code of a ticket, read as it was printed, leads to that ticket   *)
(* and to no other, at check-in only if the scanner is one of its event.   *)
QrFindsItsTicket ==
  \A s \in ScanId : \A u \in DOMAIN ticket :
    Qr(ticket[u]) \in scanned[s] =>
      found[s] = IF route[s] = "GET" \/ ticket[u].eventId = gate[s] THEN {u} ELSE {}

(* However a QR code was read, a ticket it led to is the one whose payload *)
(* was read, and at check-in one of the scanner's event.                   *)
FoundAsRead ==
  \A s \in ScanId : \A qr \in scanned[s] : \A u \in found[s] \cap DOMAIN ticket :
    /\ WellFormed(qr.data)
    /\ Unpack(ticket[u].payload) = Unpack(qr.data)
    /\ route[s] = "GET" \/ ticket[u].eventId = gate[s]
=============================================================================
