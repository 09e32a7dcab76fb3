------------------------------ MODULE Database ------------------------------
(***************************************************************************)
(* The PostgreSQL tables of prisma/schema.prisma that the request handlers *)
(* share, and the statements of the handlers whose effect the schema, not  *)
(* the handler, decides: foreign keys, unique indexes, cascades.           *)
(*                                                                         *)
(* A table is a function whose DOMAIN is the set of primary keys of its    *)
(* live rows.  Primary keys are uuids, never generated twice: the rows one *)
(* POST /orders request inserts are keyed by that request (OrderId), by a  *)
(* line of it (ItemId), and by a unit of a line (TicketId); events and     *)
(* ticket types take their key from `fresh'.                               *)
(*                                                                         *)
(* Every statement commits alone (autocommit, READ COMMITTED) unless the   *)
(* handler opens a transaction, so a statement is one atomic action.       *)
(***************************************************************************)
EXTENDS Naturals, Tables

CONSTANTS EventId,        \* uuids available to events
          TicketTypeId,   \* uuids available to ticket types
          OrderId,        \* POST /orders requests, and the uuid of their order
          ScanId,         \* check-in requests, and the uuid of their check-in
          Code,           \* values of generateCode()
          Answers,        \* custom-field answers of one order line
          MaxInt,         \* largest value of an INTEGER column (2^31 - 1)
          MayAbort        \* whether a handler can stop between two statements

ASSUME MaxIntAssumption == MaxInt \in Nat
ASSUME MayAbortAssumption == MayAbort \in BOOLEAN

VARIABLES event, ticketType, order, orderItem, ticket, checkIn, fresh

tables == <<event, ticketType, order, orderItem, ticket, checkIn, fresh>>

EventStatus   == {"DRAFT", "PUBLISHED", "CANCELLED", "FINISHED"}
PaymentMethod == {"STRIPE", "CASH", "OTHER"}
PaymentStatus == {"PENDING", "PAID", "FAILED", "REFUNDED"}
TicketStatus  == {"ISSUED", "USED", "CANCELLED", "REFUNDED"}

ItemId   == [order : OrderId, line : Nat]
TicketId == [order : OrderId, line : Nat, index : Nat]

INTEGER == 0 .. MaxInt   \* the values of an INTEGER column that arise here

EventRow      == [status : EventStatus, startsAt : Nat, endsAt : Nat,
                  capacity : INTEGER]
TicketTypeRow == [event : EventId, price : INTEGER, quantity : INTEGER,
                  sold : INTEGER]
OrderRow      == [event : EventId, method : PaymentMethod,
                  status : PaymentStatus, total : INTEGER]
OrderItemRow  == [type : TicketTypeId, quantity : INTEGER, unitPrice : INTEGER]
TicketRow     == [event : EventId, type : TicketTypeId, code : Code,
                  answers : Answers, status : TicketStatus]
CheckInRow    == [ticket : TicketId, event : EventId]

(* The tables hold rows of the schema's models under keys of their kind.   *)
DatabaseTypeOK ==
  /\ IsTable(event, EventId, EventRow)
  /\ IsTable(ticketType, TicketTypeId, TicketTypeRow)
  /\ IsTable(order, OrderId, OrderRow)
  /\ IsTable(orderItem, ItemId, OrderItemRow)
  /\ IsTable(ticket, TicketId, TicketRow)
  /\ IsTable(checkIn, ScanId, CheckInRow)
  /\ fresh \subseteq EventId \cup TicketTypeId

DatabaseInit ==
  /\ event      = [x \in {} |-> 0]
  /\ ticketType = [x \in {} |-> 0]
  /\ order      = [x \in {} |-> 0]
  /\ orderItem  = [x \in {} |-> 0]
  /\ ticket     = [x \in {} |-> 0]
  /\ checkIn    = [x \in {} |-> 0]
  /\ fresh      = EventId \cup TicketTypeId

-----------------------------------------------------------------------------

\* Mutant: a column too wide to overflow.
FitsAny(n) == n \in Nat

\* PostgreSQL refuses a statement that would store any other number.
Fits(n) == n \in INTEGER

\* Mutant: orders are not deleted with their event.
NoOrders(e) == {}

ItemsOf(o)   == {i \in DOMAIN orderItem : i.order = o}
TicketsOf(o) == {u \in DOMAIN ticket : u.order = o}
OrdersOf(e)  == {o \in DOMAIN order : order[o].event = e}
TypesOf(e)   == {t \in DOMAIN ticketType : ticketType[t].event = e}

\* Mutant: order lines do not protect the ticket type they name.
ReferencedByTicket(t) == \E u \in DOMAIN ticket : ticket[u].type = t

(* OrderItem and Ticket refer to TicketType with ON DELETE RESTRICT.       *)
Referenced(t) ==
  \/ \E i \in DOMAIN orderItem : orderItem[i].type = t
  \/ \E u \in DOMAIN ticket : ticket[u].type = t

(***************************************************************************)
(* DELETE FROM "Event" cascades to its ticket types, orders, tickets and   *)
(* check-ins, an order cascades to its items and tickets, and a ticket to  *)
(* its check-ins.  The cascade to a ticket type meets the RESTRICT of      *)
(* OrderItem: PostgreSQL checks it before the cascade through "Order"      *)
(* removes the items, so an event any of whose ticket types appears in an  *)
(* order line cannot be deleted.                                           *)
(***************************************************************************)
EventDeletable(e) ==
  ~ \E i \in DOMAIN orderItem : orderItem[i].type \in TypesOf(e)

DeleteEvent(e) ==
  LET os == OrdersOf(e)
      us == {u \in DOMAIN ticket : ticket[u].event = e \/ u.order \in os}
  IN /\ event'      = Delete(event, {e})
     /\ ticketType' = Delete(ticketType, TypesOf(e))
     /\ order'      = Delete(order, os)
     /\ orderItem'  = Delete(orderItem, {i \in DOMAIN orderItem : i.order \in os})
     /\ ticket'     = Delete(ticket, us)
     /\ checkIn'    = Delete(checkIn,
                        {s \in DOMAIN checkIn : \/ checkIn[s].event = e
                                                \/ checkIn[s].ticket \in us})
     /\ UNCHANGED fresh

(* The unique index on ("eventId", "ticketCode") admits the new tickets.   *)
CodesUnique(rows) ==
  LET Clash(row1, row2) == row1.event = row2.event /\ row1.code = row2.code
  IN /\ \A u, v \in DOMAIN rows : u # v => ~ Clash(rows[u], rows[v])
     /\ \A u \in DOMAIN rows, v \in DOMAIN ticket : ~ Clash(rows[u], ticket[v])
=============================================================================
