------------------------------ MODULE Catalog -------------------------------
(***************************************************************************)
(* EventsService and TicketTypesService: an organizer's edits of events    *)
(* and ticket types.  The routes are behind EventOwnershipGuard; here an   *)
(* organizer owns what it edits.                                           *)
(*                                                                         *)
(* Most handlers read a row to answer 404 and then write it by key.  The   *)
(* read decides nothing but existence, the write by key fails on a missing *)
(* row, and keys are never reused, so such a handler takes effect at its   *)
(* write and only there: it is one action, guarded by existence.  The      *)
(* exception is TicketTypesService.remove, whose read decides on `sold'.   *)
(***************************************************************************)
EXTENDS Database

CONSTANTS Routes,          \* bound: the routes organizers call
          EventDto,        \* request bodies of POST and PATCH /events
          TicketTypeDto,   \* bodies of POST and PATCH .../ticket-types
          EventField,      \* fields a PATCH of an event may carry
          TicketTypeField  \* fields a PATCH of a ticket type may carry

\* class-validator or the column type refuses every other body.
EventBody      == [startsAt : Nat, endsAt : Nat, capacity : INTEGER]
TicketTypeBody == [price : INTEGER, quantity : INTEGER \ {0}]

ASSUME EventDtoAssumption == EventDto \subseteq EventBody
ASSUME TicketTypeDtoAssumption == TicketTypeDto \subseteq TicketTypeBody
ASSUME FieldAssumption ==
  /\ EventField \subseteq {"startsAt", "endsAt", "capacity"}
  /\ TicketTypeField \subseteq {"price", "quantity"}

VARIABLE removing   \* remove() calls past their check: the type, and `force'

CatalogTypeOK == removing \subseteq TicketTypeId \X BOOLEAN

CatalogInit == removing = {}

-----------------------------------------------------------------------------
(* EventsService *)

CreateEvent(e, dto) ==
  /\ e \in fresh \cap EventId
  /\ fresh' = fresh \ {e}
  /\ event' = Insert(event, Row(e, [status   |-> "DRAFT",
                                    startsAt |-> dto.startsAt,
                                    endsAt   |-> dto.endsAt,
                                    capacity |-> dto.capacity]))
  /\ UNCHANGED <<ticketType, order, orderItem, ticket, checkIn, removing>>

\* update(): only the fields present in the partial body are written.
UpdateEvent(e, dto, fields) ==
  /\ e \in DOMAIN event
  /\ event' = [event EXCEPT
       ![e].startsAt = IF "startsAt" \in fields THEN dto.startsAt ELSE @,
       ![e].endsAt   = IF "endsAt" \in fields THEN dto.endsAt ELSE @,
       ![e].capacity = IF "capacity" \in fields THEN dto.capacity ELSE @]
  /\ UNCHANGED <<ticketType, order, orderItem, ticket, checkIn, fresh, removing>>

\* pub() and cancel() ask nothing of the status they replace.
Publish(e) ==
  /\ e \in DOMAIN event
  /\ event' = [event EXCEPT ![e].status = "PUBLISHED"]
  /\ UNCHANGED <<ticketType, order, orderItem, ticket, checkIn, fresh, removing>>

CancelEvent(e) ==
  /\ e \in DOMAIN event
  /\ event' = [event EXCEPT ![e].status = "CANCELLED"]
  /\ UNCHANGED <<ticketType, order, orderItem, ticket, checkIn, fresh, removing>>

RemoveEvent(e) ==
  /\ e \in DOMAIN event
  /\ EventDeletable(e)
  /\ DeleteEvent(e)
  /\ UNCHANGED removing

-----------------------------------------------------------------------------
(* TicketTypesService *)

CreateTicketType(t, e, dto) ==
  /\ e \in DOMAIN event
  /\ t \in fresh \cap TicketTypeId
  /\ fresh' = fresh \ {t}
  /\ ticketType' = Insert(ticketType, Row(t, [event    |-> e,
                                              price    |-> dto.price,
                                              quantity |-> dto.quantity,
                                              sold     |-> 0]))
  /\ UNCHANGED <<event, order, orderItem, ticket, checkIn, removing>>

UpdateTicketType(t, dto, fields) ==
  /\ t \in DOMAIN ticketType
  /\ ticketType' = [ticketType EXCEPT
       ![t].price    = IF "price" \in fields THEN dto.price ELSE @,
       ![t].quantity = IF "quantity" \in fields THEN dto.quantity ELSE @]
  /\ UNCHANGED <<event, order, orderItem, ticket, checkIn, fresh, removing>>

\* remove(), up to its check: a type with sales needs ?force=true.
CheckRemoval(t, force) ==
  /\ t \in DOMAIN ticketType
  /\ force \/ ticketType[t].sold = 0
  /\ removing' = removing \cup {<<t, force>>}
  /\ UNCHANGED tables

\* remove(), its DELETE: refused by the schema while a row refers to t.
RemoveTicketType(t, force) ==
  /\ <<t, force>> \in removing
  /\ removing' = removing \ {<<t, force>>}
  /\ ticketType' = IF Referenced(t) THEN ticketType
                                    ELSE Delete(ticketType, {t})
  /\ UNCHANGED <<event, order, orderItem, ticket, checkIn, fresh>>

EventsNext ==
  \E e \in EventId :
    \/ "events.create" \in Routes /\ \E dto \in EventDto : CreateEvent(e, dto)
    \/ /\ "events.update" \in Routes
       /\ \E dto \in EventDto, fields \in SUBSET EventField : UpdateEvent(e, dto, fields)
    \/ "events.publish" \in Routes /\ Publish(e)
    \/ "events.cancel" \in Routes /\ CancelEvent(e)
    \/ "events.remove" \in Routes /\ RemoveEvent(e)

TicketTypesNext ==
  \E t \in TicketTypeId :
    \/ /\ "types.create" \in Routes
       /\ \E e \in EventId, dto \in TicketTypeDto : CreateTicketType(t, e, dto)
    \/ /\ "types.update" \in Routes
       /\ \E dto \in TicketTypeDto, fields \in SUBSET TicketTypeField :
             UpdateTicketType(t, dto, fields)
    \/ /\ "types.remove" \in Routes
       /\ \E force \in BOOLEAN : CheckRemoval(t, force) \/ RemoveTicketType(t, force)

CatalogNext == EventsNext \/ TicketTypesNext
=============================================================================
