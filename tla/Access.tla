------------------------------- MODULE Access -------------------------------
(***************************************************************************)
(* Who may do what: organizers that registered (Auth) edit events and      *)
(* ticket types (Catalog) through the guards of the routes, and scanners   *)
(* hold tokens that are read without looking anything up.                  *)
(*                                                                         *)
(* EventOwnershipGuard runs before the handler, as a statement of its own; *)
(* between the two any other request may run.  The routes under            *)
(* /events/:eventId/ticket-types have that guard too, which looks at the   *)
(* event of the path: that the ticket type is one of that event is left    *)
(* to the handler's findFirst({ id, eventId }).                            *)
(*                                                                         *)
(* A guard compares `sub' of the token with an organizer's uuid, or the    *)
(* token's event with an event's; a token of the other kind matches none.  *)
(* No order is placed here; DELETE of a ticket type has the guard and the  *)
(* findFirst of PATCH, and is left to Sales.                               *)
(***************************************************************************)
EXTENDS Auth

CONSTANT RequestId   \* requests of organizers to edit the catalogue

VARIABLES caller,   \* the organizer that sends each request
          editPc,   \* what each request runs next
          eventId   \* the event of the path, for which the guard let it through

requestVars == <<caller, editPc, eventId>>
accessVars  == <<tables, removing, authVars, requestVars>>

AccessTypeOK ==
  /\ DatabaseTypeOK
  /\ CatalogTypeOK
  /\ AuthTypeOK
  /\ caller \in [RequestId -> SUBSET AccountId]
  /\ eventId \in [RequestId -> SUBSET EventId]
  /\ editPc \in [RequestId -> {"idle", "handler", "done", "refused"}]

AccessInit ==
  /\ DatabaseInit /\ CatalogInit /\ AuthInit
  /\ caller  = [q \in RequestId |-> {}]
  /\ editPc  = [q \in RequestId |-> "idle"]
  /\ eventId = [q \in RequestId |-> {}]

-----------------------------------------------------------------------------
(* JwtAuthGuard lets every organizer through, EventOwnershipGuard the      *)
(* owner of the event in the path.                                         *)

Owns(e, o) == e \in DOMAIN event /\ owner[e] = o

GuardEvent(q, o, e) ==
  /\ editPc[q] = "idle"
  /\ o \in DOMAIN organizer
  /\ \/ /\ Owns(e, o)
        /\ caller' = [caller EXCEPT ![q] = {o}]
        /\ eventId' = [eventId EXCEPT ![q] = {e}]
        /\ editPc' = [editPc EXCEPT ![q] = "handler"]
     \/ /\ ~ Owns(e, o)
        /\ editPc' = [editPc EXCEPT ![q] = "refused"]
        /\ UNCHANGED <<caller, eventId>>
  /\ UNCHANGED <<tables, removing, authVars>>

\* POST /events has no guard but authentication: the event is the caller's.
Create(q, o) ==
  /\ editPc[q] = "idle"
  /\ o \in DOMAIN organizer
  /\ "events.create" \in Routes
  /\ \E e \in EventId, dto \in EventDto :
       /\ CreateEvent(e, dto)
       /\ owner' = Insert(owner, Row(e, o))
  /\ caller' = [caller EXCEPT ![q] = {o}]
  /\ editPc' = [editPc EXCEPT ![q] = "done"]
  /\ UNCHANGED <<now, accountVars, sessionVars, eventId>>

\* Mutant: the schema does not delete sessions with their event.
KeepSessions(e) ==
  /\ owner' = Delete(owner, {e})
  /\ UNCHANGED <<now, accountVars, sessionVars>>

\* DELETE FROM "Event" cascades to the sessions of its scanners.
DropSessions(e) ==
  /\ owner' = Delete(owner, {e})
  /\ scannerSession' = Delete(scannerSession,
       {p \in DOMAIN scannerSession : scannerSession[p].event = e})
  /\ UNCHANGED <<now, accountVars, pairPc, pairing, loginPc, existing, accessToken>>

\* Mutant: findFirst({ id }).
OfAnyEvent(t, e) == t \in DOMAIN ticketType

\* findFirst({ id, eventId }) finds the ticket type.
OfEvent(t, e) == t \in DOMAIN ticketType /\ ticketType[t].event = e

\* The handler of the route called, after the guard.
Handle(q, e) ==
  /\ editPc[q] = "handler"
  /\ e \in eventId[q]
  /\ \/ /\ \/ "events.publish" \in Routes /\ Publish(e)
           \/ "events.cancel" \in Routes /\ CancelEvent(e)
           \/ /\ "events.update" \in Routes
              /\ \E dto \in EventDto, fields \in SUBSET EventField : UpdateEvent(e, dto, fields)
           \/ /\ "types.create" \in Routes
              /\ \E t \in TicketTypeId, dto \in TicketTypeDto : CreateTicketType(t, e, dto)
           \/ /\ "types.update" \in Routes
              /\ \E t \in TicketTypeId, dto \in TicketTypeDto, fields \in SUBSET TicketTypeField :
                   OfEvent(t, e) /\ UpdateTicketType(t, dto, fields)
           \* 404: the event or the ticket type is not there (any more).
           \/ /\ \/ e \notin DOMAIN event
                 \/ \E t \in TicketTypeId : ~ OfEvent(t, e)
              /\ UNCHANGED <<tables, removing>>
        /\ UNCHANGED authVars
     \/ "events.remove" \in Routes /\ RemoveEvent(e) /\ DropSessions(e)
  /\ editPc' = [editPc EXCEPT ![q] = "done"]
  /\ UNCHANGED <<caller, eventId>>

AccessNext ==
  \/ AuthNext /\ UNCHANGED <<tables, removing, requestVars>>
  \/ \E q \in RequestId :
       \/ \E o \in AccountId : Create(q, o)
       \/ \E o \in AccountId, e \in EventId : GuardEvent(q, o, e)
       \/ \E e \in EventId : Handle(q, e)

AccessSpec == AccessInit /\ [][AccessNext]_accessVars

-----------------------------------------------------------------------------
(* However registrations of one address race, it gets one organizer.  Only *)
(* the registration that made it is told it succeeded, unless the answer   *)
(* to that one is lost; and the one told that the address is taken is told *)
(* the truth.                                                              *)
OneAccount ==
  /\ \A a, b \in DOMAIN organizer : organizer[a].email = organizer[b].email => a = b
  /\ \A a \in AccountId :
       /\ regPc[a] = "done" => a \in DOMAIN organizer
       /\ a \in DOMAIN organizer =>
            regPc[a] = "done" \/ (MayAbort /\ regPc[a] = "failed")
       /\ regPc[a] = "conflict" => EmailTaken(a)

(* A scanner's token is honoured without a look at its session.  For as    *)
(* long as its event exists, a session stands behind it all the same: one  *)
(* of that event, spent, that the event's owner asked for.                 *)
TokensBacked ==
  \A l \in LoginId : \A k \in accessToken[l] :
    k.eventId \in DOMAIN event =>
      /\ k.sub \in DOMAIN scannerSession
      /\ scannerSession[k.sub].used
      /\ scannerSession[k.sub].event = k.eventId
      /\ scannerSession[k.sub].organizer = owner[k.eventId]

\* The rows that make up an event for its organizer.
Dossier(e) ==
  <<IF e \in DOMAIN event THEN <<event[e], owner[e]>> ELSE <<>>,
    Restrict(ticketType, TypesOf(e))>>

(* What an organizer has put down of an event is changed or deleted only   *)
(* by a request of that organizer, although the guard looks at the event   *)
(* and the handler, later, at the ticket type.                             *)
OwnersOnly ==
  [][\A e \in DOMAIN event :
       Dossier(e)' # Dossier(e) =>
         \E q \in RequestId : editPc'[q] # editPc[q] /\ caller[q] = {owner[e]}]_accessVars

(* A scanner that comes with a pairing token after another was answered    *)
(* with an access token for it is refused.                                 *)
NobodyPairsLater ==
  [][\A l, m \in LoginId :
       loginPc[l] = "done" /\ loginPc[m] = "idle" /\ loginPc'[m] = "scannerSession.update"
         => existing'[m] # existing[l]]_accessVars

-----------------------------------------------------------------------------
(* Statements of the code's own messages                                   *)

(* "Session Already Used": a session pairs one scanner.                    *)
PairedOnce ==
  \A l, m \in LoginId : accessToken[l] \cap accessToken[m] # {} => l = m
=============================================================================
