-------------------------- MODULE EventlyTheorems ---------------------------
(***************************************************************************)
(* The whole service implements Admission, for every set of requests,      *)
(* scanners, edits and organizers.                                         *)
(*                                                                         *)
(* The argument has two halves.  The door's handlers change a ticket's     *)
(* status and nothing else the orders depend on, so the invariant of Sales *)
(* is one of the whole system.  And entries agree with their tickets and   *)
(* with the request that made them (EntriesAgree), so that a check-in      *)
(* records an entry that is new and the deletion of an event takes exactly *)
(* the entries of the tickets it takes.                                    *)
(*                                                                         *)
(* GateInv then carries the gate of an entry, and RaceInv the races for a  *)
(* ticket: each request at the door holds one ticket (a code names one,    *)
(* and a sold ticket that vanished never comes back, for its order has     *)
(* answered), and whoever takes a ticket finds it ISSUED, which nobody who *)
(* won it before can have left.                                            *)
(***************************************************************************)
EXTENDS Evently, LedgerTheorems

EntriesAgree ==
  \A s \in DOMAIN checkIn :
    /\ scanPc[s] \in {"valid", "failed"}
    /\ checkIn[s].ticket \in DOMAIN ticket
    /\ checkIn[s].event = ticket[checkIn[s].ticket].event

SystemInv == IssuanceInv /\ TicketsTypeOK /\ EntriesAgree

-----------------------------------------------------------------------------
(* What the door's handlers leave alone.                                   *)
DoorFrame ==
  /\ UNCHANGED <<event, ticketType, order, orderItem, fresh, removing, requestVars>>
  /\ IsTable(ticket', TicketId, TicketRow)
  /\ IsTable(checkIn', ScanId, CheckInRow)
  /\ DOMAIN ticket' = DOMAIN ticket
  /\ \A u \in DOMAIN ticket : /\ ticket'[u].event = ticket[u].event
                              /\ ticket'[u].type = ticket[u].type

(* A door step that only marks tickets and records check-ins keeps the issuance
   invariant of the sales side. *)
LEMMA DoorFrameIssuance ==
  ASSUME IssuanceInv, DoorFrame
  PROVE  IssuanceInv'
<1>1. TypeInv'
  BY DEF DoorFrame, IssuanceInv, TypeInv, TypeOK, DatabaseTypeOK, CatalogTypeOK,
         OrdersTypeOK, IsTable, LinesOfCart, IsLine, requestVars
<1>2. \A o : ItemsOf(o)' = ItemsOf(o) /\ TicketsOf(o)' = TicketsOf(o)
  BY DEF DoorFrame, ItemsOf, TicketsOf
<1>3. Progress'
  BY <1>2 DEF DoorFrame, IssuanceInv, Progress, ProgressOf, requestVars
<1>4. IssuedInFull'
  BY <1>2 DEF DoorFrame, IssuanceInv, IssuedInFull
<1>5. RowsAgree' /\ ReferencesResolve'
  BY DEF DoorFrame, IssuanceInv, RowsAgree, ReferencesResolve, LineOf, requestVars
<1> QED BY <1>1, <1>3, <1>4, <1>5 DEF IssuanceInv

(* Nor does it touch an order, a line, a tier, or which tickets there are. *)
LEMMA DoorFrameLedger ==
  ASSUME IssuanceInv, LedgerInv, DoorFrame
  PROVE  LedgerInv'
<1>1. /\ UNCHANGED <<ticketType, order, orderItem, fresh, cart, pc, prices, lines, pending>>
      /\ DOMAIN ticket' = DOMAIN ticket
      /\ \A u \in DOMAIN ticket : ticket'[u].type = ticket[u].type
  BY DEF DoorFrame, requestVars
<1>2. \A o \in OrderId : SameWork(o) /\ SameRows(o)
  BY <1>1 DEF SameWork, SameRequest, SameRows, ItemsOf, TicketsOf
<1>3. \A o \in OrderId : LedgerOf(o)'
  BY <1>1, <1>2, LedgerKept DEF LedgerInv
<1>4. \A t : Counted(t)' = Counted(t)
  BY <1>1 DEF Counted, CountedOf, Counts, TicketsOf
<1>5. \A t \in DOMAIN ticketType' : SoldOf(t)'
  BY <1>1, <1>4 DEF LedgerInv, SoldOf
<1> QED BY <1>1, <1>3, <1>5 DEF LedgerInv

(* Steps of the door that write no table.                                  *)
LEMMA QuietDoor ==
  ASSUME SystemInv, UNCHANGED <<tables, removing, requestVars>>, TicketsTypeOK',
         \A s \in DOMAIN checkIn : scanPc'[s] \in {"valid", "failed"}
  PROVE  SystemInv'
<1>1. DoorFrame
  BY DEF DoorFrame, tables, SystemInv, IssuanceInv, TypeInv, TypeOK, DatabaseTypeOK
<1>2. IssuanceInv'
  BY <1>1, DoorFrameIssuance DEF SystemInv
<1>3. EntriesAgree'
  BY DEF SystemInv, EntriesAgree, tables
<1> QED BY <1>2, <1>3 DEF SystemInv

(* A step of a door request, or of the clock, that writes no table keeps the system invariant. *)
LEMMA DoorReads_Step ==
  ASSUME SystemInv, TicketsNext, UNCHANGED <<tables, removing, requestVars>>
  PROVE  SystemInv'
<1> USE DEF SystemInv, TicketsTypeOK, ScanStage, ScanInProgress, EditStage,
            EditInProgress
<1>1. DOMAIN ticket \subseteq TicketId /\ DOMAIN checkIn \subseteq ScanId
  BY DEF IssuanceInv, TypeInv, TypeOK, DatabaseTypeOK, IsTable
<1>2. \A s \in DOMAIN checkIn : scanPc[s] \in {"valid", "failed"}
  BY DEF EntriesAgree
<1>3. CASE Tick
  BY <1>2, <1>3, MaxTimeAssumption, QuietDoor DEF Tick, scanVars, editVars
<1>4. ASSUME NEW s \in ScanId, NEW found \in SUBSET DOMAIN ticket, FindTicket(s, found)
      PROVE  SystemInv'
  <2>1. /\ scanPc[s] = "idle"
        /\ claim' = [claim EXCEPT ![s] = found]
        /\ \/ found # {} /\ ScanTo(s, "event.findUnique")
           \/ ScanTo(s, "refused")
        /\ UNCHANGED <<now, gate, editVars>>
    BY <1>4 DEF FindTicket, Presentable
  <2>2. s \notin DOMAIN checkIn
    BY <1>2, <2>1
  <2>3. found \in SUBSET TicketId
    BY <1>1
  <2>4. claim' \in [ScanId -> SUBSET TicketId] /\ claim'[s] = found
    BY <2>1, <2>3
  <2>5. TicketsTypeOK'
    BY <2>1, <2>4 DEF ScanTo, editVars
  <2>6. \A z \in DOMAIN checkIn : scanPc'[z] \in {"valid", "failed"}
    BY <1>1, <1>2, <2>1, <2>2 DEF ScanTo
  <2> QED BY <2>5, <2>6, QuietDoor
<1>5. ASSUME NEW s \in ScanId, ScanStep(s) \/ AbortScan(s)
      PROVE  SystemInv'
  <2>1. /\ s \notin DOMAIN checkIn
        /\ \E stage \in {"ticket.updateMany", "refused", "valid", "conflict", "failed"} :
             ScanTo(s, stage)
        /\ claim[s] # {}
        /\ UNCHANGED <<now, gate, claim, editVars>>
    BY <1>2, <1>5 DEF ScanStep, FindEvent, CheckIn, Conflict, AbortScan
  <2> QED BY <1>2, <2>1, QuietDoor DEF ScanTo, editVars
<1>6. ASSUME NEW x \in EditId, NEW u \in DOMAIN ticket, FindOwner(x, u)
      PROVE  SystemInv'
  BY <1>1, <1>2, <1>6, QuietDoor DEF FindOwner, EditTo, scanVars
<1>7. ASSUME NEW x \in EditId, EditStep(x) \/ AbortEdit(x)
      PROVE  SystemInv'
  <2>1. \A u \in DOMAIN ticket : ticket[u].status \in TicketStatus
    BY DEF IssuanceInv, TypeInv, TypeOK, DatabaseTypeOK, IsTable, TicketRow
  <2>2. /\ \E stage \in EditStage : EditTo(x, stage)
        /\ \/ UNCHANGED reply
           \/ \E status \in TicketStatus \cup {"missing"} :
                reply' = [reply EXCEPT ![x] = status]
        /\ UNCHANGED <<now, scanVars, target, wanted>>
    BY <1>7, <2>1 DEF EditStep, Transition, Answer, AbortEdit
  <2> QED BY <1>2, <2>2, QuietDoor DEF EditTo, scanVars
<1> QED
  BY <1>3, <1>4, <1>5, <1>6, <1>7 DEF TicketsNext, ScanSignature, ScanCode

-----------------------------------------------------------------------------
(* The UPDATE of a ticket that stands, as the door's handlers share it.    *)
LEMMA SetStatusFrame ==
  ASSUME SystemInv, NEW u, NEW status \in TicketStatus, Stands(u), SetStatus(u, status)
  PROVE  /\ IsTable(ticket', TicketId, TicketRow)
         /\ DOMAIN ticket' = DOMAIN ticket
         /\ ticket'[u].status = status
         /\ \A v \in DOMAIN ticket : /\ ticket'[v].event = ticket[v].event
                                     /\ ticket'[v].type = ticket[v].type
                                     /\ ticket'[v].code = ticket[v].code
         /\ \A v \in DOMAIN ticket \ {u} : ticket'[v] = ticket[v]
<1>1. IsTable(ticket, TicketId, TicketRow)
  BY DEF SystemInv, IssuanceInv, TypeInv, TypeOK, DatabaseTypeOK
<1>2. u \in DOMAIN ticket /\ ticket[u] \in TicketRow
  BY <1>1 DEF Stands, IsTable
<1>3. ticket' = [ticket EXCEPT ![u] = [ticket[u] EXCEPT !.status = status]]
  BY <1>2 DEF SetStatus, TicketRow
<1>4. [ticket[u] EXCEPT !.status = status] \in TicketRow
  BY <1>2 DEF TicketRow
<1> QED BY <1>1, <1>2, <1>3, <1>4 DEF IsTable, TicketRow

(* A check-in that takes its ticket records a new entry for it.            *)
LEMMA CheckIn_Step ==
  ASSUME SystemInv, UNCHANGED <<removing, requestVars>>, NEW s \in ScanId,
         NEW u, CheckIn(s, u), Stands(u)
  PROVE  SystemInv' /\ Admission!Admit(s, u)
<1> DEFINE entry == [ticket |-> u, event |-> ticket[u].event]
<1>1. /\ scanPc[s] = "ticket.updateMany"
      /\ SetStatus(u, "USED")
      /\ checkIn' = Insert(checkIn, Row(s, entry))
      /\ ScanTo(s, "valid") \/ ScanTo(s, "failed")
      /\ UNCHANGED <<event, ticketType, order, orderItem, fresh, now, gate, claim,
                     editVars>>
  BY DEF CheckIn, RecordEntry
<1>2. /\ IsTable(ticket, TicketId, TicketRow)
      /\ IsTable(checkIn, ScanId, CheckInRow)
  BY DEF SystemInv, IssuanceInv, TypeInv, TypeOK, DatabaseTypeOK
<1>3. /\ u \in DOMAIN ticket /\ u \in TicketId
      /\ ticket[u].status = "ISSUED" /\ ticket[u].event \in EventId
  BY <1>2 DEF Stands, IsTable, TicketRow
<1>4. entry \in CheckInRow
  BY <1>3 DEF CheckInRow
<1>5. IsTable(Row(s, entry), ScanId, CheckInRow)
  BY <1>4, RowTable
<1>6. IsTable(checkIn', ScanId, CheckInRow)
  BY <1>1, <1>2, <1>5, InsertTable
<1>7. /\ DOMAIN checkIn' = DOMAIN checkIn \cup {s}
      /\ checkIn'[s].ticket = u /\ checkIn'[s].event = ticket[u].event
      /\ \A z \in DOMAIN checkIn \ {s} : checkIn'[z] = checkIn[z]
  BY <1>1 DEF Insert, Row
<1> HIDE DEF entry
<1>8. /\ IsTable(ticket', TicketId, TicketRow)
      /\ DOMAIN ticket' = DOMAIN ticket
      /\ ticket'[u].status = "USED"
      /\ \A v \in DOMAIN ticket : /\ ticket'[v].event = ticket[v].event
                                  /\ ticket'[v].type = ticket[v].type
      /\ \A v \in DOMAIN ticket \ {u} : ticket'[v] = ticket[v]
  BY <1>1, SetStatusFrame DEF TicketStatus
<1>9. s \notin DOMAIN checkIn
  BY <1>1 DEF SystemInv, EntriesAgree
<1>10. IssuanceInv'
  <2>1. DoorFrame
    BY <1>1, <1>6, <1>8 DEF DoorFrame
  <2> QED BY <2>1, DoorFrameIssuance DEF SystemInv
<1>11. TicketsTypeOK'
  BY <1>1 DEF SystemInv, TicketsTypeOK, ScanTo, ScanStage, ScanInProgress, editVars
<1>12. EntriesAgree'
  <2>1. scanPc'[s] \in {"valid", "failed"}
    BY <1>1 DEF ScanTo, SystemInv, TicketsTypeOK
  <2>2. \A z \in DOMAIN checkIn : z \in ScanId /\ scanPc'[z] = scanPc[z]
    BY <1>1, <1>2, <1>9 DEF ScanTo, SystemInv, TicketsTypeOK, IsTable
  <2> QED BY <1>3, <1>7, <1>8, <1>9, <2>1, <2>2 DEF SystemInv, EntriesAgree
<1>13. Admission!Admit(s, u)
  <2>1. Admission!Decide(u, "USED")
    BY <1>3, <1>8 DEF Admission!Decide
  <2> QED BY <1>7, <1>9, <2>1 DEF Admission!Admit
<1> QED BY <1>10, <1>11, <1>12, <1>13 DEF SystemInv

(* A cancel or a refund that takes its ticket annuls it.                   *)
LEMMA Transition_Step ==
  ASSUME SystemInv, UNCHANGED <<removing, requestVars>>, NEW x \in EditId,
         NEW u, Transition(x, u), Stands(u)
  PROVE  SystemInv' /\ Admission!Annul(u, wanted[x])
<1>1. /\ SetStatus(u, wanted[x])
      /\ EditTo(x, "answer.updated")
      /\ UNCHANGED <<event, ticketType, order, orderItem, checkIn, fresh, now,
                     scanVars, target, wanted, reply>>
  BY DEF Transition
<1>2. /\ wanted[x] \in {"CANCELLED", "REFUNDED"}
      /\ IsTable(checkIn, ScanId, CheckInRow)
  BY DEF SystemInv, TicketsTypeOK, IssuanceInv, TypeInv, TypeOK, DatabaseTypeOK
<1>3. /\ IsTable(ticket', TicketId, TicketRow)
      /\ DOMAIN ticket' = DOMAIN ticket
      /\ ticket'[u].status = wanted[x]
      /\ \A v \in DOMAIN ticket : /\ ticket'[v].event = ticket[v].event
                                  /\ ticket'[v].type = ticket[v].type
      /\ \A v \in DOMAIN ticket \ {u} : ticket'[v] = ticket[v]
  BY <1>1, <1>2, SetStatusFrame DEF TicketStatus
<1>4. IssuanceInv'
  <2>1. DoorFrame
    BY <1>1, <1>2, <1>3 DEF DoorFrame
  <2> QED BY <2>1, DoorFrameIssuance DEF SystemInv
<1>5. TicketsTypeOK'
  BY <1>1 DEF SystemInv, TicketsTypeOK, EditTo, EditStage, EditInProgress, scanVars
<1>6. EntriesAgree'
  BY <1>1, <1>3 DEF SystemInv, EntriesAgree, scanVars
<1>7. Admission!Annul(u, wanted[x])
  <2>1. Admission!Decide(u, wanted[x])
    BY <1>3 DEF Admission!Decide, Stands
  <2> QED BY <1>1, <2>1 DEF Admission!Annul
<1> QED BY <1>4, <1>5, <1>6, <1>7 DEF SystemInv

-----------------------------------------------------------------------------
(* What a step of Sales does to the tickets: it issues some, or deletes    *)
(* those of an event, or does nothing.                                     *)
TicketsIssued ==
  /\ UNCHANGED checkIn
  /\ DOMAIN ticket \subseteq DOMAIN ticket'
  /\ \A u \in DOMAIN ticket : ticket'[u] = ticket[u]
  /\ \A u \in DOMAIN ticket' \ DOMAIN ticket : ticket'[u].status = "ISSUED"
  /\ \E r \in OrderId :
       /\ TicketsOf(r) = {} /\ pc[r] = "ticket.createMany"
       /\ \A u \in DOMAIN ticket' \ DOMAIN ticket : u.order = r
  /\ \A u \in DOMAIN ticket' \ DOMAIN ticket : \A v \in DOMAIN ticket' \ {u} :
       ticket'[u].event = ticket'[v].event => ticket'[u].code # ticket'[v].code

EventDeleted == \E e \in DOMAIN event : EventDeletable(e) /\ DeleteEvent(e)

(* An edit of the catalogue other than a deletion writes no order, line,
   ticket or check-in (events.service.ts, ticket-types.service.ts). *)
LEMMA EditsKeepRows ==
  ASSUME CatalogNext
  PROVE  UNCHANGED <<order, orderItem, ticket, checkIn>> \/ EventDeleted
<1>1. CASE TicketTypesNext
  BY <1>1 DEF TicketTypesNext, CreateTicketType, UpdateTicketType, CheckRemoval,
              RemoveTicketType, tables
<1>2. ASSUME NEW e \in EventId, RemoveEvent(e)
      PROVE  EventDeleted
  BY <1>2 DEF RemoveEvent, EventDeleted
<1>3. ASSUME NEW e \in EventId,
             \/ \E dto \in EventDto : CreateEvent(e, dto)
             \/ \E dto \in EventDto, fields \in SUBSET EventField : UpdateEvent(e, dto, fields)
             \/ Publish(e) \/ CancelEvent(e)
      PROVE  UNCHANGED <<order, orderItem, ticket, checkIn>>
  BY <1>3 DEF CreateEvent, UpdateEvent, Publish, CancelEvent
<1>4. CASE EventsNext
  BY <1>2, <1>3, <1>4 DEF EventsNext
<1> QED BY <1>1, <1>4 DEF CatalogNext

(* A step of the sales side leaves the tickets and check-ins alone, issues the
   tickets of one order, or deletes an event with its tickets
   (orders.service.ts, events.service.ts). *)
LEMMA SalesTickets ==
  ASSUME IssuanceInv, Next
  PROVE  UNCHANGED <<ticket, checkIn>> \/ TicketsIssued \/ EventDeleted
<1>1. CASE CatalogNext
  BY <1>1, EditsKeepRows
<1>2. ASSUME NEW r \in OrderId, CreateTickets(r)
      PROVE  UNCHANGED <<ticket, checkIn>> \/ TicketsIssued
  <2>1. CASE Throw(r)
    BY <2>1 DEF Throw, tables
  <2>2. CASE ~ Throw(r)
    <3>1. PICK rows :
            /\ DOMAIN rows = Units(lines[r])
            /\ \A u \in DOMAIN rows : rows[u].status = "ISSUED"
            /\ CodesUnique(rows)
            /\ ticket' = Insert(ticket, rows)
            /\ UNCHANGED checkIn
      <4> DEFINE stored(codes) ==
                   [u \in DOMAIN codes |->
                      [event   |-> cart[r].event,
                       type    |-> lines[r][LineOf(u)].type,
                       code    |-> codes[u],
                       answers |-> MatchedAnswers(cart[r], lines[r][LineOf(u)].type),
                       status  |-> "ISSUED"]]
      <4>1. PICK codes \in [Units(lines[r]) -> Code] :
              /\ CodesUnique(stored(codes))
              /\ ticket' = Insert(ticket, stored(codes))
              /\ UNCHANGED checkIn
        BY <1>2, <2>2 DEF CreateTickets
      <4>2. /\ DOMAIN stored(codes) = Units(lines[r])
            /\ \A u \in DOMAIN stored(codes) : stored(codes)[u].status = "ISSUED"
        OBVIOUS
      <4> HIDE DEF stored
      <4> QED BY <4>1, <4>2
    <3>2. TicketsOf(r) = {} /\ pc[r] = "ticket.createMany"
      BY <1>2 DEF CreateTickets, IssuanceInv, Progress, ProgressOf
    <3>3. \A u \in Units(lines[r]) : u.order = r
      BY <3>2, UnitsOfLines DEF IssuanceInv
    <3>4. \A u \in Units(lines[r]) : u \notin DOMAIN ticket
      BY <3>2, <3>3 DEF TicketsOf
    <3>5. /\ DOMAIN ticket' = DOMAIN ticket \cup Units(lines[r])
          /\ \A u \in DOMAIN ticket : ticket'[u] = ticket[u]
          /\ \A u \in Units(lines[r]) : ticket'[u] = rows[u]
      BY <3>1, <3>4 DEF Insert
    <3>6. \A u \in DOMAIN ticket' \ DOMAIN ticket : \A v \in DOMAIN ticket' \ {u} :
            ticket'[u].event = ticket'[v].event => ticket'[u].code # ticket'[v].code
      BY <3>1, <3>5 DEF CodesUnique
    <3> QED BY <3>1, <3>2, <3>3, <3>5, <3>6 DEF TicketsIssued
  <2> QED BY <2>1, <2>2
<1>3. ASSUME NEW r \in OrderId, NEW i, IncrementSold(r, i)
      PROVE  UNCHANGED <<ticket, checkIn>>
  BY <1>3 DEF IncrementSold, tables
<1>4. ASSUME NEW r \in OrderId, Step(r) \/ Abort(r)
      PROVE  UNCHANGED <<ticket, checkIn>> \/ TicketsIssued
  BY <1>2, <1>3, <1>4
  DEF Step, RefuseMethod, FindTicketTypes, CreateOrder, CreateOrderItems, MarkPaid,
      FindOrder, FindOrderItems, Abort, Throw, tables
<1> QED BY <1>1, <1>4 DEF Next, OrdersNext

(* The deletion of an event takes its tickets, and of the entries exactly  *)
(* those of these tickets.                                                 *)
LEMMA EventDeletedTickets ==
  ASSUME SystemInv, EventDeleted
  PROVE  \E gone \in SUBSET DOMAIN ticket :
           /\ DOMAIN ticket' = DOMAIN ticket \ gone
           /\ \A u \in DOMAIN ticket' : ticket'[u] = ticket[u]
           /\ DOMAIN checkIn' = {s \in DOMAIN checkIn : checkIn[s].ticket \notin gone}
           /\ \A s \in DOMAIN checkIn' : checkIn'[s] = checkIn[s]
<1>1. PICK e \in DOMAIN event : DeleteEvent(e)
  BY DEF EventDeleted
<1> DEFINE gone == {u \in DOMAIN ticket : ticket[u].event = e \/ u.order \in OrdersOf(e)}
<1>2. /\ DOMAIN ticket' = DOMAIN ticket \ gone
      /\ \A u \in DOMAIN ticket' : ticket'[u] = ticket[u]
      /\ DOMAIN checkIn' = {s \in DOMAIN checkIn :
                              checkIn[s].event # e /\ checkIn[s].ticket \notin gone}
      /\ \A s \in DOMAIN checkIn' : checkIn'[s] = checkIn[s]
  BY <1>1 DEF DeleteEvent, Delete, Restrict
<1>3. \A s \in DOMAIN checkIn : checkIn[s].event = e => checkIn[s].ticket \in gone
  BY DEF SystemInv, EntriesAgree
<1>4. gone \in SUBSET DOMAIN ticket
  OBVIOUS
<1> HIDE DEF gone
<1> QED BY <1>2, <1>3, <1>4

(* A step of the sales side keeps the whole system invariant. *)
LEMMA Sales_Step ==
  ASSUME SystemInv, Next, UNCHANGED doorVars
  PROVE  SystemInv'
<1>1. IssuanceInv'
  BY IssuanceInv_Step DEF SystemInv
<1>2. TicketsTypeOK'
  BY DEF SystemInv, TicketsTypeOK, doorVars, scanVars, editVars
<1>3. UNCHANGED scanPc
  BY DEF doorVars, scanVars
<1>4. EntriesAgree'
  <2>1. CASE UNCHANGED <<ticket, checkIn>>
    BY <1>3, <2>1 DEF SystemInv, EntriesAgree
  <2>2. CASE TicketsIssued
    BY <1>3, <2>2 DEF SystemInv, EntriesAgree, TicketsIssued
  <2>3. CASE EventDeleted
    BY <1>3, <2>3, EventDeletedTickets DEF SystemInv, EntriesAgree
  <2> QED BY <2>1, <2>2, <2>3, SalesTickets DEF SystemInv
<1> QED BY <1>1, <1>2, <1>4 DEF SystemInv

(* Every step of the door is a new entry, an annulment, or writes nothing. *)
LEMMA DoorCases ==
  ASSUME SystemInv, TicketsNext, UNCHANGED <<removing, requestVars>>
  PROVE  \/ UNCHANGED tables
         \/ \E s \in ScanId : \E u : CheckIn(s, u) /\ Stands(u)
         \/ \E x \in EditId : \E u : Transition(x, u) /\ Stands(u)
<1>1. CASE Tick
  BY <1>1 DEF Tick
<1>2. ASSUME NEW s \in ScanId,
             \/ \E u \in DOMAIN ticket : ScanSignature(s, u)
             \/ \E c \in Code : ScanCode(s, c)
             \/ \E u \in claim[s] : FindEvent(s, u)
             \/ AbortScan(s)
      PROVE  UNCHANGED tables
  BY <1>2 DEF ScanSignature, ScanCode, FindTicket, FindEvent, AbortScan
<1>3. ASSUME NEW s \in ScanId, NEW u \in claim[s], CheckIn(s, u)
      PROVE  UNCHANGED tables \/ (CheckIn(s, u) /\ Stands(u))
  BY <1>3 DEF CheckIn, Conflict, tables
<1>4. ASSUME NEW x \in EditId,
             \/ \E u \in DOMAIN ticket : FindOwner(x, u)
             \/ \E u \in target[x] : Answer(x, u)
             \/ AbortEdit(x)
      PROVE  UNCHANGED tables
  BY <1>4 DEF FindOwner, Answer, AbortEdit
<1>5. ASSUME NEW x \in EditId, NEW u \in target[x], Transition(x, u)
      PROVE  UNCHANGED tables \/ (Transition(x, u) /\ Stands(u))
  BY <1>5 DEF Transition, tables
<1> QED BY <1>1, <1>2, <1>3, <1>4, <1>5 DEF TicketsNext, ScanStep, EditStep

(* So every step of the door stays within the door's frame.                *)
LEMMA DoorFrames ==
  ASSUME SystemInv, TicketsNext, UNCHANGED <<removing, requestVars>>
  PROVE  DoorFrame
<1>1. /\ IsTable(ticket, TicketId, TicketRow)
      /\ IsTable(checkIn, ScanId, CheckInRow)
  BY DEF SystemInv, IssuanceInv, TypeInv, TypeOK, DatabaseTypeOK
<1>2. CASE UNCHANGED tables
  BY <1>1, <1>2 DEF DoorFrame, tables
<1>3. ASSUME NEW s \in ScanId, NEW u, CheckIn(s, u), Stands(u)
      PROVE  DoorFrame
  <2>1. /\ SetStatus(u, "USED")
        /\ UNCHANGED <<event, ticketType, order, orderItem, fresh>>
    BY <1>3 DEF CheckIn
  <2>2. IsTable(checkIn', ScanId, CheckInRow)
    BY <1>3, CheckIn_Step DEF SystemInv, IssuanceInv, TypeInv, TypeOK, DatabaseTypeOK
  <2> QED BY <1>3, <2>1, <2>2, SetStatusFrame DEF DoorFrame, TicketStatus
<1>4. ASSUME NEW x \in EditId, NEW u, Transition(x, u), Stands(u)
      PROVE  DoorFrame
  <2>1. /\ SetStatus(u, wanted[x]) /\ wanted[x] \in TicketStatus
        /\ UNCHANGED <<event, ticketType, order, orderItem, fresh, checkIn>>
    BY <1>4 DEF Transition, SystemInv, TicketsTypeOK, TicketStatus
  <2> QED BY <1>1, <1>4, <2>1, SetStatusFrame DEF DoorFrame
<1> QED BY <1>2, <1>3, <1>4, DoorCases

(* The system invariant holds before the first request. *)
LEMMA SystemInv_Init == SystemInit => SystemInv
<1>1. TicketsInit => TicketsTypeOK
  BY MaxTimeAssumption DEF TicketsInit, TicketsTypeOK, ScanStage, ScanInProgress, EditStage,
         EditInProgress
<1>2. Init => EntriesAgree
  BY DEF Init, DatabaseInit, EntriesAgree
<1> QED BY <1>1, <1>2, IssuanceInv_Init DEF SystemInit, SystemInv

(* Every step of the sales side, of the doors and of the removals keeps the
   system invariant. *)
LEMMA SystemInv_Step == SystemInv /\ [SystemNext]_systemVars => SystemInv'
<1> SUFFICES ASSUME SystemInv, [SystemNext]_systemVars PROVE SystemInv'
  OBVIOUS
<1>1. CASE UNCHANGED systemVars
  <2>1. IssuanceInv'
    BY <1>1, IssuanceInv_Step DEF systemVars, SystemInv
  <2> QED
    BY <1>1, <2>1 DEF systemVars, vars, tables, doorVars, scanVars, editVars,
                      SystemInv, TicketsTypeOK, EntriesAgree
<1>2. CASE Next /\ UNCHANGED doorVars
  BY <1>2, Sales_Step
<1>3. CASE TicketsNext /\ UNCHANGED <<removing, requestVars>>
  <2>1. CASE UNCHANGED tables
    BY <1>3, <2>1, DoorReads_Step
  <2>2. ASSUME NEW s \in ScanId, NEW u, CheckIn(s, u), Stands(u)
        PROVE  SystemInv'
    BY <1>3, <2>2, CheckIn_Step
  <2>3. ASSUME NEW x \in EditId, NEW u, Transition(x, u), Stands(u)
        PROVE  SystemInv'
    BY <1>3, <2>3, Transition_Step
  <2> QED BY <1>3, <2>1, <2>2, <2>3, DoorCases
<1> QED BY <1>1, <1>2, <1>3 DEF SystemNext

(* The system invariant holds in every reachable state. *)
LEMMA SystemInvariant == SystemSpec => []SystemInv
  BY SystemInv_Init, SystemInv_Step, PTL DEF SystemSpec

(* The ledger of the orders is kept whatever happens at the door.          *)
LEMMA SystemLedger == SystemSpec => []LedgerInv
<1>1. SystemInit => LedgerInv
  BY LedgerInv_Init DEF SystemInit
<1>2. SystemInv /\ LedgerInv /\ [SystemNext]_systemVars => LedgerInv'
  <2> SUFFICES ASSUME SystemInv, LedgerInv, [SystemNext]_systemVars PROVE LedgerInv'
    OBVIOUS
  <2>1. CASE [Next]_vars
    BY <2>1, LedgerInv_Step DEF SystemInv
  <2>2. CASE TicketsNext /\ UNCHANGED <<removing, requestVars>>
    BY <2>2, DoorFrames, DoorFrameLedger DEF SystemInv
  <2> QED BY <2>1, <2>2 DEF SystemNext, systemVars
<1> QED BY <1>1, <1>2, SystemInvariant, PTL DEF SystemSpec

(* What Sales promises of orders holds in the whole service: check-ins,    *)
(* cancels and refunds of tickets take nothing from it.                    *)
THEOREM SystemKeepsBooks ==
  SystemSpec => [](/\ IssuedInFull /\ AnswerMatchesTables
                   /\ TotalMatchesLines /\ SoldCoversTickets)
<1>1. SystemInv => IssuanceInv /\ IssuedInFull
  BY DEF SystemInv, IssuanceInv
<1> QED
  BY <1>1, SystemInvariant, SystemLedger, IssuanceAnswers, LedgerTotals, LedgerCovers, PTL

-----------------------------------------------------------------------------
(* The empty system is an empty hall of the abstract specification. *)
LEMMA AdmissionInit == SystemInit => Admission!AInit
  BY DEF SystemInit, Init, DatabaseInit, Admission!AInit

(* Every step of the system is a step of the abstract admission desk, or one
   it does not see. *)
LEMMA AdmissionStep ==
  SystemInv /\ SystemInv' /\ [SystemNext]_systemVars
    => [Admission!ANext]_Admission!avars
<1> SUFFICES ASSUME SystemInv, SystemInv', [SystemNext]_systemVars
             PROVE  [Admission!ANext]_Admission!avars
  OBVIOUS
<1>1. ASSUME UNCHANGED <<ticket, checkIn>>
      PROVE  UNCHANGED Admission!avars
  BY <1>1 DEF Admission!avars
<1>2. CASE UNCHANGED systemVars
  BY <1>1, <1>2 DEF systemVars, vars, tables
<1>3. CASE Next
  <2>1. CASE TicketsIssued
    <3>1. DOMAIN ticket' \subseteq TicketId
      BY DEF SystemInv, IssuanceInv, TypeInv, TypeOK, DatabaseTypeOK, IsTable
    <3>2. Admission!Issue
      BY <2>1, <3>1 DEF TicketsIssued, Admission!Issue
    <3> QED BY <3>2 DEF Admission!ANext
  <2>2. CASE EventDeleted
    <3>1. PICK gone \in SUBSET DOMAIN ticket :
           /\ DOMAIN ticket' = DOMAIN ticket \ gone
           /\ \A u \in DOMAIN ticket' : ticket'[u] = ticket[u]
           /\ DOMAIN checkIn' = {s \in DOMAIN checkIn : checkIn[s].ticket \notin gone}
           /\ \A s \in DOMAIN checkIn' : checkIn'[s] = checkIn[s]
      BY <2>2, EventDeletedTickets
    <3>2. Admission!Withdraw(gone)
      BY <3>1 DEF Admission!Withdraw, Admission!Restrict
    <3> QED BY <3>2 DEF Admission!ANext
  <2> QED BY <1>1, <1>3, <2>1, <2>2, SalesTickets DEF SystemInv
<1>4. CASE TicketsNext /\ UNCHANGED <<removing, requestVars>>
  <2>1. CASE UNCHANGED tables
    BY <1>1, <2>1 DEF tables
  <2>2. ASSUME NEW s \in ScanId, NEW u, CheckIn(s, u), Stands(u)
        PROVE  Admission!ANext
    BY <1>4, <2>2, CheckIn_Step DEF Admission!ANext, Stands
  <2>3. ASSUME NEW x \in EditId, NEW u, Transition(x, u), Stands(u)
        PROVE  Admission!ANext
    <3>1. wanted[x] \in Admission!Void
      BY DEF SystemInv, TicketsTypeOK, Admission!Void
    <3> QED BY <1>4, <2>3, <3>1, Transition_Step DEF Admission!ANext, Stands
  <2> QED BY <1>4, <2>1, <2>2, <2>3, DoorCases
<1> QED BY <1>2, <1>3, <1>4 DEF SystemNext

(* The service, with all its handlers interleaved, stopped half way and    *)
(* repeated, implements tickets that are issued once, decided once and     *)
(* admit once.                                                             *)
THEOREM EventlyImplementsAdmission == SystemSpec => ImplementsAdmission
<1>1. SystemInv /\ SystemInv' /\ [SystemNext]_systemVars
        => [Admission!ANext]_Admission!avars
  BY AdmissionStep
<1> QED
  BY <1>1, AdmissionInit, SystemInvariant, PTL
  DEF SystemSpec, ImplementsAdmission, Admission!ASpec

(* Admission!OneEntryPerUsedTicket, of the rows; and the entries are not   *)
(* infinitely many.                                                        *)
EntriesInv ==
  /\ \A s, z \in DOMAIN checkIn : checkIn[s].ticket = checkIn[z].ticket => s = z
  /\ \A u \in DOMAIN ticket :
       ticket[u].status = "USED" <=> \E s \in DOMAIN checkIn : checkIn[s].ticket = u
  /\ IsFiniteSet(DOMAIN checkIn)

(* No check-in is recorded before the first request. *)
LEMMA EntriesInv_Init == SystemInit => EntriesInv
<1> SUFFICES ASSUME SystemInit PROVE EntriesInv
  OBVIOUS
<1>1. DOMAIN ticket = {} /\ DOMAIN checkIn = {}
  BY DEF SystemInit, Init, DatabaseInit
<1> QED BY <1>1, FS_EmptySet DEF EntriesInv

(* A check-in finds its ticket ISSUED, so no entry was recorded for it; a  *)
(* cancel or a refund does too; and tickets go with their entries.         *)
LEMMA EntriesInv_Step ==
  SystemInv /\ EntriesInv /\ [SystemNext]_systemVars => EntriesInv'
<1> SUFFICES ASSUME SystemInv, EntriesInv, [SystemNext]_systemVars
             PROVE  EntriesInv'
  OBVIOUS
<1> USE DEF EntriesInv
<1>1. \A s \in DOMAIN checkIn : checkIn[s].ticket \in DOMAIN ticket
  BY DEF SystemInv, EntriesAgree
<1>2. CASE UNCHANGED <<ticket, checkIn>>
  BY <1>2
<1>3. CASE TicketsIssued
  <2>1. /\ UNCHANGED checkIn
        /\ \A u \in DOMAIN ticket : u \in DOMAIN ticket' /\ ticket'[u] = ticket[u]
        /\ \A u \in DOMAIN ticket' \ DOMAIN ticket : ticket'[u].status = "ISSUED"
    BY <1>3 DEF TicketsIssued
  <2> QED BY <1>1, <2>1
<1>4. CASE EventDeleted
  <2>1. PICK gone \in SUBSET DOMAIN ticket :
           /\ DOMAIN ticket' = DOMAIN ticket \ gone
           /\ \A u \in DOMAIN ticket' : ticket'[u] = ticket[u]
           /\ DOMAIN checkIn' = {s \in DOMAIN checkIn : checkIn[s].ticket \notin gone}
           /\ \A s \in DOMAIN checkIn' : checkIn'[s] = checkIn[s]
    BY <1>4, EventDeletedTickets
  <2>2. IsFiniteSet({s \in DOMAIN checkIn : checkIn[s].ticket \notin gone})
    BY FS_Subset
  <2> QED BY <2>1, <2>2
<1>5. ASSUME NEW s \in ScanId, NEW u, CheckIn(s, u), Stands(u)
      PROVE  EntriesInv'
  <2>1. SetStatus(u, "USED") /\ RecordEntry(s, u) /\ scanPc[s] = "ticket.updateMany"
    BY <1>5 DEF CheckIn
  <2>2. /\ DOMAIN ticket' = DOMAIN ticket
        /\ ticket'[u].status = "USED"
        /\ \A v \in DOMAIN ticket \ {u} : ticket'[v] = ticket[v]
    BY <1>5, <2>1, SetStatusFrame DEF TicketStatus
  <2>3. /\ DOMAIN checkIn' = DOMAIN checkIn \cup {s}
        /\ checkIn'[s].ticket = u
        /\ \A z \in DOMAIN checkIn \ {s} : checkIn'[z] = checkIn[z]
    BY <2>1 DEF RecordEntry, Insert, Row
  <2>4. s \notin DOMAIN checkIn
    BY <2>1 DEF SystemInv, EntriesAgree
  <2>5. u \in DOMAIN ticket /\ \A z \in DOMAIN checkIn : checkIn[z].ticket # u
    BY <1>5 DEF Stands
  <2>6. IsFiniteSet(DOMAIN checkIn \cup {s})
    BY FS_AddElement
  <2> QED BY <2>2, <2>3, <2>4, <2>5, <2>6
<1>6. ASSUME NEW x \in EditId, NEW u, Transition(x, u), Stands(u)
      PROVE  EntriesInv'
  <2>1. /\ SetStatus(u, wanted[x]) /\ UNCHANGED checkIn
        /\ wanted[x] \in {"CANCELLED", "REFUNDED"}
    BY <1>6 DEF Transition, SystemInv, TicketsTypeOK
  <2>2. /\ DOMAIN ticket' = DOMAIN ticket
        /\ ticket'[u].status # "USED"
        /\ \A v \in DOMAIN ticket \ {u} : ticket'[v] = ticket[v]
    BY <1>6, <2>1, SetStatusFrame DEF TicketStatus
  <2>3. u \in DOMAIN ticket /\ \A z \in DOMAIN checkIn : checkIn[z].ticket # u
    BY <1>6 DEF Stands
  <2> QED BY <2>1, <2>2, <2>3
<1>7. CASE UNCHANGED systemVars
  BY <1>2, <1>7 DEF systemVars, vars, tables
<1>8. CASE Next
  BY <1>2, <1>3, <1>4, <1>8, SalesTickets DEF SystemInv
<1>9. CASE TicketsNext /\ UNCHANGED <<removing, requestVars>>
  <2>1. \/ UNCHANGED <<ticket, checkIn>>
        \/ \E s \in ScanId : \E u : CheckIn(s, u) /\ Stands(u)
        \/ \E x \in EditId : \E u : Transition(x, u) /\ Stands(u)
    BY <1>9, DoorCases DEF tables
  <2> QED BY <1>2, <1>5, <1>6, <2>1
<1> QED BY <1>7, <1>8, <1>9 DEF SystemNext

(* So in every reachable state the rows agree. *)
LEMMA EntriesInvariant == SystemSpec => []EntriesInv
  BY EntriesInv_Init, EntriesInv_Step, SystemInvariant, PTL DEF SystemSpec

(* However scans race, are repeated or are cut off after marking a ticket, *)
(* every used ticket has its one entry in "CheckIn" and no other ticket    *)
(* has any.                                                                *)
THEOREM OneEntryEach == SystemSpec => []Admission!OneEntryPerUsedTicket
<1>1. EntriesInv => Admission!OneEntryPerUsedTicket
  <2> DEFINE st == [u \in DOMAIN ticket |-> ticket[u].status]
             ad == [s \in DOMAIN checkIn |-> checkIn[s].ticket]
  <2>1. /\ DOMAIN st = DOMAIN ticket /\ DOMAIN ad = DOMAIN checkIn
        /\ \A u \in DOMAIN ticket : st[u] = ticket[u].status
        /\ \A s \in DOMAIN checkIn : ad[s] = checkIn[s].ticket
    OBVIOUS
  <2>2. Admission!OneEntryPerUsedTicket <=>
          /\ \A s, z \in DOMAIN ad : ad[s] = ad[z] => s = z
          /\ \A u \in DOMAIN st : st[u] = "USED" <=> \E s \in DOMAIN ad : ad[s] = u
    BY DEF Admission!OneEntryPerUsedTicket
  <2> HIDE DEF st, ad
  <2> QED BY <2>1, <2>2 DEF EntriesInv
<1> QED BY <1>1, EntriesInvariant, PTL

(* The handlers of the door keep to their types.                           *)
THEOREM DoorTypeOK == SystemSpec => []TicketsTypeOK
<1>1. SystemInv => TicketsTypeOK
  BY DEF SystemInv
<1> QED BY <1>1, SystemInvariant, PTL

(* No row, of an entry either, refers to a row that is gone, in the whole  *)
(* system.                                                                 *)
THEOREM NoDanglingReferenceAtAll == SystemSpec => []AllReferencesResolve
<1>1. SystemInv => AllReferencesResolve
  BY DEF SystemInv, IssuanceInv, EntriesAgree, AllReferencesResolve,
         ReferencesResolve
<1> QED BY <1>1, SystemInvariant, PTL

-----------------------------------------------------------------------------
(* A request has found tickets of orders for the event of its gate only,   *)
(* and its entry is for one of them.                                       *)
GateInv ==
  /\ \A s \in ScanId : \A u \in claim[s] : cart[u.order].event = gate[s]
  /\ \A s \in DOMAIN checkIn : checkIn[s].ticket \in claim[s]

(* Before the first scan every entry was granted at its own gate. *)
LEMMA GateInv_Init == SystemInit => GateInv
  BY DEF SystemInit, Init, DatabaseInit, TicketsInit, GateInv

(* A request body never changes.                                           *)
LEMMA CartKept ==
  ASSUME Next
  PROVE  UNCHANGED cart
<1>1. ASSUME NEW r \in OrderId, CreateTickets(r) \/ \E i : IncrementSold(r, i)
      PROVE  UNCHANGED cart
  BY <1>1 DEF CreateTickets, IncrementSold, Throw
<1>2. ASSUME NEW r \in OrderId, Step(r) \/ Abort(r)
      PROVE  UNCHANGED cart
  BY <1>1, <1>2
  DEF Step, RefuseMethod, FindTicketTypes, CreateOrder, CreateOrderItems, MarkPaid,
      FindOrder, FindOrderItems, Abort, Throw
<1> QED BY <1>2 DEF Next, OrdersNext, requestVars

(* No step grants an entry at another event's gate. *)
LEMMA GateInv_Step ==
  SystemInv /\ GateInv /\ [SystemNext]_systemVars => GateInv'
<1> SUFFICES ASSUME SystemInv, GateInv, [SystemNext]_systemVars PROVE GateInv'
  OBVIOUS
<1>1. CASE UNCHANGED systemVars
  BY <1>1 DEF systemVars, vars, tables, requestVars, doorVars, scanVars, GateInv
<1>2. CASE Next /\ UNCHANGED doorVars
  <2>1. UNCHANGED <<cart, claim, gate>>
    BY <1>2, CartKept DEF doorVars, scanVars
  <2>2. CASE UNCHANGED checkIn
    BY <2>1, <2>2 DEF GateInv
  <2>3. CASE EventDeleted
    BY <2>1, <2>3, EventDeletedTickets DEF GateInv
  <2> QED BY <1>2, <2>2, <2>3, SalesTickets DEF SystemInv, TicketsIssued
<1>3. ASSUME UNCHANGED <<tables, cart, gate>>,
             NEW s \in ScanId, NEW found \in SUBSET DOMAIN ticket,
             \A u \in found : ticket[u].event = gate[s],
             FindTicket(s, found)
      PROVE  GateInv'
  <2>1. \A u \in found : cart[u.order].event = gate[s]
    BY <1>3 DEF SystemInv, IssuanceInv, RowsAgree
  <2>2. s \notin DOMAIN checkIn
    BY <1>3 DEF SystemInv, EntriesAgree, FindTicket
  <2>3. /\ claim' = [claim EXCEPT ![s] = found]
        /\ claim \in [ScanId -> SUBSET TicketId]
    BY <1>3 DEF FindTicket, SystemInv, TicketsTypeOK
  <2>4. DOMAIN checkIn \subseteq ScanId
    BY DEF SystemInv, IssuanceInv, TypeInv, TypeOK, DatabaseTypeOK, IsTable
  <2> QED BY <1>3, <2>1, <2>2, <2>3, <2>4 DEF GateInv, tables
<1>4. ASSUME UNCHANGED <<claim, cart, gate>>, UNCHANGED checkIn
      PROVE  GateInv'
  BY <1>4 DEF GateInv
<1>5. ASSUME UNCHANGED cart, NEW s \in ScanId, NEW u \in claim[s], CheckIn(s, u)
      PROVE  GateInv'
  <2>1. UNCHANGED <<claim, gate>>
    BY <1>5 DEF CheckIn
  <2>2. \/ UNCHANGED checkIn
        \/ /\ DOMAIN checkIn' = DOMAIN checkIn \cup {s}
           /\ checkIn'[s].ticket = u
           /\ \A z \in DOMAIN checkIn \ {s} : checkIn'[z] = checkIn[z]
    BY <1>5 DEF CheckIn, RecordEntry, Conflict, Insert, Row
  <2> QED BY <1>5, <2>1, <2>2 DEF GateInv
<1>6. CASE TicketsNext /\ UNCHANGED <<removing, requestVars>>
  <2>1. UNCHANGED cart
    BY <1>6 DEF requestVars
  <2>2. ASSUME NEW s \in ScanId, NEW u \in DOMAIN ticket, ScanSignature(s, u)
        PROVE  GateInv'
    <3> DEFINE found == IF ticket[u].event = gate[s] THEN {u} ELSE {}
    <3>1. /\ found \in SUBSET DOMAIN ticket
          /\ \A v \in found : ticket[v].event = gate[s]
      OBVIOUS
    <3>2. FindTicket(s, found)
      BY <2>2 DEF ScanSignature
    <3>3. UNCHANGED <<tables, cart, gate>>
      BY <2>1, <3>2 DEF FindTicket
    <3> HIDE DEF found
    <3> QED BY <1>3, <3>1, <3>2, <3>3
  <2>3. ASSUME NEW s \in ScanId, NEW c \in Code, ScanCode(s, c)
        PROVE  GateInv'
    <3> DEFINE found == {u \in DOMAIN ticket :
                           ticket[u].event = gate[s] /\ ticket[u].code = c}
    <3>1. /\ found \in SUBSET DOMAIN ticket
          /\ \A v \in found : ticket[v].event = gate[s]
      OBVIOUS
    <3>2. FindTicket(s, found)
      BY <2>3 DEF ScanCode
    <3>3. UNCHANGED <<tables, cart, gate>>
      BY <2>1, <3>2 DEF FindTicket
    <3> HIDE DEF found
    <3> QED BY <1>3, <3>1, <3>2, <3>3
  <2>4. ASSUME NEW s \in ScanId, ScanStep(s) \/ AbortScan(s)
        PROVE  GateInv'
    BY <1>4, <1>5, <2>1, <2>4 DEF ScanStep, FindEvent, AbortScan, tables
  <2>5. ASSUME \/ Tick
               \/ \E x \in EditId : \/ \E u \in DOMAIN ticket : FindOwner(x, u)
                                    \/ EditStep(x) \/ AbortEdit(x)
        PROVE  GateInv'
    BY <1>4, <2>1, <2>5 DEF Tick, FindOwner, EditStep, Transition, Answer, AbortEdit,
                            tables, scanVars
  <2> QED BY <1>6, <2>2, <2>3, <2>4, <2>5 DEF TicketsNext
<1> QED BY <1>1, <1>2, <1>6 DEF SystemNext

(* Nobody enters another event than the one a ticket was sold for, nor on  *)
(* an order that was not paid.                                             *)
THEOREM EntriesAtOwnGate == SystemSpec => []EntryAtOwnGate
<1>1. SystemInv /\ GateInv => EntryAtOwnGate
  <2> SUFFICES ASSUME SystemInv, GateInv, NEW s \in DOMAIN checkIn
               PROVE  LET u == checkIn[s].ticket
                      IN /\ ticket[u].event = gate[s]
                         /\ checkIn[s].event = gate[s]
                         /\ order[u.order].event = gate[s]
                         /\ order[u.order].status = "PAID"
    BY DEF EntryAtOwnGate
  <2> DEFINE u == checkIn[s].ticket
  <2>1. s \in ScanId
    BY DEF SystemInv, IssuanceInv, TypeInv, TypeOK, DatabaseTypeOK, IsTable
  <2>2. /\ u \in DOMAIN ticket
        /\ checkIn[s].event = ticket[u].event
        /\ cart[u.order].event = gate[s]
    BY <2>1 DEF SystemInv, EntriesAgree, GateInv
  <2>3. /\ ticket[u].event = cart[u.order].event
        /\ u.order \in DOMAIN order
        /\ order[u.order].event = cart[u.order].event
    BY <2>2 DEF SystemInv, IssuanceInv, RowsAgree, ReferencesResolve
  <2>4. TicketsOf(u.order) # {}
    BY <2>2 DEF TicketsOf
  <2>5. order[u.order].status = "PAID"
    BY <2>3, <2>4 DEF SystemInv, IssuanceInv, IssuedInFull
  <2> QED BY <2>2, <2>3, <2>5
<1>2. SystemSpec => []GateInv
  BY GateInv_Init, GateInv_Step, SystemInvariant, PTL DEF SystemSpec
<1> QED BY <1>1, <1>2, SystemInvariant, PTL
-----------------------------------------------------------------------------
(* The tickets of an order come together and go together, the only way for *)
(* them to go being the deletion of their event.                           *)
THEOREM OrdersStandTogether == SystemSpec => TicketsStayTogether
<1>1. SystemInv /\ [SystemNext]_systemVars =>
        [\A o \in DOMAIN order :
           TicketsOf(o) # {} => \/ TicketsOf(o)' = TicketsOf(o)
                                \/ TicketsOf(o)' = {} /\ o \notin DOMAIN order']_vars
  <2> SUFFICES ASSUME SystemInv, [SystemNext]_systemVars, vars' # vars,
                      NEW o \in DOMAIN order, TicketsOf(o) # {}
               PROVE  \/ TicketsOf(o)' = TicketsOf(o)
                      \/ TicketsOf(o)' = {} /\ o \notin DOMAIN order'
    OBVIOUS
  <2>1. CASE DOMAIN ticket' = DOMAIN ticket
    BY <2>1 DEF TicketsOf
  <2>2. CASE TicketsIssued
    BY <2>2 DEF TicketsIssued, TicketsOf
  <2>3. CASE EventDeleted
    <3>1. PICK e \in DOMAIN event : DeleteEvent(e)
      BY <2>3 DEF EventDeleted
    <3>2. /\ DOMAIN ticket' = {u \in DOMAIN ticket : ~ \/ ticket[u].event = e
                                                       \/ u.order \in OrdersOf(e)}
          /\ DOMAIN order' = DOMAIN order \ OrdersOf(e)
      BY <3>1 DEF DeleteEvent, Delete, Restrict
    <3>3. \A u \in TicketsOf(o) : ticket[u].event = order[o].event
      BY DEF TicketsOf, SystemInv, IssuanceInv, RowsAgree
    <3>4. CASE order[o].event = e
      BY <3>2, <3>4 DEF TicketsOf, OrdersOf
    <3>5. CASE order[o].event # e
      BY <3>2, <3>3, <3>5 DEF TicketsOf, OrdersOf
    <3> QED BY <3>4, <3>5
  <2>4. CASE Next
    BY <2>1, <2>2, <2>3, <2>4, SalesTickets DEF SystemInv
  <2>5. CASE TicketsNext /\ UNCHANGED <<removing, requestVars>>
    <3>1. CASE UNCHANGED tables
      BY <2>1, <3>1 DEF tables
    <3>2. ASSUME NEW s \in ScanId, NEW u, CheckIn(s, u), Stands(u)
          PROVE  DOMAIN ticket' = DOMAIN ticket
      BY <3>2 DEF CheckIn, SetStatus
    <3>3. ASSUME NEW x \in EditId, NEW u, Transition(x, u), Stands(u)
          PROVE  DOMAIN ticket' = DOMAIN ticket
      BY <3>3 DEF Transition, SetStatus
    <3> QED BY <2>1, <2>5, <3>1, <3>2, <3>3, DoorCases
  <2> QED BY <2>4, <2>5 DEF SystemNext, systemVars
<1> QED
  BY <1>1, SystemInvariant, PTL DEF SystemSpec, TicketsStayTogether

-----------------------------------------------------------------------------
(* What a request that holds a ticket may rely on.  A ticket once sold     *)
(* never comes back after its deletion, for its order's handler is over; a *)
(* short code names one ticket of an event, so a request holds one ticket. *)
CodesTell ==
  \A u, v \in DOMAIN ticket :
    ticket[u].event = ticket[v].event /\ ticket[u].code = ticket[v].code => u = v

\* The handler of the order has returned or thrown.
Over == {"done", "failed"}

Holds(found) ==
  /\ \A u, v \in found : u = v
  /\ \A u \in found : pc[u.order] \in Over

ScanKept(s) ==
  /\ Holds(claim[s])
  /\ scanPc[s] = "valid" =>
       \A u \in claim[s] \cap DOMAIN ticket :
         ticket[u].status = "USED" /\ s \in DOMAIN checkIn

EditKept(x) ==
  /\ Holds(target[x])
  /\ editPc[x] \in {"answer.updated", "done"} =>
       \A u \in target[x] \cap DOMAIN ticket : ticket[u].status = wanted[x]
  /\ editPc[x] = "answer.unchanged" =>
       \A u \in target[x] \cap DOMAIN ticket : ticket[u].status # "ISSUED"

AnswerKept(x) ==
  /\ editPc[x] = "done" => reply[x] \in {wanted[x], "missing"}
  /\ editPc[x] = "conflict" => reply[x] \in TicketStatus \ {"ISSUED"}
  /\ editPc[x] \in {"done", "conflict"} =>
       \A u \in target[x] \cap DOMAIN ticket : reply[x] = ticket[u].status

OneEach == \A u \in TicketId : \A a, b \in Winners(u) : a = b

RaceInv ==
  /\ CodesTell
  /\ \A s \in ScanId : ScanKept(s)
  /\ \A x \in EditId : EditKept(x) /\ AnswerKept(x)
  /\ OneEach

(* A handler that has returned or thrown issues no ticket any more.        *)
LEMMA OverStays ==
  ASSUME TypeOK, Next, NEW o \in OrderId, pc[o] \in Over
  PROVE  pc'[o] \in Over
<1> USE DEF TypeOK, OrdersTypeOK, Over
<1>1. ASSUME NEW r \in OrderId, CreateTickets(r)
      PROVE  pc'[o] \in Over
  <2>1. Leave(r, "done") \/ Leave(r, "failed")
    BY <1>1 DEF CreateTickets, Throw, Return
  <2> QED BY <1>1, <2>1 DEF CreateTickets, Leave
<1>2. ASSUME NEW r \in OrderId, NEW i, IncrementSold(r, i)
      PROVE  pc'[o] \in Over
  BY <1>2 DEF IncrementSold, Leave
<1>3. ASSUME NEW r \in OrderId, Abort(r)
      PROVE  pc'[o] \in Over
  BY <1>3 DEF Abort, Leave, InProgress
<1>4. ASSUME NEW r \in OrderId, Step(r)
      PROVE  pc'[o] \in Over
  BY <1>1, <1>2, <1>4
  DEF Step, RefuseMethod, FindTicketTypes, CreateOrder, CreateOrderItems, MarkPaid,
      FindOrder, FindOrderItems, Throw, Return, Leave, Goto, Pay
<1> QED BY <1>3, <1>4 DEF Next, OrdersNext, requestVars

(* Whatever the sales side does to the tickets, one that a request holds is *)
(* as it was or is gone, and so is its entry.                              *)
LEMMA HeldTickets ==
  ASSUME SystemInv, Next, NEW u \in DOMAIN ticket', u \in TicketId,
         pc[u.order] \in Over
  PROVE  /\ u \in DOMAIN ticket /\ ticket'[u] = ticket[u]
         /\ \A s \in DOMAIN checkIn : checkIn[s].ticket = u => s \in DOMAIN checkIn'
<1>1. CASE UNCHANGED <<ticket, checkIn>>
  BY <1>1
<1>2. CASE TicketsIssued
  BY <1>2 DEF TicketsIssued, Over
<1>3. CASE EventDeleted
  BY <1>3, EventDeletedTickets
<1> QED BY <1>1, <1>2, <1>3, SalesTickets DEF SystemInv

(* The sales side keeps RaceInv. *)
LEMMA SalesRace_Step ==
  ASSUME SystemInv, GateInv, RaceInv, Next, UNCHANGED doorVars
  PROVE  RaceInv'
<1>1. /\ claim \in [ScanId -> SUBSET TicketId]
      /\ target \in [EditId -> SUBSET TicketId]
      /\ \A u \in TicketId : u.order \in OrderId
  BY DEF SystemInv, TicketsTypeOK, TicketId
<1>2. UNCHANGED <<scanPc, claim, editPc, target, wanted, reply>>
  BY DEF doorVars, scanVars, editVars
<1>3. \A u \in TicketId : pc[u.order] \in Over =>
        /\ pc'[u.order] \in Over
        /\ u \in DOMAIN ticket' => u \in DOMAIN ticket /\ ticket'[u] = ticket[u]
  BY <1>1, OverStays, HeldTickets DEF SystemInv, IssuanceInv, TypeInv
<1>4. CodesTell'
  <2>1. CASE UNCHANGED ticket
    BY <2>1 DEF RaceInv, CodesTell
  <2>2. CASE TicketsIssued
    BY <2>2 DEF TicketsIssued, RaceInv, CodesTell
  <2>3. CASE EventDeleted
    <3>1. /\ DOMAIN ticket' \subseteq DOMAIN ticket
          /\ \A u \in DOMAIN ticket' : ticket'[u] = ticket[u]
      BY <2>3, EventDeletedTickets
    <3> QED BY <3>1 DEF RaceInv, CodesTell
  <2> QED BY <2>1, <2>2, <2>3, SalesTickets DEF SystemInv
<1>5. ASSUME NEW s \in ScanId
      PROVE  ScanKept(s)'
  <2>1. ScanKept(s) /\ claim[s] \subseteq TicketId
    BY <1>1 DEF RaceInv
  <2>2. Holds(claim[s])'
    BY <1>2, <1>3, <2>1 DEF ScanKept, Holds
  <2>3. ASSUME scanPc[s] = "valid", NEW u \in claim[s], u \in DOMAIN ticket'
        PROVE  ticket'[u].status = "USED" /\ s \in DOMAIN checkIn'
    <3>1. u \in TicketId /\ pc[u.order] \in Over /\ \A v \in claim[s] : v = u
      BY <2>1, <2>3 DEF ScanKept, Holds
    <3>2. u \in DOMAIN ticket /\ ticket'[u] = ticket[u]
      BY <1>3, <2>3, <3>1
    <3>3. ticket[u].status = "USED" /\ s \in DOMAIN checkIn
      BY <2>1, <2>3, <3>2 DEF ScanKept
    <3>4. checkIn[s].ticket = u
      BY <3>1, <3>3 DEF GateInv
    <3> QED BY <2>3, <3>1, <3>2, <3>3, <3>4, HeldTickets
  <2> QED BY <1>2, <2>2, <2>3 DEF ScanKept
<1>6. ASSUME NEW x \in EditId
      PROVE  EditKept(x)' /\ AnswerKept(x)'
  <2>1. EditKept(x) /\ AnswerKept(x) /\ target[x] \subseteq TicketId
    BY <1>1 DEF RaceInv
  <2>2. \A u \in target[x] : u \in DOMAIN ticket' =>
          u \in DOMAIN ticket /\ ticket'[u] = ticket[u]
    BY <1>3, <2>1 DEF EditKept, Holds
  <2>3. Holds(target[x])'
    BY <1>2, <1>3, <2>1 DEF EditKept, Holds
  <2>4. EditKept(x)'
    BY <1>2, <2>1, <2>2, <2>3 DEF EditKept
  <2>5. AnswerKept(x)'
    BY <1>2, <2>1, <2>2 DEF AnswerKept
  <2> QED BY <2>4, <2>5
<1>7. OneEach'
  BY <1>2 DEF RaceInv, OneEach, Winners
<1> QED BY <1>4, <1>5, <1>6, <1>7 DEF RaceInv
(* A ticket that is taken had no winner yet; the requests that hold it and *)
(* did not take it stay as they were.                                      *)
LEMMA Taken ==
  ASSUME SystemInv, RaceInv, UNCHANGED requestVars,
         DOMAIN checkIn \subseteq DOMAIN checkIn',
         NEW u, NEW status \in {"USED", "CANCELLED", "REFUNDED"},
         Stands(u), SetStatus(u, status)
  PROVE  /\ CodesTell'
         /\ \A w \in ScanId \cup EditId : w \notin Winners(u)
         /\ \A s \in ScanId : scanPc'[s] = scanPc[s] /\ claim'[s] = claim[s]
              => ScanKept(s)'
         /\ \A x \in EditId :
              /\ editPc'[x] = editPc[x] /\ target'[x] = target[x]
              /\ wanted'[x] = wanted[x] /\ reply'[x] = reply[x]
              => EditKept(x)' /\ AnswerKept(x)'
<1>1. /\ DOMAIN ticket' = DOMAIN ticket
      /\ ticket'[u].status = status
      /\ \A v \in DOMAIN ticket : /\ ticket'[v].event = ticket[v].event
                                  /\ ticket'[v].code = ticket[v].code
      /\ \A v \in DOMAIN ticket \ {u} : ticket'[v] = ticket[v]
  BY SetStatusFrame DEF TicketStatus
<1>2. u \in DOMAIN ticket /\ ticket[u].status = "ISSUED"
  BY DEF Stands
<1>3. CodesTell'
  BY <1>1 DEF RaceInv, CodesTell
<1>4. \A x \in EditId : wanted[x] # "ISSUED"
  BY DEF SystemInv, TicketsTypeOK
<1>5. \A w \in ScanId \cup EditId : w \notin Winners(u)
  BY <1>2, <1>4 DEF Winners, RaceInv, ScanKept, EditKept
<1>6. UNCHANGED pc
  BY DEF requestVars
<1>7. ASSUME NEW s \in ScanId, scanPc'[s] = scanPc[s], claim'[s] = claim[s]
      PROVE  ScanKept(s)'
  <2>1. scanPc[s] = "valid" => u \notin claim[s]
    BY <1>5 DEF Winners
  <2> QED BY <1>1, <1>6, <1>7, <2>1 DEF RaceInv, ScanKept, Holds
<1>8. ASSUME NEW x \in EditId,
             /\ editPc'[x] = editPc[x] /\ target'[x] = target[x]
             /\ wanted'[x] = wanted[x] /\ reply'[x] = reply[x]
      PROVE  EditKept(x)' /\ AnswerKept(x)'
  <2>1. EditKept(x) /\ AnswerKept(x)
    BY DEF RaceInv
  <2>2. editPc[x] \in {"answer.updated", "done"} => u \notin target[x]
    BY <1>5 DEF Winners
  <2>3. editPc[x] = "conflict" => u \notin target[x]
    BY <1>2, <2>1 DEF AnswerKept
  <2>4. EditKept(x)'
    BY <1>1, <1>6, <1>8, <2>1, <2>2 DEF EditKept, Holds
  <2>5. AnswerKept(x)'
    BY <1>1, <1>8, <2>1, <2>2, <2>3 DEF AnswerKept
  <2> QED BY <2>4, <2>5
<1> QED BY <1>3, <1>5, <1>7, <1>8

(* A check-in that takes its ticket is its one winner. *)
LEMMA CheckInRace_Step ==
  ASSUME SystemInv, RaceInv, UNCHANGED requestVars,
         NEW s \in ScanId, NEW u \in claim[s], CheckIn(s, u), Stands(u)
  PROVE  RaceInv'
<1>1. /\ SetStatus(u, "USED") /\ RecordEntry(s, u)
      /\ ScanTo(s, "valid") \/ ScanTo(s, "failed")
      /\ UNCHANGED <<claim, editVars>>
      /\ scanPc[s] = "ticket.updateMany"
  BY DEF CheckIn
<1>2. DOMAIN checkIn' = DOMAIN checkIn \cup {s}
  BY <1>1 DEF RecordEntry, Insert, Row
<1>3. /\ scanPc \in [ScanId -> ScanStage]
      /\ claim \in [ScanId -> SUBSET TicketId]
  BY DEF SystemInv, TicketsTypeOK
<1>4. /\ scanPc'[s] \in {"valid", "failed"}
      /\ \A z \in ScanId \ {s} : scanPc'[z] = scanPc[z]
  BY <1>1, <1>3 DEF ScanTo
<1>5. /\ CodesTell'
      /\ \A w \in ScanId \cup EditId : w \notin Winners(u)
      /\ \A z \in ScanId \ {s} : ScanKept(z)'
      /\ \A x \in EditId : EditKept(x)' /\ AnswerKept(x)'
  BY <1>1, <1>2, <1>4, Taken DEF editVars
<1>6. \A v \in claim[s] : v = u
  BY DEF RaceInv, ScanKept, Holds
<1>7. ScanKept(s)'
  <2>1. ticket'[u].status = "USED"
    BY <1>1, SetStatusFrame DEF TicketStatus
  <2>2. Holds(claim[s])'
    BY <1>1 DEF RaceInv, ScanKept, Holds, requestVars
  <2> QED BY <1>1, <1>2, <1>6, <2>1, <2>2 DEF ScanKept
<1>8. OneEach'
  <2>1. \A v \in TicketId : Winners(v)' \subseteq Winners(v) \cup (IF v = u THEN {s} ELSE {})
    BY <1>1, <1>4, <1>6 DEF Winners, editVars
  <2>2. Winners(u) = {}
    BY <1>5 DEF Winners
  <2> QED BY <2>1, <2>2 DEF RaceInv, OneEach
<1> QED BY <1>5, <1>7, <1>8 DEF RaceInv

(* So is a cancel or a refund that does. *)
LEMMA TransitionRace_Step ==
  ASSUME SystemInv, RaceInv, UNCHANGED requestVars,
         NEW x \in EditId, NEW u \in target[x], Transition(x, u), Stands(u)
  PROVE  RaceInv'
<1>1. /\ SetStatus(u, wanted[x])
      /\ EditTo(x, "answer.updated")
      /\ UNCHANGED <<checkIn, scanVars, target, wanted, reply>>
  BY DEF Transition
<1>2. /\ editPc \in [EditId -> EditStage]
      /\ wanted[x] \in {"CANCELLED", "REFUNDED"}
  BY DEF SystemInv, TicketsTypeOK
<1>3. /\ editPc'[x] = "answer.updated"
      /\ \A z \in EditId \ {x} : editPc'[z] = editPc[z]
  BY <1>1, <1>2 DEF EditTo
<1>4. /\ CodesTell'
      /\ \A w \in ScanId \cup EditId : w \notin Winners(u)
      /\ \A s \in ScanId : ScanKept(s)'
      /\ \A z \in EditId \ {x} : EditKept(z)' /\ AnswerKept(z)'
  BY <1>1, <1>2, <1>3, Taken DEF scanVars
<1>5. \A v \in target[x] : v = u
  BY DEF RaceInv, EditKept, Holds
<1>6. EditKept(x)' /\ AnswerKept(x)'
  <2>1. ticket'[u].status = wanted[x]
    BY <1>1, <1>2, SetStatusFrame DEF TicketStatus
  <2>2. Holds(target[x])'
    BY <1>1 DEF RaceInv, EditKept, Holds, requestVars
  <2> QED BY <1>1, <1>3, <1>5, <2>1, <2>2 DEF EditKept, AnswerKept
<1>7. OneEach'
  <2>1. \A v \in TicketId : Winners(v)' \subseteq Winners(v) \cup (IF v = u THEN {x} ELSE {})
    BY <1>1, <1>3, <1>5 DEF Winners, scanVars
  <2>2. Winners(u) = {}
    BY <1>4 DEF Winners
  <2> QED BY <2>1, <2>2 DEF RaceInv, OneEach
<1> QED BY <1>4, <1>6, <1>7 DEF RaceInv

(* Requests that write no table only learn what they hold, or answer. *)
LEMMA DoorReadsRace_Step ==
  ASSUME SystemInv, RaceInv, UNCHANGED <<tables, requestVars>>, OneEach',
         \A s \in ScanId : UNCHANGED <<scanPc[s], claim[s]>> \/ ScanKept(s)',
         \A x \in EditId : \/ UNCHANGED <<editPc[x], target[x], wanted[x], reply[x]>>
                           \/ EditKept(x)' /\ AnswerKept(x)'
  PROVE  RaceInv'
<1>1. UNCHANGED <<ticket, checkIn, pc>>
  BY DEF tables, requestVars
<1>2. CodesTell'
  BY <1>1 DEF RaceInv, CodesTell
<1>3. \A s \in ScanId : ScanKept(s)'
  BY <1>1 DEF RaceInv, ScanKept, Holds
<1>4. \A x \in EditId : EditKept(x)' /\ AnswerKept(x)'
  BY <1>1 DEF RaceInv, EditKept, AnswerKept, Holds
<1> QED BY <1>2, <1>3, <1>4 DEF RaceInv

(* No step of the door breaks RaceInv. *)
LEMMA DoorRace_Step ==
  ASSUME SystemInv, RaceInv, TicketsNext, UNCHANGED <<removing, requestVars>>
  PROVE  RaceInv'
<1>1. /\ scanPc \in [ScanId -> ScanStage]
      /\ claim \in [ScanId -> SUBSET TicketId]
      /\ editPc \in [EditId -> EditStage]
      /\ target \in [EditId -> SUBSET TicketId]
      /\ wanted \in [EditId -> {"CANCELLED", "REFUNDED"}]
      /\ reply \in [EditId -> TicketStatus \cup {"none", "missing"}]
  BY DEF SystemInv, TicketsTypeOK
<1>2. \A u \in DOMAIN ticket : /\ u \in TicketId /\ u.order \in OrderId
                               /\ pc[u.order] \in Over
                               /\ ticket[u].status \in TicketStatus
  <2>1. IsTable(ticket, TicketId, TicketRow)
    BY DEF SystemInv, IssuanceInv, TypeInv, TypeOK, DatabaseTypeOK
  <2>2. \A r \in OrderId : TicketsOf(r) # {} => pc[r] \in Over
    BY DEF SystemInv, IssuanceInv, Progress, ProgressOf, Over
  <2> QED BY <2>1, <2>2 DEF IsTable, TicketId, TicketRow, TicketsOf
<1>3. UNCHANGED pc
  BY DEF requestVars
<1>4. CASE Tick
  <2>1. UNCHANGED <<tables, scanVars, editVars>>
    BY <1>4 DEF Tick
  <2>2. OneEach'
    BY <2>1 DEF RaceInv, OneEach, Winners, scanVars, editVars
  <2> QED BY <2>1, <2>2, DoorReadsRace_Step DEF scanVars, editVars
<1>5. ASSUME NEW s \in ScanId, NEW found \in SUBSET DOMAIN ticket,
             \A u, v \in found : u = v, FindTicket(s, found)
      PROVE  RaceInv'
  <2>1. /\ scanPc[s] = "idle"
        /\ claim' = [claim EXCEPT ![s] = found]
        /\ \E stage \in {"event.findUnique", "refused"} : ScanTo(s, stage)
        /\ UNCHANGED <<tables, editVars>>
    BY <1>5 DEF FindTicket
  <2>2. /\ claim'[s] = found /\ scanPc'[s] # "valid"
        /\ \A z \in ScanId \ {s} : scanPc'[z] = scanPc[z] /\ claim'[z] = claim[z]
    BY <1>1, <2>1 DEF ScanTo
  <2>3. ScanKept(s)'
    BY <1>2, <1>3, <1>5, <2>2 DEF ScanKept, Holds
  <2>4. OneEach'
    BY <2>1, <2>2 DEF RaceInv, OneEach, Winners, editVars
  <2> QED BY <2>1, <2>2, <2>3, <2>4, DoorReadsRace_Step DEF editVars
<1>6. ASSUME NEW s \in ScanId, ScanStep(s) \/ AbortScan(s), UNCHANGED tables,
             \E stage \in {"ticket.updateMany", "refused", "conflict", "failed"} :
               ScanTo(s, stage),
             UNCHANGED <<claim, editVars>>
      PROVE  RaceInv'
  <2>1. /\ scanPc'[s] # "valid"
        /\ \A z \in ScanId \ {s} : scanPc'[z] = scanPc[z]
    BY <1>1, <1>6 DEF ScanTo
  <2>2. ScanKept(s)'
    BY <1>3, <1>6, <2>1 DEF RaceInv, ScanKept, Holds
  <2>3. OneEach'
    BY <1>6, <2>1 DEF RaceInv, OneEach, Winners, editVars
  <2> QED BY <1>6, <2>1, <2>2, <2>3, DoorReadsRace_Step DEF editVars
<1>7. ASSUME NEW s \in ScanId, ScanStep(s)
      PROVE  RaceInv'
  <2>1. ASSUME NEW u \in claim[s], FindEvent(s, u)
        PROVE  RaceInv'
    BY <1>6, <1>7, <2>1 DEF FindEvent
  <2>2. ASSUME NEW u \in claim[s], CheckIn(s, u), ~ Stands(u)
        PROVE  RaceInv'
    BY <1>6, <1>7, <2>2 DEF CheckIn, Conflict, tables
  <2>3. ASSUME NEW u \in claim[s], CheckIn(s, u), Stands(u)
        PROVE  RaceInv'
    BY <2>3, CheckInRace_Step
  <2> QED BY <1>7, <2>1, <2>2, <2>3 DEF ScanStep
<1>8. ASSUME NEW x \in EditId, UNCHANGED <<tables, scanVars, wanted>>,
             \A z \in EditId \ {x} : UNCHANGED <<editPc[z], target[z], reply[z]>>,
             EditKept(x)' /\ AnswerKept(x)',
             \A u \in TicketId : x \in Winners(u)' => x \in Winners(u)
      PROVE  RaceInv'
  <2>1. OneEach'
    BY <1>8 DEF RaceInv, OneEach, Winners, scanVars
  <2> QED BY <1>8, <2>1, DoorReadsRace_Step DEF scanVars
<1>9. ASSUME NEW x \in EditId
      PROVE  EditKept(x) /\ AnswerKept(x)
  BY DEF RaceInv
<1>10. ASSUME NEW x \in EditId, NEW u \in DOMAIN ticket, FindOwner(x, u)
       PROVE  RaceInv'
  <2>1. /\ target' = [target EXCEPT ![x] = {u}]
        /\ EditTo(x, "ticket.updateMany")
        /\ UNCHANGED <<tables, scanVars, wanted, reply>>
    BY <1>10 DEF FindOwner
  <2>2. /\ target'[x] = {u} /\ editPc'[x] = "ticket.updateMany"
        /\ \A z \in EditId \ {x} : editPc'[z] = editPc[z] /\ target'[z] = target[z]
    BY <1>1, <2>1 DEF EditTo
  <2>3. EditKept(x)' /\ AnswerKept(x)'
    BY <1>2, <1>3, <2>2 DEF EditKept, AnswerKept, Holds
  <2>4. \A v \in TicketId : x \notin Winners(v)' \/ x \in Winners(v)
    BY <2>1, <2>2 DEF Winners, scanVars
  <2> QED BY <1>8, <2>1, <2>2, <2>3, <2>4
<1>11. ASSUME NEW x \in EditId, NEW u \in target[x], Transition(x, u), ~ Stands(u)
       PROVE  RaceInv'
  <2>1. /\ EditTo(x, "answer.unchanged")
        /\ editPc[x] = "ticket.updateMany"
        /\ UNCHANGED <<tables, scanVars, target, wanted, reply>>
    BY <1>11 DEF Transition, tables
  <2>2. /\ editPc'[x] = "answer.unchanged"
        /\ \A z \in EditId \ {x} : editPc'[z] = editPc[z]
    BY <1>1, <2>1 DEF EditTo
  <2>3. EditKept(x)' /\ AnswerKept(x)'
    BY <1>3, <1>9, <1>11, <2>1, <2>2 DEF EditKept, AnswerKept, Holds, Stands, tables
  <2>4. \A v \in TicketId : x \in Winners(v)' => x \in Winners(v)
    BY <2>1, <2>2 DEF Winners, scanVars
  <2> QED BY <1>8, <2>1, <2>2, <2>3, <2>4
<1>12. ASSUME NEW x \in EditId, NEW u \in target[x], Answer(x, u)
       PROVE  RaceInv'
  <2>1. /\ UNCHANGED <<tables, scanVars, target, wanted>>
        /\ reply'[x] = IF u \in DOMAIN ticket THEN ticket[u].status ELSE "missing"
        /\ \/ editPc[x] = "answer.updated" /\ editPc'[x] = "done"
           \/ /\ editPc[x] = "answer.unchanged"
              /\ editPc'[x] = IF u \in DOMAIN ticket THEN "conflict" ELSE "failed"
        /\ \A z \in EditId \ {x} : editPc'[z] = editPc[z] /\ reply'[z] = reply[z]
    BY <1>1, <1>12 DEF Answer, EditTo
  <2>2. \A v \in target[x] : v = u
    BY <1>9 DEF EditKept, Holds
  <2>3. Holds(target[x])'
    BY <1>3, <1>9, <2>1 DEF EditKept, Holds
  <2>4. EditKept(x)' /\ AnswerKept(x)'
    BY <1>2, <1>9, <2>1, <2>2, <2>3 DEF EditKept, AnswerKept, tables
  <2>5. \A v \in TicketId : x \in Winners(v)' => x \in Winners(v)
    BY <2>1 DEF Winners, scanVars
  <2> QED BY <1>8, <2>1, <2>4, <2>5
<1>13. ASSUME NEW x \in EditId, AbortEdit(x)
       PROVE  RaceInv'
  <2>1. /\ EditTo(x, "failed")
        /\ UNCHANGED <<tables, scanVars, target, wanted, reply>>
    BY <1>13 DEF AbortEdit
  <2>2. /\ editPc'[x] = "failed"
        /\ \A z \in EditId \ {x} : editPc'[z] = editPc[z]
    BY <1>1, <2>1 DEF EditTo
  <2>3. EditKept(x)' /\ AnswerKept(x)'
    BY <1>3, <1>9, <2>1, <2>2 DEF EditKept, AnswerKept, Holds
  <2>4. \A v \in TicketId : x \in Winners(v)' => x \in Winners(v)
    BY <2>1, <2>2 DEF Winners, scanVars
  <2> QED BY <1>8, <2>1, <2>2, <2>3, <2>4
<1>14. ASSUME NEW s \in ScanId, NEW u \in DOMAIN ticket, ScanSignature(s, u)
       PROVE  RaceInv'
  <2> DEFINE found == IF ticket[u].event = gate[s] THEN {u} ELSE {}
  <2>1. found \in SUBSET DOMAIN ticket /\ \A v, w \in found : v = w
    OBVIOUS
  <2>2. FindTicket(s, found)
    BY <1>14 DEF ScanSignature
  <2> HIDE DEF found
  <2> QED BY <1>5, <2>1, <2>2
<1>15. ASSUME NEW s \in ScanId, NEW c \in Code, ScanCode(s, c)
       PROVE  RaceInv'
  <2> DEFINE found == {u \in DOMAIN ticket :
                         ticket[u].event = gate[s] /\ ticket[u].code = c}
  <2>1. found \in SUBSET DOMAIN ticket /\ \A v, w \in found : v = w
    BY DEF RaceInv, CodesTell
  <2>2. FindTicket(s, found)
    BY <1>15 DEF ScanCode
  <2> HIDE DEF found
  <2> QED BY <1>5, <2>1, <2>2
<1>16. ASSUME NEW s \in ScanId, AbortScan(s)
       PROVE  RaceInv'
  BY <1>6, <1>16 DEF AbortScan
<1>17. ASSUME NEW x \in EditId, EditStep(x)
       PROVE  RaceInv'
  BY <1>11, <1>12, <1>17, TransitionRace_Step DEF EditStep
<1> QED
  BY <1>4, <1>7, <1>10, <1>13, <1>14, <1>15, <1>16, <1>17 DEF TicketsNext

(* Before the first request nobody has won, or holds a ticket. *)
LEMMA RaceInv_Init == SystemInit => RaceInv
<1> SUFFICES ASSUME SystemInit PROVE RaceInv
  OBVIOUS
<1>1. DOMAIN ticket = {}
  BY DEF SystemInit, Init, DatabaseInit
<1>2. /\ \A s \in ScanId : scanPc[s] = "idle" /\ claim[s] = {}
      /\ \A x \in EditId : editPc[x] = "idle" /\ target[x] = {}
  BY DEF SystemInit, TicketsInit
<1> QED
  BY <1>1, <1>2 DEF RaceInv, CodesTell, ScanKept, EditKept, AnswerKept, Holds,
                    OneEach, Winners

(* Nor does any other step. *)
LEMMA RaceInv_Step ==
  SystemInv /\ GateInv /\ RaceInv /\ [SystemNext]_systemVars => RaceInv'
<1> SUFFICES ASSUME SystemInv, GateInv, RaceInv, [SystemNext]_systemVars
             PROVE  RaceInv'
  OBVIOUS
<1>1. CASE UNCHANGED systemVars
  <2>1. /\ UNCHANGED <<tables, requestVars, scanVars, editVars>>
    BY <1>1 DEF systemVars, vars, doorVars
  <2>2. OneEach'
    BY <2>1 DEF RaceInv, OneEach, Winners, scanVars, editVars
  <2> QED BY <2>1, <2>2, DoorReadsRace_Step DEF scanVars, editVars
<1> QED BY <1>1, SalesRace_Step, DoorRace_Step DEF SystemNext

(* RaceInv holds in every reachable state. *)
LEMMA RaceInvariant == SystemSpec => []RaceInv
  BY SystemInvariant, GateInv_Init, GateInv_Step, RaceInv_Init, RaceInv_Step, PTL
  DEF SystemSpec

(* However check-ins, cancels and refunds of one ticket race, are cut off  *)
(* or repeated, at most one is told it succeeded, and the ticket is as it  *)
(* left it.                                                                *)
THEOREM OneWinnerEach == SystemSpec => []OneWinner
<1>1. SystemInv /\ RaceInv => OneWinner
  <2> SUFFICES ASSUME SystemInv, RaceInv PROVE OneWinner
    OBVIOUS
  <2>1. /\ UNION {claim[s] : s \in ScanId} \subseteq TicketId
        /\ UNION {target[x] : x \in EditId} \subseteq TicketId
    BY DEF SystemInv, TicketsTypeOK
  <2>2. \A a, b \in ScanId \cup EditId,
           u \in (UNION {claim[s] : s \in ScanId}) \cup (UNION {target[x] : x \in EditId}) :
          a \in Winners(u) /\ b \in Winners(u) => a = b
    BY <2>1 DEF RaceInv, OneEach
  <2>3. \A s \in ScanId : scanPc[s] = "valid" =>
          \A u \in claim[s] \cap DOMAIN ticket :
            ticket[u].status = "USED" /\ s \in DOMAIN checkIn
    BY DEF RaceInv, ScanKept
  <2>4. \A x \in EditId : editPc[x] \in {"answer.updated", "done"} =>
          \A u \in target[x] \cap DOMAIN ticket : ticket[u].status = wanted[x]
    BY DEF RaceInv, EditKept
  <2> QED BY <2>2, <2>3, <2>4 DEF OneWinner
<1> QED BY <1>1, SystemInvariant, RaceInvariant, PTL

(* What a cancel or a refund answers, read after its write, is what was    *)
(* decided, and stays true while the ticket exists.                        *)
THEOREM AnswersAreFinal == SystemSpec => []AnswerIsFinal
<1>1. RaceInv => AnswerIsFinal
  BY DEF RaceInv, AnswerKept, AnswerIsFinal
<1> QED BY <1>1, RaceInvariant, PTL

=============================================================================
