------------------------------ MODULE Evently -------------------------------
(***************************************************************************)
(* The whole life of a ticket: organizers edit the catalogue and buyers    *)
(* order (Sales) while scanners check in and organizers cancel and refund  *)
(* tickets (Tickets), all handlers of one service over shared tables.      *)
(***************************************************************************)
EXTENDS Sales, Tickets

systemVars == <<vars, doorVars>>

SystemInit == Init /\ TicketsInit

SystemNext ==
  \/ Next /\ UNCHANGED doorVars
  \/ TicketsNext /\ UNCHANGED <<removing, requestVars>>

SystemSpec == SystemInit /\ [][SystemNext]_systemVars

(***************************************************************************)
(* As in Sales: a handler that has begun is resumed when its statement is  *)
(* answered.  No buyer has to order, no scanner to scan, no organizer to   *)
(* edit, and the clock need not advance.                                   *)
(***************************************************************************)
SystemFairness ==
  /\ \A r \in OrderId :
       WF_systemVars(Step(r) /\ pc[r] # "idle" /\ UNCHANGED <<removing, doorVars>>)
  /\ \A s \in ScanId :
       WF_systemVars(ScanStep(s) /\ UNCHANGED <<removing, requestVars>>)
  /\ \A x \in EditId :
       WF_systemVars(EditStep(x) /\ UNCHANGED <<removing, requestVars>>)

FairSystemSpec == SystemSpec /\ SystemFairness

-----------------------------------------------------------------------------
SystemTypeOK == TypeOK /\ TicketsTypeOK

Admission ==
  INSTANCE Admission
    WITH Ticket <- TicketId, Entry <- ScanId,
         status <- [u \in DOMAIN ticket |-> ticket[u].status],
         admits <- [s \in DOMAIN checkIn |-> checkIn[s].ticket]

(* What stands in the tickets and the entries recorded for them obeys      *)
(* Admission: handlers that interleave, fail half way or repeat what       *)
(* another did implement tickets that are decided once.                    *)
ImplementsAdmission == Admission!ASpec

(* Every foreign key of the schema resolves, those of check-ins too.       *)
AllReferencesResolve ==
  /\ ReferencesResolve
  /\ \A s \in DOMAIN checkIn : /\ checkIn[s].ticket \in DOMAIN ticket
                               /\ checkIn[s].event \in DOMAIN event

(* An entry is at a gate of the event its ticket was sold for, on an order *)
(* that was paid, whether the ticket was found by its signature or by a    *)
(* code that another event's ticket may share.                             *)
EntryAtOwnGate ==
  \A s \in DOMAIN checkIn :
    LET u == checkIn[s].ticket
    IN /\ ticket[u].event = gate[s]
       /\ checkIn[s].event = gate[s]
       /\ order[u.order].event = gate[s]
       /\ order[u.order].status = "PAID"

(* Requests that name the same ticket and were told they succeeded.        *)
Winners(u) ==
  {s \in ScanId : scanPc[s] = "valid" /\ u \in claim[s]} \cup
  {x \in EditId : editPc[x] \in {"answer.updated", "done"} /\ u \in target[x]}

(* However check-ins, cancels and refunds of a ticket race, at most one of *)
(* them is told it succeeded, and the ticket, while it exists, is as that  *)
(* one left it.                                                            *)
OneWinner ==
  /\ \A a, b \in ScanId \cup EditId,
        u \in (UNION {claim[s] : s \in ScanId}) \cup (UNION {target[x] : x \in EditId}) :
       a \in Winners(u) /\ b \in Winners(u) => a = b
  /\ \A s \in ScanId : scanPc[s] = "valid" =>
       \A u \in claim[s] \cap DOMAIN ticket :
         ticket[u].status = "USED" /\ s \in DOMAIN checkIn
  /\ \A x \in EditId : editPc[x] \in {"answer.updated", "done"} =>
       \A u \in target[x] \cap DOMAIN ticket : ticket[u].status = wanted[x]

(* The status in an answer, read after the write, is the one decided: a    *)
(* 200 shows the status asked for (or null, the event being deleted), a    *)
(* 409 shows what stood in the way and never ISSUED, and neither goes      *)
(* stale.                                                                  *)
AnswerIsFinal ==
  \A x \in EditId :
    /\ editPc[x] = "done" => reply[x] \in {wanted[x], "missing"}
    /\ editPc[x] = "conflict" => reply[x] \in TicketStatus \ {"ISSUED"}
    /\ \A u \in target[x] \cap DOMAIN ticket :
         editPc[x] \in {"done", "conflict"} => reply[x] = ticket[u].status

(* A check-in, cancel or refund that begins is answered.                   *)
DoorHandlersEnd ==
  /\ \A s \in ScanId : scanPc[s] \in ScanInProgress ~> scanPc[s] \notin ScanInProgress
  /\ \A x \in EditId : editPc[x] \in EditInProgress ~> editPc[x] \notin EditInProgress

-----------------------------------------------------------------------------
(* Statements of the code's own messages                                   *)

(* "Event not active": nobody enters an event that is not published.       *)
EntryToActiveEvent ==
  [][\A s \in DOMAIN checkIn' \ DOMAIN checkIn :
       event[checkIn'[s].event].status = "PUBLISHED"]_systemVars
=============================================================================
