------------------------------ MODULE Tickets -------------------------------
(***************************************************************************)
(* TicketsService: what can happen to an issued ticket.  A check-in        *)
(* request s in ScanId is one POST /tickets/check-in or                    *)
(* POST /tickets/code/check-in by a scanner paired with the event gate[s]; *)
(* an edit x in EditId is one PATCH /tickets/:id/cancel or .../refund.     *)
(*                                                                         *)
(* checkIn() decides on a ticket and an event it has read (Prisma loads an *)
(* included relation by a SELECT of its own) and then writes in a          *)
(* transaction; cancel() and refund() write first and then read the answer.*)
(***************************************************************************)
EXTENDS Database

CONSTANTS EditId,   \* cancel and refund requests
          MaxTime   \* bound: the clock stops there

ASSUME MaxTimeAssumption == MaxTime \in Nat

VARIABLES now,       \* Date.now(), in hours
          scanPc,    \* the statement each check-in request runs next
          gate,      \* eventId of the scanner's session
          claim,     \* the ticket the request found, if any
          editPc,    \* the statement each edit runs next
          target,    \* the ticket each edit names, if any
          wanted,    \* the status each edit asks for
          reply      \* the status of the ticket in its answer

scanVars == <<scanPc, gate, claim>>
editVars == <<editPc, target, wanted, reply>>
doorVars == <<now, scanVars, editVars>>

ScanInProgress == {"event.findUnique", "ticket.updateMany"}
ScanStage == ScanInProgress \cup {"idle", "valid", "refused", "conflict", "failed"}

EditInProgress == {"ticket.updateMany", "answer.updated", "answer.unchanged"}
EditStage == EditInProgress \cup {"idle", "done", "conflict", "failed"}

Lead == 2   \* hours before startsAt at which check-in opens

(* Every request is at a statement of its handler, and past its first one  *)
(* it has a ticket in hand.                                                *)
TicketsTypeOK ==
  /\ now \in 0 .. MaxTime
  /\ scanPc \in [ScanId -> ScanStage]
  /\ gate \in [ScanId -> EventId]
  /\ claim \in [ScanId -> SUBSET TicketId]
  /\ \A s \in ScanId : scanPc[s] \in ScanInProgress => claim[s] # {}
  /\ editPc \in [EditId -> EditStage]
  /\ target \in [EditId -> SUBSET TicketId]
  /\ wanted \in [EditId -> {"CANCELLED", "REFUNDED"}]
  /\ reply \in [EditId -> TicketStatus \cup {"none", "missing"}]

TicketsInit ==
  /\ now    = 0
  /\ scanPc = [s \in ScanId |-> "idle"]
  /\ gate   \in [ScanId -> EventId]
  /\ claim  = [s \in ScanId |-> {}]
  /\ editPc = [x \in EditId |-> "idle"]
  /\ target = [x \in EditId |-> {}]
  /\ wanted \in [EditId -> {"CANCELLED", "REFUNDED"}]
  /\ reply  = [x \in EditId |-> "none"]

Tick ==
  /\ now < MaxTime
  /\ now' = now + 1
  /\ UNCHANGED <<tables, scanVars, editVars>>

-----------------------------------------------------------------------------
(* The writes of check-in, cancel and refund *)

\* Mutant: WHERE id = u, whatever its status.
StandsAnyhow(u) == u \in DOMAIN ticket

\* WHERE id = u AND status = 'ISSUED' matches a row.
Stands(u) == u \in DOMAIN ticket /\ ticket[u].status = "ISSUED"

\* Mutant: an update of nothing.
LoseStatus(u, status) == UNCHANGED ticket

SetStatus(u, status) == ticket' = [ticket EXCEPT ![u].status = status]

\* Mutant: the entry is recorded outside the transaction, and may be lost.
RecordLater(s, u) ==
  \/ checkIn' = Insert(checkIn, Row(s, [ticket |-> u, event |-> ticket[u].event]))
  \/ UNCHANGED checkIn

RecordEntry(s, u) ==
  checkIn' = Insert(checkIn, Row(s, [ticket |-> u, event |-> ticket[u].event]))

-----------------------------------------------------------------------------
(* Check-in *)

ScanTo(s, stage) == scanPc' = [scanPc EXCEPT ![s] = stage]

\* Mutant: a ticket that is not found is not refused.
NotSpent(found) == \A u \in found : ticket[u].status = "ISSUED"

\* checkIn() refuses no ticket, and a ticket that is not ISSUED.
Presentable(found) == \E u \in found : ticket[u].status = "ISSUED"

\* ticket.findUnique, and the check of what it found.
FindTicket(s, found) ==
  /\ scanPc[s] = "idle"
  /\ claim' = [claim EXCEPT ![s] = found]
  /\ \/ Presentable(found) /\ ScanTo(s, "event.findUnique")
     \/ ~ Presentable(found) /\ ScanTo(s, "refused")
  /\ UNCHANGED <<tables, now, gate, editVars>>

\* Mutant: no guard compares the event in the payload with the scanner's.
ScanUnguarded(s, u) == u \in DOMAIN ticket /\ FindTicket(s, {u})

(***************************************************************************)
(* The QR code of u names u's event in its signed payload: the guard lets  *)
(* the request through only at a gate of that event, and only then is the  *)
(* ticket looked up, by its signature.                                     *)
(***************************************************************************)
ScanSignature(s, u) ==
  /\ u \in DOMAIN ticket
  /\ FindTicket(s, IF ticket[u].event = gate[s] THEN {u} ELSE {})

\* The short code is looked up among the tickets of the scanner's event.
ScanCode(s, c) ==
  FindTicket(s, {u \in DOMAIN ticket :
                   ticket[u].event = gate[s] /\ ticket[u].code = c})

InWindow(row) == row.startsAt <= now + Lead /\ now <= row.endsAt

\* The event of the ticket, read by a second SELECT, must be published and
\* the hour right.
FindEvent(s, u) ==
  LET e == gate[s]
      open == /\ e \in DOMAIN event
              /\ event[e].status = "PUBLISHED"
              /\ InWindow(event[e])
  IN /\ scanPc[s] = "event.findUnique"
     /\ u \in claim[s]
     /\ \/ open /\ ScanTo(s, "ticket.updateMany")
        \/ ~ open /\ ScanTo(s, "refused")
     /\ UNCHANGED <<tables, now, gate, claim, editVars>>

\* Mutant: a check-in that lost its race is tried again.
RetryConflict(s) ==
  /\ ScanTo(s, "event.findUnique")
  /\ UNCHANGED <<ticket, checkIn>>

Conflict(s) ==
  /\ ScanTo(s, "conflict")
  /\ UNCHANGED <<ticket, checkIn>>

\* The transaction: take the ticket if it is still ISSUED and record the
\* entry, both or neither.  Its answer may be lost after the commit.
CheckIn(s, u) ==
  /\ scanPc[s] = "ticket.updateMany"
  /\ u \in claim[s]
  /\ \/ /\ Stands(u)
        /\ SetStatus(u, "USED")
        /\ RecordEntry(s, u)
        /\ ScanTo(s, "valid") \/ (MayAbort /\ ScanTo(s, "failed"))
     \/ ~ Stands(u) /\ Conflict(s)
  /\ UNCHANGED <<event, ticketType, order, orderItem, fresh, now, gate, claim,
                 editVars>>

\* The process dies, or the connection to the database is lost.
AbortScan(s) ==
  /\ MayAbort
  /\ scanPc[s] \in ScanInProgress
  /\ ScanTo(s, "failed")
  /\ UNCHANGED <<tables, now, gate, claim, editVars>>

-----------------------------------------------------------------------------
(* cancel() and refund() *)

EditTo(x, stage) == editPc' = [editPc EXCEPT ![x] = stage]

\* TicketOwnershipGuard reads the ticket, which must be there.
FindOwner(x, u) ==
  /\ editPc[x] = "idle"
  /\ u \in DOMAIN ticket
  /\ target' = [target EXCEPT ![x] = {u}]
  /\ EditTo(x, "ticket.updateMany")
  /\ UNCHANGED <<tables, now, scanVars, wanted, reply>>

Transition(x, u) ==
  /\ editPc[x] = "ticket.updateMany"
  /\ u \in target[x]
  /\ \/ /\ Stands(u)
        /\ SetStatus(u, wanted[x])
        /\ EditTo(x, "answer.updated")
     \/ /\ ~ Stands(u)
        /\ EditTo(x, "answer.unchanged")
        /\ UNCHANGED ticket
  /\ UNCHANGED <<event, ticketType, order, orderItem, checkIn, fresh, now,
                 scanVars, target, wanted, reply>>

\* The answer is read back after the write: 200 with the row (or null if it
\* is gone), or 409 quoting the status that stood in the way.
Answer(x, u) ==
  /\ editPc[x] \in {"answer.updated", "answer.unchanged"}
  /\ u \in target[x]
  /\ reply' = [reply EXCEPT
       ![x] = IF u \in DOMAIN ticket THEN ticket[u].status ELSE "missing"]
  /\ \/ editPc[x] = "answer.updated" /\ EditTo(x, "done")
     \/ /\ editPc[x] = "answer.unchanged"
        /\ EditTo(x, IF u \in DOMAIN ticket THEN "conflict" ELSE "failed")
  /\ UNCHANGED <<tables, now, scanVars, target, wanted>>

AbortEdit(x) ==
  /\ MayAbort
  /\ editPc[x] \in EditInProgress
  /\ EditTo(x, "failed")
  /\ UNCHANGED <<tables, now, scanVars, target, wanted, reply>>

-----------------------------------------------------------------------------
ScanStep(s) == \E u \in claim[s] : FindEvent(s, u) \/ CheckIn(s, u)

EditStep(x) == \E u \in target[x] : Transition(x, u) \/ Answer(x, u)

TicketsNext ==
  \/ Tick
  \/ \E s \in ScanId :
       \/ \E u \in DOMAIN ticket : ScanSignature(s, u)
       \/ \E c \in Code : ScanCode(s, c)
       \/ ScanStep(s)
       \/ AbortScan(s)
  \/ \E x \in EditId :
       \/ \E u \in DOMAIN ticket : FindOwner(x, u)
       \/ EditStep(x)
       \/ AbortEdit(x)
=============================================================================
