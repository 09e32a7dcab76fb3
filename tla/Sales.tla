------------------------------- MODULE Sales --------------------------------
(***************************************************************************)
(* Buyers order (Orders) while organizers edit the catalogue (Catalog),    *)
(* over the shared tables of Database.                                     *)
(***************************************************************************)
EXTENDS Catalog, Orders

vars == <<tables, removing, requestVars>>

Init == DatabaseInit /\ CatalogInit /\ OrdersInit

Next ==
  \/ CatalogNext /\ UNCHANGED requestVars
  \/ OrdersNext /\ UNCHANGED removing

Spec == Init /\ [][Next]_vars

(***************************************************************************)
(* A handler that has begun runs to its end: Node's event loop resumes it  *)
(* when its statement is answered.  Nothing obliges a buyer to order or an *)
(* organizer to edit.                                                      *)
(***************************************************************************)
Fairness == \A r \in OrderId : WF_vars(Step(r) /\ pc[r] # "idle" /\ UNCHANGED removing)

FairSpec == Spec /\ Fairness

-----------------------------------------------------------------------------
TypeOK == DatabaseTypeOK /\ CatalogTypeOK /\ OrdersTypeOK

(* Every foreign key of the schema resolves.  Orders, lines and tickets    *)
(* are inserted by separate statements while the rows they refer to may be *)
(* deleted in between.                                                     *)
ReferencesResolve ==
  /\ \A t \in DOMAIN ticketType : ticketType[t].event \in DOMAIN event
  /\ \A o \in DOMAIN order : order[o].event \in DOMAIN event
  /\ \A i \in DOMAIN orderItem : /\ i.order \in DOMAIN order
                                 /\ orderItem[i].type \in DOMAIN ticketType
  /\ \A u \in DOMAIN ticket : /\ u.order \in DOMAIN order
                              /\ ticket[u].event \in DOMAIN event
                              /\ ticket[u].type \in DOMAIN ticketType

(* "One Ticket record per unit": an order has no ticket at all or exactly  *)
(* one for each unit of each of its lines, whatever failed on the way; and *)
(* it has tickets only once it is paid, and never by card.                 *)
IssuedInFull ==
  \A o \in DOMAIN order :
    TicketsOf(o) # {} =>
      /\ TicketsOf(o) = Units(Restrict(orderItem, ItemsOf(o)))
      /\ order[o].status = "PAID"
      /\ order[o].method = "CASH"

(* What the buyer was told is what the tables say: an order whose handler  *)
(* returned has its lines, and its tickets if it was a cash order; one     *)
(* whose handler threw has no ticket, unless all that was lost is the      *)
(* answer to the last statement: then nothing of the order is missing.     *)
AnswerMatchesTables ==
  \A r \in OrderId :
    /\ pc[r] = "done" /\ r \in DOMAIN order =>
         /\ {i.line : i \in ItemsOf(r)} = DOMAIN cart[r].items
         /\ cart[r].method = "CASH" <=> TicketsOf(r) # {}
    /\ pc[r] = "failed" /\ TicketsOf(r) # {} =>
         /\ MayAbort
         /\ {i.line : i \in ItemsOf(r)} = DOMAIN cart[r].items
         /\ pending[r] = {}
    /\ pc[r] = "refused" => r \notin DOMAIN order

(* An order's total is the sum of its lines at the prices they were sold   *)
(* at, however the organizer edits prices meanwhile; the revenue of        *)
(* EventsService.stats is then the sum of the totals of paid orders.       *)
TotalMatchesLines ==
  \A o \in DOMAIN order :
    ItemsOf(o) # {} =>
      order[o].total = SumFunction([i \in ItemsOf(o) |->
                                     orderItem[i].unitPrice * orderItem[i].quantity])

(* `sold' never falls short of the tickets that exist.                     *)
SoldCoversTickets ==
  \A t \in DOMAIN ticketType :
    Cardinality({u \in DOMAIN ticket : ticket[u].type = t}) <= ticketType[t].sold

(* Once every request that began has returned, and none had to throw, it   *)
(* is exactly the number of tickets: increments sent together by one       *)
(* handler, or by several, are neither lost nor made twice.  (As long as   *)
(* no order is gone: one may have named a tier of another event, which     *)
(* stays, `sold' and all, when the order's event is deleted.)              *)
SoldIsTickets ==
  (\A r \in OrderId : pc[r] \in {"idle", "done", "refused"}) =>
    \A t \in DOMAIN ticketType :
      ticketType[t].sold = Cardinality({u \in DOMAIN ticket : ticket[u].type = t})

(* No type is sold beyond its quantity.                                    *)
NotOversold ==
  \A t \in DOMAIN ticketType : ticketType[t].sold <= ticketType[t].quantity

(* Tickets of an order appear together, and disappear only together with   *)
(* the order, when its event is deleted.                                   *)
TicketsStayTogether ==
  [][\A o \in DOMAIN order :
       TicketsOf(o) # {} => \/ TicketsOf(o)' = TicketsOf(o)
                            \/ TicketsOf(o)' = {} /\ o \notin DOMAIN order']_vars

(* Every handler that begins returns or throws.                            *)
HandlersEnd ==
  \A r \in OrderId : pc[r] \in InProgress ~> pc[r] \in {"done", "refused", "failed"}

-----------------------------------------------------------------------------
(* Statements of the documentation and of the code's own messages          *)

(* Tiers are per event: a ticket is of a tier of the event it admits to.   *)
TicketOfEventsTier ==
  \A u \in DOMAIN ticket : ticketType[ticket[u].type].event = ticket[u].event

(* A ticket carries the answers given in its own line item.                *)
OwnAnswers ==
  \A u \in DOMAIN ticket :
    ticket[u].answers = cart[u.order].items[u.line].answers

(* A paid order gets its tickets, unless its event is deleted.             *)
PaidOrderGetsTickets ==
  \A r \in OrderId :
    (r \in DOMAIN order /\ order[r].status = "PAID")
      ~> (TicketsOf(r) # {} \/ r \notin DOMAIN order)
=============================================================================
