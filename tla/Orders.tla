------------------------------- MODULE Orders -------------------------------
(***************************************************************************)
(* OrdersService: POST /orders, one handler per request r in OrderId.      *)
(* Each await of the handler is one action here, named for its statement,  *)
(* and between two of them any other handler may run.  pc[r] names the     *)
(* statement that r runs next.                                             *)
(*                                                                         *)
(* A statement the database refuses makes the handler throw: what earlier  *)
(* statements committed stays.  A handler may also stop anywhere, because  *)
(* the process dies or the connection is lost: before a statement commits  *)
(* or after it (Abort), and after the last one too (Return).               *)
(***************************************************************************)
EXTENDS Database, Sequences, FiniteSets

CONSTANTS Cart,         \* bodies of POST /orders the buyers send
          MaxInFlight   \* bound: handlers in progress at a time

OrderLine == [type : TicketTypeId, quantity : Nat \ {0}, answers : Answers]

\* What CreateOrderDto admits: at least one line, each of at least one unit.
Admissible(c) ==
  /\ c.event \in EventId
  /\ c.method \in PaymentMethod
  /\ c.items \in Seq(OrderLine)
  /\ c.items # <<>>

ASSUME CartAssumption == \A c \in Cart : Admissible(c)
ASSUME MaxInFlightAssumption == MaxInFlight \in Nat

VARIABLES cart,     \* createOrderDto, the body request r carries
          pc,       \* the statement each request runs next
          prices,   \* price by type, of the ticketTypes read by findMany
          lines,    \* orderItems, as createTicket read them
          pending   \* lines whose increment of `sold' has not yet run

requestVars == <<cart, pc, prices, lines, pending>>

InProgress == {"order.create", "orderItem.createMany", "order.update",
               "order.findUnique", "orderItem.findMany", "ticket.createMany"}
Stage == InProgress \cup {"idle", "done", "refused", "failed"}

OrdersTypeOK ==
  /\ cart \in [OrderId -> Cart]
  /\ pc \in [OrderId -> Stage]
  /\ DOMAIN prices = OrderId
  /\ DOMAIN lines = OrderId
  /\ \A r \in OrderId : /\ DOMAIN prices[r] \subseteq TicketTypeId
                        /\ prices[r] \in [DOMAIN prices[r] -> INTEGER]
                        /\ IsTable(lines[r], ItemId, OrderItemRow)
  /\ pending \in [OrderId -> SUBSET ItemId]

Nothing == [x \in {} |-> 0]

OrdersInit ==
  /\ cart    \in [OrderId -> Cart]
  /\ pc      = [r \in OrderId |-> "idle"]
  /\ prices  = [r \in OrderId |-> Nothing]
  /\ lines   = [r \in OrderId |-> Nothing]
  /\ pending = [r \in OrderId |-> {}]

-----------------------------------------------------------------------------
(* What the handler computes from its request *)

TypesIn(c) == {c.items[k].type : k \in DOMAIN c.items}

\* Mutant: lines are counted, not units.
RequestedLines(c, t) == Cardinality({k \in DOMAIN c.items : c.items[k].type = t})

\* items.find(i => i.ticketTypeId === t).quantity: the first such line only.
Requested(c, t) ==
  LET k == CHOOSE k \in DOMAIN c.items :
             /\ c.items[k].type = t
             /\ \A j \in 1 .. (k - 1) : c.items[j].type # t
  IN c.items[k].quantity

\* new Map(items.map(o => [o.ticketTypeId, o])): the last such line wins.
MatchedAnswers(c, t) ==
  LET k == CHOOSE k \in DOMAIN c.items :
             /\ c.items[k].type = t
             /\ \A j \in (k + 1) .. Len(c.items) : c.items[j].type # t
  IN c.items[k].answers

\* Mutant: prices are read again for the lines.
PriceNow(quote, t) == IF t \in DOMAIN ticketType THEN ticketType[t].price ELSE 0

Price(quote, t) == IF t \in DOMAIN quote THEN quote[t] ELSE 0

TotalAmount(c, quote) ==
  SumFunction([k \in DOMAIN c.items |->
                 Price(quote, c.items[k].type) * c.items[k].quantity])

\* One ticket per unit of each line.
Units(items) ==
  UNION {{[order |-> i.order, line |-> i.line, index |-> n] :
             n \in 0 .. items[i].quantity - 1} : i \in DOMAIN items}

LineOf(u) == [order |-> u.order, line |-> u.line]

-----------------------------------------------------------------------------
(* The handler returns or throws.  An increment already sent still runs.   *)
Leave(r, outcome) ==
  /\ pc'     = [pc EXCEPT ![r] = outcome]
  /\ prices' = [prices EXCEPT ![r] = Nothing]

\* The last statement is committed and the handler returns; or it throws, as
\* the connection is lost before the statement is answered.
Return(r) == Leave(r, "done") \/ (MayAbort /\ Leave(r, "failed"))

\* Mutant: the handler catches the error and returns the order.
Swallow(r) ==
  /\ Leave(r, "done")
  /\ UNCHANGED <<tables, cart, lines, pending>>

\* Mutant: the rejection reaches nobody.
NeverSettle(r) == UNCHANGED <<tables, requestVars>>

Throw(r) ==
  /\ Leave(r, "failed")
  /\ UNCHANGED <<tables, cart, lines, pending>>

Goto(r, stage) == pc' = [pc EXCEPT ![r] = stage]

Busy == {r \in OrderId : pc[r] \in InProgress \/ pending[r] # {}}

\* Nobody can name a uuid that is yet to be generated.
Sendable(c) == c.event \notin fresh /\ TypesIn(c) \cap fresh = {}

\* create(), default branch: any other payment method is a 400.
RefuseMethod(r) ==
  /\ pc[r] = "idle"
  /\ Sendable(cart[r])
  /\ cart[r].method \notin {"CASH", "STRIPE"}
  /\ Leave(r, "refused")
  /\ UNCHANGED <<tables, cart, lines, pending>>

\* ticketType.findMany, and the check of what remains on the rows it found.
FindTicketTypes(r) ==
  LET found == TypesIn(cart[r]) \cap DOMAIN ticketType
      enough == \A t \in found :
        ticketType[t].sold + Requested(cart[r], t) <= ticketType[t].quantity
  IN /\ pc[r] = "idle"
     /\ Sendable(cart[r])
     /\ cart[r].method \in {"CASH", "STRIPE"}
     /\ Cardinality(Busy) < MaxInFlight
     /\ \/ /\ enough
           /\ Goto(r, "order.create")
           /\ prices' = [prices EXCEPT ![r] = [t \in found |-> ticketType[t].price]]
        \/ ~ enough /\ Leave(r, "refused")
     /\ UNCHANGED <<tables, cart, lines, pending>>

CreateOrder(r) ==
  LET total == TotalAmount(cart[r], prices[r])
      accepted == cart[r].event \in DOMAIN event /\ Fits(total)
  IN /\ pc[r] = "order.create"
     /\ \/ /\ accepted
           /\ order' = Insert(order, Row(r, [event  |-> cart[r].event,
                                             method |-> cart[r].method,
                                             status |-> "PENDING",
                                             total  |-> total]))
           /\ Goto(r, "orderItem.createMany")
           /\ UNCHANGED <<event, ticketType, orderItem, ticket, checkIn, fresh,
                          cart, prices, lines, pending>>
        \/ ~ accepted /\ Throw(r)

\* Mutant: every payment method goes on as cash does.
PayAnyway(r) == Goto(r, "order.update") /\ UNCHANGED prices

\* create() after createOrder(): cash goes on to createCash(), a card order
\* waits for a webhook that does not exist yet.
Pay(r) ==
  \/ cart[r].method = "CASH" /\ Goto(r, "order.update") /\ UNCHANGED prices
  \/ cart[r].method = "STRIPE" /\ Return(r)

\* One INSERT of all lines: either every line is stored or none.
CreateOrderItems(r) ==
  LET items == cart[r].items
      rows == [i \in {[order |-> r, line |-> k] : k \in DOMAIN items} |->
                 [type      |-> items[i.line].type,
                  quantity  |-> items[i.line].quantity,
                  unitPrice |-> Price(prices[r], items[i.line].type)]]
      accepted == /\ r \in DOMAIN order
                  /\ TypesIn(cart[r]) \subseteq DOMAIN ticketType
                  /\ \A k \in DOMAIN items : Fits(items[k].quantity)
  IN /\ pc[r] = "orderItem.createMany"
     /\ \/ /\ accepted
           /\ orderItem' = Insert(orderItem, rows)
           /\ Pay(r)
           /\ UNCHANGED <<event, ticketType, order, ticket, checkIn, fresh,
                          cart, lines, pending>>
        \/ ~ accepted /\ Throw(r)

\* createCash(): the order is marked paid before any ticket exists.
MarkPaid(r) ==
  /\ pc[r] = "order.update"
  /\ \/ /\ r \in DOMAIN order
        /\ order' = [order EXCEPT ![r].status = "PAID"]
        /\ Goto(r, "order.findUnique")
        /\ UNCHANGED <<event, ticketType, orderItem, ticket, checkIn, fresh,
                       cart, prices, lines, pending>>
     \/ r \notin DOMAIN order /\ Throw(r)

\* createTicket(): the order is read again, and must be there and PAID.
FindOrder(r) ==
  LET accepted == r \in DOMAIN order /\ order[r].status = "PAID"
  IN /\ pc[r] = "order.findUnique"
     /\ \/ /\ accepted
           /\ Goto(r, "orderItem.findMany")
           /\ UNCHANGED <<tables, cart, prices, lines, pending>>
        \/ ~ accepted /\ Throw(r)

\* The lines read decide the increments, all sent at once by Promise.all.
FindOrderItems(r) ==
  /\ pc[r] = "orderItem.findMany"
  /\ lines'   = [lines EXCEPT ![r] = Restrict(orderItem, ItemsOf(r))]
  /\ pending' = [pending EXCEPT ![r] = ItemsOf(r)]
  /\ Goto(r, "ticket.createMany")
  /\ UNCHANGED <<tables, cart, prices>>

\* Mutant: increments by one, whatever the quantity of the line.
SellOne(t, n) == ticketType' = [ticketType EXCEPT ![t].sold = @ + 1]

Sell(t, n) == ticketType' = [ticketType EXCEPT ![t].sold = @ + n]

\* One ticketType.update of Promise.all, in any order.  The first to fail
\* makes the handler throw; the others, already sent, still run.
IncrementSold(r, i) ==
  LET row == lines[r][i]
      accepted == /\ row.type \in DOMAIN ticketType
                  /\ Fits(ticketType[row.type].sold + row.quantity)
  IN /\ i \in pending[r]
     /\ pending' = [pending EXCEPT ![r] = @ \ {i}]
     /\ \/ /\ accepted
           /\ Sell(row.type, row.quantity)
           /\ UNCHANGED <<event, order, orderItem, ticket, checkIn, fresh, pc, prices>>
        \/ /\ ~ accepted
           /\ IF pc[r] = "ticket.createMany" THEN Leave(r, "failed")
                                             ELSE UNCHANGED <<pc, prices>>
           /\ UNCHANGED tables
     /\ UNCHANGED <<cart, lines>>

\* ticket.createMany, after every increment: one INSERT of all the tickets,
\* each with a code of its own draw.
CreateTickets(r) ==
  /\ pc[r] = "ticket.createMany"
  /\ pending[r] = {}
  /\ \E codes \in [Units(lines[r]) -> Code] :
       LET rows == [u \in DOMAIN codes |->
                      [event   |-> cart[r].event,
                       type    |-> lines[r][LineOf(u)].type,
                       code    |-> codes[u],
                       answers |-> MatchedAnswers(cart[r], lines[r][LineOf(u)].type),
                       status  |-> "ISSUED"]]
           accepted == /\ DOMAIN rows # {} => r \in DOMAIN order
                       /\ \A u \in DOMAIN rows : rows[u].type \in DOMAIN ticketType
                       /\ CodesUnique(rows)
       IN \/ /\ accepted
             /\ ticket' = Insert(ticket, rows)
             /\ Return(r)
             /\ UNCHANGED <<event, ticketType, order, orderItem, checkIn, fresh,
                            cart, lines, pending>>
          \/ ~ accepted /\ Throw(r)

\* The process dies or the connection is lost before a statement is sent, or
\* with the answer of the one before: of the increments of Promise.all, some
\* were sent and some never are.
Abort(r) ==
  /\ MayAbort
  /\ pc[r] \in InProgress
  /\ \E sent \in SUBSET pending[r] : pending' = [pending EXCEPT ![r] = sent]
  /\ Leave(r, "failed")
  /\ UNCHANGED <<tables, cart, lines>>

Step(r) ==
  \/ RefuseMethod(r)
  \/ FindTicketTypes(r)
  \/ CreateOrder(r)
  \/ CreateOrderItems(r)
  \/ MarkPaid(r)
  \/ FindOrder(r)
  \/ FindOrderItems(r)
  \/ \E i \in pending[r] : IncrementSold(r, i)
  \/ CreateTickets(r)

OrdersNext == \E r \in OrderId : Step(r) \/ Abort(r)
=============================================================================
