--------------------------- MODULE SalesTheorems ----------------------------
(***************************************************************************)
(* Sales, for every set of requests, ticket types and codes, every bound   *)
(* on the handlers in progress, and every INTEGER width: an order gets all *)
(* of its tickets or none, no foreign key dangles, and the buyer is        *)
(* answered what the tables say.                                           *)
(*                                                                         *)
(* First the types (TypeInv).  Then issuance, none of whose three          *)
(* properties is inductive by itself.  What carries them is how far the    *)
(* tables have got for each value of a handler's pc (Progress), and that   *)
(* the rows of one order agree with each other and with the request        *)
(* (RowsAgree): a row that an event's deletion leaves behind then has all  *)
(* its relatives left behind too.                                          *)
(***************************************************************************)
EXTENDS Sales, TableTheorems

(***************************************************************************)
(* Types: one lemma for the organizers' actions and one for each kind of   *)
(* step of an order's handler.                                             *)
(***************************************************************************)
LEMMA CatalogTypeOK_Step ==
  ASSUME TypeOK, CatalogNext, UNCHANGED requestVars
  PROVE  TypeOK'
<1>1. OrdersTypeOK'
  BY DEF TypeOK, OrdersTypeOK, requestVars, IsTable
<1> QED BY <1>1, CatalogTypes DEF TypeOK

-----------------------------------------------------------------------------
(* A row under key i is the line of the body of POST /orders that i names. *)
IsLine(i, row) ==
  LET items == cart[i.order].items
  IN /\ i.line \in DOMAIN items
     /\ row.type = items[i.line].type
     /\ row.quantity = items[i.line].quantity

(* The lines stored, and the lines a handler read back, are those of the   *)
(* request.                                                                *)
LinesOfCart ==
  /\ \A i \in DOMAIN orderItem : IsLine(i, orderItem[i])
  /\ \A r \in OrderId : \A i \in DOMAIN lines[r] :
       i.order = r /\ IsLine(i, lines[r][i])

(* What the elements of a sequence are, and its keys.                      *)
LEMMA SeqFacts ==
  ASSUME NEW S, NEW s \in Seq(S)
  PROVE  /\ Len(s) \in Nat /\ DOMAIN s = 1 .. Len(s)
         /\ \A k \in DOMAIN s : s[k] \in S
         /\ s # <<>> => 1 \in DOMAIN s
  OBVIOUS

(* The fields of a body of POST /orders, as CreateOrderDto types them.     *)
LEMMA CartType ==
  ASSUME NEW c \in Cart
  PROVE  /\ c.event \in EventId
         /\ c.method \in PaymentMethod
         /\ Len(c.items) \in Nat
         /\ DOMAIN c.items = 1 .. Len(c.items) /\ 1 \in DOMAIN c.items
         /\ \A k \in DOMAIN c.items : /\ c.items[k].type \in TicketTypeId
                                     /\ c.items[k].quantity \in Nat \ {0}
                                     /\ c.items[k].answers \in Answers
<1>1. /\ c.event \in EventId /\ c.method \in PaymentMethod
      /\ c.items \in Seq(OrderLine) /\ c.items # <<>>
  BY CartAssumption DEF Admissible
<1>2. /\ Len(c.items) \in Nat /\ DOMAIN c.items = 1 .. Len(c.items)
      /\ 1 \in DOMAIN c.items
      /\ \A k \in DOMAIN c.items : c.items[k] \in OrderLine
  BY <1>1, SeqFacts
<1> QED BY <1>1, <1>2 DEF OrderLine

(* The answers of a type of the request are among those it carries.        *)
LEMMA MatchedAnswersType ==
  ASSUME NEW c \in Cart, NEW k \in DOMAIN c.items
  PROVE  MatchedAnswers(c, c.items[k].type) \in Answers
<1> DEFINE t == c.items[k].type
           n == Len(c.items)
           Same == {j \in DOMAIN c.items : c.items[j].type = t}
           Back == {n - j : j \in Same}
<1>1. n \in Nat /\ DOMAIN c.items = 1 .. n
  BY CartType
<1>2. Back \subseteq Nat /\ Back # {}
  <2>1. \A j \in 1 .. n : n - j \in Nat
    BY <1>1
  <2>2. k \in Same
    OBVIOUS
  <2>3. n - k \in Back
    BY <2>2
  <2> QED BY <1>1, <2>1, <2>3
<1>3. PICK m \in Back : \A b \in Back : ~ (<<b, m>> \in OpToRel(<, Nat))
  BY <1>2, WFMin, NatLessThanWellFounded
<1>4. PICK j \in Same : m = n - j
  OBVIOUS
<1>5. \A i \in (j + 1) .. n : c.items[i].type # t
  <2> SUFFICES ASSUME NEW i \in (j + 1) .. n, c.items[i].type = t
               PROVE  FALSE
    OBVIOUS
  <2>1. j \in 1 .. n /\ i \in 1 .. n
    BY <1>1
  <2>2. n - i < m /\ n - i \in Nat /\ m \in Nat
    <3> HIDE DEF t, n, Same, Back
    <3> QED BY <1>1, <1>4, <2>1
  <2>3. n - i \in Back
    BY <1>1, <2>1
  <2>4. <<n - i, m>> \in OpToRel(<, Nat)
    BY <2>2 DEF OpToRel
  <2> QED BY <1>3, <2>3, <2>4
<1>6. \E l \in DOMAIN c.items :
             /\ c.items[l].type = t
             /\ \A h \in (l + 1) .. Len(c.items) : c.items[h].type # t
  BY <1>4, <1>5
<1>7. MatchedAnswers(c, t) \in {c.items[l].answers : l \in DOMAIN c.items}
  BY <1>6 DEF MatchedAnswers
<1> QED BY <1>7, CartType

-----------------------------------------------------------------------------
TypeInv == TypeOK /\ LinesOfCart

(* The handler's own steps, which write no table.                          *)
LEMMA LocalTypeInv_Step ==
  ASSUME TypeInv, UNCHANGED removing, NEW r \in OrderId,
         \/ RefuseMethod(r) \/ FindTicketTypes(r) \/ FindOrder(r)
         \/ FindOrderItems(r) \/ Throw(r) \/ Abort(r)
  PROVE  TypeInv'
<1> USE DEF TypeInv, TypeOK, OrdersTypeOK, CatalogTypeOK, Stage, InProgress
<1>1. CASE UNCHANGED <<tables, cart, lines>> /\ Leave(r, "refused") /\ UNCHANGED pending
  BY <1>1 DEF Leave, Nothing, tables, DatabaseTypeOK, IsTable, LinesOfCart, IsLine
<1>2. CASE Throw(r)
  BY <1>2 DEF Throw, Leave, Nothing, tables, DatabaseTypeOK, IsTable, LinesOfCart, IsLine
<1>3. CASE Abort(r)
  <2>1. pending' \in [OrderId -> SUBSET ItemId]
    BY <1>3 DEF Abort
  <2>2. UNCHANGED <<tables, cart, lines>> /\ Leave(r, "failed")
    BY <1>3 DEF Abort
  <2>3. OrdersTypeOK'
    BY <2>1, <2>2 DEF Leave, Nothing
  <2>4. DatabaseTypeOK' /\ CatalogTypeOK'
    BY <2>2 DEF tables, DatabaseTypeOK
  <2>5. LinesOfCart'
    BY <2>2 DEF tables, LinesOfCart, IsLine
  <2> QED BY <2>3, <2>4, <2>5
<1>4. CASE FindOrder(r)
  <2>1. CASE Throw(r) BY <1>2, <2>1
  <2>2. CASE Goto(r, "orderItem.findMany")
             /\ UNCHANGED <<tables, cart, prices, lines, pending>>
    BY <2>2 DEF Goto, tables, DatabaseTypeOK, IsTable, LinesOfCart, IsLine
  <2> QED BY <1>4, <2>1, <2>2 DEF FindOrder
<1>5. CASE RefuseMethod(r)
  BY <1>1, <1>5 DEF RefuseMethod
<1>6. CASE FindTicketTypes(r)
  <2> DEFINE found == TypesIn(cart[r]) \cap DOMAIN ticketType
             quote == [t \in found |-> ticketType[t].price]
  <2>1. CASE Leave(r, "refused")
    BY <1>1, <1>6, <2>1 DEF FindTicketTypes
  <2>2. CASE /\ Goto(r, "order.create")
             /\ prices' = [prices EXCEPT ![r] = quote]
    <3>1. DOMAIN quote \subseteq TicketTypeId /\ quote \in [DOMAIN quote -> INTEGER]
      BY DEF DatabaseTypeOK, IsTable, TicketTypeRow
    <3>2. UNCHANGED <<tables, cart, lines, pending>>
      BY <1>6 DEF FindTicketTypes
    <3> HIDE DEF quote
    <3>3. \A o \in OrderId : /\ DOMAIN prices'[o] \subseteq TicketTypeId
                             /\ prices'[o] \in [DOMAIN prices'[o] -> INTEGER]
      BY <2>2, <3>1
    <3>4. DOMAIN prices' = OrderId /\ pc' \in [OrderId -> Stage]
      BY <2>2 DEF Goto
    <3>5. OrdersTypeOK'
      BY <3>2, <3>3, <3>4
    <3>6. DatabaseTypeOK' /\ CatalogTypeOK'
      BY <3>2 DEF tables, DatabaseTypeOK
    <3>7. LinesOfCart'
      BY <3>2 DEF tables, LinesOfCart, IsLine
    <3> QED BY <3>5, <3>6, <3>7
  <2> QED BY <1>6, <2>1, <2>2 DEF FindTicketTypes
<1>7. CASE FindOrderItems(r)
  <2> DEFINE read == Restrict(orderItem, ItemsOf(r))
  <2>1. IsTable(read, ItemId, OrderItemRow)
    BY DEF Restrict, ItemsOf, IsTable, DatabaseTypeOK
  <2>2. \A i \in DOMAIN read : i.order = r /\ IsLine(i, read[i])
    BY DEF Restrict, ItemsOf, LinesOfCart
  <2>3. ItemsOf(r) \subseteq ItemId
    BY DEF ItemsOf, DatabaseTypeOK, IsTable
  <2> HIDE DEF read
  <2>4. /\ lines' = [lines EXCEPT ![r] = read]
        /\ pending' = [pending EXCEPT ![r] = ItemsOf(r)]
        /\ pc' = [pc EXCEPT ![r] = "ticket.createMany"]
        /\ UNCHANGED <<tables, cart, prices>>
    BY <1>7 DEF FindOrderItems, Goto, read
  <2>5. OrdersTypeOK'
    BY <2>1, <2>3, <2>4
  <2>6. LinesOfCart'
    BY <2>2, <2>4 DEF LinesOfCart, IsLine, tables
  <2> QED BY <2>4, <2>5, <2>6 DEF tables, DatabaseTypeOK
<1> QED BY <1>2, <1>3, <1>4, <1>5, <1>6, <1>7

(* INSERT and UPDATE of the order's row.                                   *)
LEMMA OrderTypeInv_Step ==
  ASSUME TypeInv, UNCHANGED removing, NEW r \in OrderId,
         CreateOrder(r) \/ MarkPaid(r)
  PROVE  TypeInv'
<1> USE DEF TypeInv, TypeOK, OrdersTypeOK, CatalogTypeOK, Stage, InProgress, Goto
<1>1. CASE Throw(r)
  BY <1>1, LocalTypeInv_Step
<1>2. ASSUME /\ IsTable(order', OrderId, OrderRow)
             /\ \E stage \in Stage : Goto(r, stage)
             /\ UNCHANGED <<event, ticketType, orderItem, ticket, checkIn, fresh,
                            cart, prices, lines, pending>>
      PROVE  TypeInv'
  BY <1>2 DEF DatabaseTypeOK, IsTable, LinesOfCart, IsLine
<1>3. CASE CreateOrder(r) /\ ~ Throw(r)
  <2> DEFINE row == [event |-> cart[r].event, method |-> cart[r].method,
                     status |-> "PENDING", total |-> TotalAmount(cart[r], prices[r])]
  <2>1. row \in OrderRow
    BY <1>3, CartType DEF CreateOrder, Fits, OrderRow, PaymentStatus
  <2>2. IsTable(Row(r, row), OrderId, OrderRow)
    BY <2>1, RowTable
  <2>3. order' = Insert(order, Row(r, row)) /\ Goto(r, "orderItem.createMany")
    BY <1>3 DEF CreateOrder
  <2>4. IsTable(order', OrderId, OrderRow)
    BY <2>2, <2>3, InsertTable DEF DatabaseTypeOK
  <2> QED BY <1>2, <1>3, <2>3, <2>4 DEF CreateOrder
<1>4. CASE MarkPaid(r) /\ ~ Throw(r)
  <2>1. /\ r \in DOMAIN order
        /\ order' = [order EXCEPT ![r].status = "PAID"]
    BY <1>4 DEF MarkPaid
  <2>2. [order[r] EXCEPT !.status = "PAID"] \in OrderRow
    <3>1. order[r] \in OrderRow
      BY <2>1 DEF DatabaseTypeOK, IsTable
    <3> QED BY <3>1 DEF OrderRow, PaymentStatus
  <2>3. IsTable(order', OrderId, OrderRow)
    BY <2>1, <2>2 DEF DatabaseTypeOK, IsTable
  <2> QED BY <1>2, <1>4, <2>3 DEF MarkPaid
<1> QED BY <1>1, <1>3, <1>4

(* INSERT of the order's lines.                                            *)
LEMMA CreateOrderItemsTypeInv_Step ==
  ASSUME TypeInv, UNCHANGED removing, NEW r \in OrderId, CreateOrderItems(r)
  PROVE  TypeInv'
<1> USE DEF TypeInv, TypeOK, OrdersTypeOK, CatalogTypeOK
<1> DEFINE items == cart[r].items
           keys == {[order |-> r, line |-> k] : k \in DOMAIN items}
           rows == [i \in keys |->
                 [type      |-> items[i.line].type,
                  quantity  |-> items[i.line].quantity,
                  unitPrice |-> Price(prices[r], items[i.line].type)]]
<1>1. CASE Throw(r)
  BY <1>1, LocalTypeInv_Step
<1>2. CASE ~ Throw(r)
  <2>1. /\ orderItem' = Insert(orderItem, rows)
        /\ Pay(r)
        /\ \A k \in DOMAIN items : Fits(items[k].quantity)
        /\ UNCHANGED <<event, ticketType, order, ticket, checkIn, fresh,
                       cart, lines, pending>>
    BY <1>2 DEF CreateOrderItems
  <2>2. \A t \in TicketTypeId : Price(prices[r], t) \in INTEGER
    BY MaxIntAssumption DEF Price, INTEGER
  <2>3. \A k \in DOMAIN items : k \in Nat /\ items[k].type \in TicketTypeId
    BY CartType
  <2>4. keys \subseteq ItemId
    BY <2>3, SMTT(20) DEF ItemId
  <2>5. \A i \in keys : /\ i.order = r /\ i.line \in DOMAIN items
                        /\ rows[i] \in OrderItemRow
                        /\ rows[i].type = items[i.line].type
                        /\ rows[i].quantity = items[i.line].quantity
    <3> SUFFICES ASSUME NEW k \in DOMAIN items
                 PROVE  LET i == [order |-> r, line |-> k]
                        IN /\ i.order = r /\ i.line \in DOMAIN items
                           /\ rows[i] \in OrderItemRow
                           /\ rows[i].type = items[i.line].type
                           /\ rows[i].quantity = items[i.line].quantity
      OBVIOUS
    <3>1. items[k].type \in TicketTypeId /\ items[k].quantity \in INTEGER
      BY <2>1, <2>3 DEF Fits
    <3>2. rows[[order |-> r, line |-> k]] =
            [type |-> items[k].type, quantity |-> items[k].quantity,
             unitPrice |-> Price(prices[r], items[k].type)]
      OBVIOUS
    <3> QED BY <3>1, <3>2, <2>2 DEF OrderItemRow
  <2>6. IsTable(rows, ItemId, OrderItemRow) /\ DOMAIN rows = keys
    BY <2>4, <2>5 DEF IsTable
  <2> HIDE DEF rows, keys
  <2>7. /\ IsTable(orderItem', ItemId, OrderItemRow)
        /\ \A i \in DOMAIN orderItem' :
             \/ i \in keys /\ orderItem'[i] = rows[i]
             \/ i \in DOMAIN orderItem /\ orderItem'[i] = orderItem[i]
    <3>1. IsTable(orderItem, ItemId, OrderItemRow)
      BY DEF DatabaseTypeOK
    <3>2. /\ IsTable(Insert(orderItem, rows), ItemId, OrderItemRow)
          /\ DOMAIN Insert(orderItem, rows) = DOMAIN orderItem \cup DOMAIN rows
          /\ \A i \in DOMAIN rows : Insert(orderItem, rows)[i] = rows[i]
          /\ \A i \in DOMAIN orderItem \ DOMAIN rows :
               Insert(orderItem, rows)[i] = orderItem[i]
      BY <3>1, <2>6 DEF Insert, IsTable
    <3>3. orderItem' = Insert(orderItem, rows)
      BY <2>1
    <3> QED BY <3>2, <3>3, <2>6
  <2>8. \A i \in DOMAIN orderItem' : IsLine(i, orderItem'[i])
    BY <2>5, <2>7 DEF LinesOfCart, IsLine
  <2>9. LinesOfCart'
    BY <2>1, <2>8 DEF LinesOfCart, IsLine
  <2>10. OrdersTypeOK'
    <3>1. CASE Goto(r, "order.update") /\ UNCHANGED prices
      BY <2>1, <3>1 DEF Goto, IsTable, Stage, InProgress
    <3>2. ASSUME NEW outcome \in {"done", "failed"}, Leave(r, outcome)
          PROVE  OrdersTypeOK'
      BY <2>1, <3>2 DEF Leave, Nothing, IsTable, Stage, InProgress
    <3> QED BY <2>1, <3>1, <3>2 DEF Pay, Return
  <2> QED BY <2>1, <2>7, <2>9, <2>10 DEF DatabaseTypeOK
<1> QED BY <1>1, <1>2

(* UPDATE of a ticket type's `sold'.                                       *)
LEMMA IncrementSoldTypeInv_Step ==
  ASSUME TypeInv, UNCHANGED removing, NEW r \in OrderId, NEW i \in pending[r],
         IncrementSold(r, i)
  PROVE  TypeInv'
<1> USE DEF TypeInv, TypeOK, OrdersTypeOK, CatalogTypeOK
<1> DEFINE row == lines[r][i]
<1>1. /\ pending' = [pending EXCEPT ![r] = @ \ {i}]
      /\ UNCHANGED <<cart, lines>>
      /\ UNCHANGED <<pc, prices>> \/ Leave(r, "failed")
      /\ \/ UNCHANGED tables
         \/ /\ row.type \in DOMAIN ticketType
            /\ Fits(ticketType[row.type].sold + row.quantity)
            /\ Sell(row.type, row.quantity)
            /\ UNCHANGED <<event, order, orderItem, ticket, checkIn, fresh>>
  BY DEF IncrementSold
<1>2. OrdersTypeOK'
  <2>1. pending' \in [OrderId -> SUBSET ItemId]
    BY <1>1
  <2>2. CASE UNCHANGED <<pc, prices>>
    BY <1>1, <2>1, <2>2 DEF IsTable
  <2>3. CASE Leave(r, "failed")
    BY <1>1, <2>1, <2>3 DEF Leave, Nothing, IsTable, Stage, InProgress
  <2> QED BY <1>1, <2>2, <2>3
<1>3. LinesOfCart'
  <2>1. UNCHANGED <<orderItem, cart, lines>>
    BY <1>1 DEF tables
  <2> QED BY <2>1 DEF LinesOfCart, IsLine
<1>4. DatabaseTypeOK'
  <2>1. CASE UNCHANGED tables
    BY <2>1 DEF tables, DatabaseTypeOK
  <2>2. CASE /\ row.type \in DOMAIN ticketType
             /\ Fits(ticketType[row.type].sold + row.quantity)
             /\ Sell(row.type, row.quantity)
             /\ UNCHANGED <<event, order, orderItem, ticket, checkIn, fresh>>
    <3>1. ticketType' = [ticketType EXCEPT ![row.type].sold =
                           ticketType[row.type].sold + row.quantity]
      BY <2>2 DEF Sell
    <3>2. [ticketType[row.type] EXCEPT !.sold =
             ticketType[row.type].sold + row.quantity] \in TicketTypeRow
      BY <2>2 DEF Fits, DatabaseTypeOK, IsTable, TicketTypeRow
    <3>3. IsTable(ticketType', TicketTypeId, TicketTypeRow)
      BY <3>1, <3>2 DEF DatabaseTypeOK, IsTable
    <3> QED BY <2>2, <3>3 DEF DatabaseTypeOK
  <2> QED BY <1>1, <2>1, <2>2
<1> QED BY <1>2, <1>3, <1>4

(* INSERT of the order's tickets.                                          *)
LEMMA CreateTicketsTypeInv_Step ==
  ASSUME TypeInv, UNCHANGED removing, NEW r \in OrderId, CreateTickets(r)
  PROVE  TypeInv'
<1> USE DEF TypeInv, TypeOK, OrdersTypeOK, CatalogTypeOK
<1>1. CASE Throw(r)
  BY <1>1, LocalTypeInv_Step
<1>2. CASE ~ Throw(r)
  <2>1. PICK codes \in [Units(lines[r]) -> Code] :
          /\ ticket' = Insert(ticket,
               [u \in DOMAIN codes |->
                      [event   |-> cart[r].event,
                       type    |-> lines[r][LineOf(u)].type,
                       code    |-> codes[u],
                       answers |-> MatchedAnswers(cart[r], lines[r][LineOf(u)].type),
                       status  |-> "ISSUED"]])
          /\ Return(r)
          /\ UNCHANGED <<event, ticketType, order, orderItem, checkIn, fresh,
                         cart, lines, pending>>
    BY <1>2 DEF CreateTickets
  <2> DEFINE rows == [u \in DOMAIN codes |->
                      [event   |-> cart[r].event,
                       type    |-> lines[r][LineOf(u)].type,
                       code    |-> codes[u],
                       answers |-> MatchedAnswers(cart[r], lines[r][LineOf(u)].type),
                       status  |-> "ISSUED"]]
  <2>2. \A u \in Units(lines[r]) : u \in TicketId /\ LineOf(u) \in DOMAIN lines[r]
    <3> SUFFICES ASSUME NEW i \in DOMAIN lines[r],
                        NEW n \in 0 .. lines[r][i].quantity - 1
                 PROVE  LET u == [order |-> i.order, line |-> i.line, index |-> n]
                        IN u \in TicketId /\ LineOf(u) \in DOMAIN lines[r]
      BY DEF Units
    <3>1. i \in ItemId /\ i = [order |-> i.order, line |-> i.line]
      BY DEF IsTable, ItemId
    <3>2. lines[r][i].quantity \in Nat
      BY MaxIntAssumption DEF IsTable, OrderItemRow, INTEGER
    <3> QED BY <3>1, <3>2 DEF TicketId, LineOf, ItemId
  <2>3. \A u \in Units(lines[r]) : rows[u] \in TicketRow
    <3> SUFFICES ASSUME NEW u \in Units(lines[r]) PROVE rows[u] \in TicketRow
      OBVIOUS
    <3> DEFINE t == lines[r][LineOf(u)].type
    <3>1. LineOf(u) \in DOMAIN lines[r]
      BY <2>2
    <3>2. t \in TicketTypeId
      BY <3>1 DEF IsTable, OrderItemRow
    <3>3. PICK k \in DOMAIN cart[r].items : cart[r].items[k].type = t
      BY <3>1 DEF LinesOfCart, IsLine
    <3>4. MatchedAnswers(cart[r], t) \in Answers
      BY <3>3, MatchedAnswersType
    <3>5. cart[r].event \in EventId
      BY CartType
    <3> QED BY <3>2, <3>4, <3>5 DEF TicketRow, TicketStatus
  <2>4. IsTable(rows, TicketId, TicketRow)
    BY <2>2, <2>3 DEF IsTable
  <2> HIDE DEF rows
  <2>5. IsTable(ticket', TicketId, TicketRow)
    BY <2>1, <2>4, InsertTable DEF DatabaseTypeOK, rows
  <2>6. OrdersTypeOK'
    <3>1. ASSUME NEW outcome \in {"done", "failed"}, Leave(r, outcome)
          PROVE  OrdersTypeOK'
      BY <2>1, <3>1 DEF Leave, Nothing, IsTable, Stage, InProgress
    <3> QED BY <2>1, <3>1 DEF Return
  <2>7. LinesOfCart'
    BY <2>1 DEF LinesOfCart, IsLine
  <2> QED BY <2>1, <2>5, <2>6, <2>7 DEF DatabaseTypeOK
<1> QED BY <1>1, <1>2

(* The typing invariant holds before the first order. *)
LEMMA TypeInv_Init == Init => TypeInv
<1> SUFFICES ASSUME Init PROVE TypeInv
  OBVIOUS
<1>1. DatabaseTypeOK
  BY InitTypeOK DEF Init
<1>2. CatalogTypeOK
  BY DEF Init, CatalogInit, CatalogTypeOK
<1>3. OrdersTypeOK /\ LinesOfCart
  BY DEF Init, DatabaseInit, OrdersInit, OrdersTypeOK, LinesOfCart, Nothing,
         IsTable, Stage
<1> QED BY <1>1, <1>2, <1>3 DEF TypeInv, TypeOK

(* No step of the catalogue adds an order line or touches a request.       *)
LEMMA CatalogTypeInv_Step ==
  ASSUME TypeInv, CatalogNext, UNCHANGED requestVars
  PROVE  TypeInv'
<1>1. TypeOK'
  BY CatalogTypeOK_Step DEF TypeInv
<1>2. \/ UNCHANGED orderItem
      \/ \E gone \in SUBSET DOMAIN orderItem : orderItem' = Delete(orderItem, gone)
  <2>1. CASE \E e \in EventId : DeleteEvent(e)
    BY <2>1 DEF DeleteEvent
  <2> QED
    BY <2>1 DEF CatalogNext, EventsNext, TicketTypesNext, CreateEvent,
           UpdateEvent, Publish, CancelEvent, RemoveEvent, CreateTicketType,
           UpdateTicketType, CheckRemoval, RemoveTicketType, tables
<1>3. /\ DOMAIN orderItem' \subseteq DOMAIN orderItem
      /\ \A i \in DOMAIN orderItem' : orderItem'[i] = orderItem[i]
  BY <1>2 DEF Delete, Restrict
<1>4. LinesOfCart'
  BY <1>3 DEF TypeInv, LinesOfCart, IsLine, requestVars
<1> QED BY <1>1, <1>4 DEF TypeInv

(* Every step of every order, and every edit of the catalogue, keeps the typing
   invariant. *)
LEMMA TypeInv_Step == TypeInv /\ [Next]_vars => TypeInv'
<1> SUFFICES ASSUME TypeInv, [Next]_vars PROVE TypeInv'
  OBVIOUS
<1>1. CASE UNCHANGED vars
  BY <1>1 DEF vars, tables, requestVars, TypeInv, TypeOK, DatabaseTypeOK,
              CatalogTypeOK, OrdersTypeOK, IsTable, LinesOfCart, IsLine
<1>2. CASE CatalogNext /\ UNCHANGED requestVars
  BY <1>2, CatalogTypeInv_Step
<1>3. ASSUME NEW r \in OrderId, Step(r) \/ Abort(r), UNCHANGED removing
      PROVE  TypeInv'
  BY <1>3, LocalTypeInv_Step, OrderTypeInv_Step, CreateOrderItemsTypeInv_Step,
     IncrementSoldTypeInv_Step, CreateTicketsTypeInv_Step
  DEF Step
<1> QED BY <1>1, <1>2, <1>3 DEF Next, OrdersNext

(* The tables hold rows of the schema's types, and no handler's local      *)
(* state goes wrong, whatever the requests and however they interleave:    *)
(* in particular no INTEGER column of an accepted statement overflows.     *)
THEOREM SalesTypeOK == Spec => []TypeOK
<1>1. Spec => []TypeInv
  BY TypeInv_Init, TypeInv_Step, PTL DEF Spec
<1>2. TypeInv => TypeOK
  BY DEF TypeInv
<1> QED BY <1>1, <1>2, PTL

-----------------------------------------------------------------------------
(* Issuance: how far an order has got, and how its rows agree.             *)
BeforeOrder == {"idle", "order.create", "refused"}
CashOnly    == {"order.update", "order.findUnique", "orderItem.findMany",
                "ticket.createMany"}

ProgressOf(r) ==
  /\ pc[r] \in BeforeOrder => r \notin DOMAIN order
  /\ pc[r] \in BeforeOrder \cup {"orderItem.createMany"} => ItemsOf(r) = {}
  /\ TicketsOf(r) # {} => pc[r] \in {"done", "failed"}
  /\ TicketsOf(r) # {} /\ pc[r] = "failed" => MayAbort /\ pending[r] = {}
  /\ pc[r] \in CashOnly => cart[r].method = "CASH"
  /\ (pc[r] \in CashOnly \cup {"done"} \/ TicketsOf(r) # {}) /\ r \in DOMAIN order =>
       {i.line : i \in ItemsOf(r)} = DOMAIN cart[r].items
  /\ pc[r] \in {"orderItem.findMany", "ticket.createMany"} /\ r \in DOMAIN order =>
       order[r].status = "PAID"
  /\ pc[r] = "ticket.createMany" /\ r \in DOMAIN order =>
       lines[r] = Restrict(orderItem, ItemsOf(r))
  /\ pc[r] = "done" /\ r \in DOMAIN order /\ cart[r].method = "CASH" =>
       TicketsOf(r) # {}

Progress == \A r \in OrderId : ProgressOf(r)

(* IssuedInFull, of one order.                                             *)
InFull(o) ==
  o \in DOMAIN order /\ TicketsOf(o) # {} =>
    /\ TicketsOf(o) = Units(Restrict(orderItem, ItemsOf(o)))
    /\ order[o].status = "PAID"
    /\ order[o].method = "CASH"

RowsAgree ==
  /\ \A o \in DOMAIN order : /\ order[o].event = cart[o].event
                             /\ order[o].method = cart[o].method
  /\ \A u \in DOMAIN ticket :
       /\ ticket[u].event = cart[u.order].event
       /\ LineOf(u) \in DOMAIN orderItem
       /\ ticket[u].type = orderItem[LineOf(u)].type

IssuanceInv ==
  TypeInv /\ Progress /\ RowsAgree /\ IssuedInFull /\ ReferencesResolve

-----------------------------------------------------------------------------
(* What a step does to a request and its rows: nothing, or it deletes them *)
(* all.                                                                    *)
SameRequest(o) ==
  /\ pc'[o] = pc[o]
  /\ cart'[o] = cart[o]
  /\ lines'[o] = lines[o]
  /\ pending'[o] = pending[o]

SameRows(o) ==
  /\ o \in DOMAIN order' <=> o \in DOMAIN order
  /\ o \in DOMAIN order => order'[o] = order[o]
  /\ ItemsOf(o)' = ItemsOf(o)
  /\ \A i \in ItemsOf(o) : orderItem'[i] = orderItem[i]
  /\ TicketsOf(o)' = TicketsOf(o)

NoRows(o) == o \notin DOMAIN order' /\ ItemsOf(o)' = {} /\ TicketsOf(o)' = {}

(* An order that a step leaves alone, rows included, or whose rows the step
   deletes all at once, keeps its part of the issuance invariant. *)
LEMMA Undisturbed ==
  ASSUME NEW o \in OrderId, ProgressOf(o), InFull(o), SameRequest(o),
         SameRows(o) \/ NoRows(o)
  PROVE  ProgressOf(o)' /\ InFull(o)'
<1>1. CASE SameRows(o)
  <2>1. Restrict(orderItem, ItemsOf(o))' = Restrict(orderItem, ItemsOf(o))
    BY <1>1 DEF SameRows, Restrict
  <2> QED
    BY <1>1, <2>1 DEF SameRows, SameRequest, ProgressOf, InFull
<1>2. CASE NoRows(o)
  BY <1>2 DEF NoRows, SameRequest, ProgressOf, InFull
<1> QED BY <1>1, <1>2

(* A step of one handler that leaves the other requests and their rows     *)
(* alone need only be followed for its own request.                        *)
LEMMA OwnStep ==
  ASSUME IssuanceInv, TypeInv', RowsAgree', ReferencesResolve',
         NEW r \in OrderId, ProgressOf(r)', InFull(r)',
         \A o \in OrderId \ {r} : SameRequest(o) /\ SameRows(o)
  PROVE  IssuanceInv'
<1>1. \A o \in OrderId : InFull(o)
  BY DEF IssuanceInv, IssuedInFull, InFull
<1>2. \A o \in OrderId : ProgressOf(o)' /\ InFull(o)'
  BY <1>1, Undisturbed DEF IssuanceInv, Progress
<1>3. DOMAIN order' \subseteq OrderId
  BY DEF TypeInv, TypeOK, DatabaseTypeOK, IsTable
<1> QED BY <1>2, <1>3 DEF IssuanceInv, Progress, IssuedInFull, InFull

-----------------------------------------------------------------------------
(* Steps of a handler that leave every table as it is.                     *)
LocalStep(r) ==
  \/ RefuseMethod(r) \/ FindTicketTypes(r) \/ FindOrder(r) \/ FindOrderItems(r)
  \/ Throw(r) /\ pc[r] \in InProgress
  \/ Abort(r)

(* A step of an order that writes no row keeps the issuance invariant. *)
LEMMA LocalIssuance_Step ==
  ASSUME IssuanceInv, UNCHANGED removing, NEW r \in OrderId, LocalStep(r)
  PROVE  IssuanceInv'
<1> USE DEF LocalStep
<1>1. TypeInv /\ TypeInv'
  BY LocalTypeInv_Step DEF IssuanceInv
<1>2. UNCHANGED <<tables, cart>>
  BY DEF RefuseMethod, FindTicketTypes, FindOrder, FindOrderItems, Throw, Abort
<1>3. RowsAgree' /\ ReferencesResolve'
  BY <1>2 DEF IssuanceInv, RowsAgree, ReferencesResolve, tables, LineOf
<1>4. ItemsOf(r)' = ItemsOf(r) /\ TicketsOf(r)' = TicketsOf(r)
  BY <1>2 DEF tables, ItemsOf, TicketsOf
<1>5. InFull(r)'
  BY <1>1, <1>2, <1>4
  DEF IssuanceInv, IssuedInFull, InFull, tables, TypeInv, TypeOK,
      DatabaseTypeOK, IsTable
<1>6. /\ pc \in [OrderId -> Stage]
      /\ DOMAIN lines = OrderId
      /\ pending \in [OrderId -> SUBSET ItemId]
  BY <1>1 DEF TypeInv, TypeOK, OrdersTypeOK
<1>7. ProgressOf(r)
  BY DEF IssuanceInv, Progress
<1>8. ProgressOf(r)'
  <2>1. CASE \/ Leave(r, "failed") /\ pc[r] \in InProgress
             \/ Leave(r, "refused") /\ pc[r] = "idle"
    BY <1>2, <1>4, <1>6, <1>7, <2>1
    DEF Leave, ProgressOf, tables, BeforeOrder, CashOnly, InProgress
  <2>2. CASE pc[r] = "idle" /\ Goto(r, "order.create")
    BY <1>2, <1>4, <1>6, <1>7, <2>2
    DEF Goto, ProgressOf, tables, BeforeOrder, CashOnly
  <2>3. CASE /\ pc[r] = "order.findUnique"
             /\ order[r].status = "PAID"
             /\ Goto(r, "orderItem.findMany")
    BY <1>2, <1>4, <1>6, <1>7, <2>3
    DEF Goto, ProgressOf, tables, BeforeOrder, CashOnly
  <2>4. CASE FindOrderItems(r)
    BY <1>2, <1>4, <1>6, <1>7, <2>4
    DEF FindOrderItems, Goto, ProgressOf, tables, BeforeOrder, CashOnly
  <2> QED
    BY <2>1, <2>2, <2>3, <2>4
    DEF RefuseMethod, FindTicketTypes, FindOrder, Throw, Abort, InProgress
<1>9. \A o \in OrderId \ {r} : SameRequest(o) /\ SameRows(o)
  BY <1>2, <1>6
  DEF RefuseMethod, FindTicketTypes, FindOrder, FindOrderItems, Throw, Abort,
      Leave, Goto, SameRequest, SameRows, tables, ItemsOf, TicketsOf
<1> QED BY <1>1, <1>3, <1>5, <1>8, <1>9, OwnStep

(* INSERT of the order: it has neither lines nor tickets yet.              *)
LEMMA CreateOrderIssuance_Step ==
  ASSUME IssuanceInv, UNCHANGED removing, NEW r \in OrderId, CreateOrder(r)
  PROVE  IssuanceInv'
<1>1. TypeInv /\ TypeInv'
  BY OrderTypeInv_Step DEF IssuanceInv
<1>2. CASE Throw(r)
  BY <1>2, LocalIssuance_Step DEF CreateOrder, LocalStep, InProgress
<1>3. CASE ~ Throw(r)
  <2> DEFINE row == [event |-> cart[r].event, method |-> cart[r].method,
                     status |-> "PENDING", total |-> TotalAmount(cart[r], prices[r])]
  <2>1. /\ pc[r] = "order.create"
        /\ cart[r].event \in DOMAIN event
        /\ order' = Insert(order, Row(r, row))
        /\ Goto(r, "orderItem.createMany")
        /\ UNCHANGED <<event, ticketType, orderItem, ticket, checkIn, fresh,
                       cart, prices, lines, pending>>
    BY <1>3 DEF CreateOrder
  <2>2. /\ DOMAIN order' = DOMAIN order \cup {r}
        /\ order'[r] = row
        /\ \A o \in DOMAIN order \ {r} : order'[o] = order[o]
    BY <2>1 DEF Insert, Row
  <2>3. row.event = cart[r].event /\ row.method = cart[r].method
    OBVIOUS
  <2> HIDE DEF row
  <2>4. ProgressOf(r) /\ pc \in [OrderId -> Stage]
    BY <1>1 DEF IssuanceInv, Progress, TypeInv, TypeOK, OrdersTypeOK
  <2>5. ItemsOf(r)' = ItemsOf(r) /\ TicketsOf(r)' = TicketsOf(r)
    BY <2>1 DEF ItemsOf, TicketsOf
  <2>6. ProgressOf(r)' /\ InFull(r)'
    BY <2>1, <2>4, <2>5 DEF Goto, ProgressOf, InFull, BeforeOrder, CashOnly
  <2>7. RowsAgree'
    BY <2>1, <2>2, <2>3 DEF IssuanceInv, RowsAgree, LineOf
  <2>8. ReferencesResolve'
    BY <2>1, <2>2, <2>3 DEF IssuanceInv, ReferencesResolve
  <2>9. \A o \in OrderId \ {r} : SameRequest(o) /\ SameRows(o)
    BY <2>1, <2>2, <2>4 DEF Goto, SameRequest, SameRows, ItemsOf, TicketsOf
  <2> QED BY <1>1, <2>6, <2>7, <2>8, <2>9, OwnStep
<1> QED BY <1>2, <1>3

(* UPDATE of the order's status: it has no tickets yet.                    *)
LEMMA MarkPaidIssuance_Step ==
  ASSUME IssuanceInv, UNCHANGED removing, NEW r \in OrderId, MarkPaid(r)
  PROVE  IssuanceInv'
<1>1. TypeInv /\ TypeInv'
  BY OrderTypeInv_Step DEF IssuanceInv
<1>2. CASE Throw(r)
  BY <1>2, LocalIssuance_Step DEF MarkPaid, LocalStep, InProgress
<1>3. CASE ~ Throw(r)
  <2>1. /\ pc[r] = "order.update"
        /\ r \in DOMAIN order
        /\ order' = [order EXCEPT ![r].status = "PAID"]
        /\ Goto(r, "order.findUnique")
        /\ UNCHANGED <<event, ticketType, orderItem, ticket, checkIn, fresh,
                       cart, prices, lines, pending>>
    BY <1>3 DEF MarkPaid
  <2>2. order[r] \in OrderRow
    BY <1>1, <2>1 DEF TypeInv, TypeOK, DatabaseTypeOK, IsTable
  <2>3. /\ DOMAIN order' = DOMAIN order
        /\ order'[r].event = order[r].event /\ order'[r].method = order[r].method
        /\ \A o \in DOMAIN order \ {r} : order'[o] = order[o]
    BY <2>1, <2>2 DEF OrderRow
  <2>4. ProgressOf(r) /\ pc \in [OrderId -> Stage]
    BY <1>1 DEF IssuanceInv, Progress, TypeInv, TypeOK, OrdersTypeOK
  <2>5. ItemsOf(r)' = ItemsOf(r) /\ TicketsOf(r)' = TicketsOf(r)
    BY <2>1 DEF ItemsOf, TicketsOf
  <2>6. ProgressOf(r)' /\ InFull(r)'
    BY <2>1, <2>3, <2>4, <2>5 DEF Goto, ProgressOf, InFull, BeforeOrder, CashOnly
  <2>7. RowsAgree'
    BY <2>1, <2>3 DEF IssuanceInv, RowsAgree, LineOf
  <2>8. ReferencesResolve'
    BY <2>1, <2>3 DEF IssuanceInv, ReferencesResolve
  <2>9. \A o \in OrderId \ {r} : SameRequest(o) /\ SameRows(o)
    BY <2>1, <2>3, <2>4 DEF Goto, SameRequest, SameRows, ItemsOf, TicketsOf
  <2> QED BY <1>1, <2>6, <2>7, <2>8, <2>9, OwnStep
<1> QED BY <1>2, <1>3

(* UPDATE of `sold': no order, line or ticket is touched.                  *)
LEMMA IncrementSoldIssuance_Step ==
  ASSUME IssuanceInv, UNCHANGED removing, NEW r \in OrderId, NEW i \in pending[r],
         IncrementSold(r, i)
  PROVE  IssuanceInv'
<1>1. TypeInv /\ TypeInv'
  BY IncrementSoldTypeInv_Step DEF IssuanceInv
<1>2. /\ UNCHANGED <<event, order, orderItem, ticket, cart, lines>>
      /\ DOMAIN ticketType' = DOMAIN ticketType
      /\ \A t \in DOMAIN ticketType : ticketType'[t].event = ticketType[t].event
      /\ \/ UNCHANGED pc
         \/ pc[r] = "ticket.createMany" /\ Leave(r, "failed")
      /\ i \in pending[r]
      /\ pending' = [pending EXCEPT ![r] = @ \ {i}]
  <2>1. \A t \in DOMAIN ticketType : ticketType[t] \in TicketTypeRow
    BY <1>1 DEF TypeInv, TypeOK, DatabaseTypeOK, IsTable
  <2> QED BY <2>1 DEF IncrementSold, Sell, tables, TicketTypeRow
<1>3. /\ ProgressOf(r) /\ pc \in [OrderId -> Stage]
      /\ pending \in [OrderId -> SUBSET ItemId]
  BY <1>1 DEF IssuanceInv, Progress, TypeInv, TypeOK, OrdersTypeOK
<1>4. ItemsOf(r)' = ItemsOf(r) /\ TicketsOf(r)' = TicketsOf(r)
  BY <1>2 DEF ItemsOf, TicketsOf
<1>5. ProgressOf(r)'
  BY <1>2, <1>3, <1>4 DEF Leave, ProgressOf, BeforeOrder, CashOnly
<1>6. InFull(r)'
  BY <1>1, <1>2, <1>4 DEF IssuanceInv, IssuedInFull, InFull
<1>7. RowsAgree' /\ ReferencesResolve'
  BY <1>2 DEF IssuanceInv, RowsAgree, ReferencesResolve, LineOf
<1>8. \A o \in OrderId \ {r} : SameRequest(o) /\ SameRows(o)
  BY <1>2, <1>3 DEF Leave, SameRequest, SameRows, ItemsOf, TicketsOf
<1> QED BY <1>1, <1>5, <1>6, <1>7, <1>8, OwnStep

(* INSERT of the order's lines: the order had none, and has no ticket yet. *)
LEMMA CreateOrderItemsIssuance_Step ==
  ASSUME IssuanceInv, UNCHANGED removing, NEW r \in OrderId, CreateOrderItems(r)
  PROVE  IssuanceInv'
<1>1. TypeInv /\ TypeInv'
  BY CreateOrderItemsTypeInv_Step DEF IssuanceInv
<1>2. CASE Throw(r)
  BY <1>2, LocalIssuance_Step DEF CreateOrderItems, LocalStep, InProgress
<1>3. CASE ~ Throw(r)
  <2> DEFINE items == cart[r].items
             keys == {[order |-> r, line |-> k] : k \in DOMAIN items}
             rows == [i \in keys |->
                   [type      |-> items[i.line].type,
                    quantity  |-> items[i.line].quantity,
                    unitPrice |-> Price(prices[r], items[i.line].type)]]
  <2>1. /\ pc[r] = "orderItem.createMany"
        /\ r \in DOMAIN order
        /\ TypesIn(cart[r]) \subseteq DOMAIN ticketType
        /\ orderItem' = Insert(orderItem, rows)
        /\ Pay(r)
        /\ UNCHANGED <<event, ticketType, order, ticket, checkIn, fresh,
                       cart, lines, pending>>
    BY <1>3, SMTT(20) DEF CreateOrderItems
  <2>2. /\ DOMAIN orderItem' = DOMAIN orderItem \cup keys
        /\ \A i \in keys : orderItem'[i].type = items[i.line].type
        /\ \A i \in DOMAIN orderItem \ keys : orderItem'[i] = orderItem[i]
    BY <2>1 DEF Insert
  <2>3. /\ \A i \in keys : i.order = r /\ i.line \in DOMAIN items
        /\ {i.line : i \in keys} = DOMAIN items
    <3>1. \A k \in DOMAIN items : \E i \in keys : i.line = k
      <4> TAKE k \in DOMAIN items
      <4>1. [order |-> r, line |-> k] \in keys
        OBVIOUS
      <4> QED BY <4>1
    <3>2. \A i \in keys : i.order = r /\ i.line \in DOMAIN items
      OBVIOUS
    <3> HIDE DEF keys
    <3> QED BY <3>1, <3>2
  <2>4. \A i \in keys : items[i.line].type \in DOMAIN ticketType
    BY <2>1, <2>3 DEF TypesIn
  <2> HIDE DEF keys, rows
  <2>5. ProgressOf(r) /\ pc \in [OrderId -> Stage]
    BY <1>1 DEF IssuanceInv, Progress, TypeInv, TypeOK, OrdersTypeOK
  <2>6. ItemsOf(r) = {} /\ TicketsOf(r) = {}
    BY <2>1, <2>5 DEF ProgressOf
  <2>7. ItemsOf(r)' = keys /\ TicketsOf(r)' = {}
    BY <2>1, <2>2, <2>3, <2>6 DEF ItemsOf, TicketsOf
  <2>8. InFull(r)'
    BY <2>7 DEF InFull
  <2>9. ProgressOf(r)'
    <3>1. CASE cart[r].method = "CASH" /\ Goto(r, "order.update")
      BY <2>1, <2>3, <2>5, <2>7, <3>1 DEF Goto, ProgressOf, BeforeOrder, CashOnly
    <3>2. CASE cart[r].method = "STRIPE" /\ Return(r)
      BY <2>1, <2>3, <2>5, <2>7, <3>2
      DEF Return, Leave, ProgressOf, BeforeOrder, CashOnly
    <3> QED BY <2>1, <3>1, <3>2 DEF Pay
  <2>10. RowsAgree'
    <3>1. \A u \in DOMAIN ticket : LineOf(u) \in DOMAIN orderItem \ keys
      <4> SUFFICES ASSUME NEW u \in DOMAIN ticket, LineOf(u) \in keys
                   PROVE  FALSE
        BY DEF IssuanceInv, RowsAgree
      <4>1. u.order = r
        BY <2>3 DEF LineOf
      <4> QED BY <2>6, <4>1 DEF TicketsOf
    <3> QED
      BY <2>1, <2>2, <3>1 DEF IssuanceInv, RowsAgree, LineOf
  <2>11. ReferencesResolve'
    BY <2>1, <2>2, <2>3, <2>4 DEF IssuanceInv, ReferencesResolve
  <2>12. \A o \in OrderId \ {r} : SameRequest(o) /\ SameRows(o)
    <3>1. \A o \in OrderId \ {r} : ItemsOf(o)' = ItemsOf(o) /\ ItemsOf(o) \cap keys = {}
      BY <2>2, <2>3 DEF ItemsOf
    <3>2. \A o \in OrderId \ {r} : pc'[o] = pc[o]
      BY <2>1, <2>5 DEF Pay, Return, Goto, Leave
    <3> QED BY <2>1, <2>2, <3>1, <3>2 DEF SameRequest, SameRows, ItemsOf, TicketsOf
  <2> QED BY <1>1, <2>8, <2>9, <2>10, <2>11, <2>12, OwnStep
<1> QED BY <1>2, <1>3

(* The units of the lines a handler read are of its order and those lines. *)
LEMMA UnitsOfLines ==
  ASSUME TypeInv, NEW r \in OrderId, NEW u \in Units(lines[r])
  PROVE  u.order = r /\ LineOf(u) \in DOMAIN lines[r]
<1>1. PICK i \in DOMAIN lines[r] :
        \E n \in 0 .. lines[r][i].quantity - 1 :
          u = [order |-> i.order, line |-> i.line, index |-> n]
  BY DEF Units
<1>2. i \in ItemId /\ i.order = r
  BY DEF TypeInv, TypeOK, OrdersTypeOK, IsTable, LinesOfCart
<1> QED BY <1>1, <1>2 DEF LineOf, ItemId

(* Lines of a request make at least one unit.                              *)
LEMMA SomeUnit ==
  ASSUME TypeInv, NEW r \in OrderId,
         {i.line : i \in DOMAIN lines[r]} = DOMAIN cart[r].items
  PROVE  Units(lines[r]) # {}
<1>1. cart[r] \in Cart
  BY DEF TypeInv, TypeOK, OrdersTypeOK
<1>2. PICK i \in DOMAIN lines[r] : i.line = 1
  BY <1>1, CartType
<1>3. lines[r][i].quantity \in Nat \ {0}
  BY <1>1, <1>2, CartType DEF TypeInv, LinesOfCart, IsLine
<1>4. 0 \in 0 .. lines[r][i].quantity - 1
  BY <1>3
<1>5. [order |-> i.order, line |-> i.line, index |-> 0] \in Units(lines[r])
  BY <1>4 DEF Units
<1> QED BY <1>5

(* INSERT of the order's tickets, all of them at once.                     *)
LEMMA CreateTicketsIssuance_Step ==
  ASSUME IssuanceInv, UNCHANGED removing, NEW r \in OrderId, CreateTickets(r)
  PROVE  IssuanceInv'
<1>1. TypeInv /\ TypeInv'
  BY CreateTicketsTypeInv_Step DEF IssuanceInv
<1>2. CASE Throw(r)
  BY <1>2, LocalIssuance_Step DEF CreateTickets, LocalStep, InProgress
<1>3. CASE ~ Throw(r)
  <2> DEFINE units == Units(lines[r])
  <2>1. /\ pc[r] = "ticket.createMany"
        /\ Return(r)
        /\ pending[r] = {}
        /\ UNCHANGED <<event, ticketType, order, orderItem, checkIn, fresh,
                       cart, lines, pending>>
        /\ units # {} => r \in DOMAIN order
        /\ DOMAIN ticket' = DOMAIN ticket \cup units
        /\ \A u \in units : /\ ticket'[u].event = cart[r].event
                            /\ ticket'[u].type = lines[r][LineOf(u)].type
                            /\ ticket'[u].type \in DOMAIN ticketType
        /\ \A u \in DOMAIN ticket \ units : ticket'[u] = ticket[u]
    <3>1. PICK codes \in [units -> Code] :
       LET rows == [u \in DOMAIN codes |->
                      [event   |-> cart[r].event,
                       type    |-> lines[r][LineOf(u)].type,
                       code    |-> codes[u],
                       answers |-> MatchedAnswers(cart[r], lines[r][LineOf(u)].type),
                       status  |-> "ISSUED"]]
       IN /\ DOMAIN rows # {} => r \in DOMAIN order
          /\ \A u \in DOMAIN rows : rows[u].type \in DOMAIN ticketType
          /\ ticket' = Insert(ticket, rows)
          /\ Return(r)
          /\ UNCHANGED <<event, ticketType, order, orderItem, checkIn, fresh,
                         cart, lines, pending>>
      BY <1>3 DEF CreateTickets
    <3>2. DOMAIN codes = units
      OBVIOUS
    <3> HIDE DEF units
    <3>3. pc[r] = "ticket.createMany" /\ pending[r] = {}
      BY DEF CreateTickets
    <3> QED BY <3>1, <3>2, <3>3 DEF Insert
  <2>2. \A u \in units : u.order = r /\ LineOf(u) \in DOMAIN lines[r]
    BY <1>1, UnitsOfLines
  <2>3. ProgressOf(r) /\ pc \in [OrderId -> Stage]
    BY <1>1 DEF IssuanceInv, Progress, TypeInv, TypeOK, OrdersTypeOK
  <2>4. TicketsOf(r) = {} /\ cart[r].method = "CASH"
    BY <2>1, <2>3 DEF ProgressOf, CashOnly
  <2>5. r \in DOMAIN order =>
          /\ lines[r] = Restrict(orderItem, ItemsOf(r))
          /\ order[r].status = "PAID"
          /\ {i.line : i \in ItemsOf(r)} = DOMAIN cart[r].items
          /\ order[r].method = "CASH"
    BY <2>1, <2>3, <2>4 DEF ProgressOf, CashOnly, IssuanceInv, RowsAgree
  <2>6. r \in DOMAIN order => units # {}
    BY <1>1, <2>5, SomeUnit DEF Restrict
  <2> HIDE DEF units
  <2>7. TicketsOf(r)' = units /\ ItemsOf(r)' = ItemsOf(r)
    BY <2>1, <2>2, <2>4 DEF TicketsOf, ItemsOf
  <2>8. InFull(r)'
    BY <2>1, <2>5, <2>7 DEF InFull, units, Restrict
  <2>9. ProgressOf(r)'
    BY <2>1, <2>3, <2>4, <2>5, <2>6, <2>7
    DEF Return, Leave, ProgressOf, BeforeOrder, CashOnly
  <2>10. \A u \in units : /\ LineOf(u) \in DOMAIN orderItem
                          /\ lines[r][LineOf(u)] = orderItem[LineOf(u)]
    BY <2>1, <2>2, <2>5 DEF Restrict, ItemsOf
  <2>11. RowsAgree'
    BY <2>1, <2>2, <2>10 DEF IssuanceInv, RowsAgree, LineOf
  <2>12. ReferencesResolve'
    <3>1. \A u \in units : order[r].event = cart[r].event /\ cart[r].event \in DOMAIN event
      BY <2>1 DEF IssuanceInv, RowsAgree, ReferencesResolve
    <3> QED BY <2>1, <2>2, <3>1 DEF IssuanceInv, ReferencesResolve
  <2>13. \A o \in OrderId \ {r} : SameRequest(o) /\ SameRows(o)
    BY <2>1, <2>2, <2>3 DEF Return, Leave, SameRequest, SameRows, ItemsOf, TicketsOf
  <2> QED BY <1>1, <2>8, <2>9, <2>11, <2>12, <2>13, OwnStep
<1> QED BY <1>2, <1>3

-----------------------------------------------------------------------------
(* Deleting an event deletes all rows of an order or none.                 *)
LEMMA DeleteEventRows ==
  ASSUME IssuanceInv, NEW e \in DOMAIN event, DeleteEvent(e)
  PROVE  /\ \A o \in OrderId : SameRows(o) \/ NoRows(o)
         /\ DOMAIN orderItem' \subseteq DOMAIN orderItem
         /\ DOMAIN ticket' \subseteq DOMAIN ticket
         /\ \A u \in DOMAIN ticket' : ticket'[u] = ticket[u]
<1> DEFINE os == OrdersOf(e)
<1>1. /\ DOMAIN order' = DOMAIN order \ os
      /\ \A o \in DOMAIN order' : order'[o] = order[o]
      /\ DOMAIN orderItem' = {i \in DOMAIN orderItem : i.order \notin os}
      /\ \A i \in DOMAIN orderItem' : orderItem'[i] = orderItem[i]
      /\ DOMAIN ticket' = {u \in DOMAIN ticket : ticket[u].event # e /\ u.order \notin os}
      /\ \A u \in DOMAIN ticket' : ticket'[u] = ticket[u]
  BY DEF DeleteEvent, Delete, Restrict
<1>2. \A o \in DOMAIN order : o \in os <=> order[o].event = e
  BY DEF OrdersOf
<1>3. \A u \in DOMAIN ticket : /\ u.order \in DOMAIN order
                               /\ ticket[u].event = order[u.order].event
  BY DEF IssuanceInv, RowsAgree, ReferencesResolve
<1>4. DOMAIN ticket' = {u \in DOMAIN ticket : u.order \notin os}
  BY <1>1, <1>2, <1>3
<1> HIDE DEF os
<1>5. ASSUME NEW o \in OrderId PROVE SameRows(o) \/ NoRows(o)
  <2>1. CASE o \in os
    BY <1>1, <1>4, <2>1 DEF NoRows, ItemsOf, TicketsOf
  <2>2. CASE o \notin os
    BY <1>1, <1>4, <2>2 DEF SameRows, ItemsOf, TicketsOf
  <2> QED BY <2>1, <2>2
<1> QED BY <1>1, <1>4, <1>5

(* DELETE of an event: an order, its lines and its tickets go together,    *)
(* and with them go all tickets for the event, as they are of its orders.  *)
LEMMA DeleteEventIssuance_Step ==
  ASSUME IssuanceInv, TypeInv', UNCHANGED requestVars, NEW e \in DOMAIN event,
         EventDeletable(e), DeleteEvent(e)
  PROVE  IssuanceInv'
<1> DEFINE os == OrdersOf(e)
<1>1. /\ DOMAIN event' = DOMAIN event \ {e}
      /\ DOMAIN ticketType' = DOMAIN ticketType \ TypesOf(e)
      /\ \A t \in DOMAIN ticketType' : ticketType'[t] = ticketType[t]
      /\ DOMAIN order' = DOMAIN order \ os
      /\ \A o \in DOMAIN order' : order'[o] = order[o]
      /\ DOMAIN orderItem' = {i \in DOMAIN orderItem : i.order \notin os}
      /\ \A i \in DOMAIN orderItem' : orderItem'[i] = orderItem[i]
      /\ DOMAIN ticket' = {u \in DOMAIN ticket : ticket[u].event # e /\ u.order \notin os}
      /\ \A u \in DOMAIN ticket' : ticket'[u] = ticket[u]
      /\ UNCHANGED <<pc, cart, lines, pending>>
  BY DEF DeleteEvent, Delete, Restrict, requestVars
<1>2. \A o \in DOMAIN order : o \in os <=> order[o].event = e
  BY DEF OrdersOf
<1>3. \A u \in DOMAIN ticket : /\ u.order \in DOMAIN order
                               /\ ticket[u].event = order[u.order].event
  BY DEF IssuanceInv, RowsAgree, ReferencesResolve
<1>4. DOMAIN ticket' = {u \in DOMAIN ticket : u.order \notin os}
  BY <1>1, <1>2, <1>3
<1>5. \A i \in DOMAIN orderItem : orderItem[i].type \notin TypesOf(e)
  BY DEF EventDeletable
<1> HIDE DEF os
<1>6. \A o \in OrderId : SameRows(o) \/ NoRows(o)
  BY DeleteEventRows
<1>7. \A o \in OrderId : ProgressOf(o)' /\ InFull(o)'
  <2>1. \A o \in OrderId : ProgressOf(o) /\ InFull(o) /\ SameRequest(o)
    BY <1>1 DEF IssuanceInv, Progress, IssuedInFull, InFull, SameRequest
  <2> QED BY <1>6, <2>1, Undisturbed
<1>8. Progress' /\ IssuedInFull'
  <2>1. DOMAIN order' \subseteq OrderId
    BY DEF TypeInv, TypeOK, DatabaseTypeOK, IsTable
  <2> QED BY <1>7, <2>1 DEF Progress, IssuedInFull, InFull
<1>9. RowsAgree'
  BY <1>1, <1>4 DEF IssuanceInv, RowsAgree, LineOf
<1>10. ReferencesResolve'
  <2>1. \A t \in DOMAIN ticketType' : ticketType'[t].event \in DOMAIN event'
    BY <1>1 DEF TypesOf, IssuanceInv, ReferencesResolve
  <2>2. \A o \in DOMAIN order' : order'[o].event \in DOMAIN event'
    BY <1>1, <1>2 DEF IssuanceInv, ReferencesResolve
  <2>3. \A i \in DOMAIN orderItem' : /\ i.order \in DOMAIN order'
                                     /\ orderItem'[i].type \in DOMAIN ticketType'
    BY <1>1, <1>5 DEF IssuanceInv, ReferencesResolve
  <2>4. \A u \in DOMAIN ticket' : /\ u.order \in DOMAIN order'
                                  /\ ticket'[u].event \in DOMAIN event'
                                  /\ ticket'[u].type \in DOMAIN ticketType'
    BY <1>1, <1>4, <1>5 DEF IssuanceInv, RowsAgree, ReferencesResolve
  <2> QED BY <2>1, <2>2, <2>3, <2>4 DEF ReferencesResolve
<1> QED BY <1>8, <1>9, <1>10 DEF IssuanceInv

(* Every other edit of the catalogue leaves the orders, their lines and    *)
(* their tickets alone, and no ticket type goes that a line or a ticket    *)
(* names.                                                                  *)
LEMMA CatalogIssuance_Step ==
  ASSUME IssuanceInv, CatalogNext, UNCHANGED requestVars
  PROVE  IssuanceInv'
<1>1. TypeInv'
  BY CatalogTypeInv_Step DEF IssuanceInv
<1>2. ASSUME UNCHANGED <<order, orderItem, ticket>>,
             DOMAIN event \subseteq DOMAIN event',
             \A t \in DOMAIN ticketType :
                t \in DOMAIN ticketType' \/ ~ Referenced(t),
             \A t \in DOMAIN ticketType' :
                /\ ticketType'[t].event \in DOMAIN event
      PROVE  IssuanceInv'
  <2>1. ASSUME NEW o \in OrderId PROVE SameRequest(o) /\ SameRows(o)
    BY <1>2 DEF SameRequest, SameRows, requestVars, ItemsOf, TicketsOf
  <2>2. \A o \in OrderId : ProgressOf(o) /\ InFull(o)
    BY DEF IssuanceInv, Progress, IssuedInFull, InFull
  <2>3. \A o \in OrderId : ProgressOf(o)' /\ InFull(o)'
    BY <2>1, <2>2, Undisturbed
  <2>4. DOMAIN order \subseteq OrderId
    BY DEF IssuanceInv, TypeInv, TypeOK, DatabaseTypeOK, IsTable
  <2>5. Progress' /\ IssuedInFull'
    BY <1>2, <2>3, <2>4 DEF Progress, IssuedInFull, InFull
  <2>6. RowsAgree' /\ ReferencesResolve'
    BY <1>2 DEF IssuanceInv, RowsAgree, ReferencesResolve, Referenced, LineOf,
                requestVars
  <2> QED BY <1>1, <2>5, <2>6 DEF IssuanceInv
<1>3. \A t \in DOMAIN ticketType : ticketType[t].event \in DOMAIN event
  BY DEF IssuanceInv, ReferencesResolve
<1>4. ASSUME NEW e \in EventId, NEW dto \in EventDto, CreateEvent(e, dto)
      PROVE  IssuanceInv'
  BY <1>2, <1>3, <1>4 DEF CreateEvent, Insert, Row
<1>5. ASSUME NEW e \in EventId, NEW dto \in EventDto, NEW fields \in SUBSET EventField,
             UpdateEvent(e, dto, fields)
      PROVE  IssuanceInv'
  BY <1>2, <1>3, <1>5 DEF UpdateEvent
<1>6. ASSUME NEW e \in EventId, Publish(e) \/ CancelEvent(e)
      PROVE  IssuanceInv'
  BY <1>2, <1>3, <1>6 DEF Publish, CancelEvent
<1>7. ASSUME NEW e \in EventId, RemoveEvent(e)
      PROVE  IssuanceInv'
  BY <1>1, <1>7, DeleteEventIssuance_Step DEF RemoveEvent
<1>8. ASSUME NEW t \in TicketTypeId, NEW e \in EventId, NEW dto \in TicketTypeDto,
             CreateTicketType(t, e, dto)
      PROVE  IssuanceInv'
  BY <1>2, <1>3, <1>8 DEF CreateTicketType, Insert, Row
<1>9. ASSUME NEW t \in TicketTypeId, NEW dto \in TicketTypeDto,
             NEW fields \in SUBSET TicketTypeField, UpdateTicketType(t, dto, fields)
      PROVE  IssuanceInv'
  <2>1. ticketType[t] \in TicketTypeRow
    BY <1>9 DEF UpdateTicketType, IssuanceInv, TypeInv, TypeOK, DatabaseTypeOK, IsTable
  <2>2. /\ DOMAIN ticketType' = DOMAIN ticketType
        /\ \A v \in DOMAIN ticketType : ticketType'[v].event = ticketType[v].event
    BY <1>9, <2>1 DEF UpdateTicketType, TicketTypeRow
  <2> QED BY <1>2, <1>3, <1>9, <2>2 DEF UpdateTicketType
<1>10. ASSUME NEW t \in TicketTypeId, NEW force \in BOOLEAN,
              CheckRemoval(t, force) \/ RemoveTicketType(t, force)
       PROVE  IssuanceInv'
  <2>1. CASE UNCHANGED tables
    BY <1>2, <1>3, <2>1 DEF tables
  <2>2. CASE /\ ~ Referenced(t) /\ ticketType' = Delete(ticketType, {t})
             /\ UNCHANGED <<event, order, orderItem, ticket, checkIn, fresh>>
    BY <1>2, <1>3, <2>2 DEF Delete, Restrict
  <2> QED BY <1>10, <2>1, <2>2 DEF CheckRemoval, RemoveTicketType, tables
<1> QED
  BY <1>4, <1>5, <1>6, <1>7, <1>8, <1>9, <1>10
  DEF CatalogNext, EventsNext, TicketTypesNext

-----------------------------------------------------------------------------
(* With no order started and no row stored, everything is issued in full. *)
LEMMA IssuanceInv_Init == Init => IssuanceInv
<1> SUFFICES ASSUME Init PROVE IssuanceInv
  OBVIOUS
<1>1. TypeInv
  BY TypeInv_Init
<1>2. \A r \in OrderId : pc[r] = "idle" /\ ItemsOf(r) = {} /\ TicketsOf(r) = {}
  BY DEF Init, DatabaseInit, OrdersInit, ItemsOf, TicketsOf
<1>3. Progress
  BY <1>2 DEF Init, DatabaseInit, Progress, ProgressOf, CashOnly
<1>4. RowsAgree /\ IssuedInFull /\ ReferencesResolve
  BY DEF Init, DatabaseInit, RowsAgree, IssuedInFull, ReferencesResolve
<1> QED BY <1>1, <1>3, <1>4 DEF IssuanceInv

(* Every step of every order, and every edit of the catalogue between two of
   them, keeps the issuance invariant. *)
LEMMA IssuanceInv_Step == IssuanceInv /\ [Next]_vars => IssuanceInv'
<1> SUFFICES ASSUME IssuanceInv, [Next]_vars PROVE IssuanceInv'
  OBVIOUS
<1>1. CASE UNCHANGED vars
  <2>1. TypeInv'
    BY TypeInv_Step DEF IssuanceInv
  <2>2. Progress'
    BY <1>1 DEF vars, tables, requestVars, IssuanceInv, Progress, ProgressOf,
       ItemsOf, TicketsOf
  <2>3. RowsAgree' /\ ReferencesResolve'
    BY <1>1 DEF vars, tables, requestVars, IssuanceInv, RowsAgree, LineOf, ReferencesResolve
  <2>4. IssuedInFull'
    BY <1>1 DEF vars, tables, requestVars, IssuanceInv, IssuedInFull, ItemsOf, TicketsOf
  <2> QED BY <2>1, <2>2, <2>3, <2>4 DEF IssuanceInv
<1>2. CASE CatalogNext /\ UNCHANGED requestVars
  BY <1>2, CatalogIssuance_Step
<1>3. ASSUME NEW r \in OrderId, Step(r) \/ Abort(r), UNCHANGED removing
      PROVE  IssuanceInv'
  <2>1. CASE \/ RefuseMethod(r) \/ FindTicketTypes(r) \/ FindOrder(r)
             \/ FindOrderItems(r) \/ Abort(r)
    BY <1>3, <2>1, LocalIssuance_Step DEF LocalStep
  <2>2. CASE CreateOrder(r) \/ CreateOrderItems(r) \/ MarkPaid(r) \/ CreateTickets(r)
    BY <1>3, <2>2, CreateOrderIssuance_Step, CreateOrderItemsIssuance_Step,
       MarkPaidIssuance_Step, CreateTicketsIssuance_Step
  <2>3. CASE \E i \in pending[r] : IncrementSold(r, i)
    BY <1>3, <2>3, IncrementSoldIssuance_Step
  <2> QED BY <1>3, <2>1, <2>2, <2>3 DEF Step
<1> QED BY <1>1, <1>2, <1>3 DEF Next, OrdersNext

(* The issuance invariant holds in every reachable state. *)
LEMMA Issuance == Spec => []IssuanceInv
  BY IssuanceInv_Init, IssuanceInv_Step, PTL DEF Spec

(* An order has no ticket or exactly one for each unit of each of its      *)
(* lines, and then it is a paid cash order; whatever statement fails,      *)
(* whatever handler stops half way, and whatever the organizers edit.      *)
THEOREM OrdersIssuedInFull == Spec => []IssuedInFull
<1>1. IssuanceInv => IssuedInFull
  BY DEF IssuanceInv
<1> QED BY <1>1, Issuance, PTL

(* No row ever refers to a row that is gone.  PostgreSQL's own checks, as  *)
(* EventDeletable and Referenced state them, see the lines of orders only  *)
(* when an event is deleted: that tickets do not dangle either is because  *)
(* a ticket is of the type of its line.                                    *)
THEOREM NoDanglingReference == Spec => []ReferencesResolve
<1>1. IssuanceInv => ReferencesResolve
  BY DEF IssuanceInv
<1> QED BY <1>1, Issuance, PTL

(* Progress and agreement of rows decide what an answer can say.           *)
LEMMA IssuanceAnswers == IssuanceInv => AnswerMatchesTables
<1> SUFFICES ASSUME IssuanceInv, NEW r \in OrderId
             PROVE  /\ pc[r] = "done" /\ r \in DOMAIN order =>
                         /\ {i.line : i \in ItemsOf(r)} = DOMAIN cart[r].items
                         /\ cart[r].method = "CASH" <=> TicketsOf(r) # {}
                    /\ pc[r] = "failed" /\ TicketsOf(r) # {} =>
                         /\ MayAbort
                         /\ {i.line : i \in ItemsOf(r)} = DOMAIN cart[r].items
                         /\ pending[r] = {}
                    /\ pc[r] = "refused" => r \notin DOMAIN order
  BY DEF AnswerMatchesTables
<1>1. ProgressOf(r)
  BY DEF IssuanceInv, Progress
<1>2. r \in DOMAIN order /\ TicketsOf(r) # {} => cart[r].method = "CASH"
  BY DEF IssuanceInv, RowsAgree, IssuedInFull
<1>3. TicketsOf(r) # {} => r \in DOMAIN order
  BY DEF IssuanceInv, ReferencesResolve, TicketsOf
<1> QED BY <1>1, <1>2, <1>3 DEF ProgressOf, BeforeOrder

(* What POST /orders answers is what the tables say: an error means that   *)
(* no ticket was issued, or, when connections may be lost, that all of     *)
(* them were.                                                              *)
THEOREM AnswersMatchTables == Spec => []AnswerMatchesTables
  BY Issuance, IssuanceAnswers, PTL
=============================================================================
