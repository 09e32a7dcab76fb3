--------------------------- MODULE LedgerTheorems ---------------------------
(***************************************************************************)
(* What a ticket type has sold and what an order costs, for every set of   *)
(* requests, edits and INTEGER width.                                      *)
(*                                                                         *)
(* First the condition under which the stock check of POST /orders is      *)
(* sound (SerialInv).  Then, under no condition, the ledger (LedgerInv):   *)
(* an order's total is the sum of its lines, and `sold' covers the tickets *)
(* that exist and is exact once nothing is under way.                      *)
(***************************************************************************)
EXTENDS SalesTheorems

(***************************************************************************)
(* When the stock check is sound: orders are served one at a time, no      *)
(* order has two lines of one type, and no PATCH lowers a quantity.  Then  *)
(* what the check found stays true until the increments: the only handler  *)
(* in progress has room for every line it has yet to count.                *)
(***************************************************************************)
SerialSales ==
  /\ MaxInFlight = 1
  /\ "quantity" \notin TicketTypeField
  /\ \A c \in Cart : \A j, k \in DOMAIN c.items :
       c.items[j].type = c.items[k].type => j = k

Room(t, n) == t \in DOMAIN ticketType => ticketType[t].sold + n <= ticketType[t].quantity

RoomFor(r) ==
  /\ pc[r] \in InProgress \ {"ticket.createMany"} =>
       \A k \in DOMAIN cart[r].items :
         Room(cart[r].items[k].type, cart[r].items[k].quantity)
  /\ \A i \in pending[r] : Room(lines[r][i].type, lines[r][i].quantity)

(* Increments are of lines read, and sent after all other statements but   *)
(* the last.                                                               *)
PendingLines(r) ==
  /\ pending[r] \subseteq DOMAIN lines[r]
  /\ pending[r] # {} => pc[r] \in {"ticket.createMany", "failed"}

KnownTypes(r) == pc[r] # "idle" => TypesIn(cart[r]) \cap fresh = {}

SerialInv ==
  /\ SerialSales
  /\ TypeInv
  /\ NotOversold
  /\ \A r, s \in Busy : r = s
  /\ \A r \in OrderId : RoomFor(r) /\ PendingLines(r) /\ KnownTypes(r)

(* The first line of a type is its only line.                              *)
LEMMA RequestedOnlyLine ==
  ASSUME SerialSales, NEW c \in Cart, NEW k \in DOMAIN c.items
  PROVE  Requested(c, c.items[k].type) = c.items[k].quantity
<1>1. DOMAIN c.items = 1 .. Len(c.items) /\ Len(c.items) \in Nat
  BY CartType
<1>2. \A j \in DOMAIN c.items : c.items[j].type = c.items[k].type <=> j = k
  BY DEF SerialSales
<1>3. \A j \in 1 .. (k - 1) : c.items[j].type # c.items[k].type
  <2> TAKE j \in 1 .. (k - 1)
  <2>1. j \in DOMAIN c.items /\ j # k
    BY <1>1
  <2> QED BY <1>2, <2>1
<1> DEFINE First(j) == /\ c.items[j].type = c.items[k].type
                       /\ \A h \in 1 .. (j - 1) : c.items[h].type # c.items[k].type
<1>4. \A j \in DOMAIN c.items : First(j) <=> j = k
  BY <1>2, <1>3
<1>5. (CHOOSE j \in DOMAIN c.items : First(j)) = k
  BY <1>4
<1> QED BY <1>5 DEF Requested

(* With one handler at a time, a handler begins only when none is busy.    *)
LEMMA AloneAtStart ==
  ASSUME SerialInv, Cardinality(Busy) < MaxInFlight
  PROVE  Busy = {}
<1> SUFFICES ASSUME NEW r \in Busy PROVE FALSE
  OBVIOUS
<1>1. Busy = {r}
  BY DEF SerialInv
<1>2. Cardinality(Busy) = 1
  BY <1>1, FS_Singleton
<1> QED BY <1>2 DEF SerialInv, SerialSales

(* A catalogue edit leaves what is sold of every type it keeps as it is,   *)
(* and what there is to sell unless a PATCH may carry it, and creates no   *)
(* type that an order under way could name.                                *)
LEMMA CatalogRoom ==
  ASSUME TypeInv, CatalogNext
  PROVE  /\ fresh' \subseteq fresh
         /\ \A t \in DOMAIN ticketType' :
              \/ /\ t \in DOMAIN ticketType
                 /\ ticketType'[t].sold = ticketType[t].sold
                 /\ "quantity" \notin TicketTypeField =>
                      ticketType'[t].quantity = ticketType[t].quantity
              \/ /\ t \in fresh
                 /\ ticketType'[t].sold = 0
                 /\ ticketType'[t].quantity \in Nat
<1>1. \A t \in DOMAIN ticketType : ticketType[t] \in TicketTypeRow
  BY DEF TypeInv, TypeOK, DatabaseTypeOK, IsTable
<1>2. CASE UNCHANGED <<ticketType, fresh>>
  BY <1>2
<1>3. CASE EventsNext
  <2>1. ASSUME NEW e \in EventId, RemoveEvent(e)
        PROVE  DeleteEvent(e)
    BY <2>1 DEF RemoveEvent
  <2>2. ASSUME NEW e \in EventId,
               \/ \E dto \in EventDto : CreateEvent(e, dto)
               \/ \E dto \in EventDto, fields \in SUBSET EventField :
                    UpdateEvent(e, dto, fields)
               \/ Publish(e) \/ CancelEvent(e)
        PROVE  UNCHANGED ticketType /\ fresh' \subseteq fresh
    BY <2>2 DEF CreateEvent, UpdateEvent, Publish, CancelEvent
  <2>3. \/ UNCHANGED ticketType /\ fresh' \subseteq fresh
        \/ \E e \in EventId : DeleteEvent(e)
    BY <1>3, <2>1, <2>2 DEF EventsNext
  <2> QED BY <2>3 DEF DeleteEvent, Delete, Restrict
<1>4. ASSUME NEW t \in TicketTypeId, NEW e \in EventId, NEW dto \in TicketTypeDto,
             CreateTicketType(t, e, dto)
      PROVE  /\ fresh' \subseteq fresh /\ t \in fresh
             /\ DOMAIN ticketType' = DOMAIN ticketType \cup {t}
             /\ ticketType'[t].sold = 0
             /\ ticketType'[t].quantity \in Nat
             /\ \A u \in DOMAIN ticketType \ {t} : ticketType'[u] = ticketType[u]
  <2>1. dto.quantity \in Nat
    BY TicketTypeDtoAssumption, MaxIntAssumption DEF TicketTypeBody, INTEGER
  <2> QED BY <1>4, <2>1 DEF CreateTicketType, Insert, Row
<1>5. ASSUME NEW t \in TicketTypeId, NEW dto \in TicketTypeDto,
             NEW fields \in SUBSET TicketTypeField, UpdateTicketType(t, dto, fields)
      PROVE  /\ fresh' = fresh
             /\ DOMAIN ticketType' = DOMAIN ticketType
             /\ \A u \in DOMAIN ticketType :
                  /\ ticketType'[u].sold = ticketType[u].sold
                  /\ "quantity" \notin TicketTypeField =>
                       ticketType'[u].quantity = ticketType[u].quantity
  BY <1>1, <1>5 DEF UpdateTicketType, TicketTypeRow
<1>6. ASSUME NEW t \in TicketTypeId, NEW force \in BOOLEAN,
             CheckRemoval(t, force) \/ RemoveTicketType(t, force)
      PROVE  /\ fresh' = fresh
             /\ \A u \in DOMAIN ticketType' :
                  u \in DOMAIN ticketType /\ ticketType'[u] = ticketType[u]
  BY <1>6 DEF CheckRemoval, RemoveTicketType, Delete, Restrict, tables
<1>7. CASE TicketTypesNext
  BY <1>4, <1>5, <1>6, <1>7 DEF TicketTypesNext
<1> QED BY <1>3, <1>7 DEF CatalogNext

(* An organizer's edit takes no room from the order under way.             *)
LEMMA CatalogSerial_Step ==
  ASSUME SerialInv, CatalogNext, UNCHANGED requestVars
  PROVE  SerialInv'
<1>1. TypeInv'
  BY CatalogTypeInv_Step DEF SerialInv
<1>2. /\ fresh' \subseteq fresh
      /\ \A t \in DOMAIN ticketType' :
              \/ /\ t \in DOMAIN ticketType
                 /\ ticketType'[t].sold = ticketType[t].sold
                 /\ ticketType'[t].quantity = ticketType[t].quantity
              \/ /\ t \in fresh
                 /\ ticketType'[t].sold = 0
                 /\ ticketType'[t].quantity \in Nat
  BY CatalogRoom DEF SerialInv, SerialSales
<1>3. NotOversold'
  BY <1>2 DEF SerialInv, NotOversold
<1>4. Busy' = Busy /\ SerialSales'
  BY DEF SerialInv, SerialSales, Busy, requestVars
<1>5. ASSUME NEW r \in OrderId PROVE RoomFor(r)' /\ PendingLines(r)' /\ KnownTypes(r)'
  <2>1. PendingLines(r)' /\ KnownTypes(r)'
    BY <1>2 DEF SerialInv, PendingLines, KnownTypes, requestVars
  <2>2. pc[r] # "idle" => \A k \in DOMAIN cart[r].items : cart[r].items[k].type \notin fresh
    BY DEF SerialInv, KnownTypes, TypesIn
  <2>3. \A i \in pending[r] : lines[r][i].type \notin fresh
    <3> TAKE i \in pending[r]
    <3>1. i \in DOMAIN lines[r] /\ pc[r] # "idle"
      BY DEF SerialInv, PendingLines
    <3>2. /\ i.line \in DOMAIN cart[r].items
          /\ lines[r][i].type = cart[r].items[i.line].type
      BY <3>1 DEF SerialInv, TypeInv, LinesOfCart, IsLine
    <3> QED BY <2>2, <3>1, <3>2
  <2>4. RoomFor(r)
    BY DEF SerialInv
  <2>5. UNCHANGED <<cart, pc, lines, pending>>
    BY DEF requestVars
  <2>6. ASSUME pc[r] \in InProgress \ {"ticket.createMany"}, NEW k \in DOMAIN cart[r].items
        PROVE  Room(cart[r].items[k].type, cart[r].items[k].quantity)'
    <3>1. Room(cart[r].items[k].type, cart[r].items[k].quantity)
      BY <2>4, <2>6 DEF RoomFor
    <3>2. cart[r].items[k].type \notin fresh
      BY <2>2, <2>6 DEF InProgress
    <3> QED BY <1>2, <2>5, <3>1, <3>2 DEF Room
  <2>7. ASSUME NEW i \in pending[r]
        PROVE  Room(lines[r][i].type, lines[r][i].quantity)'
    <3>1. Room(lines[r][i].type, lines[r][i].quantity)
      BY <2>4 DEF RoomFor
    <3> QED BY <1>2, <2>3, <2>5, <3>1 DEF Room
  <2> QED BY <2>1, <2>5, <2>6, <2>7 DEF RoomFor
<1> QED BY <1>1, <1>3, <1>4, <1>5 DEF SerialInv, requestVars, Busy

(* A step of r that sells nothing and leaves the other requests alone need *)
(* only be followed for r.                                                 *)
LEMMA OwnSerial ==
  ASSUME SerialInv, TypeInv', NEW r \in OrderId,
         UNCHANGED <<ticketType, fresh, cart>>,
         \A s \in OrderId \ {r} : /\ pc'[s] = pc[s]
                                  /\ lines'[s] = lines[s]
                                  /\ pending'[s] = pending[s],
         r \in Busy \/ Busy = {} \/ r \notin Busy',
         RoomFor(r)', PendingLines(r)', KnownTypes(r)'
  PROVE  SerialInv'
<1>1. NotOversold' /\ SerialSales'
  BY DEF SerialInv, NotOversold, SerialSales
<1>2. \A s, t \in Busy' : s = t
  <2>1. \A s \in OrderId \ {r} : s \in Busy' <=> s \in Busy
    BY DEF Busy
  <2>2. Busy' \subseteq OrderId
    BY DEF Busy
  <2> QED BY <2>1, <2>2 DEF SerialInv
<1>3. \A s \in OrderId \ {r} : RoomFor(s)' /\ PendingLines(s)' /\ KnownTypes(s)'
  BY DEF SerialInv, RoomFor, Room, PendingLines, KnownTypes
<1> QED BY <1>1, <1>2, <1>3 DEF SerialInv

(* The stock check finds room for every line of the request.               *)
LEMMA CheckSerial_Step ==
  ASSUME SerialInv, UNCHANGED removing, NEW r \in OrderId,
         RefuseMethod(r) \/ FindTicketTypes(r)
  PROVE  SerialInv'
<1>1. TypeInv /\ TypeInv'
  BY LocalTypeInv_Step DEF SerialInv
<1>2. /\ pc \in [OrderId -> Stage] /\ cart[r] \in Cart
      /\ \A t \in DOMAIN ticketType : ticketType[t] \in TicketTypeRow
  BY <1>1 DEF TypeInv, TypeOK, OrdersTypeOK, DatabaseTypeOK, IsTable
<1>3. /\ UNCHANGED <<tables, cart, lines, pending>>
      /\ pc[r] = "idle"
      /\ TypesIn(cart[r]) \cap fresh = {}
      /\ \/ Leave(r, "refused")
         \/ Goto(r, "order.create") /\ FindTicketTypes(r)
  BY DEF RefuseMethod, FindTicketTypes, Sendable
<1>4. pending[r] = {}
  BY <1>3 DEF SerialInv, PendingLines
<1>5. PendingLines(r)' /\ KnownTypes(r)'
  BY <1>3, <1>4 DEF PendingLines, KnownTypes, tables, TypesIn
<1>6. \A s \in OrderId \ {r} : /\ pc'[s] = pc[s] /\ lines'[s] = lines[s]
                               /\ pending'[s] = pending[s]
  BY <1>2, <1>3 DEF Leave, Goto
<1>7. CASE Leave(r, "refused")
  <2>1. RoomFor(r)' /\ r \notin Busy'
    BY <1>2, <1>3, <1>4, <1>7 DEF Leave, RoomFor, Busy, InProgress
  <2> QED BY <1>1, <1>3, <1>5, <1>6, <2>1, OwnSerial DEF tables
<1>8. CASE Goto(r, "order.create") /\ FindTicketTypes(r)
  <2>1. Busy = {}
    BY <1>8, AloneAtStart DEF FindTicketTypes
  <2>2. pc'[r] # "refused"
    BY <1>2, <1>8 DEF Goto
  <2>3. \A t \in TypesIn(cart[r]) \cap DOMAIN ticketType :
          ticketType[t].sold + Requested(cart[r], t) <= ticketType[t].quantity
    BY <1>2, <1>8, <2>2 DEF FindTicketTypes, Leave
  <2>4. \A k \in DOMAIN cart[r].items :
          Room(cart[r].items[k].type, cart[r].items[k].quantity)
    <3> TAKE k \in DOMAIN cart[r].items
    <3>1. Requested(cart[r], cart[r].items[k].type) = cart[r].items[k].quantity
      BY <1>2, RequestedOnlyLine DEF SerialInv
    <3> QED BY <2>3, <3>1 DEF TypesIn, Room
  <2>5. RoomFor(r)'
    BY <1>3, <1>4, <2>4 DEF RoomFor, Room, tables
  <2> QED BY <1>1, <1>3, <1>5, <1>6, <2>1, <2>5, OwnSerial DEF tables
<1> QED BY <1>3, <1>7, <1>8

(* Reading the lines back turns the room for the request's lines into room *)
(* for the increments.                                                     *)
LEMMA ReadSerial_Step ==
  ASSUME SerialInv, UNCHANGED removing, NEW r \in OrderId, FindOrderItems(r)
  PROVE  SerialInv'
<1>1. TypeInv /\ TypeInv'
  BY LocalTypeInv_Step DEF SerialInv
<1>2. /\ pc[r] = "orderItem.findMany"
      /\ pc' = [pc EXCEPT ![r] = "ticket.createMany"]
      /\ lines' = [lines EXCEPT ![r] = Restrict(orderItem, ItemsOf(r))]
      /\ pending' = [pending EXCEPT ![r] = ItemsOf(r)]
      /\ UNCHANGED <<tables, cart>>
  BY DEF FindOrderItems, Goto
<1>3. pc \in [OrderId -> Stage] /\ DOMAIN lines = OrderId /\ DOMAIN pending = OrderId
  BY <1>1 DEF TypeInv, TypeOK, OrdersTypeOK
<1>4. /\ pc'[r] = "ticket.createMany" /\ pending'[r] = DOMAIN lines'[r]
      /\ \A s \in OrderId \ {r} : /\ pc'[s] = pc[s] /\ lines'[s] = lines[s]
                                  /\ pending'[s] = pending[s]
  BY <1>2, <1>3 DEF Restrict
<1>5. r \in Busy /\ PendingLines(r)' /\ KnownTypes(r)'
  BY <1>2, <1>4 DEF Busy, InProgress, PendingLines, SerialInv, KnownTypes, TypesIn, tables
<1>6. \A i \in pending'[r] : Room(lines'[r][i].type, lines'[r][i].quantity)
  <2> TAKE i \in pending'[r]
  <2>1. /\ i.line \in DOMAIN cart[r].items /\ i.order = r
        /\ lines'[r][i].type = cart[r].items[i.line].type
        /\ lines'[r][i].quantity = cart[r].items[i.line].quantity
    BY <1>1, <1>2, <1>4 DEF TypeInv, LinesOfCart, IsLine
  <2>2. \A k \in DOMAIN cart[r].items :
          Room(cart[r].items[k].type, cart[r].items[k].quantity)
    BY <1>2 DEF SerialInv, RoomFor, InProgress
  <2> QED BY <2>1, <2>2
<1>7. RoomFor(r)'
  BY <1>2, <1>4, <1>6 DEF RoomFor, Room, tables
<1> QED BY <1>1, <1>2, <1>4, <1>5, <1>7, OwnSerial DEF tables

(* The other statements of an order keep or give up the room it has.       *)
LEMMA OtherSerial_Step ==
  ASSUME SerialInv, UNCHANGED removing, NEW r \in OrderId,
         \/ CreateOrder(r) \/ CreateOrderItems(r) \/ MarkPaid(r) \/ FindOrder(r)
         \/ CreateTickets(r) \/ Abort(r)
  PROVE  SerialInv'
<1>1. TypeInv /\ TypeInv'
  BY LocalTypeInv_Step, OrderTypeInv_Step, CreateOrderItemsTypeInv_Step,
     CreateTicketsTypeInv_Step DEF SerialInv
<1>2. /\ pc \in [OrderId -> Stage] /\ pending \in [OrderId -> SUBSET ItemId]
  BY <1>1 DEF TypeInv, TypeOK, OrdersTypeOK
<1>3. /\ UNCHANGED <<ticketType, fresh, cart, lines>>
      /\ pc[r] \in InProgress
      /\ \/ UNCHANGED pending
         \/ \E sent \in SUBSET pending[r] : pending' = [pending EXCEPT ![r] = sent]
      /\ \/ Leave(r, "failed")
         \/ Leave(r, "done") /\ pending[r] = {} /\ UNCHANGED pending
         \/ /\ pc[r] # "ticket.createMany"
            /\ \E stage \in InProgress \ {"ticket.createMany"} : Goto(r, stage)
  <2>1. CASE \/ CreateOrder(r) \/ MarkPaid(r) \/ FindOrder(r)
    BY <2>1 DEF CreateOrder, MarkPaid, FindOrder, Throw, tables, InProgress
  <2>2. CASE CreateOrderItems(r)
    <3>1. pc[r] = "orderItem.createMany"
      BY <2>2 DEF CreateOrderItems
    <3>2. pending[r] = {}
      BY <3>1 DEF SerialInv, PendingLines
    <3>3. \/ Throw(r)
          \/ Pay(r) /\ UNCHANGED <<ticketType, fresh, cart, lines, pending>>
      BY <2>2 DEF CreateOrderItems
    <3> QED BY <3>1, <3>2, <3>3 DEF Throw, Pay, Return, tables, InProgress
  <2>3. CASE CreateTickets(r)
    <3>1. /\ pc[r] = "ticket.createMany" /\ pending[r] = {}
          /\ \/ Throw(r)
             \/ /\ Return(r)
                /\ UNCHANGED <<ticketType, fresh, cart, lines, pending>>
      BY <2>3 DEF CreateTickets
    <3> QED BY <3>1 DEF Throw, Return, tables, InProgress
  <2>4. CASE Abort(r)
    BY <2>4 DEF Abort, tables
  <2> QED BY <2>1, <2>2, <2>3, <2>4
<1>4. /\ pending'[r] \subseteq pending[r]
      /\ \A s \in OrderId \ {r} : /\ pc'[s] = pc[s] /\ lines'[s] = lines[s]
                                  /\ pending'[s] = pending[s]
  BY <1>2, <1>3 DEF Leave, Goto
<1>5. \/ pc'[r] = "failed"
      \/ pc'[r] = "done" /\ pending'[r] = {}
      \/ /\ pc[r] \in InProgress \ {"ticket.createMany"}
         /\ pc'[r] \in InProgress \ {"ticket.createMany"}
  BY <1>2, <1>3 DEF Leave, Goto
<1>6. RoomFor(r) /\ PendingLines(r) /\ KnownTypes(r)
  BY DEF SerialInv
<1>7. r \in Busy
  BY <1>3 DEF Busy
<1>8. PendingLines(r)' /\ KnownTypes(r)'
  BY <1>3, <1>4, <1>5, <1>6 DEF PendingLines, KnownTypes, InProgress, TypesIn
<1>9. RoomFor(r)'
  BY <1>3, <1>4, <1>5, <1>6 DEF RoomFor, Room, InProgress
<1> QED BY <1>1, <1>3, <1>4, <1>7, <1>8, <1>9, OwnSerial

(* An increment takes the room of its own line, and of no other: the lines *)
(* still pending are of other types.                                       *)
LEMMA IncrementSerial_Step ==
  ASSUME SerialInv, UNCHANGED removing, NEW r \in OrderId, NEW i \in pending[r],
         IncrementSold(r, i)
  PROVE  SerialInv'
<1>1. TypeInv /\ TypeInv'
  BY IncrementSoldTypeInv_Step DEF SerialInv
<1> DEFINE row == lines[r][i]
<1>2. /\ pc \in [OrderId -> Stage] /\ pending \in [OrderId -> SUBSET ItemId]
      /\ cart[r] \in Cart
      /\ \A t \in DOMAIN ticketType : ticketType[t] \in TicketTypeRow
  BY <1>1 DEF TypeInv, TypeOK, OrdersTypeOK, DatabaseTypeOK, IsTable
<1>3. /\ pending' = [pending EXCEPT ![r] = @ \ {i}]
      /\ UNCHANGED <<fresh, cart, lines>>
      /\ \/ UNCHANGED pc
         \/ Leave(r, "failed")
      /\ \/ UNCHANGED ticketType
         \/ row.type \in DOMAIN ticketType /\ Sell(row.type, row.quantity)
  BY DEF IncrementSold, tables
<1>4. RoomFor(r) /\ PendingLines(r) /\ KnownTypes(r)
  BY DEF SerialInv
<1>5. pc[r] \in {"ticket.createMany", "failed"} /\ r \in Busy
  BY <1>4 DEF PendingLines, Busy
<1>6. pc'[r] \in {"ticket.createMany", "failed"} /\ pending'[r] = pending[r] \ {i}
  BY <1>2, <1>3, <1>5 DEF Leave
<1>7. \A s \in OrderId \ {r} : /\ pc'[s] = pc[s] /\ pending'[s] = pending[s]
                               /\ pc[s] \notin InProgress /\ pending[s] = {}
  BY <1>2, <1>3, <1>5 DEF Leave, SerialInv, Busy
<1>8. /\ DOMAIN ticketType' = DOMAIN ticketType
      /\ \A t \in DOMAIN ticketType :
           /\ ticketType'[t].quantity = ticketType[t].quantity
           /\ \/ ticketType'[t].sold = ticketType[t].sold
              \/ t = row.type /\ ticketType'[t].sold = ticketType[t].sold + row.quantity
  BY <1>2, <1>3 DEF Sell, TicketTypeRow
<1>9. Room(row.type, row.quantity)
  BY <1>4 DEF RoomFor
<1>10. NotOversold' /\ SerialSales'
  BY <1>8, <1>9 DEF SerialInv, NotOversold, Room, SerialSales
<1>11. \A j \in pending[r] \ {i} : lines[r][j].type # row.type
  <2> TAKE j \in pending[r] \ {i}
  <2>1. \A k \in pending[r] : /\ k \in ItemId /\ k.order = r
                              /\ k.line \in DOMAIN cart[r].items
                              /\ lines[r][k].type = cart[r].items[k.line].type
    <3> TAKE k \in pending[r]
    <3>1. k \in DOMAIN lines[r] /\ k \in ItemId
      BY <1>2, <1>4 DEF PendingLines
    <3> QED BY <1>1, <3>1 DEF TypeInv, LinesOfCart, IsLine
  <2>2. i.line # j.line
    BY <2>1 DEF ItemId
  <2> QED BY <1>2, <2>1, <2>2 DEF SerialInv, SerialSales
<1>12. RoomFor(r)'
  <2>1. \A j \in pending'[r] : Room(lines[r][j].type, lines[r][j].quantity)'
    <3> TAKE j \in pending'[r]
    <3>1. Room(lines[r][j].type, lines[r][j].quantity) /\ lines[r][j].type # row.type
      BY <1>4, <1>6, <1>11 DEF RoomFor
    <3> QED BY <1>3, <1>8, <3>1 DEF Room
  <2> QED BY <1>3, <1>6, <2>1 DEF RoomFor, InProgress
<1>13. PendingLines(r)' /\ KnownTypes(r)'
  BY <1>3, <1>4, <1>5, <1>6 DEF PendingLines, KnownTypes, TypesIn
<1>14. \A s \in OrderId \ {r} : RoomFor(s)' /\ PendingLines(s)' /\ KnownTypes(s)'
  BY <1>3, <1>7 DEF RoomFor, PendingLines, KnownTypes, TypesIn, SerialInv
<1>15. \A s, t \in Busy' : s = t
  BY <1>7 DEF Busy
<1> QED BY <1>1, <1>10, <1>12, <1>13, <1>14, <1>15 DEF SerialInv

(* The invariant holds before the first order, and every step keeps it.    *)
LEMMA SerialInv_Init == SerialSales /\ Init => SerialInv
<1> SUFFICES ASSUME SerialSales, Init PROVE SerialInv
  OBVIOUS
<1>1. TypeInv
  BY TypeInv_Init
<1>2. /\ pc = [r \in OrderId |-> "idle"] /\ pending = [r \in OrderId |-> {}]
      /\ DOMAIN ticketType = {}
  BY DEF Init, DatabaseInit, OrdersInit
<1> QED
  BY <1>1, <1>2 DEF SerialInv, NotOversold, Busy, RoomFor, PendingLines,
                    KnownTypes, InProgress

(* The invariant is inductive. *)
LEMMA SerialInv_Step == SerialInv /\ [Next]_vars => SerialInv'
<1> SUFFICES ASSUME SerialInv, [Next]_vars PROVE SerialInv'
  OBVIOUS
<1>1. CASE UNCHANGED vars
  <2>1. TypeInv'
    BY TypeInv_Step DEF SerialInv
  <2>2. UNCHANGED <<ticketType, fresh, cart, pc, lines, pending>>
    BY <1>1 DEF vars, tables, requestVars
  <2> QED
    BY <2>1, <2>2 DEF SerialInv, SerialSales, NotOversold, Busy, RoomFor, Room,
                      PendingLines, KnownTypes, TypesIn
<1>2. CASE CatalogNext /\ UNCHANGED requestVars
  BY <1>2, CatalogSerial_Step
<1>3. ASSUME NEW r \in OrderId, Step(r) \/ Abort(r), UNCHANGED removing
      PROVE  SerialInv'
  BY <1>3, CheckSerial_Step, ReadSerial_Step, OtherSerial_Step, IncrementSerial_Step
  DEF Step
<1> QED BY <1>1, <1>2, <1>3 DEF Next, OrdersNext

(* No type is sold beyond its quantity when orders come one at a time with *)
(* one line per type and no PATCH writes a quantity: then the stock check  *)
(* of findMany still holds when the increments run.  Without the first     *)
(* condition it does not (run OversellRace).                               *)
THEOREM SerialSalesKeepQuantity == SerialSales /\ Spec => []NotOversold
<1>1. SerialInv => NotOversold
  BY DEF SerialInv
<1> QED BY <1>1, SerialInv_Init, SerialInv_Step, PTL DEF Spec

-----------------------------------------------------------------------------
(***************************************************************************)
(* The ledger.  A unit is counted once its line's increment of `sold' has  *)
(* run (CountedOf): the counted units of a type are what it has sold.  A   *)
(* ticket is a unit that was counted, as the INSERT of tickets waits for   *)
(* every increment.  Totals go by the one quote of prices that the order   *)
(* and its lines are both written from.                                    *)
(***************************************************************************)
NoRemoval == "events.remove" \notin Routes

(* Between the order and its lines: its total is that of the request at    *)
(* the prices quoted, which the lines are still to be written with.        *)
PricedOf(r) ==
  pc[r] = "orderItem.createMany" /\ r \in DOMAIN order =>
    order[r].total = TotalAmount(cart[r], prices[r])

(* TotalMatchesLines, of one order.                                        *)
ItemsTotal(o) ==
  SumFunction([i \in ItemsOf(o) |-> orderItem[i].unitPrice * orderItem[i].quantity])

TotalOf(o) == o \in DOMAIN order /\ ItemsOf(o) # {} => order[o].total = ItemsTotal(o)

(* What was read back of the lines is what the tickets are made from.      *)
LinesRead(r) ==
  /\ PendingLines(r) /\ KnownTypes(r)
  /\ pc[r] \notin {"ticket.createMany", "done", "failed"} => DOMAIN lines[r] = {}
  /\ TicketsOf(r) \subseteq Units(lines[r])
  /\ \A u \in TicketsOf(r) : ticket[u].type = lines[r][LineOf(u)].type
  /\ pc[r] = "done" /\ r \in DOMAIN order => TicketsOf(r) = Units(lines[r])

(* Only the deletion of its event takes an order away.                     *)
OrderStays(r) ==
  NoRemoval /\ pc[r] \notin {"idle", "order.create", "refused", "failed"} =>
    r \in DOMAIN order

(* A request counts units until it fails, and for as long as it has tickets. *)
Counts(r) == pc[r] \in {"ticket.createMany", "done"} \/ TicketsOf(r) # {}

(* The units of type t that r has counted.                                 *)
CountedOf(r, t) ==
  {u \in Units(lines[r]) : /\ Counts(r)
                           /\ LineOf(u) \notin pending[r]
                           /\ lines[r][LineOf(u)].type = t}

Counted(t) == UNION {CountedOf(r, t) : r \in OrderId}

(* A handler that failed counts no unit but its tickets, if all it lost    *)
(* was the answer to them.  What it added to `sold' stays: from then on    *)
(* `sold' is only an upper bound.                                          *)
SoldOf(t) ==
  /\ IsFiniteSet(Counted(t))
  /\ Cardinality(Counted(t)) <= ticketType[t].sold
  /\ (\A r \in OrderId : pc[r] # "failed") =>
       Cardinality(Counted(t)) = ticketType[t].sold

LedgerOf(r) == PricedOf(r) /\ TotalOf(r) /\ LinesRead(r) /\ OrderStays(r)

LedgerInv ==
  /\ \A r \in OrderId : LedgerOf(r)
  /\ \A t \in DOMAIN ticketType : SoldOf(t)
  /\ IsFiniteSet(DOMAIN orderItem) /\ IsFiniteSet(DOMAIN ticket)

-----------------------------------------------------------------------------
(* A step leaves what another request has under way as it is.              *)
SameWork(o) ==
  /\ SameRequest(o)
  /\ prices'[o] = prices[o]
  /\ \A u \in TicketsOf(o)' : ticket'[u].type = ticket[u].type

(* A handler's step leaves every other request and its rows alone.         *)
LEMMA StepFrame ==
  ASSUME IssuanceInv, NEW r \in OrderId, Step(r) \/ Abort(r)
  PROVE  /\ UNCHANGED <<fresh, cart>>
         /\ \A o \in OrderId \ {r} : SameWork(o) /\ SameRows(o)
<1> USE DEF SameWork, SameRequest, SameRows
<1>1. /\ pc \in [OrderId -> Stage]
      /\ DOMAIN lines = OrderId /\ DOMAIN prices = OrderId
      /\ pending \in [OrderId -> SUBSET ItemId]
      /\ cart[r] \in Cart
      /\ DOMAIN ticket \subseteq TicketId
  <2>1. DatabaseTypeOK /\ OrdersTypeOK
    BY DEF IssuanceInv, TypeInv, TypeOK
  <2>2. DOMAIN ticket \subseteq TicketId
    BY <2>1 DEF DatabaseTypeOK, IsTable
  <2> QED BY <2>1, <2>2 DEF OrdersTypeOK
<1>2. CASE UNCHANGED tables
  <2>1. UNCHANGED <<order, orderItem, ticket, fresh>>
    BY <1>2 DEF tables
  <2>2. \A o \in OrderId : SameRows(o) /\ \A u \in TicketsOf(o)' : ticket'[u].type = ticket[u].type
    BY <2>1 DEF ItemsOf, TicketsOf
  <2>3. \/ RefuseMethod(r) \/ FindTicketTypes(r) \/ FindOrder(r) \/ FindOrderItems(r)
        \/ Throw(r) \/ Abort(r)
        \/ \E i \in pending[r] : IncrementSold(r, i)
        \/ CreateOrder(r) \/ MarkPaid(r) \/ CreateOrderItems(r) \/ CreateTickets(r)
    BY DEF Step
  <2> QED
    BY <1>1, <2>1, <2>2, <2>3
    DEF Step, Abort, RefuseMethod, FindTicketTypes, CreateOrder, CreateOrderItems, Pay,
        MarkPaid, FindOrder, FindOrderItems, IncrementSold, CreateTickets, Throw, Return,
        Leave, Goto
<1>3. CASE CreateOrder(r) \/ MarkPaid(r)
  <2>1. UNCHANGED <<orderItem, ticket, fresh, cart, lines, pending>>
    BY <1>3 DEF CreateOrder, MarkPaid, Throw, tables
  <2>2. \A o \in OrderId \ {r} : prices'[o] = prices[o] /\ pc'[o] = pc[o]
    BY <1>1, <1>3 DEF CreateOrder, MarkPaid, Throw, Leave, Goto
  <2>3. \A o \in OrderId \ {r} : /\ o \in DOMAIN order' <=> o \in DOMAIN order
                                 /\ o \in DOMAIN order => order'[o] = order[o]
    BY <1>3 DEF CreateOrder, MarkPaid, Throw, tables, Insert, Row
  <2> QED BY <2>1, <2>2, <2>3 DEF ItemsOf, TicketsOf
<1>4. CASE CreateOrderItems(r) /\ ~ Throw(r)
  <2> DEFINE keys == {[order |-> r, line |-> k] : k \in DOMAIN cart[r].items}
  <2>1. /\ UNCHANGED <<order, ticket, fresh, cart, lines, pending>>
        /\ Pay(r)
    BY <1>4 DEF CreateOrderItems
  <2>2. /\ DOMAIN orderItem' = DOMAIN orderItem \cup keys
        /\ \A i \in DOMAIN orderItem \ keys : orderItem'[i] = orderItem[i]
    BY <1>4 DEF CreateOrderItems, Insert
  <2>3. \A i \in keys : i.order = r
    OBVIOUS
  <2> HIDE DEF keys
  <2>4. \A o \in OrderId \ {r} : prices'[o] = prices[o] /\ pc'[o] = pc[o]
    BY <1>1, <2>1 DEF Pay, Return, Leave, Goto
  <2>5. \A o \in OrderId \ {r} : ItemsOf(o)' = ItemsOf(o) /\ ItemsOf(o) \cap keys = {}
    BY <2>2, <2>3 DEF ItemsOf
  <2>6. \A o \in OrderId \ {r} : \A i \in ItemsOf(o) : orderItem'[i] = orderItem[i]
    BY <2>2, <2>5 DEF ItemsOf
  <2> QED BY <2>1, <2>4, <2>5, <2>6 DEF TicketsOf
<1>5. CASE \E i \in pending[r] : IncrementSold(r, i)
  BY <1>1, <1>5 DEF IncrementSold, Leave, tables, ItemsOf, TicketsOf
<1>6. CASE CreateTickets(r) /\ ~ Throw(r)
  <2>1. PICK codes \in [Units(lines[r]) -> Code] :
           /\ \E rows : DOMAIN rows = DOMAIN codes /\ ticket' = Insert(ticket, rows)
           /\ Return(r)
           /\ UNCHANGED <<event, ticketType, order, orderItem, checkIn, fresh,
                          cart, lines, pending>>
    BY <1>6 DEF CreateTickets
  <2>2. /\ DOMAIN ticket' = DOMAIN ticket \cup Units(lines[r])
        /\ \A u \in DOMAIN ticket \ Units(lines[r]) : ticket'[u] = ticket[u]
    BY <2>1 DEF Insert
  <2>3. \A u \in Units(lines[r]) : u.order = r
    BY UnitsOfLines DEF IssuanceInv
  <2>4. \A o \in OrderId \ {r} : /\ TicketsOf(o)' = TicketsOf(o)
                                 /\ \A u \in TicketsOf(o)' : ticket'[u] = ticket[u]
    BY <2>2, <2>3 DEF TicketsOf
  <2> QED BY <1>1, <2>1, <2>4 DEF Return, Leave, ItemsOf
<1> QED
  BY <1>2, <1>3, <1>4, <1>5, <1>6
  DEF Step, Abort, RefuseMethod, FindTicketTypes, FindOrder, FindOrderItems, Throw

(* An order that a step leaves alone, or all of whose rows it deletes,     *)
(* keeps its part of the ledger.                                           *)
LEMMA LedgerKept ==
  ASSUME NEW o \in OrderId, LedgerOf(o), SameWork(o), fresh' \subseteq fresh,
         SameRows(o) \/ (NoRows(o) /\ ~ NoRemoval)
  PROVE  LedgerOf(o)'
<1> USE DEF SameWork, SameRequest
<1>1. CASE SameRows(o)
  <2>1. ItemsTotal(o)' = ItemsTotal(o)
    BY <1>1 DEF SameRows, ItemsTotal
  <2>2. PricedOf(o)'
    BY <1>1 DEF SameRows, LedgerOf, PricedOf
  <2>6. OrderStays(o)'
    BY <1>1 DEF SameRows, LedgerOf, OrderStays
  <2>3. TotalOf(o)'
    BY <1>1, <2>1 DEF SameRows, LedgerOf, TotalOf
  <2>4. TicketsOf(o)' = TicketsOf(o)
    BY <1>1 DEF SameRows
  <2>5. LinesRead(o)'
    BY <1>1, <2>4 DEF SameRows, LedgerOf, LinesRead, PendingLines, KnownTypes
  <2> QED BY <2>2, <2>3, <2>5, <2>6 DEF LedgerOf
<1>2. CASE NoRows(o) /\ ~ NoRemoval
  BY <1>2
  DEF NoRows, LedgerOf, PricedOf, TotalOf, LinesRead, OrderStays, PendingLines, KnownTypes
<1> QED BY <1>1, <1>2

-----------------------------------------------------------------------------
(* The units of one line are as many as its quantity.                      *)
LEMMA UnitsOfLine ==
  ASSUME NEW i, NEW n \in Nat
  PROVE  LET own == {[order |-> i.order, line |-> i.line, index |-> k] : k \in 0 .. n - 1}
         IN IsFiniteSet(own) /\ Cardinality(own) = n
<1> DEFINE own == {[order |-> i.order, line |-> i.line, index |-> k] : k \in 0 .. n - 1}
           b == [k \in 0 .. n - 1 |-> [order |-> i.order, line |-> i.line, index |-> k]]
<1>1. b \in Bijection(0 .. n - 1, own)
  <2>1. \A j, k \in 0 .. n - 1 : b[j] = b[k] => b[j].index = b[k].index
    OBVIOUS
  <2>2. \A k \in 0 .. n - 1 : b[k].index = k
    OBVIOUS
  <2>3. IsInjective(b)
    BY <2>1, <2>2 DEF IsInjective
  <2> QED BY <2>3 DEF Bijection, Injection, Surjection
<1> HIDE DEF b, own
<1>2. IsFiniteSet(0 .. n - 1) /\ Cardinality(0 .. n - 1) = n
  BY FS_Interval
<1>3. ExistsBijection(0 .. n - 1, own)
  BY <1>1 DEF ExistsBijection
<1>4. IsFiniteSet(own) /\ Cardinality(own) = Cardinality(0 .. n - 1)
  BY <1>2, <1>3, FS_Bijection
<1> QED BY <1>2, <1>4 DEF own

(* A unit is of one of the lines it is made from.                          *)
LEMMA UnitsOfKeys ==
  ASSUME NEW items, DOMAIN items \subseteq ItemId, NEW u \in Units(items)
  PROVE  /\ LineOf(u) \in DOMAIN items
         /\ u.index \in 0 .. items[LineOf(u)].quantity - 1
         /\ u = [order |-> u.order, line |-> u.line, index |-> u.index]
<1>1. PICK i \in DOMAIN items : \E n \in 0 .. items[i].quantity - 1 :
        u = [order |-> i.order, line |-> i.line, index |-> n]
  BY DEF Units
<1>2. PICK n \in 0 .. items[i].quantity - 1 :
        u = [order |-> i.order, line |-> i.line, index |-> n]
  BY <1>1
<1>3. LineOf(u) = i
  BY <1>2 DEF LineOf, ItemId
<1> QED BY <1>2, <1>3

(* The lines of one request, and their units, are finitely many.           *)
LEMMA UnitsFinite ==
  ASSUME TypeInv, NEW r \in OrderId
  PROVE  IsFiniteSet(Units(lines[r]))
<1> DEFINE n == Len(cart[r].items)
           f == [u \in Units(lines[r]) |-> <<u.line, u.index>>]
           T == (1 .. n) \X (0 .. MaxInt)
<1>1. cart[r] \in Cart /\ DOMAIN lines[r] \subseteq ItemId
  BY DEF TypeInv, TypeOK, OrdersTypeOK, IsTable
<1>2. n \in Nat /\ DOMAIN cart[r].items = 1 .. n
  BY <1>1, CartType
<1>3. ASSUME NEW u \in Units(lines[r])
      PROVE  /\ f[u] \in T
             /\ u = [order |-> r, line |-> u.line, index |-> u.index]
  <2>1. /\ LineOf(u) \in DOMAIN lines[r]
        /\ u.index \in 0 .. lines[r][LineOf(u)].quantity - 1
        /\ u = [order |-> u.order, line |-> u.line, index |-> u.index]
    BY <1>1, UnitsOfKeys
  <2>2. /\ LineOf(u).order = r
        /\ LineOf(u).line \in 1 .. n
    BY <1>2, <2>1 DEF TypeInv, LinesOfCart, IsLine
  <2>3. lines[r][LineOf(u)].quantity \in 0 .. MaxInt
    BY <2>1 DEF TypeInv, TypeOK, OrdersTypeOK, IsTable, OrderItemRow, INTEGER
  <2>4. u.order = r /\ u.line \in 1 .. n
    BY <2>2 DEF LineOf
  <2> HIDE DEF n
  <2>5. u.index \in 0 .. MaxInt
    BY <2>1, <2>3, MaxIntAssumption
  <2> QED BY <2>1, <2>4, <2>5
<1>4. f \in Injection(Units(lines[r]), T)
  <2>1. f \in [Units(lines[r]) -> T]
    BY <1>3
  <2>2. \A u, v \in Units(lines[r]) : f[u] = f[v] => u = v
    BY <1>3
  <2>3. IsInjective(f)
    BY <2>2 DEF IsInjective
  <2> QED BY <2>1, <2>3 DEF Injection
<1>5. IsFiniteSet(1 .. n) /\ IsFiniteSet(0 .. MaxInt)
  BY <1>2, MaxIntAssumption, FS_Interval
<1> HIDE DEF n, f
<1>6. IsFiniteSet(T)
  BY <1>5, FS_Product
<1> HIDE DEF T
<1> QED BY <1>4, <1>6, FS_Injection

-----------------------------------------------------------------------------
(* A step of r changes only what r itself counts.                          *)
LEMMA CountedOwn ==
  ASSUME TypeInv, NEW r \in OrderId, NEW t,
         \A o \in OrderId \ {r} : SameWork(o) /\ SameRows(o)
  PROVE  /\ Counted(t)' = (Counted(t) \ CountedOf(r, t)) \cup CountedOf(r, t)'
         /\ \A u \in Counted(t) : u.order = r => u \in CountedOf(r, t)
<1>1. \A o \in OrderId : \A u \in CountedOf(o, t) : u.order = o
  BY UnitsOfLines DEF CountedOf
<1>2. \A o \in OrderId \ {r} : CountedOf(o, t)' = CountedOf(o, t)
  BY DEF SameWork, SameRequest, SameRows, CountedOf, Counts
<1>3. \A o \in OrderId \ {r} : CountedOf(o, t) \cap CountedOf(r, t) = {}
  BY <1>1
<1>4. Counted(t)' = UNION {CountedOf(o, t)' : o \in OrderId}
  BY DEF Counted
<1>5. /\ \A u : u \in Counted(t) <=> \E o \in OrderId : u \in CountedOf(o, t)
      /\ \A u : u \in Counted(t)' <=> \E o \in OrderId : u \in CountedOf(o, t)'
  BY <1>4 DEF Counted
<1> QED BY <1>1, <1>2, <1>3, <1>5

(* A type of which r counts no more units than before, and no less unless  *)
(* it fails, keeps its part of the ledger.                                 *)
LEMMA SoldKept ==
  ASSUME TypeInv, NEW r \in OrderId,
         \A o \in OrderId \ {r} : SameWork(o) /\ SameRows(o),
         NEW t \in DOMAIN ticketType, SoldOf(t), ticketType[t].sold \in Nat,
         ticketType'[t].sold = ticketType[t].sold,
         CountedOf(r, t)' \subseteq CountedOf(r, t),
         pc'[r] = "failed" \/ (pc[r] # "failed" /\ CountedOf(r, t)' = CountedOf(r, t))
  PROVE  SoldOf(t)'
<1>1. /\ Counted(t)' = (Counted(t) \ CountedOf(r, t)) \cup CountedOf(r, t)'
      /\ CountedOf(r, t) \subseteq Counted(t)
  BY CountedOwn DEF Counted
<1>2. Counted(t)' \in SUBSET Counted(t) /\ IsFiniteSet(Counted(t))
  BY <1>1 DEF SoldOf
<1>3. /\ IsFiniteSet(Counted(t)')
      /\ Cardinality(Counted(t)') <= Cardinality(Counted(t))
      /\ Cardinality(Counted(t)') \in Nat /\ Cardinality(Counted(t)) \in Nat
  BY <1>2, FS_Subset, FS_CardinalityType
<1>4. Cardinality(Counted(t)') <= ticketType'[t].sold
  BY <1>3 DEF SoldOf
<1>5. ASSUME \A o \in OrderId : pc'[o] # "failed"
      PROVE  Cardinality(Counted(t)') = ticketType'[t].sold
  <2>1. \A o \in OrderId : pc[o] # "failed"
    BY <1>5 DEF SameWork, SameRequest
  <2>2. Counted(t)' = Counted(t)
    BY <1>1, <1>5
  <2> QED BY <2>1, <2>2 DEF SoldOf
<1> QED BY <1>3, <1>4, <1>5 DEF SoldOf

(* A step of one handler need only be followed for its own order and for   *)
(* the types sold.                                                         *)
LEMMA OwnLedger ==
  ASSUME IssuanceInv, LedgerInv, NEW r \in OrderId, Step(r) \/ Abort(r), LedgerOf(r)',
         DOMAIN ticketType' \subseteq DOMAIN ticketType,
         \A t \in DOMAIN ticketType : SoldOf(t)',
         IsFiniteSet(DOMAIN orderItem'), IsFiniteSet(DOMAIN ticket')
  PROVE  LedgerInv'
<1>1. \A o \in OrderId \ {r} : LedgerOf(o)'
  BY StepFrame, LedgerKept DEF LedgerInv
<1> QED BY <1>1 DEF LedgerInv

-----------------------------------------------------------------------------
(* Steps that write no table neither change a total nor count a unit; a    *)
(* handler that has read its lines has all of them yet to count.           *)
LEMMA LocalLedger_Step ==
  ASSUME IssuanceInv, LedgerInv, NEW r \in OrderId, Step(r) \/ Abort(r),
         \/ RefuseMethod(r) \/ FindTicketTypes(r) \/ FindOrder(r) \/ FindOrderItems(r)
         \/ Throw(r) /\ pc[r] \in InProgress
         \/ Abort(r)
  PROVE  LedgerInv'
<1>1. /\ pc \in [OrderId -> Stage]
      /\ DOMAIN lines = OrderId /\ DOMAIN prices = OrderId
      /\ pending \in [OrderId -> SUBSET ItemId]
      /\ DOMAIN orderItem \subseteq ItemId
      /\ \A t \in DOMAIN ticketType : ticketType[t].sold \in Nat
  BY MaxIntAssumption
  DEF IssuanceInv, TypeInv, TypeOK, OrdersTypeOK, DatabaseTypeOK, IsTable,
      TicketTypeRow, INTEGER
<1>2. /\ UNCHANGED <<tables, cart>>
      /\ pc'[r] \in Stage \ {"orderItem.createMany", "done"}
      /\ pc'[r] # "failed" => pc[r] # "failed"
  BY <1>1 DEF RefuseMethod, FindTicketTypes, FindOrder, FindOrderItems, Throw, Abort,
              Leave, Goto, Stage, InProgress
<1>3. LedgerOf(r) /\ ProgressOf(r)
  BY DEF LedgerInv, IssuanceInv, Progress
<1>4. UNCHANGED <<order, orderItem, ticketType, ticket, fresh>>
  BY <1>2 DEF tables
<1>5. PricedOf(r)' /\ TotalOf(r)'
  BY <1>2, <1>3, <1>4 DEF LedgerOf, PricedOf, TotalOf, ItemsTotal, ItemsOf
<1>6. CASE FindOrderItems(r)
  <2>1. /\ pc[r] = "orderItem.findMany" /\ pc'[r] = "ticket.createMany"
        /\ lines'[r] = Restrict(orderItem, ItemsOf(r))
        /\ pending'[r] = ItemsOf(r)
        /\ DOMAIN lines'[r] = ItemsOf(r)
    BY <1>1, <1>6 DEF FindOrderItems, Goto, Restrict
  <2>2. TicketsOf(r) = {} /\ TicketsOf(r)' = {}
    BY <1>3, <1>4, <2>1 DEF ProgressOf, TicketsOf
  <2>3. LinesRead(r)' /\ OrderStays(r)'
    BY <1>2, <1>3, <1>4, <2>1, <2>2 DEF LedgerOf, LinesRead, OrderStays, PendingLines, KnownTypes
  <2>4. \A u \in Units(lines'[r]) : LineOf(u) \in DOMAIN lines'[r]
    BY <1>1, <2>1, UnitsOfKeys DEF ItemsOf
  <2>5. \A t : CountedOf(r, t)' = {} /\ CountedOf(r, t) = {}
    BY <2>1, <2>2, <2>4 DEF CountedOf, Counts
  <2> QED BY <1>1, <1>2, <1>3, <1>4, <1>5, <2>1, <2>3, <2>5, StepFrame, SoldKept, OwnLedger
     DEF LedgerOf, LedgerInv, IssuanceInv
<1>7. CASE ~ FindOrderItems(r)
  <2>1. /\ UNCHANGED lines
        /\ pending'[r] \subseteq pending[r]
        /\ pc[r] \in {"idle"} \cup InProgress
        /\ pc'[r] \in {"order.create", "orderItem.findMany", "refused", "failed"}
        /\ pc'[r] # "failed" => /\ pc[r] \in {"idle", "order.findUnique"}
                                /\ pending'[r] = pending[r]
        /\ pc'[r] = "orderItem.findMany" => r \in DOMAIN order
        /\ pc[r] = "idle" => TypesIn(cart[r]) \cap fresh = {}
    BY <1>1, <1>7
    DEF RefuseMethod, FindTicketTypes, FindOrder, Throw, Abort, Leave, Goto, Sendable,
        InProgress
  <2>2. TicketsOf(r) = {} /\ TicketsOf(r)' = {}
    BY <1>3, <1>4, <2>1 DEF ProgressOf, TicketsOf, InProgress
  <2>3. LinesRead(r)' /\ OrderStays(r)'
    BY <1>2, <1>3, <1>4, <2>1, <2>2
    DEF LedgerOf, LinesRead, OrderStays, PendingLines, KnownTypes, InProgress, TypesIn
  <2>4. \A t : /\ CountedOf(r, t)' = {}
               /\ pc'[r] # "failed" => CountedOf(r, t) = {}
    BY <2>1, <2>2 DEF CountedOf, Counts
  <2> QED BY <1>1, <1>2, <1>3, <1>4, <1>5, <2>1, <2>3, <2>4, StepFrame, SoldKept, OwnLedger
     DEF LedgerOf, LedgerInv, IssuanceInv
<1> QED BY <1>6, <1>7

(* A new order carries the total of its request and has no line yet; one   *)
(* marked paid keeps its total.                                            *)
LEMMA OrderLedger_Step ==
  ASSUME IssuanceInv, LedgerInv, NEW r \in OrderId, CreateOrder(r) \/ MarkPaid(r)
  PROVE  LedgerInv'
<1>1. /\ pc \in [OrderId -> Stage]
      /\ DOMAIN lines = OrderId /\ DOMAIN prices = OrderId
      /\ \A t \in DOMAIN ticketType : ticketType[t].sold \in Nat
  BY MaxIntAssumption
  DEF IssuanceInv, TypeInv, TypeOK, OrdersTypeOK, DatabaseTypeOK, IsTable,
      TicketTypeRow, INTEGER
<1>2. LedgerOf(r) /\ ProgressOf(r)
  BY DEF LedgerInv, IssuanceInv, Progress
<1>3. Step(r)
  BY DEF Step
<1>4. CASE Throw(r)
  BY <1>3, <1>4, LocalLedger_Step DEF CreateOrder, MarkPaid, InProgress
<1>5. ASSUME UNCHANGED <<ticketType, orderItem, ticket, fresh, cart, prices, lines, pending>>,
             pc[r] \in {"order.create", "order.update"},
             pc'[r] \in {"orderItem.createMany", "order.findUnique"},
             r \in DOMAIN order', PricedOf(r)' /\ TotalOf(r)'
      PROVE  LedgerInv'
  <2>1. TicketsOf(r) = {} /\ TicketsOf(r)' = {}
    BY <1>2, <1>5 DEF ProgressOf, TicketsOf
  <2>2. LinesRead(r)' /\ OrderStays(r)'
    BY <1>2, <1>5, <2>1 DEF LedgerOf, LinesRead, OrderStays, PendingLines, KnownTypes
  <2>3. \A t : CountedOf(r, t)' = {} /\ CountedOf(r, t) = {}
    BY <1>5, <2>1 DEF CountedOf, Counts
  <2> QED BY <1>1, <1>3, <1>5, <2>2, <2>3, StepFrame, SoldKept, OwnLedger
     DEF LedgerOf, LedgerInv, IssuanceInv
<1>6. CASE CreateOrder(r) /\ ~ Throw(r)
  <2>1. /\ pc[r] = "order.create" /\ pc'[r] = "orderItem.createMany"
        /\ r \in DOMAIN order' /\ order'[r].total = TotalAmount(cart[r], prices[r])
        /\ UNCHANGED <<ticketType, orderItem, ticket, fresh, cart, prices, lines, pending>>
    BY <1>1, <1>6 DEF CreateOrder, Goto, Insert, Row
  <2>2. ItemsOf(r)' = {}
    BY <1>2, <2>1 DEF ProgressOf, BeforeOrder, ItemsOf
  <2>3. TotalAmount(cart[r], prices[r])' = TotalAmount(cart[r], prices[r])
    BY <2>1 DEF TotalAmount, Price
  <2> QED BY <1>5, <2>1, <2>2, <2>3 DEF PricedOf, TotalOf
<1>7. CASE MarkPaid(r) /\ ~ Throw(r)
  <2>1. order[r] \in OrderRow
    BY <1>7 DEF MarkPaid, IssuanceInv, TypeInv, TypeOK, DatabaseTypeOK, IsTable
  <2>2. /\ pc[r] = "order.update" /\ pc'[r] = "order.findUnique"
        /\ r \in DOMAIN order /\ DOMAIN order' = DOMAIN order
        /\ order'[r].total = order[r].total
        /\ UNCHANGED <<ticketType, orderItem, ticket, fresh, cart, prices, lines, pending>>
    BY <1>1, <1>7, <2>1 DEF MarkPaid, Goto, OrderRow
  <2>3. PricedOf(r)' /\ TotalOf(r)'
    BY <1>2, <2>2 DEF LedgerOf, PricedOf, TotalOf, ItemsTotal, ItemsOf
  <2> QED BY <1>5, <2>2, <2>3
<1> QED BY <1>4, <1>6, <1>7

(* A sum over the lines 1 .. n of a request, and one over the rows those   *)
(* lines are stored in, are the same if their terms are.                   *)
LEMMA SumOfLines ==
  ASSUME NEW r, NEW n \in Nat,
         NEW f, DOMAIN f = 1 .. n, \A k \in 1 .. n : f[k] \in Nat,
         NEW g, DOMAIN g = {[order |-> r, line |-> k] : k \in 1 .. n},
         \A i \in DOMAIN g : g[i] = f[i.line]
  PROVE  SumFunction(g) = SumFunction(f) /\ IsFiniteSet(DOMAIN g)
<1> DEFINE keys == {[order |-> r, line |-> k] : k \in 1 .. n}
           b == [k \in 1 .. n |-> [order |-> r, line |-> k]]
<1>1. \A k \in 1 .. n : b[k].line = k /\ b[k] \in keys
  OBVIOUS
<1>2. b \in Bijection(1 .. n, keys)
  <2>1. \A j, k \in 1 .. n : b[j] = b[k] => b[j].line = b[k].line
    OBVIOUS
  <2>2. IsInjective(b)
    BY <1>1, <2>1 DEF IsInjective
  <2>3. b \in [1 .. n -> keys] /\ \A i \in keys : \E k \in 1 .. n : b[k] = i
    OBVIOUS
  <2> HIDE DEF b
  <2> QED BY <2>2, <2>3 DEF Bijection, Injection, Surjection
<1>3. IsFiniteSet(1 .. n)
  BY FS_Interval
<1> HIDE DEF b, keys
<1>4. \A k \in 1 .. n : f[k] \in Nat /\ g[b[k]] = f[k]
  BY <1>1 DEF keys
<1>5. SumFunctionOnSet(f, 1 .. n) = SumFunctionOnSet(g, keys)
  <2> DEFINE ks == 1 .. n
  <2>1. /\ b \in Bijection(ks, keys) /\ IsFiniteSet(ks)
        /\ \A k \in ks : f[k] \in Nat /\ g[b[k]] = f[k]
    BY <1>2, <1>3, <1>4
  <2> HIDE DEF ks
  <2>2. SumFunctionOnSet(f, ks) = SumFunctionOnSet(g, keys)
    BY <2>1, SumBijection
  <2> QED BY <2>2 DEF ks
<1>6. IsFiniteSet(keys)
  BY <1>2, <1>3, FS_Bijection DEF ExistsBijection
<1> QED BY <1>5, <1>6 DEF SumFunction, keys

(* The lines of an order are stored at the prices its total was made of.   *)
LEMMA ItemsLedger_Step ==
  ASSUME IssuanceInv, LedgerInv, NEW r \in OrderId, CreateOrderItems(r)
  PROVE  LedgerInv'
<1>1. /\ pc \in [OrderId -> Stage] /\ cart[r] \in Cart
      /\ DOMAIN lines = OrderId /\ DOMAIN prices = OrderId
      /\ \A t \in DOMAIN ticketType : ticketType[t].sold \in Nat
      /\ \A t \in DOMAIN prices[r] : prices[r][t] \in Nat
  BY MaxIntAssumption
  DEF IssuanceInv, TypeInv, TypeOK, OrdersTypeOK, DatabaseTypeOK, IsTable,
      TicketTypeRow, INTEGER
<1>2. LedgerOf(r) /\ ProgressOf(r)
  BY DEF LedgerInv, IssuanceInv, Progress
<1>3. Step(r)
  BY DEF Step
<1>4. CASE Throw(r)
  BY <1>3, <1>4, LocalLedger_Step DEF CreateOrderItems, InProgress
<1>5. CASE ~ Throw(r)
  <2> DEFINE items == cart[r].items
             keys == {[order |-> r, line |-> k] : k \in DOMAIN items}
             rows == [i \in keys |->
                   [type      |-> items[i.line].type,
                    quantity  |-> items[i.line].quantity,
                    unitPrice |-> Price(prices[r], items[i.line].type)]]
  <2>1. /\ pc[r] = "orderItem.createMany"
        /\ r \in DOMAIN order
        /\ orderItem' = Insert(orderItem, rows)
        /\ pc'[r] \in {"order.update", "done", "failed"}
        /\ UNCHANGED <<ticketType, order, ticket, fresh, cart, lines, pending>>
    BY <1>1, <1>5 DEF CreateOrderItems, Pay, Return, Goto, Leave
  <2>2. /\ DOMAIN orderItem' = DOMAIN orderItem \cup keys
        /\ \A i \in keys : orderItem'[i] = rows[i]
    BY <2>1 DEF Insert
  <2>3. \A i \in keys : /\ i.order = r
                        /\ rows[i].quantity = items[i.line].quantity
                        /\ rows[i].unitPrice = Price(prices[r], items[i.line].type)
    OBVIOUS
  <2>4. /\ Len(items) \in Nat /\ DOMAIN items = 1 .. Len(items)
        /\ \A k \in 1 .. Len(items) : /\ items[k].quantity \in Nat
                                      /\ Price(prices[r], items[k].type) \in Nat
    BY <1>1, CartType DEF Price
  <2>5. keys = {[order |-> r, line |-> k] : k \in 1 .. Len(items)}
    BY <2>4
  <2>6. TotalAmount(cart[r], prices[r]) =
          SumFunction([k \in DOMAIN items |->
                         Price(prices[r], items[k].type) * items[k].quantity])
    BY DEF TotalAmount
  <2> HIDE DEF keys, rows, items
  <2>7. ItemsOf(r)' = keys
    BY <1>2, <2>1, <2>2, <2>3 DEF ProgressOf, ItemsOf
  <2>8. /\ SumFunction([i \in keys |-> orderItem'[i].unitPrice * orderItem'[i].quantity]) =
             SumFunction([k \in DOMAIN items |->
                            Price(prices[r], items[k].type) * items[k].quantity])
        /\ IsFiniteSet(keys)
    <3> DEFINE n == Len(items)
               f == [k \in DOMAIN items |->
                       Price(prices[r], items[k].type) * items[k].quantity]
               g == [i \in keys |-> orderItem'[i].unitPrice * orderItem'[i].quantity]
    <3>1. \A i \in keys : /\ orderItem'[i].quantity = items[i.line].quantity
                          /\ orderItem'[i].unitPrice = Price(prices[r], items[i.line].type)
                          /\ i.line \in 1 .. n
      BY <2>2, <2>3, <2>5
    <3>2. \A i \in keys : g[i] = f[i.line]
      BY <2>4, <3>1
    <3>3. \A k \in 1 .. n : f[k] \in Nat
      <4>1. \A x, y \in Nat : x * y \in Nat
        OBVIOUS
      <4> QED BY <2>4, <4>1
    <3>4. DOMAIN f = 1 .. n /\ DOMAIN g = keys /\ n \in Nat
      BY <2>4
    <3> HIDE DEF n, f, g
    <3>5. SumFunction(g) = SumFunction(f) /\ IsFiniteSet(DOMAIN g)
      BY <2>5, <3>2, <3>3, <3>4, SumOfLines DEF n
    <3> QED BY <3>4, <3>5 DEF f, g
  <2>9. ItemsTotal(r)' = TotalAmount(cart[r], prices[r])
    BY <2>6, <2>7, <2>8 DEF ItemsTotal
  <2>10. order'[r].total = TotalAmount(cart[r], prices[r])
    BY <1>2, <2>1 DEF LedgerOf, PricedOf
  <2>11. PricedOf(r)' /\ TotalOf(r)'
    BY <2>1, <2>9, <2>10 DEF PricedOf, TotalOf
  <2>12. TicketsOf(r)' = {} /\ DOMAIN lines[r] = {}
    BY <1>2, <2>1 DEF ProgressOf, TicketsOf, LedgerOf, LinesRead
  <2>13. Units(lines[r]) = {} /\ pending[r] = {}
    BY <1>2, <2>1, <2>12 DEF Units, LedgerOf, LinesRead, PendingLines
  <2>14. LinesRead(r)' /\ OrderStays(r)'
    BY <1>2, <2>1, <2>12, <2>13 DEF LedgerOf, LinesRead, OrderStays, PendingLines, KnownTypes
  <2>15. \A t : CountedOf(r, t)' = {} /\ CountedOf(r, t) = {}
    BY <2>1, <2>13 DEF CountedOf
  <2>16. IsFiniteSet(DOMAIN orderItem') /\ IsFiniteSet(DOMAIN ticket')
    <3>1. IsFiniteSet(DOMAIN orderItem) /\ IsFiniteSet(DOMAIN ticket)
      BY DEF LedgerInv
    <3>2. IsFiniteSet(DOMAIN orderItem \cup keys)
      BY <2>8, <3>1, FS_Union
    <3> QED BY <2>1, <2>2, <3>1, <3>2
  <2> QED BY <1>1, <1>3, <2>1, <2>11, <2>14, <2>15, <2>16, StepFrame, SoldKept, OwnLedger
     DEF LedgerOf, LedgerInv, IssuanceInv
<1> QED BY <1>4, <1>5

(* The tickets made are the units of the lines counted, of their types.    *)
LEMMA TicketsLedger_Step ==
  ASSUME IssuanceInv, LedgerInv, NEW r \in OrderId, CreateTickets(r)
  PROVE  LedgerInv'
<1>1. /\ pc \in [OrderId -> Stage]
      /\ \A t \in DOMAIN ticketType : ticketType[t].sold \in Nat
  BY MaxIntAssumption
  DEF IssuanceInv, TypeInv, TypeOK, OrdersTypeOK, DatabaseTypeOK, IsTable,
      TicketTypeRow, INTEGER
<1>2. LedgerOf(r) /\ ProgressOf(r)
  BY DEF LedgerInv, IssuanceInv, Progress
<1>3. Step(r)
  BY DEF Step
<1>4. CASE Throw(r)
  BY <1>3, <1>4, LocalLedger_Step DEF CreateTickets, InProgress
<1>5. CASE ~ Throw(r)
  <2>1. PICK codes \in [Units(lines[r]) -> Code] :
          /\ ticket' = Insert(ticket,
               [u \in DOMAIN codes |->
                      [event   |-> cart[r].event,
                       type    |-> lines[r][LineOf(u)].type,
                       code    |-> codes[u],
                       answers |-> MatchedAnswers(cart[r], lines[r][LineOf(u)].type),
                       status  |-> "ISSUED"]])
          /\ Return(r)
          /\ UNCHANGED <<ticketType, order, orderItem, fresh, cart, lines, pending>>
    BY <1>5 DEF CreateTickets
  <2>2. /\ DOMAIN ticket' = DOMAIN ticket \cup Units(lines[r])
        /\ \A u \in Units(lines[r]) : ticket'[u].type = lines[r][LineOf(u)].type
        /\ pc[r] = "ticket.createMany" /\ pc'[r] \in {"done", "failed"}
    BY <1>1, <2>1 DEF CreateTickets, Insert, Return, Leave
  <2>3. \A u \in Units(lines[r]) : u.order = r
    BY UnitsOfLines DEF IssuanceInv
  <2>4. TicketsOf(r)' = Units(lines[r])
    BY <1>2, <2>2, <2>3 DEF ProgressOf, TicketsOf
  <2>5. LinesRead(r)' /\ OrderStays(r)'
    <3>1. /\ PendingLines(r)' /\ KnownTypes(r)'
          /\ pc'[r] \in {"done", "failed"}
          /\ Units(lines[r])' = Units(lines[r])
      BY <1>2, <2>1, <2>2 DEF LedgerOf, LinesRead, PendingLines, KnownTypes, CreateTickets
    <3>2. \A u \in TicketsOf(r)' : ticket'[u].type = lines'[r][LineOf(u)].type
      BY <2>1, <2>2, <2>4
    <3>3. OrderStays(r)'
      BY <1>2, <2>1, <2>2 DEF LedgerOf, OrderStays
    <3> QED BY <2>4, <3>1, <3>2, <3>3 DEF LinesRead, LineOf
  <2>6. PricedOf(r)' /\ TotalOf(r)'
    BY <1>2, <2>1, <2>2 DEF LedgerOf, PricedOf, TotalOf, ItemsTotal, ItemsOf
  <2>7. \A t : CountedOf(r, t)' = CountedOf(r, t)
    BY <2>1, <2>2, <2>4 DEF CountedOf, Counts
  <2>8. IsFiniteSet(DOMAIN orderItem') /\ IsFiniteSet(DOMAIN ticket')
    <3>1. /\ IsFiniteSet(DOMAIN orderItem) /\ IsFiniteSet(DOMAIN ticket)
          /\ IsFiniteSet(Units(lines[r]))
      BY UnitsFinite DEF LedgerInv, IssuanceInv
    <3>2. IsFiniteSet(DOMAIN ticket \cup Units(lines[r]))
      BY <3>1, FS_Union
    <3> QED BY <2>1, <2>2, <3>1, <3>2
  <2> QED BY <1>1, <1>3, <2>1, <2>2, <2>5, <2>6, <2>7, <2>8, StepFrame, SoldKept, OwnLedger
     DEF LedgerOf, LedgerInv, IssuanceInv
<1> QED BY <1>4, <1>5

(* An increment counts the units of one line, which no other increment     *)
(* counted before or will count; one of a handler that failed adds to      *)
(* `sold' what no ticket will follow.                                      *)
LEMMA IncrementLedger_Step ==
  ASSUME IssuanceInv, LedgerInv, NEW r \in OrderId, NEW i \in pending[r],
         IncrementSold(r, i)
  PROVE  LedgerInv'
<1> DEFINE t0 == lines[r][i].type
           q  == lines[r][i].quantity
<1>1. /\ pc \in [OrderId -> Stage] /\ pending \in [OrderId -> SUBSET ItemId]
      /\ DOMAIN lines[r] \subseteq ItemId
      /\ \A t \in DOMAIN ticketType : ticketType[t] \in TicketTypeRow
      /\ \A t \in DOMAIN ticketType : ticketType[t].sold \in Nat
      /\ \A j \in DOMAIN lines[r] : lines[r][j].quantity \in Nat
  BY MaxIntAssumption
  DEF IssuanceInv, TypeInv, TypeOK, OrdersTypeOK, DatabaseTypeOK, IsTable,
      TicketTypeRow, OrderItemRow, INTEGER
<1>2. LedgerOf(r) /\ ProgressOf(r)
  BY DEF LedgerInv, IssuanceInv, Progress
<1>3. Step(r)
  BY DEF Step
<1>4. i \in DOMAIN lines[r] /\ pc[r] \in {"ticket.createMany", "failed"}
  BY <1>2 DEF LedgerOf, LinesRead, PendingLines
<1>5. /\ pending'[r] = pending[r] \ {i}
      /\ UNCHANGED <<order, orderItem, ticket, fresh, cart, lines>>
      /\ pc'[r] \in {pc[r], "failed"}
      /\ DOMAIN ticketType' = DOMAIN ticketType
  BY <1>1, <1>4 DEF IncrementSold, Leave, Sell, tables
<1>6. TicketsOf(r) = {} /\ TicketsOf(r)' = {}
  BY <1>2, <1>4, <1>5 DEF ProgressOf, TicketsOf
<1>7. LedgerOf(r)'
  <2>1. PricedOf(r)' /\ TotalOf(r)'
    BY <1>2, <1>4, <1>5 DEF LedgerOf, PricedOf, TotalOf, ItemsTotal, ItemsOf
  <2>2. LinesRead(r)' /\ OrderStays(r)'
    BY <1>2, <1>4, <1>5, <1>6 DEF LedgerOf, LinesRead, OrderStays, PendingLines, KnownTypes
  <2> QED BY <2>1, <2>2 DEF LedgerOf
<1>8. \A t : pc'[r] = "failed" => CountedOf(r, t)' = {}
  BY <1>6 DEF CountedOf, Counts
<1>9. SUFFICES ASSUME NEW t \in DOMAIN ticketType PROVE SoldOf(t)'
  BY <1>3, <1>5, <1>7, OwnLedger DEF LedgerInv
<1>10. SoldOf(t)
  BY DEF LedgerInv
<1>11. CASE pc[r] = "failed" \/ pc'[r] = "failed"
  <2>1. pc'[r] = "failed"
    BY <1>5, <1>11
  <2>2. CASE ticketType'[t].sold = ticketType[t].sold
    BY <1>1, <1>3, <1>8, <1>10, <2>1, <2>2, StepFrame, SoldKept DEF IssuanceInv
  <2>3. CASE ticketType'[t].sold = ticketType[t].sold + q
    <3>1. Counted(t)' \subseteq Counted(t)
      BY <1>3, <1>8, <2>1, StepFrame, CountedOwn DEF IssuanceInv
    <3>2. /\ IsFiniteSet(Counted(t)')
          /\ Cardinality(Counted(t)') <= Cardinality(Counted(t))
          /\ Cardinality(Counted(t)') \in Nat /\ Cardinality(Counted(t)) \in Nat
      BY <1>10, <3>1, FS_Subset, FS_CardinalityType DEF SoldOf
    <3>3. q \in Nat /\ ticketType[t].sold \in Nat
      BY <1>1, <1>4
    <3> HIDE DEF q
    <3>4. Cardinality(Counted(t)') <= ticketType'[t].sold
      BY <1>10, <2>3, <3>2, <3>3 DEF SoldOf
    <3> QED BY <2>1, <3>2, <3>4 DEF SoldOf
  <2> QED BY <1>1, <2>2, <2>3 DEF IncrementSold, Sell, tables, TicketTypeRow
<1>12. CASE pc[r] = "ticket.createMany" /\ pc'[r] = "ticket.createMany"
  <2> DEFINE own == {[order |-> i.order, line |-> i.line, index |-> k] : k \in 0 .. q - 1}
  <2>1. /\ t0 \in DOMAIN ticketType
        /\ ticketType' = [ticketType EXCEPT ![t0].sold = @ + q]
    BY <1>1, <1>12 DEF IncrementSold, Sell, Leave
  <2>2. \A u \in Units(lines[r]) : LineOf(u) = i <=> u \in own
    <3> TAKE u \in Units(lines[r])
    <3>1. /\ u.index \in 0 .. lines[r][LineOf(u)].quantity - 1
          /\ u = [order |-> u.order, line |-> u.line, index |-> u.index]
      BY <1>1, UnitsOfKeys
    <3>2. i = [order |-> i.order, line |-> i.line]
      BY <1>1, <1>4 DEF ItemId
    <3> QED BY <3>1, <3>2 DEF LineOf
  <2>3. own \subseteq Units(lines[r])
    BY <1>4 DEF Units
  <2>4. IsFiniteSet(own) /\ Cardinality(own) = q /\ q \in Nat
    BY <1>1, <1>4, UnitsOfLine
  <2> HIDE DEF own
  <2>5. CASE t # t0
    <3>1. ticketType'[t].sold = ticketType[t].sold
      BY <2>1, <2>5
    <3>2. CountedOf(r, t)' = CountedOf(r, t)
      BY <1>4, <1>5, <1>12, <2>5 DEF CountedOf, Counts
    <3> QED BY <1>1, <1>3, <1>10, <1>12, <3>1, <3>2, StepFrame, SoldKept DEF IssuanceInv
  <2>6. CASE t = t0
    <3>1. ticketType'[t].sold = ticketType[t].sold + q
      BY <1>1, <2>1, <2>6 DEF TicketTypeRow
    <3>2. CountedOf(r, t)' = CountedOf(r, t) \cup own
      BY <1>5, <1>12, <2>2, <2>3, <2>6 DEF CountedOf, Counts
    <3>3. /\ Counted(t)' = (Counted(t) \ CountedOf(r, t)) \cup CountedOf(r, t)'
          /\ CountedOf(r, t) \subseteq Counted(t)
          /\ \A u \in Counted(t) : u.order = r => u \in CountedOf(r, t)
      BY <1>3, StepFrame, CountedOwn DEF Counted, IssuanceInv
    <3>4. Counted(t) \cap own = {}
      <4> SUFFICES ASSUME NEW u \in Counted(t), u \in own PROVE FALSE
        OBVIOUS
      <4>1. u.order = r
        BY <2>3, UnitsOfLines DEF IssuanceInv
      <4>2. u \in CountedOf(r, t)
        BY <3>3, <4>1
      <4> QED BY <2>2, <2>3, <4>2 DEF CountedOf
    <3>5. Counted(t)' = Counted(t) \cup own
      BY <3>2, <3>3
    <3>6. /\ IsFiniteSet(Counted(t)')
          /\ Cardinality(Counted(t)') = Cardinality(Counted(t)) + q
          /\ Cardinality(Counted(t)) \in Nat
      <4>1. IsFiniteSet(Counted(t)) /\ Cardinality(Counted(t)) \in Nat
        BY <1>10, FS_CardinalityType DEF SoldOf
      <4>2. Cardinality({}) = 0
        BY FS_EmptySet
      <4>3. /\ IsFiniteSet(Counted(t) \cup own)
            /\ Cardinality(Counted(t) \cup own) = Cardinality(Counted(t)) + q - 0
        BY <2>4, <3>4, <4>1, <4>2, FS_Union
      <4> HIDE DEF q
      <4> QED BY <2>4, <3>5, <4>1, <4>3
    <3>7. ticketType[t].sold \in Nat
      BY <1>1
    <3>8. (\A o \in OrderId : pc'[o] # "failed") => \A o \in OrderId : pc[o] # "failed"
      BY <1>3, <1>12, StepFrame DEF SameWork, SameRequest
    <3> HIDE DEF q
    <3> QED BY <1>10, <2>4, <3>1, <3>6, <3>7, <3>8 DEF SoldOf
  <2> QED BY <2>5, <2>6
<1> QED BY <1>4, <1>5, <1>11, <1>12

(* An edit of the catalogue leaves what is counted and sold as it is, and  *)
(* the rows of an order too, unless the edit deletes its event.            *)
LEMMA CatalogLedger_Step ==
  ASSUME IssuanceInv, LedgerInv, CatalogNext, UNCHANGED requestVars
  PROVE  LedgerInv'
<1>1. /\ fresh' \subseteq fresh
      /\ \A t \in DOMAIN ticketType' :
              \/ t \in DOMAIN ticketType /\ ticketType'[t].sold = ticketType[t].sold
              \/ t \in fresh /\ ticketType'[t].sold = 0
  BY CatalogRoom DEF IssuanceInv
<1>2. /\ \A o \in OrderId : \/ SameRows(o)
                            \/ NoRows(o) /\ ~ NoRemoval
      /\ DOMAIN orderItem' \subseteq DOMAIN orderItem
      /\ DOMAIN ticket' \subseteq DOMAIN ticket
      /\ \A u \in DOMAIN ticket' : ticket'[u] = ticket[u]
  <2>1. CASE UNCHANGED <<order, orderItem, ticket>>
    BY <2>1 DEF SameRows, ItemsOf, TicketsOf
  <2>2. ASSUME NEW e \in EventId, RemoveEvent(e), ~ NoRemoval
        PROVE  <1>2!:
    BY <2>2, DeleteEventRows DEF RemoveEvent
  <2>3. CASE TicketTypesNext
    BY <2>1, <2>3 DEF TicketTypesNext, CreateTicketType, UpdateTicketType, CheckRemoval,
                      RemoveTicketType, tables
  <2>4. ASSUME NEW e \in EventId,
               \/ \E dto \in EventDto : CreateEvent(e, dto)
               \/ \E dto \in EventDto, fields \in SUBSET EventField :
                    UpdateEvent(e, dto, fields)
               \/ Publish(e) \/ CancelEvent(e)
        PROVE  UNCHANGED <<order, orderItem, ticket>>
    BY <2>4 DEF CreateEvent, UpdateEvent, Publish, CancelEvent
  <2>5. CASE EventsNext
    BY <2>1, <2>2, <2>4, <2>5 DEF EventsNext, NoRemoval
  <2> QED BY <2>3, <2>5 DEF CatalogNext
<1>3. \A o \in OrderId : SameWork(o)
  BY <1>2 DEF SameWork, SameRequest, requestVars, TicketsOf
<1>4. \A o \in OrderId : LedgerOf(o)'
  BY <1>1, <1>2, <1>3, LedgerKept DEF LedgerInv
<1>5. IsFiniteSet(DOMAIN orderItem') /\ IsFiniteSet(DOMAIN ticket')
  BY <1>2, FS_Subset DEF LedgerInv
<1>6. /\ \A t : Counted(t)' \subseteq Counted(t)
      /\ (\A o \in OrderId : pc[o] # "failed") => \A t : Counted(t)' = Counted(t)
  <2>1. ASSUME NEW o \in OrderId, NEW t
        PROVE  /\ CountedOf(o, t)' \subseteq CountedOf(o, t)
               /\ pc[o] # "failed" => CountedOf(o, t)' = CountedOf(o, t)
    <3>1. /\ pc'[o] = pc[o] /\ lines'[o] = lines[o] /\ pending'[o] = pending[o]
          /\ TicketsOf(o)' = TicketsOf(o) \/ TicketsOf(o)' = {}
      BY <1>2 DEF SameRows, NoRows, requestVars
    <3>2. TicketsOf(o) # {} => pc[o] \in {"done", "failed"}
      BY DEF IssuanceInv, Progress, ProgressOf
    <3>3. /\ Counts(o)' => Counts(o)
          /\ Counts(o) /\ pc[o] # "failed" => Counts(o)'
      BY <3>1, <3>2 DEF Counts
    <3>4. CASE Counts(o) /\ Counts(o)'
      BY <3>1, <3>4 DEF CountedOf
    <3>5. CASE ~ Counts(o)'
      BY <3>3, <3>5 DEF CountedOf
    <3> QED BY <3>3, <3>4, <3>5
  <2> QED BY <2>1 DEF Counted
<1>7. ASSUME NEW t \in fresh PROVE Counted(t) = {}
  <2> SUFFICES ASSUME NEW o \in OrderId, NEW u \in CountedOf(o, t) PROVE FALSE
    BY DEF Counted
  <2>1. LineOf(u) \in DOMAIN lines[o] /\ pc[o] # "idle" /\ lines[o][LineOf(u)].type = t
    BY UnitsOfLines DEF CountedOf, Counts, IssuanceInv, Progress, ProgressOf
  <2>2. LineOf(u).order = o /\ IsLine(LineOf(u), lines[o][LineOf(u)])
    BY <2>1 DEF IssuanceInv, TypeInv, LinesOfCart
  <2>3. t \in TypesIn(cart[o])
    BY <2>1, <2>2 DEF IsLine, TypesIn
  <2> QED BY <2>1, <2>3 DEF LedgerInv, LedgerOf, LinesRead, KnownTypes
<1>8. ASSUME NEW t \in DOMAIN ticketType' PROVE SoldOf(t)'
  <2>1. UNCHANGED pc
    BY DEF requestVars
  <2>2. CASE t \in DOMAIN ticketType /\ ticketType'[t].sold = ticketType[t].sold
    <3>1. /\ Counted(t)' \in SUBSET Counted(t)
          /\ IsFiniteSet(Counted(t)) /\ Cardinality(Counted(t)) <= ticketType[t].sold
          /\ ticketType[t].sold \in Nat
      BY <1>6, <2>2, MaxIntAssumption
      DEF LedgerInv, SoldOf, IssuanceInv, TypeInv, TypeOK, DatabaseTypeOK, IsTable,
          TicketTypeRow, INTEGER
    <3>2. /\ IsFiniteSet(Counted(t)')
          /\ Cardinality(Counted(t)') <= Cardinality(Counted(t))
          /\ Cardinality(Counted(t)') \in Nat /\ Cardinality(Counted(t)) \in Nat
      BY <3>1, FS_Subset, FS_CardinalityType
    <3>3. Cardinality(Counted(t)') <= ticketType'[t].sold
      BY <2>2, <3>1, <3>2
    <3>4. (\A r \in OrderId : pc'[r] # "failed") =>
            Cardinality(Counted(t)') = ticketType'[t].sold
      BY <1>6, <2>1, <2>2 DEF LedgerInv, SoldOf
    <3> QED BY <3>2, <3>3, <3>4 DEF SoldOf
  <2>3. CASE t \in fresh /\ ticketType'[t].sold = 0
    <3>1. Counted(t)' = {}
      BY <1>6, <1>7, <2>3
    <3> QED BY <2>3, <3>1, FS_EmptySet DEF SoldOf
  <2> QED BY <1>1, <2>2, <2>3
<1> QED BY <1>4, <1>5, <1>8 DEF LedgerInv

(* Before the first request nothing is ordered, counted or sold.           *)
LEMMA LedgerInv_Init == Init => LedgerInv
<1> SUFFICES ASSUME Init PROVE LedgerInv
  OBVIOUS
<1>1. /\ pc = [r \in OrderId |-> "idle"] /\ pending = [r \in OrderId |-> {}]
      /\ \A r \in OrderId : DOMAIN lines[r] = {}
      /\ DOMAIN order = {} /\ DOMAIN orderItem = {} /\ DOMAIN ticket = {}
      /\ DOMAIN ticketType = {}
  BY DEF Init, DatabaseInit, OrdersInit, Nothing
<1> QED BY <1>1, FS_EmptySet
  DEF LedgerInv, LedgerOf, PricedOf, TotalOf, LinesRead, OrderStays, PendingLines, KnownTypes,
      ItemsOf, TicketsOf

(* The ledger is kept by every step.                                       *)
LEMMA LedgerInv_Step == IssuanceInv /\ LedgerInv /\ [Next]_vars => LedgerInv'
<1> SUFFICES ASSUME IssuanceInv, LedgerInv, [Next]_vars PROVE LedgerInv'
  OBVIOUS
<1>1. CASE UNCHANGED vars
  <2>1. UNCHANGED <<ticketType, order, orderItem, ticket, fresh, cart, pc, prices, lines, pending>>
    BY <1>1 DEF vars, tables, requestVars
  <2>2. \A o \in OrderId : SameWork(o) /\ SameRows(o)
    BY <2>1 DEF SameWork, SameRequest, SameRows, ItemsOf, TicketsOf
  <2>3. \A o \in OrderId : LedgerOf(o)'
    BY <2>1, <2>2, LedgerKept DEF LedgerInv
  <2>4. \A t : Counted(t)' = Counted(t)
    BY <2>1 DEF Counted, CountedOf, Counts, TicketsOf
  <2>5. \A t \in DOMAIN ticketType' : SoldOf(t)'
    BY <2>1, <2>4 DEF LedgerInv, SoldOf
  <2> QED BY <2>1, <2>3, <2>5 DEF LedgerInv
<1>2. CASE CatalogNext /\ UNCHANGED requestVars
  BY <1>2, CatalogLedger_Step
<1>3. ASSUME NEW r \in OrderId, Step(r) \/ Abort(r) PROVE LedgerInv'
  <2>1. CASE \/ RefuseMethod(r) \/ FindTicketTypes(r) \/ FindOrder(r)
             \/ FindOrderItems(r) \/ Abort(r)
    BY <1>3, <2>1, LocalLedger_Step
  <2>2. CASE CreateOrder(r) \/ CreateOrderItems(r) \/ MarkPaid(r) \/ CreateTickets(r)
    BY <2>2, OrderLedger_Step, ItemsLedger_Step, TicketsLedger_Step
  <2>3. CASE \E i \in pending[r] : IncrementSold(r, i)
    BY <2>3, IncrementLedger_Step
  <2> QED BY <1>3, <2>1, <2>2, <2>3 DEF Step
<1> QED BY <1>1, <1>2, <1>3 DEF Next, OrdersNext

(* The ledger is an invariant, beside that of issuance.                    *)
LEMMA LedgerKeptAlways == Spec => [](IssuanceInv /\ LedgerInv)
  BY IssuanceInv_Init, IssuanceInv_Step, LedgerInv_Init, LedgerInv_Step, PTL DEF Spec

(* A stored order's total is the sum of its lines at the prices they were  *)
(* sold at.                                                                *)
LEMMA LedgerTotals == IssuanceInv /\ LedgerInv => TotalMatchesLines
<1> SUFFICES ASSUME IssuanceInv, LedgerInv, NEW o \in DOMAIN order, ItemsOf(o) # {}
             PROVE  order[o].total = ItemsTotal(o)
  BY DEF TotalMatchesLines, ItemsTotal
<1>1. o \in OrderId
  BY DEF IssuanceInv, TypeInv, TypeOK, DatabaseTypeOK, IsTable
<1> QED BY <1>1 DEF LedgerInv, LedgerOf, TotalOf

(* Every ticket is a unit that was counted.                                *)
LEMMA TicketsCounted ==
  ASSUME IssuanceInv, LedgerInv, NEW t
  PROVE  {u \in DOMAIN ticket : ticket[u].type = t} \subseteq Counted(t)
<1> SUFFICES ASSUME NEW u \in DOMAIN ticket, ticket[u].type = t PROVE u \in Counted(t)
  OBVIOUS
<1> DEFINE o == u.order
<1>1. o \in OrderId /\ u \in TicketsOf(o)
  BY DEF IssuanceInv, TypeInv, TypeOK, DatabaseTypeOK, IsTable, TicketId, TicketsOf
<1> HIDE DEF o
<1>2. ProgressOf(o) /\ LinesRead(o)
  BY <1>1 DEF IssuanceInv, Progress, LedgerInv, LedgerOf
<1>3. Counts(o) /\ pc[o] \in {"done", "failed"} /\ (pc[o] = "failed" => pending[o] = {})
  BY <1>1, <1>2 DEF ProgressOf, Counts
<1>4. u \in Units(lines[o]) /\ lines[o][LineOf(u)].type = t /\ pending[o] = {}
  BY <1>1, <1>2, <1>3 DEF LinesRead, PendingLines
<1> QED BY <1>1, <1>3, <1>4 DEF Counted, CountedOf

(* So no more tickets of a type exist than it has sold.                    *)
LEMMA LedgerCovers == IssuanceInv /\ LedgerInv => SoldCoversTickets
<1> SUFFICES ASSUME IssuanceInv, LedgerInv, NEW t \in DOMAIN ticketType
             PROVE  Cardinality({u \in DOMAIN ticket : ticket[u].type = t})
                      <= ticketType[t].sold
  BY DEF SoldCoversTickets
<1> DEFINE us == {u \in DOMAIN ticket : ticket[u].type = t}
<1>1. us \in SUBSET Counted(t)
  BY TicketsCounted
<1>2. IsFiniteSet(Counted(t)) /\ Cardinality(Counted(t)) <= ticketType[t].sold
  BY DEF LedgerInv, SoldOf
<1>3. ticketType[t].sold \in Nat
  BY MaxIntAssumption
  DEF IssuanceInv, TypeInv, TypeOK, DatabaseTypeOK, IsTable, TicketTypeRow, INTEGER
<1> HIDE DEF us
<1>4. /\ Cardinality(us) <= Cardinality(Counted(t))
      /\ Cardinality(us) \in Nat /\ Cardinality(Counted(t)) \in Nat
  BY <1>1, <1>2, FS_Subset, FS_CardinalityType
<1>5. Cardinality(us) <= ticketType[t].sold
  BY <1>2, <1>3, <1>4
<1> QED BY <1>5 DEF us

(* The order of every request that returned it is still there.             *)
OrdersKept == \A r \in OrderId : pc[r] = "done" => r \in DOMAIN order

(* When no handler is under way or has failed and no order is gone, every  *)
(* unit that was counted is a ticket.                                      *)
LEMMA LedgerExact == IssuanceInv /\ LedgerInv => (OrdersKept => SoldIsTickets)
<1> SUFFICES ASSUME IssuanceInv, LedgerInv, OrdersKept,
                    \A r \in OrderId : pc[r] \in {"idle", "done", "refused"},
                    NEW t \in DOMAIN ticketType
             PROVE  ticketType[t].sold = Cardinality({u \in DOMAIN ticket : ticket[u].type = t})
  BY DEF SoldIsTickets
<1> DEFINE us == {u \in DOMAIN ticket : ticket[u].type = t}
<1>1. us \subseteq Counted(t)
  BY TicketsCounted
<1>2. ASSUME NEW o \in OrderId, NEW u \in CountedOf(o, t) PROVE u \in us
  <2>1. pc[o] = "done" /\ u \in Units(lines[o]) /\ lines[o][LineOf(u)].type = t
    BY DEF CountedOf, Counts, IssuanceInv, Progress, ProgressOf
  <2>2. LinesRead(o)
    BY DEF LedgerInv, LedgerOf
  <2> QED BY <2>1, <2>2 DEF OrdersKept, LinesRead, TicketsOf
<1> HIDE DEF us
<1>3. us = Counted(t)
  BY <1>1, <1>2 DEF Counted
<1>4. Cardinality(Counted(t)) = ticketType[t].sold
  BY DEF LedgerInv, SoldOf
<1> QED BY <1>3, <1>4 DEF us

(* However the organizer edits prices between the statements of an order,  *)
(* its total is the sum of its lines at the prices they were sold at.      *)
THEOREM TotalsMatchLines == Spec => []TotalMatchesLines
  BY LedgerKeptAlways, LedgerTotals, PTL

(* However increments interleave, and whatever fails, `sold' never falls   *)
(* short of the tickets that exist.                                        *)
THEOREM SoldCovers == Spec => []SoldCoversTickets
  BY LedgerKeptAlways, LedgerCovers, PTL

(* Increments are neither lost nor made twice: once every request that     *)
(* began has returned and none threw, `sold' is the number of tickets, as  *)
(* long as no such order is gone.  (An order may name a type of another    *)
(* event; deleting the order's event then takes its tickets and leaves the *)
(* type with what it sold.)                                                *)
THEOREM SoldExact == Spec => [](OrdersKept => SoldIsTickets)
  BY LedgerKeptAlways, LedgerExact, PTL

(* Where no event is deleted no order is ever gone, and `sold' is exact.   *)
THEOREM SoldExactNoRemoval == NoRemoval /\ Spec => []SoldIsTickets
<1>1. NoRemoval /\ [Next]_vars => NoRemoval'
  BY DEF NoRemoval
<1>2. NoRemoval /\ LedgerInv => OrdersKept
  BY DEF LedgerInv, LedgerOf, OrderStays, OrdersKept
<1> QED BY <1>1, <1>2, LedgerKeptAlways, LedgerExact, PTL DEF Spec
=============================================================================
