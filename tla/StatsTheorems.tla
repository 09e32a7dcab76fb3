--------------------------- MODULE StatsTheorems ----------------------------
(***************************************************************************)
(* The figures an organizer is shown stay between the moment they were     *)
(* asked for and now, although each is counted at a time of its own.       *)
(*                                                                         *)
(* While an event is there, none of its tickets, of its entries or of the  *)
(* lines of its paid orders goes, nor do these lines change (RowsKept), so *)
(* each figure only grows: the tickets and the entries as sets, the        *)
(* revenue as a sum of naturals over more lines.  An entry has a ticket of *)
(* the same event, and no two entries have the same, so there are never    *)
(* more of them.  A deleted event never comes back, its uuid being used.   *)
(***************************************************************************)
EXTENDS Stats, EventlyTheorems

Field == {"ticketsSold", "checkins", "revenue"}

(* The rows that the figures of e count are still there, and say the same. *)
RowsKept(e) ==
  /\ \A u \in DOMAIN ticket : ticket[u].event = e =>
       u \in DOMAIN ticket' /\ ticket'[u].event = e
  /\ \A s \in DOMAIN checkIn : checkIn[s].event = e =>
       s \in DOMAIN checkIn' /\ checkIn'[s].event = e
  /\ \A i \in PaidItems(e) : i \in PaidItems(e)' /\ orderItem'[i] = orderItem[i]

Finite ==
  /\ IsFiniteSet(DOMAIN orderItem) /\ IsFiniteSet(DOMAIN ticket)
  /\ IsFiniteSet(DOMAIN checkIn)

-----------------------------------------------------------------------------
(* Whatever a step adds or changes, an event that survives it keeps the    *)
(* rows its figures count.                                                 *)

(* Deleting another event takes orders, tickets and entries of its own     *)
(* only.                                                                   *)
LEMMA DeletionKeepsRows ==
  ASSUME SystemInv, EventDeleted, NEW e \in DOMAIN event'
  PROVE  RowsKept(e)
<1>1. PICK d \in DOMAIN event : DeleteEvent(d)
  BY DEF EventDeleted
<1> DEFINE os == OrdersOf(d)
<1>2. /\ d # e
      /\ DOMAIN order' = DOMAIN order \ os
      /\ \A o \in DOMAIN order' : order'[o] = order[o]
      /\ DOMAIN orderItem' = {i \in DOMAIN orderItem : i.order \notin os}
      /\ \A i \in DOMAIN orderItem' : orderItem'[i] = orderItem[i]
      /\ DOMAIN ticket' = {u \in DOMAIN ticket : ticket[u].event # d /\ u.order \notin os}
      /\ \A u \in DOMAIN ticket' : ticket'[u] = ticket[u]
      /\ DOMAIN checkIn' = {s \in DOMAIN checkIn :
           /\ checkIn[s].event # d
           /\ ~ (/\ checkIn[s].ticket \in DOMAIN ticket
                 /\ ticket[checkIn[s].ticket].event = d \/ checkIn[s].ticket.order \in os)}
      /\ \A s \in DOMAIN checkIn' : checkIn'[s] = checkIn[s]
  BY <1>1 DEF DeleteEvent, Delete, Restrict
<1>3. \A o \in DOMAIN order : o \in os <=> order[o].event = d
  BY DEF OrdersOf
<1> HIDE DEF os
<1>4. \A u \in DOMAIN ticket : /\ u.order \in DOMAIN order
                               /\ ticket[u].event = order[u.order].event
  BY DEF SystemInv, IssuanceInv, RowsAgree, ReferencesResolve
<1>5. \A s \in DOMAIN checkIn : /\ checkIn[s].ticket \in DOMAIN ticket
                                /\ checkIn[s].event = ticket[checkIn[s].ticket].event
  BY DEF SystemInv, EntriesAgree
<1>6. \A i \in DOMAIN orderItem : i.order \in DOMAIN order
  BY DEF SystemInv, IssuanceInv, ReferencesResolve
<1>7. \A u \in DOMAIN ticket : ticket[u].event = e =>
        u \in DOMAIN ticket' /\ ticket'[u].event = e
  BY <1>2, <1>3, <1>4
<1>8. \A s \in DOMAIN checkIn : checkIn[s].event = e =>
        s \in DOMAIN checkIn' /\ checkIn'[s].event = e
  BY <1>2, <1>3, <1>4, <1>5
<1>9. \A i \in PaidItems(e) : i \in PaidItems(e)' /\ orderItem'[i] = orderItem[i]
  BY <1>2, <1>3, <1>6 DEF PaidItems
<1> QED BY <1>7, <1>8, <1>9 DEF RowsKept

(* An order with lines is neither inserted again nor moved to another      *)
(* event, and once PAID it stays so.                                       *)
LEMMA LinesStayPaid ==
  ASSUME SystemInv, NEW r \in OrderId, Step(r) \/ Abort(r), NEW e
  PROVE  \A i \in PaidItems(e) : i \in PaidItems(e)' /\ orderItem'[i] = orderItem[i]
<1> SUFFICES ASSUME NEW i \in PaidItems(e)
             PROVE  i \in PaidItems(e)' /\ orderItem'[i] = orderItem[i]
  OBVIOUS
<1> DEFINE o == i.order
<1>1. /\ i \in DOMAIN orderItem /\ o \in DOMAIN order /\ o \in OrderId
      /\ order[o].event = e /\ order[o].status = "PAID" /\ i \in ItemsOf(o)
  BY DEF PaidItems, ItemsOf, SystemInv, IssuanceInv, ReferencesResolve, TypeInv, TypeOK,
         DatabaseTypeOK, IsTable
<1> HIDE DEF o
<1>2. SUFFICES /\ o \in DOMAIN order' /\ i \in ItemsOf(o)'
               /\ order'[o].event = e /\ order'[o].status = "PAID"
               /\ orderItem'[i] = orderItem[i]
  BY DEF PaidItems, ItemsOf, o
<1>3. CASE o # r
  <2>1. SameRows(o)
    BY <1>1, <1>3, StepFrame DEF SystemInv
  <2> QED BY <1>1, <2>1 DEF SameRows
<1>4. CASE o = r
  <2>1. ProgressOf(r)
    BY DEF SystemInv, IssuanceInv, Progress
  <2>2. pc[r] \notin BeforeOrder \cup {"orderItem.createMany"}
    BY <1>1, <1>4, <2>1 DEF ProgressOf
  <2>3. CASE UNCHANGED <<order, orderItem>>
    BY <1>1, <2>3 DEF ItemsOf
  <2>4. CASE order' = [order EXCEPT ![r].status = "PAID"] /\ UNCHANGED orderItem
    <3>1. order[r] \in OrderRow
      BY <1>1, <1>4 DEF SystemInv, IssuanceInv, TypeInv, TypeOK, DatabaseTypeOK, IsTable
    <3>2. /\ DOMAIN order' = DOMAIN order
          /\ order'[r].event = order[r].event /\ order'[r].status = "PAID"
      BY <1>1, <1>4, <2>4, <3>1 DEF OrderRow
    <3> QED BY <1>1, <1>4, <2>4, <3>2 DEF ItemsOf
  <2>5. UNCHANGED <<order, orderItem>>
        \/ (order' = [order EXCEPT ![r].status = "PAID"] /\ UNCHANGED orderItem)
    BY <2>2 DEF Step, Abort, RefuseMethod, FindTicketTypes, CreateOrder, CreateOrderItems,
                MarkPaid, FindOrder, FindOrderItems, IncrementSold, CreateTickets, Throw,
                tables, BeforeOrder
  <2> QED BY <2>3, <2>4, <2>5
<1> QED BY <1>3, <1>4

(* So no step takes a row from the figures of an event it leaves.          *)
LEMMA RowsStay ==
  ASSUME SystemInv, [SystemNext]_systemVars, NEW e \in DOMAIN event'
  PROVE  RowsKept(e)
<1>1. CASE UNCHANGED <<order, orderItem, ticket, checkIn>>
  BY <1>1 DEF RowsKept, PaidItems
<1>2. CASE UNCHANGED systemVars
  BY <1>1, <1>2 DEF systemVars, vars, tables
<1>3. CASE CatalogNext
  BY <1>1, <1>3, EditsKeepRows, DeletionKeepsRows
<1>4. ASSUME NEW r \in OrderId, Step(r) \/ Abort(r), UNCHANGED removing
      PROVE  RowsKept(e)
  <2>1. Next
    BY <1>4 DEF Next, OrdersNext
  <2>2. CASE EventDeleted
    BY <2>2, DeletionKeepsRows
  <2>3. CASE UNCHANGED <<ticket, checkIn>> \/ TicketsIssued
    BY <1>4, <2>3, LinesStayPaid DEF RowsKept, TicketsIssued
  <2> QED BY <2>1, <2>2, <2>3, SalesTickets DEF SystemInv
<1>5. CASE TicketsNext /\ UNCHANGED <<removing, requestVars>>
  <2>1. DoorFrame
    BY <1>5, DoorFrames
  <2>2. \A i \in PaidItems(e) : i \in PaidItems(e)' /\ orderItem'[i] = orderItem[i]
    BY <2>1 DEF DoorFrame, PaidItems
  <2>3. \A s \in DOMAIN checkIn : s \in DOMAIN checkIn' /\ checkIn'[s] = checkIn[s]
    <3>1. ASSUME NEW s \in ScanId, NEW u, CheckIn(s, u), Stands(u)
          PROVE  \A z \in DOMAIN checkIn : z \in DOMAIN checkIn' /\ checkIn'[z] = checkIn[z]
      BY <3>1 DEF CheckIn, RecordEntry, Insert, Row, SystemInv, EntriesAgree
    <3>2. ASSUME NEW x \in EditId, NEW u, Transition(x, u), Stands(u)
          PROVE  UNCHANGED checkIn
      BY <3>2 DEF Transition
    <3> QED BY <1>5, <3>1, <3>2, DoorCases DEF tables
  <2> QED BY <2>1, <2>2, <2>3 DEF DoorFrame, RowsKept
<1> QED BY <1>2, <1>3, <1>4, <1>5 DEF SystemNext, Next, OrdersNext

-----------------------------------------------------------------------------
(* What a count over kept rows comes to.                                   *)

(* Over lines that keep their price and quantity the revenue only grows.   *)
LEMMA RevenueGrows ==
  ASSUME DatabaseTypeOK, DatabaseTypeOK', NEW e,
         IsFiniteSet(DOMAIN orderItem), IsFiniteSet(DOMAIN orderItem'),
         \A i \in PaidItems(e) : i \in PaidItems(e)' /\ orderItem'[i] = orderItem[i]
  PROVE  Revenue(e) \in Nat /\ Revenue(e)' \in Nat /\ Revenue(e) <= Revenue(e)'
<1> DEFINE S == PaidItems(e)
           T == PaidItems(e)'
           f == [i \in S |-> orderItem[i].unitPrice * orderItem[i].quantity]
           g == [i \in T |-> orderItem'[i].unitPrice * orderItem'[i].quantity]
<1>1. Revenue(e) = SumFunctionOnSet(f, S) /\ Revenue(e)' = SumFunctionOnSet(g, T)
  BY DEF Revenue, SumFunction
<1>2. /\ S \in SUBSET DOMAIN orderItem /\ T \in SUBSET DOMAIN orderItem'
      /\ S \subseteq T
  BY DEF PaidItems
<1>3. IsFiniteSet(S) /\ IsFiniteSet(T)
  <2> HIDE DEF S, T
  <2> QED BY <1>2, FS_Subset
<1>4. \A i \in S : f[i] \in Nat
  <2>1. \A i \in DOMAIN orderItem : orderItem[i].unitPrice \in Nat /\ orderItem[i].quantity \in Nat
    BY MaxIntAssumption DEF DatabaseTypeOK, IsTable, OrderItemRow, INTEGER
  <2> QED BY <1>2, <2>1
<1>5. \A i \in T : g[i] \in Nat
  <2>1. \A i \in DOMAIN orderItem' : orderItem'[i].unitPrice \in Nat /\ orderItem'[i].quantity \in Nat
    BY MaxIntAssumption DEF DatabaseTypeOK, IsTable, OrderItemRow, INTEGER
  <2> QED BY <1>2, <2>1
<1>6. \A i \in S : g[i] = f[i]
  BY <1>2
<1> HIDE DEF S, T, f, g
<1>7. SumFunctionOnSet(g, S) = SumFunctionOnSet(f, S)
  BY <1>3, <1>4, <1>6, SumSame
<1>8. SumFunctionOnSet(g, S) <= SumFunctionOnSet(g, T)
  BY <1>2, <1>3, <1>5, SumMonotone
<1>9. SumFunctionOnSet(f, S) \in Nat /\ SumFunctionOnSet(g, T) \in Nat
  BY <1>3, <1>4, <1>5, SumNat
<1> QED BY <1>1, <1>7, <1>8, <1>9

(* Nor does either of the other figures of an event shrink.                *)
LEMMA FiguresGrow ==
  ASSUME DatabaseTypeOK, DatabaseTypeOK', Finite, Finite', NEW e, RowsKept(e)
  PROVE  \A f \in Field : /\ Figures(e)[f] \in Nat /\ Figures(e)'[f] \in Nat
                          /\ Figures(e)[f] <= Figures(e)'[f]
<1> DEFINE us  == {u \in DOMAIN ticket : ticket[u].event = e}
           us2 == {u \in DOMAIN ticket' : ticket'[u].event = e}
           ss  == {s \in DOMAIN checkIn : checkIn[s].event = e}
           ss2 == {s \in DOMAIN checkIn' : checkIn'[s].event = e}
<1>1. /\ us \in SUBSET us2 /\ ss \in SUBSET ss2
      /\ us2 \in SUBSET DOMAIN ticket' /\ ss2 \in SUBSET DOMAIN checkIn'
  BY DEF RowsKept
<1>2. /\ TicketsSold(e) = Cardinality(us) /\ TicketsSold(e)' = Cardinality(us2)
      /\ CheckIns(e) = Cardinality(ss) /\ CheckIns(e)' = Cardinality(ss2)
  BY DEF TicketsSold, CheckIns
<1> HIDE DEF us, us2, ss, ss2
<1>3. IsFiniteSet(us2) /\ IsFiniteSet(ss2)
  BY <1>1, FS_Subset DEF Finite
<1>4. /\ Cardinality(us) <= Cardinality(us2) /\ Cardinality(ss) <= Cardinality(ss2)
      /\ IsFiniteSet(us) /\ IsFiniteSet(ss)
  BY <1>1, <1>3, FS_Subset
<1>5. /\ Cardinality(us) \in Nat /\ Cardinality(us2) \in Nat
      /\ Cardinality(ss) \in Nat /\ Cardinality(ss2) \in Nat
  BY <1>3, <1>4, FS_CardinalityType
<1>6. Revenue(e) \in Nat /\ Revenue(e)' \in Nat /\ Revenue(e) <= Revenue(e)'
  BY RevenueGrows DEF RowsKept, Finite
<1>7. /\ \A f \in Field : Figures(e)[f] = CASE f = "ticketsSold" -> TicketsSold(e)
                                            [] f = "checkins" -> CheckIns(e)
                                            [] f = "revenue" -> Revenue(e)
      /\ \A f \in Field : Figures(e)'[f] = CASE f = "ticketsSold" -> TicketsSold(e)'
                                             [] f = "checkins" -> CheckIns(e)'
                                             [] f = "revenue" -> Revenue(e)'
  BY DEF Figures, Field
<1> QED BY <1>2, <1>4, <1>5, <1>6, <1>7 DEF Field

(* Each entry is of a ticket of the same event, which no other entry has.  *)
LEMMA EntriesWithinTickets ==
  ASSUME SystemInv, EntriesInv, Finite, NEW e
  PROVE  CheckIns(e) <= TicketsSold(e)
<1> DEFINE us == {u \in DOMAIN ticket : ticket[u].event = e}
           ss == {s \in DOMAIN checkIn : checkIn[s].event = e}
           b  == [s \in ss |-> checkIn[s].ticket]
<1>1. b \in Injection(ss, us)
  <2>1. \A s \in ss : b[s] \in us
    BY DEF SystemInv, EntriesAgree
  <2>2. \A s, z \in ss : b[s] = b[z] => s = z
    BY DEF EntriesInv
  <2> QED BY <2>1, <2>2 DEF Injection, IsInjective
<1>2. us \in SUBSET DOMAIN ticket
  OBVIOUS
<1>3. CheckIns(e) = Cardinality(ss) /\ TicketsSold(e) = Cardinality(us)
  BY DEF CheckIns, TicketsSold
<1> HIDE DEF us, ss, b
<1>4. IsFiniteSet(us)
  BY <1>2, FS_Subset DEF Finite
<1> QED BY <1>1, <1>3, <1>4, FS_Injection

-----------------------------------------------------------------------------
(***************************************************************************)
(* The invariant.  FiguresInRange is not inductive: a figure counted later *)
(* must not be below what it was when the request came, so the figures at  *)
(* that time are bounded by those of now (sinceStart); and neither the     *)
(* event asked for nor an existing one may be created again, with no row.  *)
(***************************************************************************)
KeysUsed == asked \cap fresh = {} /\ DOMAIN event \cap fresh = {}

SinceStart(e) == \A f \in Field : atStart[f] \in Nat /\ atStart[f] <= Figures(e)[f]

SeenInRange(e) ==
  \A f \in DOMAIN seen : seen[f] \in Nat /\ atStart[f] <= seen[f] /\ seen[f] <= Figures(e)[f]

StatsInv ==
  /\ KeysUsed
  /\ \A d, e \in asked : d = e
  /\ asked = {} => DOMAIN seen = {}
  /\ DOMAIN seen \subseteq Field
  /\ \A e \in asked \cap DOMAIN event : SinceStart(e) /\ SeenInRange(e)

(* No figure is asked for yet, and no uuid used.                           *)
LEMMA StatsInv_Init == SystemInit /\ StatsInit => StatsInv
<1> SUFFICES ASSUME SystemInit, StatsInit PROVE StatsInv
  OBVIOUS
<1>1. asked = {} /\ DOMAIN seen = {} /\ DOMAIN event = {}
  BY DEF StatsInit, Nothing, SystemInit, Init, DatabaseInit
<1> QED BY <1>1 DEF StatsInv, KeysUsed

(* A uuid is used up when a row takes it, and an event gets its row with a *)
(* fresh one.                                                              *)
LEMMA EventKeys ==
  ASSUME SystemInv, [SystemNext]_systemVars
  PROVE  /\ fresh' \subseteq fresh
         /\ \A e \in DOMAIN event' : e \in DOMAIN event \/ e \in fresh \ fresh'
<1>1. CASE UNCHANGED <<event, fresh>>
  BY <1>1
<1>2. CASE EventsNext
  <2>1. ASSUME NEW e \in EventId, NEW dto \in EventDto, CreateEvent(e, dto)
        PROVE  /\ e \in fresh /\ fresh' = fresh \ {e}
               /\ DOMAIN event' = DOMAIN event \cup {e}
    BY <2>1 DEF CreateEvent, Insert, Row
  <2>2. ASSUME NEW e \in EventId, NEW dto \in EventDto, NEW fields \in SUBSET EventField,
               UpdateEvent(e, dto, fields)
        PROVE  UNCHANGED fresh /\ DOMAIN event' = DOMAIN event
    BY <2>2 DEF UpdateEvent
  <2>3. ASSUME NEW e \in EventId, Publish(e) \/ CancelEvent(e)
        PROVE  UNCHANGED fresh /\ DOMAIN event' = DOMAIN event
    BY <2>3 DEF Publish, CancelEvent
  <2>4. ASSUME NEW e \in EventId, RemoveEvent(e)
        PROVE  UNCHANGED fresh /\ DOMAIN event' \subseteq DOMAIN event
    BY <2>4 DEF RemoveEvent, DeleteEvent, Delete, Restrict
  <2> QED BY <1>2, <2>1, <2>2, <2>3, <2>4 DEF EventsNext
<1>3. CASE TicketTypesNext
  BY <1>3 DEF TicketTypesNext, CreateTicketType, UpdateTicketType, CheckRemoval,
              RemoveTicketType, tables
<1>4. ASSUME NEW r \in OrderId, Step(r) \/ Abort(r)
      PROVE  UNCHANGED <<event, fresh>>
  BY <1>4 DEF Step, Abort, RefuseMethod, FindTicketTypes, CreateOrder, CreateOrderItems,
              MarkPaid, FindOrder, FindOrderItems, IncrementSold, CreateTickets, Throw,
              tables
<1>5. CASE TicketsNext /\ UNCHANGED <<removing, requestVars>>
  BY <1>1, <1>5, DoorFrames DEF DoorFrame
<1>6. CASE UNCHANGED systemVars
  BY <1>1, <1>6 DEF systemVars, vars, tables
<1> QED
  BY <1>1, <1>2, <1>3, <1>4, <1>5, <1>6 DEF SystemNext, Next, OrdersNext, CatalogNext

(* What the other handlers do keeps the figures in range: they only grow.  *)
LEMMA StatsWait_Step ==
  ASSUME SystemInv, SystemInv', Finite, Finite', StatsInv, [SystemNext]_systemVars,
         UNCHANGED statsVars
  PROVE  StatsInv'
<1>1. UNCHANGED <<asked, atStart, seen>>
  BY DEF statsVars
<1>2. KeysUsed'
  BY <1>1, EventKeys DEF StatsInv, KeysUsed
<1>3. ASSUME NEW e \in asked \cap DOMAIN event'
      PROVE  SinceStart(e)' /\ SeenInRange(e)'
  <2>1. e \in DOMAIN event
    BY EventKeys DEF StatsInv, KeysUsed
  <2>2. SinceStart(e) /\ SeenInRange(e) /\ DOMAIN seen \subseteq Field
    BY <2>1 DEF StatsInv
  <2>3. DatabaseTypeOK /\ DatabaseTypeOK'
    BY DEF SystemInv, IssuanceInv, TypeInv, TypeOK
  <2>4. RowsKept(e)
    BY RowsStay
  <2>5. \A f \in Field : /\ Figures(e)[f] \in Nat /\ Figures(e)'[f] \in Nat
                         /\ Figures(e)[f] <= Figures(e)'[f]
    BY <2>3, <2>4, FiguresGrow
  <2>6. SinceStart(e)'
    <3> SUFFICES ASSUME NEW f \in Field
                 PROVE  atStart[f] \in Nat /\ atStart[f] <= Figures(e)'[f]
      BY <1>1 DEF SinceStart
    <3>1. atStart[f] \in Nat /\ atStart[f] <= Figures(e)[f]
      BY <2>2 DEF SinceStart
    <3> QED BY <2>5, <3>1
  <2>7. SeenInRange(e)'
    <3> SUFFICES ASSUME NEW f \in DOMAIN seen
                 PROVE  /\ seen[f] \in Nat /\ atStart[f] <= seen[f]
                        /\ seen[f] <= Figures(e)'[f]
      BY <1>1 DEF SeenInRange
    <3>1. /\ seen[f] \in Nat /\ atStart[f] <= seen[f] /\ seen[f] <= Figures(e)[f]
          /\ f \in Field
      BY <2>2 DEF SeenInRange
    <3> QED BY <2>5, <3>1
  <2> QED BY <2>6, <2>7
<1> QED BY <1>1, <1>2, <1>3 DEF StatsInv

(* The request itself and each of its counts write no table, and a count   *)
(* takes the figure of that moment.                                        *)
LEMMA StatsCount_Step ==
  ASSUME SystemInv, Finite, StatsInv, UNCHANGED systemVars, NEW e,
         AskStats(e) \/ \E f \in Field : Count(e, f)
  PROVE  StatsInv'
<1>1. UNCHANGED <<event, order, orderItem, ticket, checkIn, fresh>>
  BY DEF systemVars, vars, tables
<1>2. \A d : Figures(d)' = Figures(d)
  BY <1>1 DEF Figures, TicketsSold, CheckIns, Revenue, PaidItems
<1>3. ASSUME NEW d
      PROVE  \A f \in Field : Figures(d)[f] \in Nat
  <2>1. DatabaseTypeOK /\ DatabaseTypeOK'
    BY <1>1 DEF SystemInv, IssuanceInv, TypeInv, TypeOK, systemVars, vars, tables,
                DatabaseTypeOK
  <2>2. RowsKept(d) /\ Finite'
    BY <1>1 DEF RowsKept, PaidItems, Finite
  <2> QED BY <2>1, <2>2, FiguresGrow
<1>4. CASE AskStats(e)
  <2>1. /\ asked' = {e} /\ atStart' = Figures(e) /\ UNCHANGED seen
        /\ DOMAIN seen = {} /\ e \in DOMAIN event
    BY <1>4 DEF AskStats, StatsInv
  <2>2. KeysUsed'
    BY <1>1, <2>1 DEF StatsInv, KeysUsed
  <2>3. SinceStart(e)'
    BY <1>2, <1>3, <2>1 DEF SinceStart
  <2>4. SeenInRange(e)'
    BY <2>1 DEF SeenInRange
  <2> QED BY <2>1, <2>2, <2>3, <2>4 DEF StatsInv
<1>5. ASSUME NEW f \in Field, Count(e, f)
      PROVE  StatsInv'
  <2>1. /\ e \in asked /\ UNCHANGED <<asked, atStart>>
        /\ DOMAIN seen' = DOMAIN seen \cup {f}
        /\ seen'[f] = Figures(e)[f]
        /\ \A g \in DOMAIN seen \ {f} : seen'[g] = seen[g]
    BY <1>5 DEF Count, Insert, Row
  <2>2. KeysUsed'
    BY <1>1, <2>1 DEF StatsInv, KeysUsed
  <2>3. ASSUME NEW d \in asked \cap DOMAIN event
        PROVE  SinceStart(d)' /\ SeenInRange(d)'
    <3>1. SinceStart(d) /\ SeenInRange(d) /\ d = e
      BY <2>1 DEF StatsInv
    <3>2. SinceStart(d)'
      BY <1>2, <2>1, <3>1 DEF SinceStart
    <3>3. /\ Figures(d)[f] \in Nat /\ atStart[f] <= Figures(d)[f]
          /\ Figures(d)[f] <= Figures(d)[f]
      BY <1>3, <3>1 DEF SinceStart
    <3>4. SeenInRange(d)'
      BY <1>2, <2>1, <3>1, <3>3 DEF SeenInRange
    <3> QED BY <3>2, <3>4
  <2> QED BY <1>1, <2>1, <2>2, <2>3 DEF StatsInv
<1> QED BY <1>4, <1>5

(* What holds of the system beside the organizer's request.                *)
StatsSystem == SystemInv /\ LedgerInv /\ EntriesInv

(* The organizer's request changes nothing of it.                          *)
LEMMA SystemBesideStats == StatsSpec => []StatsSystem
<1>1. [StatsNext]_<<systemVars, statsVars>> => [SystemNext]_systemVars
  BY DEF StatsNext
<1>2. StatsSpec => SystemSpec
  BY <1>1, PTL DEF StatsSpec, SystemSpec
<1> QED BY <1>2, SystemInvariant, SystemLedger, EntriesInvariant, PTL DEF StatsSystem

(* No step takes the figures out of range.                                 *)
LEMMA StatsInv_Step ==
  StatsSystem /\ StatsSystem' /\ StatsInv /\ [StatsNext]_<<systemVars, statsVars>>
    => StatsInv'
<1> SUFFICES ASSUME StatsSystem, StatsSystem', StatsInv,
                    [StatsNext]_<<systemVars, statsVars>>
             PROVE  StatsInv'
  OBVIOUS
<1>1. SystemInv /\ SystemInv' /\ Finite /\ Finite'
  BY DEF StatsSystem, LedgerInv, EntriesInv, Finite
<1>2. CASE [SystemNext]_systemVars /\ UNCHANGED statsVars
  BY <1>1, <1>2, StatsWait_Step
<1>3. ASSUME NEW e, AskStats(e) \/ \E f \in Field : Count(e, f), UNCHANGED systemVars
      PROVE  StatsInv'
  BY <1>1, <1>3, StatsCount_Step
<1> QED BY <1>2, <1>3 DEF StatsNext, Field

(* What GET /events/:id/stats counts is neither behind the moment it was   *)
(* asked nor ahead of the tables, however orders, check-ins and edits go   *)
(* on between its queries, and no more entries than tickets are ever seen. *)
THEOREM FiguresStayInRange == StatsSpec => []FiguresInRange
<1>1. StatsSystem /\ StatsInv => FiguresInRange
  <2> SUFFICES ASSUME StatsSystem, StatsInv, NEW e \in asked \cap DOMAIN event
               PROVE  /\ \A f \in DOMAIN seen : /\ atStart[f] <= seen[f]
                                                /\ seen[f] <= Figures(e)[f]
                      /\ "checkins" \in DOMAIN seen => seen["checkins"] <= TicketsSold(e)
    BY DEF FiguresInRange
  <2>1. SeenInRange(e)
    BY DEF StatsInv
  <2>2. CheckIns(e) <= TicketsSold(e)
    BY EntriesWithinTickets DEF StatsSystem, LedgerInv, EntriesInv, Finite
  <2>3. CheckIns(e) \in Nat /\ TicketsSold(e) \in Nat
    <3> DEFINE us == {u \in DOMAIN ticket : ticket[u].event = e}
               ss == {s \in DOMAIN checkIn : checkIn[s].event = e}
    <3>1. us \in SUBSET DOMAIN ticket /\ ss \in SUBSET DOMAIN checkIn
      OBVIOUS
    <3>2. CheckIns(e) = Cardinality(ss) /\ TicketsSold(e) = Cardinality(us)
      BY DEF CheckIns, TicketsSold
    <3> HIDE DEF us, ss
    <3>3. IsFiniteSet(us) /\ IsFiniteSet(ss)
      BY <3>1, FS_Subset DEF StatsSystem, LedgerInv, EntriesInv
    <3> QED BY <3>2, <3>3, FS_CardinalityType
  <2>4. "checkins" \in DOMAIN seen => seen["checkins"] <= TicketsSold(e)
    <3> SUFFICES ASSUME "checkins" \in DOMAIN seen
                 PROVE  seen["checkins"] <= TicketsSold(e)
      OBVIOUS
    <3>1. seen["checkins"] \in Nat /\ seen["checkins"] <= CheckIns(e)
      BY <2>1 DEF SeenInRange, Figures
    <3> QED BY <2>2, <2>3, <3>1
  <2> QED BY <2>1, <2>4 DEF SeenInRange
<1>2. SystemInit /\ StatsInit => StatsInv
  BY StatsInv_Init
<1>3. StatsSpec => []StatsInv
  BY <1>2, SystemBesideStats, StatsInv_Step, PTL DEF StatsSpec
<1> QED BY <1>1, <1>3, SystemBesideStats, PTL
=============================================================================
