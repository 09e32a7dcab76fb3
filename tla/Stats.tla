------------------------------- MODULE Stats --------------------------------
(***************************************************************************)
(* EventsService.stats: three figures of an event, counted by queries that *)
(* Promise.all sends together and the database runs in any order, while    *)
(* orders, check-ins and edits go on.  One request is made.  The query for *)
(* the order lines is one SELECT; the ticket types it includes are read by *)
(* another, and nothing is computed from them.                             *)
(***************************************************************************)
EXTENDS Evently

VARIABLES asked,     \* the event GET /events/:id/stats was asked for
          atStart,   \* its figures when the request began
          seen       \* the figures counted so far

statsVars == <<asked, atStart, seen>>

StatsInit ==
  /\ asked   = {}
  /\ atStart = Nothing
  /\ seen    = Nothing

\* Mutant: only tickets still to be used are counted.
StandingTickets(e) ==
  Cardinality({u \in DOMAIN ticket : ticket[u].event = e /\ ticket[u].status = "ISSUED"})

TicketsSold(e) == Cardinality({u \in DOMAIN ticket : ticket[u].event = e})

CheckIns(e) == Cardinality({s \in DOMAIN checkIn : checkIn[s].event = e})

\* unitPrice * quantity over the lines of the orders of e that are PAID.
PaidItems(e) ==
  {i \in DOMAIN orderItem : order[i.order].event = e /\ order[i.order].status = "PAID"}

Revenue(e) ==
  SumFunction([i \in PaidItems(e) |-> orderItem[i].unitPrice * orderItem[i].quantity])

Figures(e) ==
  [ticketsSold |-> TicketsSold(e), checkins |-> CheckIns(e), revenue |-> Revenue(e)]

\* EventOwnershipGuard finds the event.
AskStats(e) ==
  /\ asked = {}
  /\ e \in DOMAIN event
  /\ asked' = {e}
  /\ atStart' = Figures(e)
  /\ UNCHANGED seen

Count(e, f) ==
  /\ e \in asked
  /\ f \notin DOMAIN seen
  /\ seen' = Insert(seen, Row(f, Figures(e)[f]))
  /\ UNCHANGED <<asked, atStart>>

StatsNext ==
  \/ SystemNext /\ UNCHANGED statsVars
  \/ /\ \E e \in EventId :
          AskStats(e) \/ \E f \in {"ticketsSold", "checkins", "revenue"} : Count(e, f)
     /\ UNCHANGED systemVars

StatsSpec == SystemInit /\ StatsInit /\ [][StatsNext]_<<systemVars, statsVars>>

-----------------------------------------------------------------------------
(* Although its figures are counted at different times, the answer is not  *)
(* behind the moment the organizer asked, nor ahead of what the tables     *)
(* hold while the event is there, and it has no entry without a ticket     *)
(* sold by now.                                                            *)
FiguresInRange ==
  \A e \in asked \cap DOMAIN event :
    /\ \A f \in DOMAIN seen : atStart[f] <= seen[f] /\ seen[f] <= Figures(e)[f]
    /\ "checkins" \in DOMAIN seen => seen["checkins"] <= TicketsSold(e)
=============================================================================
