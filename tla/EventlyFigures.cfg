SPECIFICATION StatsSpec
CONSTANTS
  e1 = e1
  e2 = e2
  t1 = t1
  t2 = t2
  r1 = r1
  r2 = r2
  s1 = s1
  c1 = c1
  c2 = c2
  a1 = a1
  EventId = {e1, e2}
  TicketTypeId = {t1, t2}
  OrderId = {r1, r2}
  ScanId = {s1}
  EditId = {}
  Code = {c1, c2}
  MaxTime = 0
  Answers = {a1}
  MaxInt = 4
  Routes <- CreateRoutes
  EventDto <- OneEventDto
  TicketTypeDto <- OneTypeDto
  EventField <- NoField
  TicketTypeField <- NoField
  Cart <- GateCarts
  MaxInFlight = 1
  MayAbort = FALSE
INVARIANTS EntryAtOwnGate NotOversold FiguresInRange
CHECK_DEADLOCK FALSE
SYMMETRY Draws
