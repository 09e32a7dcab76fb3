SPECIFICATION SystemSpec
CONSTANTS
  e1 = e1
  e2 = e2
  t1 = t1
  t2 = t2
  r1 = r1
  r2 = r2
  s1 = s1
  s2 = s2
  x1 = x1
  x2 = x2
  c1 = c1
  c2 = c2
  a1 = a1
  EventId = {e1}
  TicketTypeId = {t1}
  OrderId = {r1}
  ScanId = {s1}
  EditId = {}
  Code = {c1}
  MaxTime = 0
  Answers = {a1}
  MaxInt = 3
  Routes <- DoorRoutes
  EventDto <- OneEventDto
  TicketTypeDto <- OneTypeDto
  EventField <- NoField
  TicketTypeField <- NoField
  Cart <- OneCart
  MaxInFlight = 1
  MayAbort = FALSE
PROPERTY EntryToActiveEvent
CHECK_DEADLOCK FALSE

