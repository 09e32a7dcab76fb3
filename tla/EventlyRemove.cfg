SPECIFICATION FairSystemSpec
CONSTANTS
  e1 = e1
  e2 = e2
  t1 = t1
  t2 = t2
  r1 = r1
  r2 = r2
  s1 = s1
  s2 = s2
  x1 = x1
  x2 = x2
  c1 = c1
  c2 = c2
  a1 = a1
  EventId = {e1, e2}
  TicketTypeId = {t1, t2}
  OrderId = {r1}
  ScanId = {s1}
  EditId = {x1}
  Code = {c1, c2}
  MaxTime = 0
  Answers = {a1}
  MaxInt = 3
  Routes <- RemoveRoutes
  EventDto <- OneEventDto
  TicketTypeDto <- OneTypeDto
  EventField <- NoField
  TicketTypeField <- NoField
  Cart <- RemoveCarts
  MaxInFlight = 1
  MayAbort = FALSE
INVARIANTS AllReferencesResolve AnswerMatchesTables AnswerIsFinal
PROPERTIES ImplementsAdmission TicketsStayTogether HandlersEnd DoorHandlersEnd
CHECK_DEADLOCK FALSE
