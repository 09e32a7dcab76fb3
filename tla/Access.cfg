SPECIFICATION AccessSpec
CONSTANTS
  e1 = e1
  e2 = e2
  t1 = t1
  o1 = o1
  o2 = o2
  m1 = m1
  m2 = m2
  p1 = p1
  l1 = l1
  l2 = l2
  q1 = q1
  q2 = q2
  q3 = q3
  q4 = q4
  EventId = {e1, e2}
  TicketTypeId = {t1}
  OrderId = {}
  ScanId = {}
  Code = {}
  Answers = {}
  MaxInt = 2
  MayAbort = TRUE
  Routes <- EditRoutes
  EventDto <- OneEventDto
  TicketTypeDto <- PriceDtos
  EventField <- NoField
  TicketTypeField <- PriceOnly
  AccountId = {o1, o2}
  Email = {m1, m2}
  PairingId = {p1}
  LoginId = {l1, l2}
  RequestId = {q1, q2, q3, q4}
  PairingLife = 0
  MaxTime = 1
INVARIANTS AccessTypeOK OneAccount TokensBacked
PROPERTIES OwnersOnly NobodyPairsLater
CHECK_DEADLOCK FALSE
SYMMETRY People
