SPECIFICATION AccessSpec
CONSTANTS
  e1 = e1
  e2 = e2
  t1 = t1
  o1 = o1
  o2 = o2
  m1 = m1
  m2 = m2
  p1 = p1
  l1 = l1
  l2 = l2
  q1 = q1
  q2 = q2
  q3 = q3
  q4 = q4
  EventId = {e1}
  TicketTypeId = {}
  OrderId = {}
  ScanId = {}
  Code = {}
  Answers = {}
  MaxInt = 2
  MayAbort = TRUE
  Routes <- PairRoutes
  EventDto <- OneEventDto
  TicketTypeDto <- PriceDtos
  EventField <- NoField
  TicketTypeField <- PriceOnly
  AccountId = {o1}
  Email = {m1}
  PairingId = {p1}
  LoginId = {l1, l2}
  RequestId = {q1}
  PairingLife = 0
  MaxTime = 1
INVARIANT PairedOnce
CHECK_DEADLOCK FALSE
