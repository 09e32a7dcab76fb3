SPECIFICATION Spec
CONSTANTS
  e1 = e1
  e2 = e2
  t1 = t1
  t2 = t2
  r1 = r1
  r2 = r2
  r3 = r3
  c1 = c1
  c2 = c2
  c3 = c3
  a1 = a1
  a2 = a2
  EventId = {e1}
  TicketTypeId = {t1, t2}
  OrderId = {r1, r2}
  ScanId = {}
  Code = {c1, c2, c3}
  Answers = {a1, a2}
  MaxInt = 3
  MayAbort = TRUE
  Routes <- SellingRoutes
  EventDto <- OneEventDto
  TicketTypeDto <- TwoPriceDtos
  EventField <- NoField
  TicketTypeField <- PriceOnly
  Cart <- RaceCarts
  MaxInFlight = 2
INVARIANTS TypeOK IssuedInFull AnswerMatchesTables TotalMatchesLines SoldCoversTickets SoldIsTickets
CHECK_DEADLOCK FALSE
SYMMETRY Symmetry
