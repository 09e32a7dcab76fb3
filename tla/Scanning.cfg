SPECIFICATION ScanningSpec
CONSTANTS
  l1 = l1
  l2 = l2
  s1 = s1
  ByteCount = 2
  FORMAT_VERSION = 1
  TicketCodeSize = 2
  UuidBytes = 2
  HASH_BYTES = 1
  Spelling <- SpellOut
  LineId = {l1, l2}
  OrderItem <- Lines
  TicketCode <- Codes
  EventId <- Events
  ScanId = {s1}
  MaxCut = 1
INVARIANTS ScanningTypeOK CodeIndexSuffices QrFindsItsTicket FoundAsRead
CHECK_DEADLOCK FALSE
