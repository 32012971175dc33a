CONSTANTS
  m1 = m1
  h = h
  c = c
  a1 = a1
  a2 = a2
  h1 = h1
  d = d
  x = x
  y = y
  NoReceipt = NoReceipt
  Mails = {m1}
  HttpRequests = {h}
  ConnectorRequests = {c}
  Uploads = {a1, a2, h1, d}
  Contents = {x, y}
  Content <- Bytes
  Parts <- Handed
  Faults <- FaultKind
  MaxInFlight = 3
  MaxArrivals = 3
SPECIFICATION MessageSpec
PROPERTY
  ImplementsFileStore
INVARIANTS
  SourceFileHasObject
  StrayObjectIsExplained
  AnswerIsTrue
  ReceiptNamesRealFiles
  SameBytesSameFile
  RecordedRawIsKept
  StrayRawIsExplained
CONSTRAINT
  FewArrivals
CHECK_DEADLOCK FALSE
