SPECIFICATION ServerSpec
CONSTANTS
  a = a
  b = b
  receipt = receipt
  picture = picture
  n1 = n1
  n2 = n2
  Record <- Records
  Photo <- OnePhoto
  Number <- Numbers
  NoNumber = NoNumber
  NotSaved = NotSaved
  OwnNumber <- Numbered
  Certification = {}
  PointsAt <- ItsReceipt
  Owner <- OfTheFirst
  MayLack <- TheReceipt
  MayClose = FALSE
  Request = {q1, q2}
  Batches <- Sent
SYMMETRY EitherRequest
INVARIANTS
  ServerTypeOK
  NumberHeldOnce
  AnswersBacked
  LedgerAgrees
  QuarantinedByAnother
  DisposalOnItsReceipt
  PhotographOnSomething
PROPERTY
  NeverWrittenOver
