SPECIFICATION ServerSpec
CONSTANTS
  first = first
  second = second
  picture = picture
  n1 = n1
  n2 = n2
  Record <- Certificates
  Photo <- OnePhoto
  Number <- Numbers
  NoNumber = NoNumber
  NotSaved = NotSaved
  OwnNumber <- SameNumber
  Certification <- Certificates
  PointsAt <- NoReceipt
  Owner <- OfTheFirst
  MayLack = {}
  MayClose = TRUE
  Request = {q1, q2}
  Batches <- Sent
SYMMETRY EitherRequest
INVARIANTS
  NumberHeldOnce
  AnswersBacked
  PhotographOnSomething
