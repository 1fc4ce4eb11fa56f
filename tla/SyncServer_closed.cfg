SPECIFICATION ServerSpec
CONSTANTS
  a = a
  b = b
  receipt = receipt
  picture = picture
  n1 = n1
  n2 = n2
  Record <- TwoTickets
  Photo <- OnePhoto
  Number <- Numbers
  NoNumber = NoNumber
  NotSaved = NotSaved
  OwnNumber <- Numbered
  Certification = {}
  PointsAt <- ItsReceipt
  Owner <- OfTheSecond
  MayLack <- TheSecond
  MayClose = TRUE
  Request = {q1, q2}
  Batches <- SentWithout
PROPERTY
  ClosedNeverSaved
