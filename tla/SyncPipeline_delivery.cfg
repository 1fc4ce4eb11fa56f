SPECIFICATION PipelineSpec
CONSTANTS
  receipt = receipt
  ticket = ticket
  other = other
  picture = picture
  n1 = n1
  n2 = n2
  Record <- WithAnother
  Photo <- OnePicture
  PointsAt <- ItsReceipt
  Owner <- OfTheTicket
  Number <- Numbers
  NoNumber = NoNumber
  NotSaved = NotSaved
  OwnNumber <- Numbered
  Certification = {}
  MayLack = {}
  MayClose = FALSE
  Request = {q1, q2}
  Batches <- AnySync
  Captures <- TicketThenPicture
  RecordsAtMost = 1
  PhotosAtMost = 1
  NoRequest = NoRequest
  Elsewhere <- TheOther
SYMMETRY EitherRequest
INVARIANTS
  PipelineTypeOK
  PhoneKnowsRight
PROPERTY
  ImplementsDelivery
