SPECIFICATION FairPipeline
CONSTANTS
  receipt = receipt
  ticket = ticket
  other = other
  picture = picture
  n1 = n1
  n2 = n2
  Record <- TheTicket
  Photo <- OnePicture
  PointsAt <- ItsReceipt
  Owner <- OfTheTicket
  Number = {n1}
  NoNumber = NoNumber
  NotSaved = NotSaved
  OwnNumber <- Numbered
  Certification = {}
  MayLack <- TheTicket
  MayClose = FALSE
  Request = {q1}
  Batches <- AnySync
  Captures <- TicketThenPicture
  RecordsAtMost = 1
  PhotosAtMost = 1
  NoRequest = NoRequest
  Elsewhere = {}
PROPERTIES
  AllTold
  SavingLearned
  PhotographFollows
