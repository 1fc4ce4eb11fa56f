SPECIFICATION FairPhotos
CONSTANTS
  File = {1, 2, 3}
  Length <- Lengths
  Swapped = {1}
  NotImage = {2}
  PartMost = 2
  Room = 3
  InARun = 2
  Slot = {s1, s2}
  NoRequest = NoRequest
  Unknown = Unknown
  MaxFaults = 2
INVARIANTS
  PhotoTypeOK
  DroppedIsKept
  HeldWithinRoom
PROPERTY
  AllKept
