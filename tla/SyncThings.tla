----------------------------- MODULE SyncThings -----------------------------
(***************************************************************************)
(* What passes between a phone and the server: the records and the         *)
(* photographs' records a phone made, and what each is answered            *)
(* (packages/contracts/src/{sync-records,sync-client}.ts).                 *)
(***************************************************************************)
EXTENDS Naturals, Sequences

CONSTANTS
  Record,      \* the records phones made (field events, ROEs, receipts, forms)
  Photo,       \* the photographs' records they made
  PointsAt,    \* [Record -> SUBSET Record]: the scale receipt a disposal names
  Owner        \* [Photo -> Record]: the record a photograph was taken for

Thing == Record \cup Photo

ASSUME ThingsAssumption ==
  /\ Record \cap Photo = {}
  /\ PointsAt \in [Record -> SUBSET Record]
  /\ Owner \in [Photo -> Record]

\* What one thing sent is answered (OWNER_NOT_SAVED is the one reason of a
\* NOT_SAVED the phone acts upon), and the answers that say it is stored.
Answer == {"SAVED", "ALREADY_SAVED", "QUARANTINED", "NOT_SAVED", "OWNER_NOT_SAVED"}
StoredAnswer == {"SAVED", "ALREADY_SAVED"}
=============================================================================
