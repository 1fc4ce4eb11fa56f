--------------------------- MODULE HandOverProofs ---------------------------
(***************************************************************************)
(* No record made on a phone is lost as the phone changes hands, for any   *)
(* number of monitors, records, hand-overs, lost answers and closings; and *)
(* where only whose the phone is signs in, what waits on a shelf is of     *)
(* whose the shelf is.                                                     *)
(***************************************************************************)
EXTENDS HandOver, TLAPS

\* What stands anywhere was made, what a hand-over found stored is stored, and it is under way or
\* isn't.
MadeFirst ==
  /\ \A p \in Place, r \in Record :
       /\ store[p][r] # "absent" => made[r] # Nobody
       /\ listed[p][r] # "absent" => made[r] # Nobody
  /\ \A e \in sending : made[e[2]] # Nobody
  /\ \A r \in Record : /\ passing.found[r] # "absent" => made[r] # Nobody
                       /\ passing.found[r] = "saved" => r \in saved
  /\ passing.step = "read" => passing.earlier \in Monitor
  /\ passing.step = "none" => passing = NoPassing

\* Who is signed in holds the phone, and what waits on its own shelf is of whose it is, until
\* that is moved.
OneHolder ==
  /\ signedIn # Nobody => signedIn = phones /\ passing.step = "none"
  /\ asksLists => signedIn # Nobody
  /\ passing.step # "none" => passing.earlier = phones
  /\ \A r \in Record :
       /\ store[Own][r] = "waiting" => made[r] = phones /\ passing.step # "moved"
       /\ passing.step = "read" =>
            /\ store[Own][r] = "waiting" => passing.found[r] = "waiting"
            /\ passing.found[r] = "waiting" => made[r] = phones

HandOverInv == HandOverTypeOK /\ Kept /\ MadeFirst /\ (Quiet => OneHolder /\ StillTheirs)

LEMMA PassingFields ==
  /\ NoPassing.to = Nobody /\ NoPassing.earlier = Nobody /\ NoPassing.step = "none"
  /\ NoPassing.found = Nowhere
  /\ NoPassing \in [to : Monitor \cup {Nobody}, earlier : Monitor \cup {Nobody},
                    step : {"none", "begun", "read", "moved"}, found : [Record -> Stand]]
  /\ Nowhere \in [Record -> Stand \ {"saved"}]
  BY DEF NoPassing, Nowhere, Stand

LEMMA ShelfTypes ==
  ASSUME NEW shelf \in [Record -> Stand]
  PROVE  /\ NotStored(shelf) \in [Record -> Stand \ {"saved"}]
         /\ \A r \in Record : NotStored(shelf)[r] # "absent" => shelf[r] # "absent"
  BY DEF NotStored, Stand

\* Nothing is made, and the phone is the first monitor's.
LEMMA HandOverInitHolds == HandOverInit => HandOverInv
<1> SUFFICES ASSUME HandOverInit PROVE HandOverInv
  OBVIOUS
<1> USE HandOverAssumption
<1>1. \A p \in Place, r \in Record : store[p][r] = "absent" /\ listed[p][r] = "absent"
  BY DEF HandOverInit, Nowhere
<1>2. passing = NoPassing /\ \A r \in Record : NoPassing.found[r] = "absent"
  BY PassingFields DEF HandOverInit, Nowhere
<1>3. HandOverTypeOK
  BY PassingFields DEF HandOverInit, HandOverTypeOK, Stand
<1>4. Kept
  BY <1>1 DEF HandOverInit, Kept
<1>5. MadeFirst
  BY <1>1, <1>2, PassingFields DEF HandOverInit, MadeFirst
<1>6. OneHolder /\ StillTheirs
  BY <1>1, <1>2, PassingFields DEF HandOverInit, OneHolder, StillTheirs, Place
<1> QED
  BY <1>3, <1>4, <1>5, <1>6 DEF HandOverInv

\* Every step keeps the types.
LEMMA HandOverTypeStep ==
  ASSUME HandOverTypeOK, [HandOverNext]_vars
  PROVE  HandOverTypeOK'
<1> USE HandOverAssumption DEF HandOverTypeOK
<1>1. ASSUME NEW r \in Record, Makes(r) PROVE HandOverTypeOK'
  <2>1. store' \in [Place -> [Record -> Stand]]
    BY <1>1 DEF Makes, Stand, Place
  <2>2. listed' \in [Place -> [Record -> Stand \ {"saved"}]]
    BY <1>1 DEF Makes, Stand, Place
  <2> QED
    BY <1>1, <2>1, <2>2 DEF Makes
<1>2. CASE SignsOut
  BY <1>2 DEF SignsOut, outbox
<1>3. ASSUME NEW m \in Monitor, SignsIn(m) PROVE HandOverTypeOK'
  BY <1>3 DEF SignsIn, outbox
<1>4. ASSUME NEW m \in Monitor, Begins(m) PROVE HandOverTypeOK'
  BY <1>4, PassingFields DEF Begins, outbox
<1>5. CASE ReadsShelf
  <2>1. store[Own] \in [Record -> Stand]
    BY DEF Place
  <2> QED
    BY <1>5, <2>1 DEF ReadsShelf, phone, outbox
<1>6. CASE MovesThem
  <2>1. passing.found \in [Record -> Stand]
    OBVIOUS
  <2>2. store' \in [Place -> [Record -> Stand]]
    <3> DEFINE moved(p, r) ==
          IF passing.found[r] = "absent" THEN store[p][r]
          ELSE IF p = passing.earlier THEN passing.found[r] ELSE IF p = Own THEN "absent" ELSE store[p][r]
    <3>1. \A p \in Place, r \in Record : moved(p, r) \in Stand
      <4>1. \A p \in Place, r \in Record : store[p][r] \in Stand /\ passing.found[r] \in Stand
        BY <2>1
      <4>2. "absent" \in Stand
        BY DEF Stand
      <4> QED
        BY <4>1, <4>2
    <3>2. store' = [p \in Place |-> [r \in Record |-> moved(p, r)]]
      BY <1>6 DEF MovesThem, Moved
    <3> HIDE DEF moved
    <3> QED
      BY <3>1, <3>2
  <2>3. Nowhere \in [Record -> Stand]
    BY DEF Nowhere, Stand
  <2> QED
    BY <1>6, <2>2, <2>3 DEF MovesThem, outbox
<1>7. CASE HandedTo
  BY <1>7, PassingFields DEF HandedTo, outbox
<1>8. CASE ReadsOwn
  <2>1. NotStored(store[Own]) \in [Record -> Stand \ {"saved"}]
    BY ShelfTypes DEF Place
  <2>2. listed' \in [Place -> [Record -> Stand \ {"saved"}]]
    BY <1>8, <2>1, PassingFields DEF ReadsOwn
  <2> QED
    BY <1>8, <2>2 DEF ReadsOwn, phone
<1>9. CASE ReadsQueues
  <2>1. \A p \in Place : NotStored(store[p]) \in [Record -> Stand \ {"saved"}]
    BY ShelfTypes
  <2>2. listed' \in [Place -> [Record -> Stand \ {"saved"}]]
    BY <1>9, <2>1 DEF ReadsQueues, WithQueues, Place
  <2> QED
    BY <1>9, <2>2 DEF ReadsQueues, phone
<1>10. CASE Sends
  BY <1>10 DEF Sends, Going, phone
<1>11. CASE Ends
  BY <1>11 DEF Ends, phone
<1>12. CASE Serves
  <2>1. \A e \in sending : e[2] \in Record
    OBVIOUS
  <2>2. saved' \subseteq Record
    BY <1>12, <2>1 DEF Serves
  <2> QED
    BY <1>12, <2>2 DEF Serves, phone
<1>13. CASE Answered
  <2>1. \A e \in sending : e[2] \in Record
    OBVIOUS
  <2>2. store' \in [Place -> [Record -> Stand]]
    <3> DEFINE stands(p, r) == IF <<p, r>> \in sending THEN Told(r) ELSE store[p][r]
    <3>1. \A p \in Place, r \in Record : stands(p, r) \in Stand
      <4>1. \A p \in Place, r \in Record : store[p][r] \in Stand
        OBVIOUS
      <4>2. \A r \in Record : Told(r) \in Stand
        BY DEF Told, Stand
      <4> QED
        BY <4>1, <4>2
    <3>2. store' = [p \in Place |-> [r \in Record |-> stands(p, r)]]
      BY <1>13 DEF Answered
    <3> HIDE DEF stands
    <3> QED
      BY <3>1, <3>2
  <2>3. listed' \in [Place -> [Record -> Stand \ {"saved"}]]
    <3> DEFINE left(p, r) ==
          IF listed[p][r] = "absent" \/ \A e \in sending : e[2] # r THEN listed[p][r]
          ELSE IF r \in saved THEN "absent" ELSE "notSaved"
    <3>1. \A p \in Place, r \in Record : left(p, r) \in Stand \ {"saved"}
      <4>1. \A p \in Place, r \in Record : listed[p][r] \in Stand \ {"saved"}
        OBVIOUS
      <4> QED
        BY <4>1 DEF Stand
    <3>2. listed' = [p \in Place |-> [r \in Record |-> left(p, r)]]
      BY <1>13 DEF Answered
    <3> HIDE DEF left
    <3> QED
      BY <3>1, <3>2
  <2>4. sentAgain' \subseteq Record
    <3>1. sentAgain' = sentAgain \cup {e[2] : e \in sending}
      BY <1>13 DEF Answered
    <3> QED
      BY <2>1, <3>1
  <2> QED
    BY <1>13, <2>2, <2>3, <2>4 DEF Answered
<1>14. CASE NoAnswer
  BY <1>14 DEF NoAnswer, phone
<1>15. CASE ListsCome
  BY <1>15 DEF ListsCome, outbox
<1>16. CASE Reopens
  <2>1. listed' \in [Place -> [Record -> Stand \ {"saved"}]]
    BY <1>16, ShelfTypes DEF Reopens
  <2> QED
    BY <1>16, <2>1, PassingFields DEF Reopens, phone
<1>17. CASE UNCHANGED vars
  BY <1>17 DEF vars, phone, outbox
<1> QED
  BY <1>1, <1>2, <1>3, <1>4, <1>5, <1>6, <1>7, <1>8, <1>9, <1>10, <1>11, <1>12, <1>13, <1>14,
     <1>15, <1>16, <1>17 DEF HandOverNext, Passes, Runs

\* Every step of the monitors, the hand-over and the outbox keeps the rest of the invariant.
LEMMA HandOverStep ==
  ASSUME HandOverInv, [HandOverNext]_vars
  PROVE  Kept' /\ MadeFirst' /\ (Quiet => OneHolder' /\ StillTheirs')
<1> USE HandOverAssumption DEF HandOverInv, Kept, MadeFirst, OneHolder, StillTheirs
<1>0. /\ Own \in Place /\ Monitor \subseteq Place /\ Own \notin Monitor
      /\ \A p \in Place, r \in Record : store[p][r] \in Stand
  BY DEF HandOverTypeOK, Place
<1>1. ASSUME NEW r \in Record, Makes(r)
      PROVE  Kept' /\ MadeFirst' /\ (Quiet => OneHolder' /\ StillTheirs')
  <2>1. /\ made' \in [Record -> Monitor \cup {Nobody}] /\ made[r] = Nobody
        /\ \A x \in Record : made'[x] = IF x = r THEN phones ELSE made[x]
        /\ phones # Nobody /\ passing = NoPassing
    BY <1>1 DEF Makes, HandOverTypeOK
  <2>2. \A p \in Place, x \in Record :
          store'[p][x] = IF p = Own /\ x = r THEN "waiting" ELSE store[p][x]
    BY <1>0, <1>1 DEF Makes, HandOverTypeOK
  <2>3. \A p \in Place, x \in Record :
          listed'[p][x] = listed[p][x] \/ x = r
    BY <1>0, <1>1 DEF Makes, HandOverTypeOK
  <2>4. UNCHANGED <<phones, signedIn, sending, asksLists, passing, saved>>
    BY <1>1 DEF Makes
  <2>5. Kept'
    BY <1>0, <2>1, <2>2, <2>4
  <2>6. MadeFirst'
    BY <1>0, <2>1, <2>2, <2>3, <2>4 DEF HandOverTypeOK
  <2>7. Quiet => OneHolder'
    BY <1>0, <2>1, <2>2, <2>4, PassingFields
  <2>8. Quiet => StillTheirs'
    BY <1>0, <2>1, <2>2, <2>4
  <2> QED
    BY <2>5, <2>6, <2>7, <2>8
<1>2. CASE SignsOut
  BY <1>2 DEF SignsOut, outbox
<1>3. ASSUME NEW m \in Monitor, SignsIn(m)
      PROVE  Kept' /\ MadeFirst' /\ (Quiet => OneHolder' /\ StillTheirs')
  BY <1>3, PassingFields DEF SignsIn, outbox
<1>4. ASSUME NEW m \in Monitor, Begins(m)
      PROVE  Kept' /\ MadeFirst' /\ (Quiet => OneHolder' /\ StillTheirs')
  <2>1. /\ passing'.found = Nowhere /\ passing'.step = "begun" /\ passing'.earlier = phones
        /\ Quiet => signedIn' = Nobody /\ ~asksLists
        /\ passing = NoPassing /\ UNCHANGED <<made, store, phones, outbox, asksLists, saved>>
    BY <1>4, PassingFields DEF Begins
  <2>2. \A r \in Record : Nowhere[r] = "absent"
    BY DEF Nowhere
  <2> QED
    BY <2>1, <2>2, PassingFields DEF outbox
<1>5. CASE ReadsShelf
  <2>1. CASE passing.earlier = Nobody
    <3>1. passing'.step = "moved" /\ passing'.earlier = passing.earlier
          /\ passing'.found = passing.found /\ passing.step = "begun"
          /\ UNCHANGED <<phone, outbox, asksLists, saved>>
      BY <1>5, <2>1 DEF ReadsShelf, HandOverTypeOK
    <3>2. passing' # NoPassing
      BY <3>1, PassingFields
    <3> QED
      BY <1>0, <2>1, <3>1, <3>2 DEF phone, outbox
  <2>2. CASE passing.earlier # Nobody
    <3>1. passing'.step = "read" /\ passing'.earlier = passing.earlier
          /\ passing'.found = store[Own] /\ passing.step = "begun"
          /\ UNCHANGED <<phone, outbox, asksLists, saved>>
      BY <1>5, <2>2 DEF ReadsShelf, HandOverTypeOK
    <3>2. passing'.earlier \in Monitor
      BY <2>2, <3>1 DEF HandOverTypeOK
    <3> QED
      BY <1>0, <3>1, <3>2 DEF phone, outbox
  <2> QED
    BY <2>1, <2>2
<1>6. CASE MovesThem
  <2>1. /\ passing.step = "read" /\ passing.earlier \in Monitor
        /\ passing'.step = "moved" /\ passing'.earlier = passing.earlier
        /\ passing'.found = Nowhere
        /\ UNCHANGED <<made, phones, signedIn, outbox, asksLists, saved>>
    BY <1>6 DEF MovesThem, HandOverTypeOK
  <2>2. \A p \in Place, r \in Record :
          store'[p][r] =
            IF passing.found[r] = "absent" THEN store[p][r]
            ELSE IF p = passing.earlier THEN passing.found[r]
            ELSE IF p = Own THEN "absent" ELSE store[p][r]
    BY <1>6 DEF MovesThem, Moved
  <2>3. \A r \in Record : Nowhere[r] = "absent"
    BY DEF Nowhere
  <2>4. Kept'
    <3>1. ASSUME NEW r \in Record, made[r] # Nobody PROVE \E p \in Place : store'[p][r] # "absent"
      <4>1. CASE passing.found[r] = "absent"
        BY <2>2, <3>1, <4>1
      <4>2. CASE passing.found[r] # "absent"
        BY <1>0, <2>1, <2>2, <4>2
      <4> QED
        BY <4>1, <4>2
    <3>2. \A r \in Record, p \in Place : store'[p][r] = "saved" => r \in saved
      <4> SUFFICES ASSUME NEW r \in Record, NEW p \in Place, store'[p][r] = "saved"
                   PROVE  r \in saved
        OBVIOUS
      <4>1. store[p][r] = "saved" \/ passing.found[r] = "saved"
        BY <2>2
      <4>2. made[r] # Nobody
        BY <4>1
      <4> QED
        BY <4>1, <4>2
    <3> QED
      BY <2>1, <3>1, <3>2
  <2>5. MadeFirst'
    <3>1. passing'.step # "none"
      BY <2>1
    <3> QED
      BY <2>1, <2>2, <2>3, <3>1 DEF outbox
  <2>6. Quiet => OneHolder'
    BY <1>0, <2>1, <2>2, <2>3
  <2>7. Quiet => StillTheirs'
    BY <1>0, <2>1, <2>2
  <2> QED
    BY <2>4, <2>5, <2>6, <2>7
<1>7. CASE HandedTo
  <2>1. passing.step = "moved" /\ passing' = NoPassing
        /\ UNCHANGED <<made, store, signedIn, outbox, asksLists, saved>>
    BY <1>7 DEF HandedTo
  <2>2. \A r \in Record : NoPassing.found[r] = "absent"
    BY PassingFields DEF Nowhere
  <2> QED
    BY <2>1, <2>2, PassingFields DEF outbox
<1>8. CASE ReadsOwn
  <2>1. \A p \in Place, r \in Record : listed'[p][r] # "absent" => store[p][r] # "absent"
    BY <1>8, ShelfTypes DEF ReadsOwn, Nowhere, HandOverTypeOK
  <2> QED
    BY <1>8, <2>1 DEF ReadsOwn, phone
<1>9. CASE ReadsQueues
  <2>1. \A p \in Place, r \in Record :
          listed'[p][r] # "absent" => listed[p][r] # "absent" \/ store[p][r] # "absent"
    BY <1>9, ShelfTypes DEF ReadsQueues, WithQueues, HandOverTypeOK
  <2> QED
    BY <1>9, <2>1 DEF ReadsQueues, phone
<1>10. CASE Sends
  BY <1>10 DEF Sends, Going, phone, HandOverTypeOK
<1>11. CASE Ends
  BY <1>11, PassingFields DEF Ends, phone
<1>12. CASE Serves
  <2>1. saved \subseteq saved'
    BY <1>12 DEF Serves
  <2>2. UNCHANGED <<phone, listed, sentAgain, sending, asksLists, passing>>
    BY <1>12 DEF Serves
  <2> QED
    BY <2>1, <2>2 DEF phone
<1>13. CASE Answered
  <2>1. /\ UNCHANGED <<made, phones, signedIn, asksLists, passing, saved>> /\ sending' = {}
        /\ sending \subseteq Place \X Record
    BY <1>13 DEF Answered, HandOverTypeOK
  <2>2. \A p \in Place, r \in Record :
          store'[p][r] = IF <<p, r>> \in sending THEN Told(r) ELSE store[p][r]
    BY <1>13 DEF Answered
  <2>3. \A r \in Record : /\ Told(r) # "absent" /\ Told(r) # "waiting"
                          /\ Told(r) = "saved" => r \in saved
    BY DEF Told
  <2>4. \A p \in Place, r \in Record : listed'[p][r] # "absent" => listed[p][r] # "absent"
    BY <1>13 DEF Answered
  <2>5. \A p \in Place, r \in Record : <<p, r>> \in sending => made[r] # Nobody
    OBVIOUS
  <2>6. Kept'
    BY <2>1, <2>2, <2>3
  <2>7. MadeFirst'
    <3>1. \A p \in Place, r \in Record : store'[p][r] # "absent" => made[r] # Nobody
      <4> SUFFICES ASSUME NEW p \in Place, NEW r \in Record, store'[p][r] # "absent"
                   PROVE  made[r] # Nobody
        OBVIOUS
      <4>1. CASE <<p, r>> \in sending
        BY <2>5, <4>1
      <4>2. CASE <<p, r>> \notin sending
        <5>1. store[p][r] # "absent"
          BY <2>2, <4>2
        <5> QED
          BY <5>1
      <4> QED
        BY <4>1, <4>2
    <3>2. \A p \in Place, r \in Record : listed'[p][r] # "absent" => made[r] # Nobody
      BY <2>4
    <3> QED
      BY <2>1, <3>1, <3>2
  <2>8. \A p \in Place, r \in Record : store'[p][r] = "waiting" => store[p][r] = "waiting"
    BY <2>2, <2>3
  <2>9. Quiet => OneHolder' /\ StillTheirs'
    BY <1>0, <2>1, <2>8
  <2> QED
    BY <2>6, <2>7, <2>9
<1>14. CASE NoAnswer
  BY <1>14 DEF NoAnswer, phone
<1>15. CASE ListsCome
  BY <1>15 DEF ListsCome, outbox
<1>16. CASE Reopens
  <2>1. UNCHANGED <<made, store, phones, signedIn, saved>> /\ passing' = NoPassing
        /\ sending' = {} /\ asksLists' = FALSE
    BY <1>16 DEF Reopens, phone
  <2>2. \A p \in Place, r \in Record : listed'[p][r] # "absent" => store[p][r] # "absent"
    BY <1>16, ShelfTypes DEF Reopens, HandOverTypeOK
  <2>3. \A r \in Record : NoPassing.found[r] = "absent"
    BY PassingFields DEF Nowhere
  <2> QED
    BY <2>1, <2>2, <2>3, PassingFields
<1>17. CASE UNCHANGED vars
  BY <1>17 DEF vars, phone, outbox
<1> QED
  BY <1>1, <1>2, <1>3, <1>4, <1>5, <1>6, <1>7, <1>8, <1>9, <1>10, <1>11, <1>12, <1>13, <1>14,
     <1>15, <1>16, <1>17 DEF HandOverNext, Passes, Runs

LEMMA HandOverSafe == FairHandOver => []HandOverInv
<1>1. HandOverInv /\ [HandOverNext]_vars => HandOverInv'
  BY HandOverTypeStep, HandOverStep DEF HandOverInv
<1> QED
  BY <1>1, HandOverInitHolds, PTL DEF FairHandOver

\* Every variable of the phone, its outbox and the hand-over keeps its type.
THEOREM HandOverTypes == FairHandOver => []HandOverTypeOK
<1>1. HandOverInv => HandOverTypeOK
  BY DEF HandOverInv
<1> QED
  BY <1>1, HandOverSafe, PTL

\* However the phone changes hands, whoever signs in on it and whatever is lost on the way, no
\* record made on it leaves it, and none is said to be saved that isn't.
THEOREM NothingMadeIsLost == FairHandOver => []Kept
<1>1. HandOverInv => Kept
  BY DEF HandOverInv
<1> QED
  BY <1>1, HandOverSafe, PTL

\* Where only whose the phone is signs in, a queue holds its own monitor's waiting records alone.
THEOREM QueuesAreTheirs == ASSUME Quiet PROVE FairHandOver => []StillTheirs
<1>1. HandOverInv => StillTheirs
  BY DEF HandOverInv
<1> QED
  BY <1>1, HandOverSafe, PTL

\* ... and what waits on the phone's own shelf is of whose the phone is.
THEOREM ShelfAlwaysItsMonitors == ASSUME Quiet PROVE FairHandOver => []ShelfIsItsMonitors
<1>1. HandOverInv => ShelfIsItsMonitors
  BY DEF HandOverInv, OneHolder, ShelfIsItsMonitors
<1> QED
  BY <1>1, HandOverSafe, PTL
=============================================================================
