---------------------------- MODULE TurnInProofs ----------------------------
(***************************************************************************)
(* A wipe the server ordered loses nothing, and a phone that was turned in *)
(* has lost nothing of what it made before, whatever is lost on the way,   *)
(* whatever more is made, however turn-ins overlap and for whichever       *)
(* reason a proof is refused.                                              *)
(***************************************************************************)
EXTENDS TurnIn, TLAPS

\* The phone and the server begin with nothing made and nothing asked.
LEMMA InitHolds == TurnInInit => TurnInInv
<1> SUFFICES ASSUME TurnInInit PROVE TurnInInv
  OBVIOUS
<1>1. Unasked \in TurnInWork
  BY DEF Unasked, TurnInWork, Stage
<1>2. TurnInTypeOK
  BY <1>1 DEF TurnInInit, TurnInTypeOK, Act
<1>3. \A k \in Ask : turnIn[k].stage = "none"
  BY DEF TurnInInit, Unasked
<1>4. ActHolds /\ NamesEverything
  BY <1>3 DEF TurnInInit, ActHolds, NamesEverything
<1>5. StoredIsThere /\ MarkedKeptTheEarlier /\ ToldLosesNothing /\ TurnedInKeptTheEarlier
  BY DEF TurnInInit, StoredIsThere, MarkedKeptTheEarlier, ToldLosesNothing, TurnedInKeptTheEarlier
<1> QED
  BY <1>2, <1>4, <1>5 DEF TurnInInv

\* Every step of the phone, the act and the server keeps the invariant.
LEMMA StepHolds ==
  ASSUME TurnInInv, [TurnInNext]_vars
  PROVE  TurnInInv'
<1> USE TurnInAssumption
    DEF TurnInInv, TurnInTypeOK, ActHolds, StoredIsThere, NamesEverything,
        MarkedKeptTheEarlier, ToldLosesNothing, TurnedInKeptTheEarlier, TurnInWork, Stage, Act
<1>1. ASSUME NEW x \in Thing, Capture(x) PROVE TurnInInv'
  BY <1>1 DEF Capture, Answered, serverVars
<1>2. ASSUME NEW x \in Thing, MonitorSends(x) PROVE TurnInInv'
  BY <1>2 DEF MonitorSends, Sent
<1>3. ASSUME NEW x \in Thing, MasterSends(x) PROVE TurnInInv'
  BY <1>3 DEF MasterSends, Sent
<1>4. CASE Begins
  BY <1>4 DEF Begins, serverVars
<1>5. CASE KeyRefused
  BY <1>5 DEF KeyRefused, NotProven, serverVars
<1>6. CASE KeyProven
  BY <1>6 DEF KeyProven, serverVars
<1>7. CASE PasscodeTaken
  BY <1>7 DEF PasscodeTaken, serverVars
<1>8. CASE Marks
  BY <1>8 DEF Marks, serverVars
<1>9. CASE AnswerComes
  <2>1. Unasked \in TurnInWork /\ Unasked.stage = "none"
    BY DEF Unasked
  <2>2. waitsFor \in Ask /\ act = "waiting" /\ asked
    BY <1>9 DEF AnswerComes
  <2>3. /\ \A k \in Ask : turnIn'[k] = IF k = waitsFor THEN Unasked ELSE turnIn[k]
        /\ turnIn' \in [Ask -> TurnInWork]
    BY <1>9, <2>1, <2>2 DEF AnswerComes
  <2>4. /\ act' = "none" /\ waitsFor' = NoAsk
        /\ UNCHANGED <<made, late, challenge, toSend, has, revoked>>
    BY <1>9 DEF AnswerComes
  <2>5. NamesEverything'
    BY <2>1, <2>3, <2>4
  <2>6. CASE turnIn[waitsFor].stage = "turnedIn"
    <3>1. made \subseteq has
      BY <2>2, <2>6
    <3>2. wiped' = "told" /\ listed' = {} /\ asked' = asked
      BY <1>9, <2>6 DEF AnswerComes
    <3> QED
      BY <2>2, <2>3, <2>4, <2>5, <3>1, <3>2
  <2>7. CASE turnIn[waitsFor].stage \in {"lacking", "refused"}
    <3>1. asked' = FALSE /\ wiped' = wiped /\ listed' = listed /\ wiped = "no"
      BY <1>9, <2>2, <2>7 DEF AnswerComes
    <3> QED
      BY <2>2, <2>3, <2>4, <2>5, <3>1
  <2> QED
    BY <1>9, <2>6, <2>7 DEF AnswerComes
<1>10. CASE ActStops
  BY <1>10 DEF ActStops, serverVars
<1>11. ASSUME NEW k \in Ask, AsksToBeTurnedIn(k) PROVE TurnInInv'
  BY <1>11 DEF AsksToBeTurnedIn
<1>12. ASSUME NEW k \in Ask, Checks(k) PROVE TurnInInv'
  BY <1>12 DEF Checks, phoneVars
<1>13. ASSUME NEW k \in Ask, TurnsIn(k) PROVE TurnInInv'
  BY <1>13 DEF TurnsIn, phoneVars
<1>14. ASSUME NEW k \in Ask, Lost(k) PROVE TurnInInv'
  BY <1>14 DEF Lost, Unasked, phoneVars
<1>15. CASE ChallengeComes \/ ChallengeOver
  BY <1>15 DEF ChallengeComes, ChallengeOver, serverVars
<1>16. CASE UNCHANGED vars
  BY <1>16 DEF vars, phoneVars, serverVars
<1> QED
  BY <1>1, <1>2, <1>3, <1>4, <1>5, <1>6, <1>7, <1>8, <1>9, <1>10, <1>11, <1>12, <1>13,
     <1>14, <1>15, <1>16 DEF TurnInNext

\* The invariant, whatever the phone makes and however many turn-ins it asks.
THEOREM TurnInSafe == TurnInSpec => []TurnInInv
  BY InitHolds, StepHolds, PTL DEF TurnInSpec

\* The server has all the phone made, before it tells the phone to wipe (turn-ins.ts, ADR-096).
THEOREM OrderedWipeLosesNothing == TurnInSpec => []ToldLosesNothing
<1>1. TurnInInv => ToldLosesNothing
  BY DEF TurnInInv
<1> QED
  BY <1>1, TurnInSafe, PTL

\* A phone that was turned in and wiped, told so or for its key refused, has lost nothing of
\* what it made while no turn-in was without its answer.
THEOREM EarlierKept == TurnInSpec => []TurnedInKeptTheEarlier
<1>1. TurnInInv => TurnedInKeptTheEarlier
  BY DEF TurnInInv
<1> QED
  BY <1>1, TurnInSafe, PTL
=============================================================================
