------------------------- MODULE PositionPullProofs -------------------------
(***************************************************************************)
(* Theorems about PositionPull, for any rows, writers, families, page      *)
(* sizes and page bounds, and any number of crashes: its type, what the    *)
(* stream keeps under a puller, and, on a clock that is never set back,    *)
(* the promise of the receive mark, the promise of the tombstone floor,    *)
(* and that the pull implements complete delivery.                         *)
(***************************************************************************)
EXTENDS PositionPull, PositionStreamProofs

-----------------------------------------------------------------------------
(***************************************************************************)
(* The steps, as the stream sees them.                                     *)
(***************************************************************************)

\* The tombstone door's record of the puller's place and the prune are the two
\* steps the stream alone does not take.
LEMMA StreamSees ==
    ASSUME [PullNext]_vars
    PROVE  [Next]_streamVars \/ ServerReadsPage \/ PruneTombstones
  <1>1. CASE StreamStep \/ UNCHANGED vars
    BY <1>1 DEF Next, vars
  <1>2. CASE ServerCrash
    BY <1>2 DEF ServerCrash, Next
  <1>3. CASE PruneTombstones
    BY <1>3
  <1>4. CASE ServerTakesCap
    BY <1>4 DEF ServerTakesCap, ReadCap, Next, HandCap
  <1>5. CASE ServerReadsPage
    BY <1>5
  <1>6. CASE TurnStep /\ ~ServerTakesCap /\ ~ServerReadsPage
    BY <1>6 DEF TurnStep, StartTurn, RestartBehind, DeliverPage, DeliverLastPage,
         StopAtPageBound, ResolveWatermark
  <1>7. CASE FaultStep \/ SavePullMark
    BY <1>7 DEF FaultStep, SavePullMark, StopEarly, LandingFails, TurnCut, PullerCrash
  <1>8. QED
    BY <1>1, <1>2, <1>3, <1>4, <1>5, <1>6, <1>7 DEF PullNext

\* What those two change: marks that stay numbers, a cap that is handed out, and
\* tombstones that go.
Serves ==
    /\ UNCHANGED <<wall, up, seeded, last, phase, hold, floor, pending, removing,
                   savedMark, stepBacks, crashes>>
    /\ \A r \in Rows : rowPos'[r] \in {rowPos[r], 0}
    /\ ownMark' \in Nat /\ capServed' \in Nat /\ rowPos' \in [Rows -> Nat]

LEMMA PageServes ==
    ASSUME TypeOK, start \in [pos : Nat, id : Nat], ServerReadsPage \/ PruneTombstones
    PROVE  Serves
  <1>1. /\ ownMark \in Nat /\ capServed \in Nat /\ rowPos \in [Rows -> Nat]
        /\ Caps \subseteq Nat
    BY CapsAreNumbers DEF TypeOK
  <1>2. CASE PruneTombstones
    BY <1>1, <1>2
       DEF PruneTombstones, Serves, clockVars, lifeVars, writerVars, markVars
  <1>3. CASE ServerReadsPage
    <2>1. /\ UNCHANGED <<wall, up, seeded, last, rowPos, phase, hold, floor, pending,
                         removing, savedMark, stepBacks, crashes>>
          /\ \/ /\ ServedBy(start) > 0
                /\ \E c \in Caps : /\ capServed' = Max2(capServed, c)
                                   /\ ownMark' = OwnPositionMark(ServedBy(start), c)
             \/ UNCHANGED <<ownMark, capServed>>
      BY <1>3 DEF ServerReadsPage, HandCap, clockVars, lifeVars, writerVars
    <2>2. ASSUME NEW c \in Caps, ServedBy(start) > 0,
                 capServed' = Max2(capServed, c),
                 ownMark' = OwnPositionMark(ServedBy(start), c)
          PROVE  ownMark' \in Nat /\ capServed' \in Nat
      <3>1. c \in Nat /\ ServedBy(start) \in Nat
        BY <1>1, <2>2 DEF ServedBy
      <3>2. QED
        BY <1>1, <2>2, <3>1, MaxMinBounds DEF OwnPositionMark
    <2>3. ownMark' \in Nat /\ capServed' \in Nat
      BY <1>1, <2>1, <2>2
    <2>4. QED
      BY <1>1, <2>1, <2>3 DEF Serves
  <1>4. QED
    BY <1>2, <1>3

\* They touch no hold and no stamp.
LEMMA ServesKeepsStream ==
    ASSUME Serves
    PROVE  /\ TypeOK => TypeOK'
           /\ HeldInv => HeldInv'
           /\ DistinctInv => DistinctInv'
  <1>1. TypeOK => TypeOK'
    BY DEF Serves, TypeOK
  <1>2. HeldInv => HeldInv'
    BY <1>1 DEF Serves, HeldInv, HoldsAreHandedOut, StampsAreFloored
  <1>3. ASSUME DistinctInv
        PROVE  DistinctInv'
    <2>1. /\ UNCHANGED <<seeded, last, pending>>
          /\ \A r \in Rows : /\ rowPos[r] \in Nat
                             /\ rowPos'[r] = rowPos[r] \/ rowPos'[r] = 0
      BY <1>3 DEF Serves, DistinctInv, TypeOK
    <2>2. last \in Nat /\ BandFloor \in Nat
      BY <1>3, BandAssumption DEF DistinctInv, TypeOK
    <2>3. StoredIsHandedOut'
      BY <1>3, <2>1, <2>2 DEF DistinctInv, StoredIsHandedOut
    <2>4. \A r, s \in Rows : rowPos'[r] > BandFloor /\ rowPos'[r] = rowPos'[s] => r = s
      BY <1>3, <2>1, <2>2 DEF DistinctInv, StampsAreDistinct
    <2>5. \A w \in Writers : \A r, s \in Rows :
            pending[w][r] # 0 => pending[w][r] # rowPos'[s]
      BY <1>3, <2>1 DEF DistinctInv, StampsAreDistinct
    <2>6. StampsAreDistinct'
      BY <1>3, <2>1, <2>4, <2>5 DEF DistinctInv, StampsAreDistinct
    <2>7. QED
      BY <1>1, <1>3, <2>3, <2>6 DEF DistinctInv
  <1>4. QED
    BY <1>1, <1>2, <1>3

-----------------------------------------------------------------------------
(***************************************************************************)
(* The type of a turn.                                                     *)
(***************************************************************************)

\* A page is read while the clock is seeded, and before the requests of its
\* transfer are spent.
Reads == stage = "reading" => seeded /\ pages < MaxPages

TurnInv == TypeOK /\ PullTypeOK /\ Reads

Answers == [items : [Rows -> Nat], next : [pos : Nat, id : Nat], cap : Nat]

\* Where nothing is read yet, and where a number leads.
LEMMA NothingRead ==
    /\ NoAnswer \in Answers
    /\ \A p \in Nat : AtPosition(p) \in [pos : Nat, id : Nat]
    /\ 1 \in Family /\ 0 \in 0 .. MaxPages
  <1>1. \A p \in Nat : AtPosition(p) \in [pos : Nat, id : Nat]
    BY DEF AtPosition
  <1>2. NoStamps \in [Rows -> Nat]
    BY DEF NoStamps
  <1>3. NoAnswer \in Answers
    BY <1>1, <1>2 DEF NoAnswer, Answers
  <1>4. QED
    BY <1>1, <1>3, FamilyAssumption, PageAssumption DEF Family

\* A turn that is over leaves nothing behind, whichever way it ended.
LEMMA TurnOverTyped ==
    ASSUME TurnOver, mark' \in Nat, diskMark' \in Nat, got' \in [Rows -> Nat]
    PROVE  PullTypeOK' /\ Reads'
  <1>1. /\ stage' = "idle" /\ fam' = 1 /\ from' = 0 /\ pages' = 0
        /\ checked' = FALSE /\ behind' = FALSE /\ forgotAt' = 0
        /\ answer' = NoAnswer
    BY DEF TurnOver
  <1>2. through' \in [Family -> Nat] /\ start' \in [pos : Nat, id : Nat]
    BY NothingRead DEF TurnOver
  <1>3. stage' \in Stages
    BY <1>1 DEF Stages
  <1>4. /\ answer' \in [items : [Rows -> Nat], next : [pos : Nat, id : Nat], cap : Nat]
        /\ fam' \in Family /\ pages' \in 0 .. MaxPages /\ forgotAt' \in 0 .. fam'
    BY <1>1, NothingRead DEF Answers
  <1>5. QED
    BY <1>1, <1>2, <1>3, <1>4 DEF PullTypeOK, Reads

LEMMA InitIsTurn == PullInit => TurnInv
  <1> SUFFICES ASSUME PullInit PROVE TurnInv
    OBVIOUS
  <1>1. TypeOK
    BY InitIsTyped DEF PullInit
  <1>2. /\ stage = "idle" /\ fam = 1 /\ from = 0 /\ pages = 0 /\ mark = 0 /\ diskMark = 0
        /\ checked = FALSE /\ behind = FALSE /\ forgotAt = 0
        /\ answer = NoAnswer
    BY DEF PullInit
  <1>3. /\ through \in [Family -> Nat] /\ start \in [pos : Nat, id : Nat]
        /\ got \in [Rows -> Nat] /\ stage \in Stages
    BY <1>2, NothingRead DEF PullInit, NoStamps, Stages
  <1>4. /\ answer \in [items : [Rows -> Nat], next : [pos : Nat, id : Nat], cap : Nat]
        /\ fam \in Family /\ pages \in 0 .. MaxPages /\ forgotAt \in 0 .. fam
    BY <1>2, NothingRead DEF Answers
  <1>5. QED
    BY <1>1, <1>2, <1>3, <1>4 DEF TurnInv, PullTypeOK, Reads

\* A transfer that ends hands the turn on, or was its last.
LEMMA TransferOverTyped ==
    ASSUME PullTypeOK, stage # "idle", NEW reached \in [Family -> Nat],
           ~behind => \A f \in 1 .. fam : from <= reached[f],
           TransferOver(reached), UNCHANGED diskMark, got' \in [Rows -> Nat]
    PROVE  PullTypeOK' /\ Reads'
  <1> DEFINE forgets == behind /\ from # 0
             since   == IF forgets THEN 0 ELSE from
             more    == fam < Families
  <1>1. /\ from' = since /\ since \in Nat /\ mark' \in Nat
        /\ fam' = (IF more THEN fam + 1 ELSE fam)
        /\ stage' = (IF more THEN "ask" ELSE "read")
        /\ through' = IF more THEN [reached EXCEPT ![fam + 1] = since] ELSE reached
        /\ start' = AtPosition(since)
        /\ forgotAt' = IF forgets THEN fam ELSE forgotAt
    BY DEF TransferOver, PullTypeOK
  <1>2. /\ checked' = FALSE /\ behind' = FALSE /\ pages' = 0 /\ answer' = NoAnswer
    BY DEF TransferOver
  <1>3. /\ fam \in Nat /\ 1 <= fam /\ fam <= Families /\ Families \in Nat
        /\ forgotAt \in 0 .. fam /\ from \in Nat
    BY FamilyAssumption DEF PullTypeOK, Family
  <1>4. fam' \in Family /\ forgotAt' \in 0 .. fam' /\ stage' \in Stages \ {"idle"}
        /\ stage' \notin {"reading", "answered"}
    BY <1>1, <1>3 DEF Family, Stages
  <1>5. through' \in [Family -> Nat] /\ start' \in [pos : Nat, id : Nat]
    BY <1>1, NothingRead
  <1>6. \A f \in 1 .. fam' : from' <= through'[f]
    <2>1. \A f \in 1 .. fam : from' <= reached[f]
      <3>1. \A f \in 1 .. fam : f \in Family
        BY <1>3 DEF Family
      <3>2. CASE behind
        BY <1>1, <1>3, <3>1, <3>2
      <3>3. CASE ~behind
        BY <1>1, <1>3, <3>1, <3>3
      <3>4. QED
        BY <3>2, <3>3
    <2>2. CASE more
      <3>1. /\ through' = [reached EXCEPT ![fam + 1] = from'] /\ from' \in Nat
            /\ fam' = fam + 1 /\ fam + 1 \in Family
        BY <1>1, <1>3, <2>2 DEF Family
      <3>2. /\ through'[fam + 1] = from'
            /\ \A f \in 1 .. fam : through'[f] = reached[f]
        BY <1>3, <3>1 DEF Family
      <3>3. \A f \in 1 .. fam' : f = fam + 1 \/ f \in 1 .. fam
        BY <1>3, <3>1
      <3>4. QED
        BY <2>1, <3>1, <3>2, <3>3
    <2>3. CASE ~more
      BY <1>1, <2>1, <2>3
    <2>4. QED
      BY <2>2, <2>3
  <1>7. from' \in Nat
    BY <1>1
  <1> HIDE DEF since
  <1>8. QED
    BY <1>1, <1>2, <1>4, <1>5, <1>6, <1>7, NothingRead DEF PullTypeOK, Reads, Answers

\* A page is read out of the rows its request asks for, and its cursor is one of
\* them or none (planPositionPage).
LEMMA PageRead ==
    ASSUME TurnInv, ServerReadsPage
    PROVE  \E P \in FirstPage(Candidates(fam, answer.cap)) :
              /\ P \subseteq Candidates(fam, answer.cap) /\ P \subseteq Rows
              /\ answer' \in Answers
              /\ answer'.items = [r \in Rows |-> IF r \in P THEN rowPos[r] ELSE 0]
              /\ CursorAfter(P, Candidates(fam, answer.cap), answer'.next)
              /\ answer'.cap = answer.cap
  <1> DEFINE rows == Candidates(fam, answer.cap)
  <1>1. PICK P \in FirstPage(rows) :
          \E next \in {AtPosition(0)} \cup {[pos |-> rowPos[l], id |-> l] : l \in P} :
             /\ CursorAfter(P, rows, next)
             /\ answer' = [answer EXCEPT
                   !.items = [r \in Rows |-> IF r \in P THEN rowPos[r] ELSE 0],
                   !.next  = next]
    BY DEF ServerReadsPage
  <1>2. PICK next \in {AtPosition(0)} \cup {[pos |-> rowPos[l], id |-> l] : l \in P} :
             /\ CursorAfter(P, rows, next)
             /\ answer' = [answer EXCEPT
                   !.items = [r \in Rows |-> IF r \in P THEN rowPos[r] ELSE 0],
                   !.next  = next]
    BY <1>1
  <1>3. rows \subseteq Rows /\ P \subseteq rows /\ P \subseteq Rows
    BY DEF Candidates, FirstPage
  <1>4. rowPos \in [Rows -> Nat] /\ answer \in Answers
    BY DEF TurnInv, TypeOK, PullTypeOK, Answers
  <1>5. next \in [pos : Nat, id : Nat]
    <2>1. \A l \in P : l \in Nat /\ rowPos[l] \in Nat
      BY <1>3, <1>4, IdAssumption
    <2>2. QED
      BY <2>1, NothingRead
  <1>6. [r \in Rows |-> IF r \in P THEN rowPos[r] ELSE 0] \in [Rows -> Nat]
    BY <1>4
  <1> HIDE DEF rows
  <1>7. /\ answer' \in Answers
        /\ answer'.items = [r \in Rows |-> IF r \in P THEN rowPos[r] ELSE 0]
        /\ answer'.next = next
        /\ answer'.cap = answer.cap
    BY <1>2, <1>4, <1>5, <1>6 DEF Answers
  <1>8. QED
    BY <1>1, <1>2, <1>3, <1>7 DEF rows

\* What lands is a version of each row.
LEMMA LandedType ==
    ASSUME PullTypeOK, NEW S
    PROVE  Landed(S) \in [Rows -> Nat]
  BY DEF Landed, PullTypeOK

LEMMA ServerStepsAreTyped ==
    ASSUME TurnInv, TypeOK', ServerTakesCap \/ ServerReadsPage
    PROVE  PullTypeOK' /\ Reads'
  <1>1. TypeOK /\ PullTypeOK
    BY DEF TurnInv
  <1>2. CASE ServerTakesCap
    <2>1. PICK c \in Caps : answer' = [NoAnswer EXCEPT !.cap = c]
      BY <1>2 DEF ServerTakesCap
    <2>2. answer' \in Answers
      BY <1>1, <2>1, CapsAreNumbers, NothingRead DEF Answers
    <2>3. answer' \in [items : [Rows -> Nat], next : [pos : Nat, id : Nat], cap : Nat]
      BY <2>2 DEF Answers
    <2>4. /\ stage = "ask" /\ stage' = "reading" /\ seeded /\ pages # MaxPages
          /\ UNCHANGED <<seeded, mark, diskMark, got, fam, from, through, start, checked,
                         behind, forgotAt, pages>>
      BY <1>2 DEF ServerTakesCap, AtPageBound
    <2>5. pages < MaxPages
      BY <1>1, <2>4, PageAssumption DEF PullTypeOK
    <2>6. QED
      BY <1>1, <2>3, <2>4, <2>5 DEF PullTypeOK, Reads, Stages
  <1>3. CASE ServerReadsPage
    <2>1. answer' \in Answers
      BY <1>3, PageRead
    <2>2. answer' \in [items : [Rows -> Nat], next : [pos : Nat, id : Nat], cap : Nat]
      BY <2>1 DEF Answers
    <2>3. /\ stage = "reading" /\ stage' = "answered" /\ pages' = pages + 1
          /\ UNCHANGED <<mark, diskMark, got, fam, from, through, start, checked,
                         behind, forgotAt>>
      BY <1>3 DEF ServerReadsPage
    <2>4. pages' \in 0 .. MaxPages
      BY <1>1, <2>3, PageAssumption DEF TurnInv, PullTypeOK, Reads
    <2>5. QED
      BY <1>1, <2>2, <2>3, <2>4 DEF PullTypeOK, Reads, Stages
  <1>4. QED
    BY <1>2, <1>3

\* The steps inside a transfer that leave the mark and the place of the turn.
LEMMA PagesAreTyped ==
    ASSUME TurnInv, StartTurn \/ RestartBehind \/ DeliverPage
    PROVE  PullTypeOK' /\ Reads'
  <1>1. PullTypeOK
    BY DEF TurnInv
  <1>2. answer' = NoAnswer /\ stage' = "ask" /\ UNCHANGED <<mark, diskMark>>
    BY DEF StartTurn, RestartBehind, DeliverPage
  <1>3. answer' \in [items : [Rows -> Nat], next : [pos : Nat, id : Nat], cap : Nat]
    BY <1>2, NothingRead DEF Answers
  <1>4. CASE StartTurn
    <2>1. /\ stage = "idle" /\ fam' = 1 /\ from' = mark /\ checked' = FALSE /\ behind' = FALSE
          /\ pages' = 0 /\ start' = AtPosition(mark)
          /\ through' = [f \in Family |-> IF f = 1 THEN mark ELSE 0]
          /\ UNCHANGED <<got, forgotAt>>
      BY <1>4 DEF StartTurn
    <2>2. /\ mark \in Nat /\ fam' \in Family /\ pages' \in 0 .. MaxPages
          /\ forgotAt' = 0 /\ forgotAt' \in 0 .. fam'
      BY <1>1, <2>1, NothingRead DEF PullTypeOK
    <2>3. /\ through' \in [Family -> Nat] /\ start' \in [pos : Nat, id : Nat]
          /\ \A f \in 1 .. fam' : from' <= through'[f]
      BY <2>1, <2>2, NothingRead
    <2>4. QED
      BY <1>1, <1>2, <1>3, <2>1, <2>2, <2>3 DEF PullTypeOK, Reads, Stages
  <1>5. CASE RestartBehind
    <2>1. /\ stage = "answered" /\ checked' = TRUE /\ behind' = TRUE
          /\ through' = [through EXCEPT ![fam] = 0] /\ start' = AtPosition(0)
          /\ UNCHANGED <<got, fam, from, forgotAt, pages>>
      BY <1>5 DEF RestartBehind, RereadFrom
    <2>2. through' \in [Family -> Nat] /\ start' \in [pos : Nat, id : Nat]
      BY <1>1, <2>1, NothingRead DEF PullTypeOK
    <2>3. QED
      BY <1>1, <1>2, <1>3, <2>1, <2>2 DEF PullTypeOK, Reads, Stages
  <1>6. CASE DeliverPage
    <2>1. /\ stage = "answered" /\ checked' = TRUE
          /\ got' = Landed(Rows)
          /\ through' = [through EXCEPT ![fam] = DeliveredThrough(answer)]
          /\ start' = answer.next
          /\ UNCHANGED <<fam, from, behind, forgotAt, pages>>
      BY <1>6 DEF DeliverPage
    <2>2. got' \in [Rows -> Nat]
      BY <1>1, <2>1, LandedType
    <2>3. start' \in [pos : Nat, id : Nat]
      BY <1>1, <2>1 DEF PullTypeOK
    <2>4. DeliveredThrough(answer) \in Nat /\ through[fam] <= DeliveredThrough(answer)
      BY <1>1 DEF PullTypeOK, DeliveredThrough, Max2, PageThrough
    <2>5. through' \in [Family -> Nat] /\ \A f \in Family : through[f] <= through'[f]
      BY <1>1, <2>1, <2>4 DEF PullTypeOK
    <2>6. ~behind' => \A f \in 1 .. fam' : from' <= through'[f]
      <3>1. \A f \in 1 .. fam : f \in Family
        BY <1>1, FamilyAssumption DEF PullTypeOK, Family
      <3>2. QED
        BY <1>1, <2>1, <2>5, <3>1 DEF PullTypeOK
    <2>7. QED
      BY <1>1, <1>2, <1>3, <2>1, <2>2, <2>3, <2>5, <2>6 DEF PullTypeOK, Reads, Stages
  <1>7. QED
    BY <1>4, <1>5, <1>6

\* What the last page makes of its transfer (DeliveredThrough).
LEMMA LastPageReaches ==
    ASSUME PullTypeOK, NEW reached,
           reached = [through EXCEPT ![fam] = DeliveredThrough(answer)]
    PROVE  /\ reached \in [Family -> Nat]
           /\ \A f \in Family : through[f] <= reached[f]
           /\ reached[fam] = DeliveredThrough(answer)
           /\ \A f \in Family : f # fam => reached[f] = through[f]
  <1>1. /\ DeliveredThrough(answer) \in Nat /\ through[fam] <= DeliveredThrough(answer)
        /\ through \in [Family -> Nat] /\ fam \in Family
    BY DEF PullTypeOK, DeliveredThrough, Max2, PageThrough
  <1>2. QED
    BY <1>1

LEMMA TransferEndsAreTyped ==
    ASSUME TurnInv, DeliverLastPage \/ StopAtPageBound \/ StopEarly \/ LandingFails
    PROVE  PullTypeOK' /\ Reads'
  <1>1. PullTypeOK /\ through \in [Family -> Nat] /\ got \in [Rows -> Nat]
    BY DEF TurnInv, PullTypeOK
  <1>2. ~behind /\ stage # "idle" => \A f \in 1 .. fam : f \in Family /\ from <= through[f]
    BY <1>1, FamilyAssumption DEF PullTypeOK, Family
  <1>3. CASE DeliverLastPage
    <2> DEFINE reached == [through EXCEPT ![fam] = DeliveredThrough(answer)]
    <2>1. stage # "idle" /\ TransferOver(reached) /\ UNCHANGED diskMark /\ got' = Landed(Rows)
      BY <1>3 DEF DeliverLastPage
    <2>2. reached \in [Family -> Nat] /\ \A f \in Family : through[f] <= reached[f]
      BY <1>1, LastPageReaches
    <2>3. ~behind => \A f \in 1 .. fam : from <= reached[f]
      BY <1>1, <1>2, <2>1, <2>2 DEF PullTypeOK
    <2>4. got' \in [Rows -> Nat]
      BY <1>1, <2>1, LandedType
    <2> HIDE DEF reached
    <2>5. QED
      BY <1>1, <2>1, <2>2, <2>3, <2>4, TransferOverTyped
  <1>4. CASE StopAtPageBound \/ StopEarly \/ LandingFails
    <2>1. stage # "idle" /\ TransferOver(through) /\ UNCHANGED diskMark
      BY <1>4 DEF StopAtPageBound, StopEarly, LandingFails
    <2>2. got' \in [Rows -> Nat]
      BY <1>1, <1>4, LandedType DEF StopAtPageBound, StopEarly, LandingFails
    <2>3. QED
      BY <1>1, <1>2, <2>1, <2>2, TransferOverTyped
  <1>5. QED
    BY <1>3, <1>4

\* The ends of a turn, and what a dead process leaves.
LEMMA ResolveIsTyped ==
    ASSUME PullTypeOK, ResolveWatermark
    PROVE  /\ mark' \in Nat
           /\ \/ mark' = mark
              \/ /\ \A f \in Family : mark' <= Max2(mark, Max2(from, through[f]))
                 /\ mark' \in {from} \cup {through[f] : f \in Family}
  <1>1. PICK at \in {from} \cup {through[f] : f \in Family} :
          /\ SafeWatermark(at)
          /\ mark' = IF at > from THEN Max2(mark, at) ELSE mark
    BY DEF ResolveWatermark
  <1>2. PICK f \in Family : /\ \A g \in Family : through[f] <= through[g]
                            /\ at = Max2(from, through[f])
    BY <1>1 DEF SafeWatermark
  <1>3. /\ mark \in Nat /\ from \in Nat /\ at \in Nat
        /\ \A g \in Family : through[g] \in Nat
    BY <1>1 DEF PullTypeOK
  <1>4. mark' \in {mark, at}
    BY <1>1, <1>3 DEF Max2
  <1>5. \A g \in Family : at <= Max2(mark, Max2(from, through[g]))
    BY <1>2, <1>3 DEF Max2
  <1>6. QED
    BY <1>1, <1>3, <1>4, <1>5

LEMMA TurnEndsAreTyped ==
    ASSUME TurnInv, ResolveWatermark \/ TurnCut \/ PullerCrash
    PROVE  PullTypeOK' /\ Reads'
  <1>1. PullTypeOK
    BY DEF TurnInv
  <1>2. TurnOver /\ UNCHANGED <<diskMark, got>>
    BY DEF ResolveWatermark, TurnCut, PullerCrash
  <1>3. mark' \in Nat
    BY <1>1, ResolveIsTyped DEF TurnCut, PullerCrash, PullTypeOK
  <1>4. QED
    BY <1>1, <1>2, <1>3, TurnOverTyped DEF PullTypeOK

\* A step that is not the puller's leaves the turn, unless the server dies while
\* it reads a page.
LEMMA OtherStepsAreTyped ==
    ASSUME TurnInv, \/ StreamStep /\ UNCHANGED pullVars
                    \/ ServerCrash \/ PruneTombstones \/ SavePullMark \/ UNCHANGED vars
    PROVE  PullTypeOK' /\ Reads'
  <1>1. PullTypeOK /\ Reads
    BY DEF TurnInv
  <1>2. CASE UNCHANGED pullVars /\ (stage = "reading" => UNCHANGED seeded \/ seeded')
    BY <1>1, <1>2 DEF pullVars, turnVars, PullTypeOK, Reads
  <1>3. CASE StreamStep /\ UNCHANGED pullVars
    <2>1. UNCHANGED seeded \/ seeded'
      BY <1>3 DEF StreamStep, WallTick, WallStepBack, Seed, Restart, SaveMark, WriterStep,
           StampWrite, StampStatement, LandRow, RemoveRow, EndWrite, BeginTxn,
           EndStatement, CommitTxn, RetryTxn, EndTxn
    <2>2. QED
      BY <1>2, <1>3, <2>1
  <1>4. CASE ServerCrash
    <2>1. CASE stage = "reading"
      <3>1. TurnOver /\ UNCHANGED <<mark, diskMark, got>>
        BY <1>4, <2>1 DEF ServerCrash
      <3>2. QED
        BY <1>1, <3>1, TurnOverTyped DEF PullTypeOK
    <2>2. CASE stage # "reading"
      BY <1>2, <1>4, <2>2 DEF ServerCrash
    <2>3. QED
      BY <2>1, <2>2
  <1>5. CASE PruneTombstones
    BY <1>2, <1>5 DEF PruneTombstones
  <1>6. CASE SavePullMark
    BY <1>1, <1>6 DEF SavePullMark, streamVars, turnVars, PullTypeOK, Reads
  <1>7. CASE UNCHANGED vars
    BY <1>2, <1>7 DEF vars, streamVars
  <1>8. QED
    BY <1>3, <1>4, <1>5, <1>6, <1>7

\* Every step of the puller and of the server it reads from.
LEMMA PullCases ==
    ASSUME [PullNext]_vars
    PROVE  \/ StreamStep /\ UNCHANGED pullVars
           \/ ServerCrash \/ PruneTombstones \/ SavePullMark \/ UNCHANGED vars
           \/ ServerTakesCap \/ ServerReadsPage
           \/ StartTurn \/ RestartBehind \/ DeliverPage
           \/ DeliverLastPage \/ StopAtPageBound \/ StopEarly \/ LandingFails
           \/ ResolveWatermark \/ TurnCut \/ PullerCrash
  BY DEF PullNext, TurnStep, FaultStep

LEMMA NextKeepsTurn == TurnInv /\ [PullNext]_vars => TurnInv'
  <1> SUFFICES ASSUME TurnInv, [PullNext]_vars
               PROVE  TurnInv'
    OBVIOUS
  <1>1. TypeOK'
    <2>1. TypeOK /\ start \in [pos : Nat, id : Nat]
      BY DEF TurnInv, PullTypeOK
    <2>2. QED
      BY <2>1, StreamSees, NextKeepsType, PageServes, ServesKeepsStream
  <1>2. PullTypeOK' /\ Reads'
    BY <1>1, PullCases, ServerStepsAreTyped, PagesAreTyped, TransferEndsAreTyped,
       TurnEndsAreTyped, OtherStepsAreTyped
  <1>3. QED
    BY <1>1, <1>2 DEF TurnInv

LEMMA TurnInvariant == PullSpec => []TurnInv
  BY InitIsTurn, NextKeepsTurn, PTL DEF PullSpec

\* Every state of a pull is well formed: an idle turn carries nothing, an answer
\* exists only while one is read or on the wire, and a transfer that did not
\* find the peer behind never claims less than where the turn began.
THEOREM PullTypesCorrect == PullSpec => []PullTypeOK
  <1>1. TurnInv => PullTypeOK
    BY DEF TurnInv
  <1>2. QED
    BY <1>1, TurnInvariant, PTL

-----------------------------------------------------------------------------
(***************************************************************************)
(* What the stream promises, it keeps with a puller at its doors, who      *)
(* moves the served mark, has tombstones pruned, and is handed caps.       *)
(***************************************************************************)
LEMMA PullInitIsStreamInit == PullInit => Init
  BY DEF PullInit

LEMMA NextKeepsPulledHeld == TurnInv /\ HeldInv /\ [PullNext]_vars => HeldInv'
  <1> SUFFICES ASSUME TurnInv, HeldInv, [PullNext]_vars
               PROVE  HeldInv'
    OBVIOUS
  <1>1. TypeOK /\ start \in [pos : Nat, id : Nat]
    BY DEF TurnInv, PullTypeOK
  <1>2. QED
    BY <1>1, StreamSees, NextKeepsHeld, PageServes, ServesKeepsStream

LEMMA NextKeepsPulledDistinct == TurnInv /\ DistinctInv /\ [PullNext]_vars => DistinctInv'
  <1> SUFFICES ASSUME TurnInv, DistinctInv, [PullNext]_vars
               PROVE  DistinctInv'
    OBVIOUS
  <1>1. TypeOK /\ start \in [pos : Nat, id : Nat]
    BY DEF TurnInv, PullTypeOK
  <1>2. QED
    BY <1>1, StreamSees, NextKeepsDistinct, PageServes, ServesKeepsStream

\* Every position stamped and not yet visible is held, whoever reads.
THEOREM PulledStampsAreHeld == PullSpec => []UnlandedIsHeld
  <1>1. PullInit => HeldInv
    BY InitIsHeld, PullInitIsStreamInit
  <1>2. QED
    BY <1>1, TurnInvariant, NextKeepsPulledHeld, HeldInvIsHeld, PTL DEF PullSpec

\* No two rows share a position of the clock band, whatever is pruned.
THEOREM PulledPositionsAreDistinct == PullSpec => []StampsAreDistinct
  <1>1. PullInit => DistinctInv
    BY InitIsDistinct, PullInitIsStreamInit
  <1>2. DistinctInv => StampsAreDistinct
    BY DEF DistinctInv
  <1>3. QED
    BY <1>1, <1>2, TurnInvariant, NextKeepsPulledDistinct, PTL DEF PullSpec

\* The cap the tombstone door hands out when it records a peer's place is a
\* settled one, and a prune leaves clock and holds alone.
LEMMA PageServesCaps ==
    ASSUME TurnInv, CapInv, HeldInv', ServerReadsPage \/ PruneTombstones
    PROVE  CapInv' /\ capServed <= capServed'
  <1>1. capServed \in Nat
    BY DEF CapInv, HeldInv, TypeOK
  <1>2. CASE PruneTombstones
    BY <1>1, <1>2 DEF PruneTombstones, clockVars, lifeVars, writerVars, CapInv,
         CapsAreBelowHolds, CapIsBelowNext, NextPosition
  <1>3. CASE ServerReadsPage
    <2>1. seeded
      BY <1>3 DEF ServerReadsPage, TurnInv, Reads
    <2>2. UNCHANGED <<wall, stepBacks, seeded, up, last, hold, floor>>
      BY <1>3 DEF ServerReadsPage, clockVars, lifeVars, writerVars
    <2>3. \/ UNCHANGED capServed
          \/ \E c \in Caps : SettledCap(c) /\ capServed' = Max2(capServed, c)
      BY <1>3 DEF ServerReadsPage, HandCap
    <2>4. ASSUME NEW c \in Caps, SettledCap(c), capServed' = Max2(capServed, c)
          PROVE  CapInv' /\ capServed <= capServed'
      <3>1. c \in Nat /\ c <= NextPosition
              /\ \A w \in Writers : /\ hold[w] # 0 => c <= hold[w]
                                    /\ floor[w] # 0 => c <= floor[w]
        BY <2>4, CapIsLowest DEF CapInv
      <3>2. capServed' \in {capServed, c} /\ capServed <= capServed'
        BY <1>1, <2>4, <3>1, MaxMinBounds
      <3>3. CapsAreBelowHolds'
        BY <2>2, <3>1, <3>2 DEF CapInv, CapsAreBelowHolds
      <3>4. NextPosition' = NextPosition
        BY <2>2 DEF NextPosition
      <3>5. CapIsBelowNext'
        BY <2>1, <2>2, <3>1, <3>2, <3>4 DEF CapInv, CapIsBelowNext
      <3>6. QED
        BY <2>2, <3>2, <3>3, <3>5 DEF CapInv
    <2>5. CASE UNCHANGED capServed
      BY <1>1, <2>2, <2>5 DEF CapInv, CapsAreBelowHolds, CapIsBelowNext, NextPosition
    <2>6. QED
      BY <2>3, <2>4, <2>5
  <1>4. QED
    BY <1>2, <1>3

LEMMA NextKeepsPulledCaps == TurnInv /\ CapInv /\ [PullNext]_vars /\ ~WallStepBack => CapInv'
  <1> SUFFICES ASSUME TurnInv, CapInv, [PullNext]_vars, ~WallStepBack
               PROVE  CapInv'
    OBVIOUS
  <1>1. HeldInv'
    BY NextKeepsPulledHeld DEF CapInv
  <1>2. QED
    BY <1>1, StreamSees, NextKeepsCaps, PageServesCaps

\* The stream under a puller, as one invariant: the turn is well formed, and the
\* caps that were handed out stay below every hold.
LEMMA PulledCapInvariant ==
    ASSUME MaxStepBacks = 0
    PROVE  PullSpec => [](TurnInv /\ CapInv)
  <1>1. PullInit => TurnInv /\ CapInv
    BY InitIsTurn, InitIsCapped, PullInitIsStreamInit
  <1>2. TurnInv /\ CapInv /\ [PullNext]_vars => (TurnInv /\ CapInv)'
    BY NextKeepsTurn, NextKeepsPulledCaps DEF CapInv, WallStepBack
  <1>3. QED
    BY <1>1, <1>2, PTL DEF PullSpec

\* On a monotone clock every stamp is at or above every cap handed out before it
\* landed, those of the pages included.
THEOREM PulledStampsStayAboveCaps ==
    ASSUME MaxStepBacks = 0
    PROVE  PullSpec => []StampsStayAboveCaps
  BY PulledCapInvariant, CapInvImpliesStampsAbove, PTL

\* Every step publishes at or above the highest cap handed out, or hands out a
\* cap: a page's, a served mark's. A prune publishes nothing.
LEMMA PullStepIsSettled ==
    ASSUME TurnInv, CapInv, [PullNext]_vars, HeldInv'
    PROVE  [Settled!Next]_(Settled!vars)
  <1>1. TypeOK /\ start \in [pos : Nat, id : Nat]
    BY DEF TurnInv, PullTypeOK
  <1>2. CASE [Next]_streamVars
    BY <1>2, StepIsSettled
  <1>3. CASE ServerReadsPage
    <2>1. capServed <= capServed' /\ capServed' \in Nat
      BY <1>1, <1>3, PageServesCaps, PageServes DEF Serves
    <2>2. UNCHANGED rowPos
      BY <1>3 DEF ServerReadsPage
    <2>3. QED
      BY <2>1, <2>2 DEF Settled!Next, Settled!Settle
  <1>4. CASE PruneTombstones
    <2>1. /\ rowPos' \in [Rows -> Nat]
          /\ \A r \in Rows : rowPos'[r] \in {rowPos[r], 0}
      BY <1>1, <1>4, PageServes DEF Serves
    <2>2. UNCHANGED capServed
      BY <1>4 DEF PruneTombstones
    <2>3. QED
      BY <2>1, <2>2 DEF Settled!Next, Settled!Publish
  <1>5. QED
    BY <1>2, <1>3, <1>4, StreamSees

\* With a puller at its doors the stream still implements the settled stream: no
\* row appears below a cap that a page, or a served mark, was cut at.
THEOREM PulledStreamIsSettled ==
    ASSUME MaxStepBacks = 0
    PROVE  PullSpec => NothingLandsBelowACap
  <1>1. PullInit => Settled!Init
    BY StreamInitIsSettled, PullInitIsStreamInit
  <1>2. TurnInv /\ CapInv /\ [PullNext]_vars => [Settled!Next]_(Settled!vars)
    BY PullStepIsSettled, NextKeepsPulledHeld DEF CapInv
  <1>3. QED
    BY <1>1, <1>2, PulledCapInvariant, PTL DEF PullSpec, Settled!Spec, NothingLandsBelowACap

-----------------------------------------------------------------------------
(***************************************************************************)
(* The promise of the mark, on a clock that is never set back.  Every      *)
(* place a mark of either side stands at, or may move to, is settled and   *)
(* whole: the puller holds every row the server shows at or below it, and  *)
(* no row will appear there again.  A page is read below a cap that lies   *)
(* above them all, so what is written while it is on its way cannot touch  *)
(* what it completes, and no head is ever found behind.                    *)
(***************************************************************************)

\* While a page is read or on its way, what the turn rests on is what was settled
\* when its cap was taken; else what any reader was handed.
Limit == IF stage \in {"reading", "answered"} THEN answer.cap ELSE capServed

\* Of family f the puller holds, as the server shows it, every row through p,
\* and p is settled: no row will appear at or below it again.
WholeIn(f, p, shown, held, limit) ==
    /\ p = 0 \/ p < limit
    /\ \A r \in Rows :
          FamilyOf[r] = f /\ shown[r] # 0 /\ shown[r] <= p => held[r] = shown[r]
Whole(f, p) == WholeIn(f, p, rowPos, got, Limit)

\* Nothing has the mark forgotten, and a turn begins where the mark stands.
Steady == ~behind /\ forgotAt = 0 /\ (stage # "idle" => from = mark)

MarksAreWhole ==
    \A f \in Family : Whole(f, mark) /\ Whole(f, diskMark) /\ Whole(f, through[f])

\* What the server takes the puller to have been served of its tombstones.
ServedIsWhole == Whole(1, ownMark) /\ Whole(1, savedMark)

\* What a request does not ask for is here.
BehindIsHeld ==
    \A r \in Rows :
        FamilyOf[r] = fam /\ rowPos[r] # 0 /\ ~ComesAfter(r) => got[r] = rowPos[r]

\* What the next request asks for is all that is missing below its cap.
CursorIsHeld ==
    stage \in {"ask", "reading", "answered"} =>
        (start.pos = 0 \/ start.pos < Limit) /\ BehindIsHeld

CapIsServed ==
    stage \in {"reading", "answered"} => answer.cap # 0 /\ answer.cap <= capServed

\* A version on its way is the one the server shows, or was overtaken by one
\* above the page's cap, or is gone.
PageIsCurrent ==
    \A r \in Rows :
        stage = "answered" /\ answer.items[r] # 0 =>
            \/ rowPos[r] \in {0, answer.items[r]}
            \/ answer.cap <= rowPos[r]

\* Of what the request asked for, the page leaves out only what its cursor asks
\* for again.
PageIsFirst ==
    stage = "answered" =>
        /\ HasMore(answer) => answer.next.pos < answer.cap
        /\ \A r \in Rows :
              /\ FamilyOf[r] = fam /\ rowPos[r] # 0 /\ rowPos[r] < answer.cap
              /\ ComesAfter(r) /\ answer.items[r] # rowPos[r]
              => /\ HasMore(answer)
                 /\ \/ answer.next.pos < rowPos[r]
                    \/ answer.next.pos = rowPos[r] /\ answer.next.id < r

DeliveryInv ==
    /\ Steady /\ CapIsServed /\ MarksAreWhole /\ ServedIsWhole
    /\ CursorIsHeld /\ PageIsCurrent /\ PageIsFirst

PromiseInv == TurnInv /\ CapInv /\ DeliveryInv

(***************************************************************************)
(* Pages, whatever the marks are worth.                                    *)
(***************************************************************************)

\* A bare position 0 leaves nothing behind it.
LEMMA NothingIsBehind ==
    ASSUME TypeOK', start' = AtPosition(0)
    PROVE  BehindIsHeld'
  BY DEF BehindIsHeld, ComesAfter, AtPosition, TypeOK

\* What is published above a request's place changes nothing behind it.
LEMMA BehindStays ==
    ASSUME TurnInv, TypeOK', UNCHANGED <<got, fam, start>>, BehindIsHeld,
           \A r \in Rows : rowPos'[r] \in {rowPos[r], 0} \/ start.pos < rowPos'[r]
    PROVE  BehindIsHeld'
  <1> SUFFICES ASSUME NEW r \in Rows, FamilyOf[r] = fam, rowPos'[r] # 0, ~ComesAfter(r)'
               PROVE  got[r] = rowPos'[r]
    BY DEF BehindIsHeld
  <1>1. rowPos'[r] \in Nat /\ start.pos \in Nat
    BY DEF TurnInv, TypeOK, PullTypeOK
  <1>2. rowPos'[r] <= start.pos
    BY <1>1 DEF ComesAfter
  <1>3. rowPos'[r] = rowPos[r]
    BY <1>1, <1>2
  <1>4. ~ComesAfter(r)
    BY <1>3 DEF ComesAfter
  <1>5. QED
    BY <1>3, <1>4 DEF BehindIsHeld

\* What is published at or above a page's cap changes nothing of what the page
\* says.
LEMMA PageStays ==
    ASSUME TurnInv, TypeOK', UNCHANGED <<stage, fam, start, answer>>,
           PageIsCurrent, PageIsFirst, stage = "answered",
           \A r \in Rows : rowPos'[r] \in {rowPos[r], 0} \/ answer.cap <= rowPos'[r]
    PROVE  PageIsCurrent' /\ PageIsFirst'
  <1>1. answer.cap \in Nat /\ \A r \in Rows : rowPos[r] \in Nat /\ rowPos'[r] \in Nat
    BY DEF TurnInv, TypeOK, PullTypeOK
  <1>2. PageIsCurrent'
    BY <1>1 DEF PageIsCurrent
  <1>3. ASSUME NEW r \in Rows, FamilyOf[r] = fam, rowPos'[r] # 0,
               rowPos'[r] < answer.cap, ComesAfter(r)', answer.items[r] # rowPos'[r]
        PROVE  /\ HasMore(answer)
               /\ \/ answer.next.pos < rowPos'[r]
                  \/ answer.next.pos = rowPos'[r] /\ answer.next.id < r
    <2>1. rowPos'[r] = rowPos[r]
      BY <1>1, <1>3
    <2>2. ComesAfter(r)
      BY <1>3, <2>1 DEF ComesAfter
    <2>3. QED
      BY <1>3, <2>1, <2>2 DEF PageIsFirst
  <1>4. PageIsFirst'
    BY <1>3 DEF PageIsFirst, HasMore
  <1>5. QED
    BY <1>2, <1>4

\* A page that was just read shows what the server shows, and leaves out only
\* what its cursor asks for again.
LEMMA ReadPageIsFirst ==
    ASSUME TurnInv, ServerReadsPage
    PROVE  PageIsCurrent' /\ PageIsFirst'
  <1> DEFINE rows == Candidates(fam, answer.cap)
  <1>1. PICK P \in FirstPage(rows) :
          /\ P \subseteq rows /\ P \subseteq Rows
          /\ answer' \in Answers
          /\ answer'.items = [r \in Rows |-> IF r \in P THEN rowPos[r] ELSE 0]
          /\ CursorAfter(P, rows, answer'.next)
          /\ answer'.cap = answer.cap
    BY PageRead
  <1>2. stage' = "answered" /\ UNCHANGED <<rowPos, fam, start>>
    BY DEF ServerReadsPage
  <1>3. /\ rowPos \in [Rows -> Nat] /\ answer.cap \in Nat
        /\ \A r \in Rows : r \in Nat \ {0}
    BY IdAssumption DEF TurnInv, TypeOK, PullTypeOK
  <1>4. PageIsCurrent'
    BY <1>1, <1>2, <1>3 DEF PageIsCurrent
  <1>5. PageIsFirst'
    <2>1. ASSUME NEW r \in rows \ P
          PROVE  \E l \in P : Precedes(l, r) /\ answer'.next = [pos |-> rowPos[l], id |-> l]
      BY <1>1, <2>1 DEF CursorAfter, FirstPage
    <2>2. ASSUME NEW r \in Rows, FamilyOf[r] = fam, rowPos[r] # 0,
                 rowPos[r] < answer'.cap, ComesAfter(r), answer'.items[r] # rowPos[r]
          PROVE  /\ HasMore(answer')
                 /\ \/ answer'.next.pos < rowPos[r]
                    \/ answer'.next.pos = rowPos[r] /\ answer'.next.id < r
      <3>1. r \in rows \ P
        BY <1>1, <2>2 DEF Candidates
      <3>2. PICK l \in P : Precedes(l, r) /\ answer'.next = [pos |-> rowPos[l], id |-> l]
        BY <2>1, <3>1
      <3>3. QED
        BY <1>1, <1>3, <3>2 DEF Precedes, HasMore
    <2>3. HasMore(answer') => answer'.next.pos < answer'.cap
      <3>1. \A l \in P : rowPos[l] < answer.cap
        BY <1>1 DEF Candidates
      <3>2. answer'.next = AtPosition(0) \/ \E l \in P : answer'.next = [pos |-> rowPos[l], id |-> l]
        BY <1>1 DEF CursorAfter
      <3>3. CASE answer'.next = AtPosition(0)
        BY <3>3 DEF HasMore, AtPosition
      <3>4. ASSUME NEW l \in P, answer'.next = [pos |-> rowPos[l], id |-> l]
            PROVE  answer'.next.pos < answer'.cap
        <4>1. answer'.next.pos = rowPos[l] /\ answer'.cap = answer.cap
          BY <1>1, <3>4
        <4>2. QED
          BY <3>1, <4>1
      <3>5. QED
        BY <3>2, <3>3, <3>4
    <2>4. QED
      BY <1>2, <2>2, <2>3 DEF PageIsFirst, HasMore, ComesAfter
  <1>6. QED
    BY <1>4, <1>5

\* A page that lands takes back nothing: what it holds of a row shown below its
\* cap is what is shown.
LEMMA LandingKeeps ==
    ASSUME TurnInv, PageIsCurrent, stage = "answered", NEW S, NEW r \in Rows,
           rowPos[r] # 0, rowPos[r] < answer.cap, got[r] = rowPos[r]
    PROVE  Landed(S)[r] = rowPos[r]
  <1>1. /\ rowPos[r] \in Nat /\ answer.cap \in Nat
        /\ answer.items[r] # 0 => \/ rowPos[r] \in {0, answer.items[r]}
                                  \/ answer.cap <= rowPos[r]
    BY DEF TurnInv, TypeOK, PullTypeOK, PageIsCurrent
  <1>2. Landed(S)[r] = IF r \in S /\ answer.items[r] # 0 THEN answer.items[r] ELSE got[r]
    BY DEF Landed
  <1>3. QED
    BY <1>1, <1>2

\* A page that lands whole brings every row of its family below its cap, and
\* before its cursor when it has one.
LEMMA LandedPage ==
    ASSUME TurnInv, PageIsCurrent, PageIsFirst, BehindIsHeld, stage = "answered",
           NEW r \in Rows, FamilyOf[r] = fam, rowPos[r] # 0, rowPos[r] < answer.cap,
           HasMore(answer) => \/ rowPos[r] < answer.next.pos
                              \/ rowPos[r] = answer.next.pos /\ r <= answer.next.id
    PROVE  Landed(Rows)[r] = rowPos[r]
  <1>1. /\ rowPos[r] \in Nat /\ r \in Nat
        /\ answer.next.pos \in Nat /\ answer.next.id \in Nat
    BY IdAssumption DEF TurnInv, TypeOK, PullTypeOK
  <1>2. CASE ComesAfter(r)
    <2>1. answer.items[r] = rowPos[r]
      BY <1>1, <1>2 DEF PageIsFirst
    <2>2. QED
      BY <2>1 DEF Landed
  <1>3. CASE ~ComesAfter(r)
    <2>1. got[r] = rowPos[r]
      BY <1>3 DEF BehindIsHeld
    <2>2. QED
      BY <2>1, LandingKeeps
  <1>4. QED
    BY <1>2, <1>3

\* A cursor leaves behind it what landed.
LEMMA LandedIsBehind ==
    ASSUME TurnInv, PageIsCurrent, PageIsFirst, BehindIsHeld, stage = "answered",
           DeliverPage
    PROVE  /\ BehindIsHeld' /\ HasMore(answer)
           /\ start' = answer.next /\ answer.next.pos < answer.cap
  <1>1. /\ HasMore(answer) /\ start' = answer.next /\ got' = Landed(Rows)
        /\ UNCHANGED <<rowPos, fam>>
    BY DEF DeliverPage, streamVars
  <1>2. /\ answer.cap \in Nat /\ answer.next.pos \in Nat /\ answer.next.id \in Nat
        /\ answer.next.pos < answer.cap
        /\ \A r \in Rows : r \in Nat /\ rowPos[r] \in Nat
    BY <1>1, IdAssumption DEF TurnInv, TypeOK, PullTypeOK, PageIsFirst
  <1>3. ASSUME NEW r \in Rows, FamilyOf[r] = fam, rowPos[r] # 0, ~ComesAfter(r)'
        PROVE  got'[r] = rowPos[r]
    <2>1. \/ rowPos[r] < answer.next.pos
          \/ rowPos[r] = answer.next.pos /\ r <= answer.next.id
      BY <1>1, <1>2, <1>3 DEF ComesAfter, HasMore
    <2>2. rowPos[r] < answer.cap
      BY <1>2, <2>1
    <2>3. QED
      BY <1>1, <1>3, <2>1, <2>2, LandedPage
  <1>4. QED
    BY <1>1, <1>2, <1>3 DEF BehindIsHeld

(***************************************************************************)
(* Whole places.                                                           *)
(***************************************************************************)

\* Whole through a place is whole through every place below it.
LEMMA WholeBelow ==
    ASSUME NEW f, NEW p \in Nat, NEW q \in Nat, q <= p, NEW limit \in Nat,
           NEW shown \in [Rows -> Nat], NEW held \in [Rows -> Nat],
           WholeIn(f, p, shown, held, limit)
    PROVE  WholeIn(f, q, shown, held, limit)
  BY DEF WholeIn

\* It stays whole while the limit only rises, the server shows nothing new below
\* it, and the puller's copies of what is shown there stay.
LEMMA WholeStays ==
    ASSUME NEW f, NEW p \in Nat, NEW limit \in Nat, NEW limit2 \in Nat, limit <= limit2,
           NEW shown \in [Rows -> Nat], NEW shown2 \in [Rows -> Nat],
           NEW held \in [Rows -> Nat], NEW held2 \in [Rows -> Nat],
           WholeIn(f, p, shown, held, limit),
           \A r \in Rows : shown2[r] \in {shown[r], 0} \/ limit <= shown2[r],
           \A r \in Rows : shown[r] # 0 /\ shown[r] < limit /\ held[r] = shown[r]
                           => held2[r] = shown[r]
    PROVE  WholeIn(f, p, shown2, held2, limit2)
  <1>1. p = 0 \/ p < limit2
    BY DEF WholeIn
  <1>2. ASSUME NEW r \in Rows, FamilyOf[r] = f, shown2[r] # 0, shown2[r] <= p
        PROVE  held2[r] = shown2[r]
    <2>1. p < limit /\ shown2[r] \in Nat /\ shown[r] \in Nat
      BY <1>2 DEF WholeIn
    <2>2. shown2[r] = shown[r]
      BY <1>2, <2>1
    <2>3. held[r] = shown[r] /\ shown[r] < limit /\ shown[r] # 0
      BY <1>2, <2>1, <2>2 DEF WholeIn
    <2>4. QED
      BY <2>2, <2>3
  <1>3. QED
    BY <1>1, <1>2 DEF WholeIn

\* Position 0 is whole: no row stands there.
LEMMA NothingIsWhole ==
    ASSUME NEW f, NEW limit, NEW shown \in [Rows -> Nat], NEW held
    PROVE  WholeIn(f, 0, shown, held, limit)
  BY DEF WholeIn

\* Where the marks stand.
LEMMA PromiseTypes ==
    ASSUME PromiseInv
    PROVE  /\ rowPos \in [Rows -> Nat] /\ got \in [Rows -> Nat]
           /\ Limit \in Nat /\ Limit <= capServed /\ capServed \in Nat
           /\ mark \in Nat /\ diskMark \in Nat /\ from \in Nat
           /\ ownMark \in Nat /\ savedMark \in Nat
           /\ through \in [Family -> Nat] /\ fam \in Family /\ 1 \in Family
           /\ start \in [pos : Nat, id : Nat] /\ answer \in Answers
           /\ TypeOK /\ PullTypeOK
  <1>1. TypeOK /\ PullTypeOK
    BY DEF PromiseInv, TurnInv
  <1>2. answer \in Answers /\ capServed \in Nat
    BY <1>1 DEF TypeOK, PullTypeOK, Answers
  <1>3. Limit \in Nat /\ Limit <= capServed
    BY <1>2 DEF Limit, PromiseInv, DeliveryInv, CapIsServed, Answers
  <1>4. QED
    BY <1>1, <1>2, <1>3, NothingRead DEF TypeOK, PullTypeOK

\* The heads of the pages are never behind: a transfer stands below the cap its
\* page was read at.
LEMMA HeadIsNotBehind ==
    ASSUME PromiseInv, stage = "answered"
    PROVE  ~FoundBehind(answer)
  <1>1. /\ answer.cap \in Nat /\ answer.cap # 0 /\ Limit = answer.cap
        /\ through[fam] \in Nat
    BY PromiseTypes DEF Answers, PromiseInv, DeliveryInv, CapIsServed, Limit
  <1>2. through[fam] = 0 \/ through[fam] < answer.cap
    BY <1>1, PromiseTypes DEF PromiseInv, DeliveryInv, MarksAreWhole, Whole, WholeIn
  <1>3. QED
    BY <1>1, <1>2 DEF FoundBehind, PageHead

LEMMA InitIsPromised == PullInit => PromiseInv
  <1> SUFFICES ASSUME PullInit PROVE PromiseInv
    OBVIOUS
  <1>1. TurnInv /\ CapInv
    BY InitIsTurn, InitIsCapped, PullInitIsStreamInit
  <1>2. /\ stage = "idle" /\ mark = 0 /\ diskMark = 0 /\ ownMark = 0 /\ savedMark = 0
        /\ behind = FALSE /\ forgotAt = 0 /\ through = [f \in Family |-> 0]
    BY DEF PullInit, Init
  <1>3. rowPos \in [Rows -> Nat]
    BY <1>1 DEF TurnInv, TypeOK
  <1>4. MarksAreWhole /\ ServedIsWhole
    BY <1>2, <1>3, NothingIsWhole DEF MarksAreWhole, ServedIsWhole, Whole
  <1>5. QED
    BY <1>1, <1>2, <1>4 DEF PromiseInv, DeliveryInv, Steady, CapIsServed, CursorIsHeld,
         PageIsCurrent, PageIsFirst

\* A step under which no place stops being whole: the limit does not fall, the
\* server shows nothing new below it, and the puller keeps what it holds there.
Keeps ==
    /\ rowPos' \in [Rows -> Nat] /\ got' \in [Rows -> Nat]
    /\ Limit' \in Nat /\ Limit <= Limit'
    /\ \A r \in Rows : rowPos'[r] \in {rowPos[r], 0} \/ Limit <= rowPos'[r]
    /\ \A r \in Rows : rowPos[r] # 0 /\ rowPos[r] < Limit /\ got[r] = rowPos[r]
                       => got'[r] = rowPos[r]

LEMMA KeepsWhole ==
    ASSUME PromiseInv, Keeps, NEW f, NEW p \in Nat, Whole(f, p)
    PROVE  WholeIn(f, p, rowPos', got', Limit')
  <1>1. /\ rowPos \in [Rows -> Nat] /\ got \in [Rows -> Nat] /\ Limit \in Nat
        /\ WholeIn(f, p, rowPos, got, Limit)
    BY PromiseTypes DEF Whole
  <1>2. QED
    BY <1>1, WholeStays DEF Keeps

\* The marks after a step that keeps what is whole: each stands where one stood,
\* or at a place that is whole now.
LEMMA PlacesStayWhole ==
    ASSUME PromiseInv, Keeps
    PROVE  /\ \A f \in Family : /\ WholeIn(f, mark, rowPos', got', Limit')
                                /\ WholeIn(f, diskMark, rowPos', got', Limit')
                                /\ WholeIn(f, through[f], rowPos', got', Limit')
           /\ WholeIn(1, ownMark, rowPos', got', Limit')
           /\ WholeIn(1, savedMark, rowPos', got', Limit')
  <1>1. ASSUME NEW f \in Family
        PROVE  /\ mark \in Nat /\ Whole(f, mark)
               /\ diskMark \in Nat /\ Whole(f, diskMark)
               /\ through[f] \in Nat /\ Whole(f, through[f])
    BY PromiseTypes DEF PromiseInv, DeliveryInv, MarksAreWhole
  <1>2. /\ ownMark \in Nat /\ Whole(1, ownMark)
        /\ savedMark \in Nat /\ Whole(1, savedMark)
    BY PromiseTypes DEF PromiseInv, DeliveryInv, ServedIsWhole
  <1>3. QED
    BY <1>1, <1>2, KeepsWhole

\* The stream's side of a step: it publishes at or above the caps, and hands out
\* none lower.
StreamMoves ==
    /\ capServed' \in Nat /\ capServed <= capServed'
    /\ rowPos' \in [Rows -> Nat]
    /\ \A r \in Rows : rowPos'[r] \in {rowPos[r], 0} \/ capServed <= rowPos'[r]

LEMMA PullStepsMoveStream ==
    ASSUME PromiseInv, [PullNext]_vars
    PROVE  StreamMoves
  <1>1. TurnInv /\ CapInv /\ HeldInv
    BY DEF PromiseInv, CapInv
  <1>2. HeldInv'
    BY <1>1, NextKeepsPulledHeld
  <1>3. [Settled!Next]_(Settled!vars)
    BY <1>1, <1>2, PullStepIsSettled
  <1>4. capServed \in Nat /\ rowPos \in [Rows -> Nat]
    BY PromiseTypes
  <1>5. CASE Settled!Publish
    BY <1>4, <1>5 DEF Settled!Publish, StreamMoves
  <1>6. CASE Settled!Settle
    BY <1>4, <1>6 DEF Settled!Settle, StreamMoves
  <1>7. CASE UNCHANGED Settled!vars
    BY <1>4, <1>7 DEF Settled!vars, StreamMoves
  <1>8. QED
    BY <1>3, <1>5, <1>6, <1>7 DEF Settled!Next

\* The server's steps, with the puller's turn where it was: its request, its page
\* and its place stay true, whatever is published or pruned.
LEMMA StreamKeepsPromise ==
    ASSUME PromiseInv, TypeOK', StreamMoves, UNCHANGED <<mark, got, turnVars>>,
           diskMark' \in {diskMark, mark},
           ownMark' \in {ownMark, savedMark}, savedMark' \in {savedMark, ownMark}
    PROVE  DeliveryInv'
  <1>1. /\ rowPos \in [Rows -> Nat] /\ got \in [Rows -> Nat] /\ Limit \in Nat
        /\ Limit <= capServed /\ capServed \in Nat
        /\ start.pos \in Nat /\ answer.cap \in Nat /\ answer.items \in [Rows -> Nat]
    BY PromiseTypes DEF Answers
  <1>2. UNCHANGED <<stage, fam, from, through, start, behind, forgotAt, answer, mark, got>>
    BY DEF turnVars
  <1>3. Limit' \in Nat /\ Limit <= Limit'
    BY <1>1, <1>2 DEF Limit, StreamMoves
  <1>4. Keeps
    BY <1>1, <1>2, <1>3 DEF Keeps, StreamMoves
  <1>5. MarksAreWhole' /\ ServedIsWhole'
    BY <1>2, <1>4, PlacesStayWhole DEF MarksAreWhole, ServedIsWhole, Whole
  <1>6. Steady' /\ CapIsServed'
    BY <1>1, <1>2 DEF PromiseInv, DeliveryInv, Steady, CapIsServed, StreamMoves
  <1>7. CursorIsHeld'
    <2> SUFFICES ASSUME stage \in {"ask", "reading", "answered"}
                 PROVE  (start.pos = 0 \/ start.pos < Limit') /\ BehindIsHeld'
      BY <1>2 DEF CursorIsHeld
    <2>1. (start.pos = 0 \/ start.pos < Limit) /\ BehindIsHeld
      BY DEF PromiseInv, DeliveryInv, CursorIsHeld
    <2>2. \A r \in Rows : rowPos'[r] \in {rowPos[r], 0} \/ start.pos < rowPos'[r]
      BY <1>1, <2>1 DEF StreamMoves
    <2>3. BehindIsHeld'
      BY <1>2, <2>1, <2>2, BehindStays DEF PromiseInv
    <2>4. QED
      BY <1>1, <1>3, <2>1, <2>3
  <1>8. PageIsCurrent' /\ PageIsFirst'
    <2>1. CASE stage # "answered"
      BY <1>2, <2>1 DEF PageIsCurrent, PageIsFirst
    <2>2. CASE stage = "answered"
      <3>1. Limit = answer.cap
        BY <2>2 DEF Limit
      <3>2. \A r \in Rows : rowPos'[r] \in {rowPos[r], 0} \/ answer.cap <= rowPos'[r]
        BY <1>1, <3>1 DEF StreamMoves
      <3>3. QED
        BY <1>2, <2>2, <3>2, PageStays DEF PromiseInv, DeliveryInv
    <2>3. QED
      BY <2>1, <2>2
  <1>9. QED
    BY <1>5, <1>6, <1>7, <1>8 DEF DeliveryInv

\* A settled cap is at or above every cap that was handed out.
LEMMA SettledCapIsAbove ==
    ASSUME CapInv, seeded, NEW c \in Caps, SettledCap(c)
    PROVE  c \in Nat \ {0} /\ capServed <= c
  <1>1. TypeOK /\ CapsAreBelowHolds /\ CapIsBelowNext
    BY DEF CapInv, HeldInv
  <1>2. NextPosition \in Nat \ {0} /\ c \in Nat
    BY <1>1, NextPositionBounds, CapsAreNumbers
  <1>3. c = NextPosition \/ \E w \in Writers : c # 0 /\ (c = hold[w] \/ c = floor[w])
    BY DEF SettledCap, OpenHolds
  <1>4. QED
    BY <1>1, <1>2, <1>3 DEF CapsAreBelowHolds, CapIsBelowNext

\* A page's cap lies above every place the turn rests on.
LEMMA CapKeepsPromise ==
    ASSUME PromiseInv, StreamMoves, ServerTakesCap
    PROVE  DeliveryInv'
  <1>1. PICK c \in Caps : /\ SettledCap(c) /\ capServed' = Max2(capServed, c)
                          /\ answer' = [NoAnswer EXCEPT !.cap = c]
    BY DEF ServerTakesCap, HandCap
  <1>2. /\ stage = "ask" /\ stage' = "reading" /\ seeded
        /\ UNCHANGED <<rowPos, mark, diskMark, ownMark, savedMark, got, fam, from, through,
                       start, behind, forgotAt>>
    BY DEF ServerTakesCap, markVars
  <1>3. c \in Nat \ {0} /\ capServed <= c
    BY <1>1, <1>2, SettledCapIsAbove DEF PromiseInv
  <1>4. answer'.cap = c
    BY <1>1 DEF NoAnswer
  <1>5. /\ rowPos \in [Rows -> Nat] /\ got \in [Rows -> Nat]
        /\ capServed \in Nat /\ start.pos \in Nat
        /\ Limit = capServed /\ Limit' = c /\ c <= capServed'
    BY <1>1, <1>2, <1>3, <1>4, PromiseTypes, MaxMinBounds DEF Limit
  <1>6. Keeps
    BY <1>2, <1>3, <1>5 DEF Keeps
  <1>7. MarksAreWhole' /\ ServedIsWhole'
    BY <1>2, <1>6, PlacesStayWhole DEF MarksAreWhole, ServedIsWhole, Whole
  <1>8. Steady' /\ CapIsServed' /\ PageIsCurrent' /\ PageIsFirst'
    BY <1>2, <1>3, <1>4, <1>5
       DEF PromiseInv, DeliveryInv, Steady, CapIsServed, PageIsCurrent, PageIsFirst
  <1>9. CursorIsHeld'
    <2>1. start.pos = 0 \/ start.pos < Limit'
      BY <1>2, <1>3, <1>5 DEF PromiseInv, DeliveryInv, CursorIsHeld
    <2>2. QED
      BY <1>2, <2>1 DEF PromiseInv, DeliveryInv, CursorIsHeld, BehindIsHeld, ComesAfter
  <1>10. QED
    BY <1>7, <1>8, <1>9 DEF DeliveryInv

\* Where a request asks from is whole: at a cursor, up to before its run.
LEMMA ServedByIsWhole ==
    ASSUME PromiseInv, stage = "reading"
    PROVE  /\ ServedBy(start) > 0 => ServedBy(start) \in Nat
           /\ ServedBy(start) > 0 => Whole(fam, ServedBy(start))
  <1>1. /\ start.pos \in Nat /\ Limit \in Nat /\ rowPos \in [Rows -> Nat]
        /\ start.pos = 0 \/ start.pos < Limit
        /\ \A r \in Rows :
              FamilyOf[r] = fam /\ rowPos[r] # 0 /\ ~ComesAfter(r) => got[r] = rowPos[r]
    BY PromiseTypes DEF PromiseInv, DeliveryInv, CursorIsHeld, BehindIsHeld
  <1>2. CASE start.id = 0
    <2>1. ServedBy(start) = start.pos
      BY <1>2 DEF ServedBy
    <2>2. \A r \in Rows : rowPos[r] <= start.pos => ~ComesAfter(r)
      BY <1>1, <1>2 DEF ComesAfter
    <2>3. QED
      BY <1>1, <2>1, <2>2 DEF Whole, WholeIn
  <1>3. CASE start.id # 0
    <2>1. ServedBy(start) = start.pos - 1
      BY <1>3 DEF ServedBy
    <2>2. \A r \in Rows : rowPos[r] <= start.pos - 1 => ~ComesAfter(r)
      BY <1>1 DEF ComesAfter
    <2>3. QED
      BY <1>1, <2>1, <2>2 DEF Whole, WholeIn
  <1>4. QED
    BY <1>2, <1>3

\* The page holds the first rows of what was asked for, and the tombstone door
\* records no more than what is whole.
LEMMA PageKeepsPromise ==
    ASSUME PromiseInv, StreamMoves, ServerReadsPage
    PROVE  DeliveryInv'
  <1>1. answer' \in Answers /\ answer'.cap = answer.cap
    BY PageRead DEF PromiseInv
  <1>2. /\ stage = "reading" /\ stage' = "answered"
        /\ UNCHANGED <<rowPos, mark, diskMark, savedMark, got, fam, from, through,
                       start, behind, forgotAt>>
    BY DEF ServerReadsPage
  <1>3. /\ rowPos \in [Rows -> Nat] /\ got \in [Rows -> Nat] /\ answer.cap \in Nat
        /\ Limit = answer.cap /\ Limit' = Limit /\ capServed \in Nat /\ capServed' \in Nat
        /\ answer.cap # 0 /\ answer.cap <= capServed /\ capServed <= capServed'
    BY <1>1, <1>2, PromiseTypes
       DEF Limit, Answers, PromiseInv, DeliveryInv, CapIsServed, StreamMoves
  <1>4. Keeps
    BY <1>2, <1>3 DEF Keeps
  <1>5. ServedIsWhole'
    <2>1. \/ UNCHANGED ownMark
          \/ /\ fam = 1 /\ ServedBy(start) > 0
             /\ \E c \in Caps : ownMark' = OwnPositionMark(ServedBy(start), c)
      BY DEF ServerReadsPage
    <2>2. ASSUME fam = 1, ServedBy(start) > 0, NEW c \in Caps,
                 ownMark' = OwnPositionMark(ServedBy(start), c)
          PROVE  WholeIn(1, ownMark', rowPos', got', Limit')
      <3>1. ServedBy(start) \in Nat /\ Whole(1, ServedBy(start))
        BY <1>2, <2>2, ServedByIsWhole
      <3>2. c \in Nat /\ ownMark \in Nat
        BY CapsAreNumbers, PromiseTypes
      <3>3. Min2(ServedBy(start), c) \in Nat /\ Min2(ServedBy(start), c) <= ServedBy(start)
        BY <3>1, <3>2, MaxMinBounds
      <3>4. Whole(1, Min2(ServedBy(start), c))
        BY <1>3, <3>1, <3>3, WholeBelow DEF Whole
      <3>5. ownMark' \in {ownMark, Min2(ServedBy(start), c)}
        BY <2>2, <3>2, <3>3, MaxMinBounds DEF OwnPositionMark
      <3>6. Whole(1, ownMark)
        BY DEF PromiseInv, DeliveryInv, ServedIsWhole
      <3>7. QED
        BY <1>4, <3>2, <3>3, <3>4, <3>5, <3>6, KeepsWhole
    <2>3. QED
      BY <1>2, <1>4, <2>1, <2>2, PlacesStayWhole DEF ServedIsWhole, Whole
  <1>6. MarksAreWhole'
    BY <1>2, <1>4, PlacesStayWhole DEF MarksAreWhole, Whole
  <1>7. Steady' /\ CapIsServed' /\ CursorIsHeld'
    BY <1>1, <1>2, <1>3
       DEF PromiseInv, DeliveryInv, Steady, CapIsServed, CursorIsHeld, BehindIsHeld,
           ComesAfter
  <1>8. PageIsCurrent' /\ PageIsFirst'
    BY ReadPageIsFirst DEF PromiseInv
  <1>9. QED
    BY <1>5, <1>6, <1>7, <1>8 DEF DeliveryInv

\* What a landed page makes its transfer complete through is whole.
LEMMA DeliveredIsWhole ==
    ASSUME PromiseInv, stage = "answered"
    PROVE  WholeIn(fam, DeliveredThrough(answer), rowPos, Landed(Rows), capServed)
  <1>1. /\ rowPos \in [Rows -> Nat] /\ got \in [Rows -> Nat] /\ capServed \in Nat
        /\ Limit = answer.cap /\ answer.cap \in Nat /\ Limit <= capServed
        /\ answer.next.pos \in Nat /\ through[fam] \in Nat
    BY PromiseTypes DEF Answers, Limit
  <1>2. /\ answer.cap # 0
        /\ HasMore(answer) => answer.next.pos < answer.cap
        /\ Whole(fam, through[fam])
        /\ TurnInv /\ PageIsCurrent /\ PageIsFirst /\ BehindIsHeld
    BY PromiseTypes
       DEF PromiseInv, DeliveryInv, CapIsServed, CursorIsHeld, PageIsFirst, MarksAreWhole
  <1>3. WholeIn(fam, through[fam], rowPos, Landed(Rows), capServed)
    <2>1. Landed(Rows) \in [Rows -> Nat]
      BY PromiseTypes, LandedType
    <2>2. \A r \in Rows : rowPos[r] # 0 /\ rowPos[r] < Limit /\ got[r] = rowPos[r]
                          => Landed(Rows)[r] = rowPos[r]
      BY <1>1, <1>2, LandingKeeps
    <2>3. Limit \in Nat /\ WholeIn(fam, through[fam], rowPos, got, Limit)
      BY <1>1, <1>2 DEF Whole
    <2>4. QED
      BY <1>1, <2>1, <2>2, <2>3, WholeStays
  <1>4. DeliveredThrough(answer) = through[fam]
        \/ DeliveredThrough(answer) = PageThrough(answer)
    BY DEF DeliveredThrough, Max2
  <1>5. ASSUME DeliveredThrough(answer) = PageThrough(answer)
        PROVE  WholeIn(fam, PageThrough(answer), rowPos, Landed(Rows), capServed)
    <2>1. PageThrough(answer) < answer.cap /\ PageThrough(answer) < capServed
      BY <1>1, <1>2 DEF PageThrough
    <2>2. ASSUME NEW r \in Rows, rowPos[r] <= PageThrough(answer)
          PROVE  /\ rowPos[r] < answer.cap
                 /\ HasMore(answer) => rowPos[r] < answer.next.pos
      BY <1>1, <1>2, <2>2 DEF PageThrough
    <2>3. \A r \in Rows : FamilyOf[r] = fam /\ rowPos[r] # 0 /\ rowPos[r] <= PageThrough(answer)
                          => Landed(Rows)[r] = rowPos[r]
      BY <1>2, <2>2, LandedPage
    <2>4. QED
      BY <2>1, <2>3 DEF WholeIn
  <1>6. QED
    BY <1>3, <1>4, <1>5

\* Landing a page, whole or in part, leaves what is whole whole.
LEMMA LandingIsKept ==
    ASSUME PromiseInv, stage = "answered", stage' \notin {"reading", "answered"},
           UNCHANGED <<rowPos, capServed>>, NEW S, got' = Landed(S)
    PROVE  Keeps /\ Limit' = capServed
  <1>1. /\ rowPos \in [Rows -> Nat] /\ capServed \in Nat /\ Limit \in Nat
        /\ Limit <= capServed /\ got' \in [Rows -> Nat] /\ Limit' = capServed
    BY PromiseTypes, LandedType DEF Limit
  <1>2. \A r \in Rows : rowPos[r] # 0 /\ rowPos[r] < Limit /\ got[r] = rowPos[r]
                        => got'[r] = rowPos[r]
    BY LandingKeeps DEF Limit, PromiseInv, DeliveryInv
  <1>3. QED
    BY <1>1, <1>2 DEF Keeps

\* A turn begins where the mark stands, in every family alike.
LEMMA StartKeepsPromise ==
    ASSUME PromiseInv, StartTurn
    PROVE  DeliveryInv'
  <1>1. /\ stage = "idle" /\ stage' = "ask" /\ fam' = 1 /\ from' = mark
        /\ through' = [f \in Family |-> IF f = 1 THEN mark ELSE 0]
        /\ start' = AtPosition(mark) /\ behind' = FALSE
        /\ UNCHANGED <<rowPos, ownMark, savedMark, capServed, mark, diskMark, got, forgotAt>>
    BY DEF StartTurn, streamVars
  <1>2. /\ rowPos \in [Rows -> Nat] /\ got \in [Rows -> Nat] /\ capServed \in Nat
        /\ Limit' = Limit /\ Limit \in Nat /\ 1 \in Family /\ mark \in Nat
    BY <1>1, PromiseTypes DEF Limit
  <1>3. Keeps
    BY <1>1, <1>2 DEF Keeps
  <1>4. \A f \in Family : WholeIn(f, through'[f], rowPos', got', Limit')
    BY <1>1, <1>2, <1>3, PlacesStayWhole, NothingIsWhole
  <1>5. MarksAreWhole' /\ ServedIsWhole'
    BY <1>1, <1>3, <1>4, PlacesStayWhole DEF MarksAreWhole, ServedIsWhole, Whole
  <1>6. WholeIn(fam', from', rowPos', got', Limit')
    BY <1>1, <1>2, <1>3, PlacesStayWhole
  <1>7. CursorIsHeld'
    BY <1>1, <1>2, <1>6 DEF CursorIsHeld, BehindIsHeld, AtPosition, WholeIn, ComesAfter
  <1>8. Steady' /\ CapIsServed' /\ PageIsCurrent' /\ PageIsFirst'
    BY <1>1 DEF PromiseInv, DeliveryInv, Steady, CapIsServed, PageIsCurrent, PageIsFirst
  <1>9. QED
    BY <1>5, <1>7, <1>8 DEF DeliveryInv

\* A page with more behind it: the cursor moves past what landed.
LEMMA DeliverKeepsPromise ==
    ASSUME PromiseInv, DeliverPage
    PROVE  DeliveryInv'
  <1>1. /\ stage = "answered" /\ stage' = "ask" /\ HasMore(answer)
        /\ got' = Landed(Rows)
        /\ through' = [through EXCEPT ![fam] = DeliveredThrough(answer)]
        /\ start' = answer.next
        /\ UNCHANGED <<rowPos, ownMark, savedMark, capServed, mark, diskMark, fam, from,
                       behind, forgotAt>>
    BY DEF DeliverPage, streamVars
  <1>2. /\ rowPos \in [Rows -> Nat] /\ capServed \in Nat
        /\ Limit = answer.cap /\ answer.cap \in Nat /\ Limit <= capServed
        /\ answer.next.pos \in Nat /\ answer.next.pos < answer.cap
    BY <1>1, PromiseTypes
       DEF Answers, Limit, PromiseInv, DeliveryInv, PageIsFirst
  <1>3. Keeps /\ Limit' = capServed
    BY <1>1, LandingIsKept
  <1>4. \A f \in Family : WholeIn(f, through'[f], rowPos', got', Limit')
    <2>1. \A f \in Family : through'[f] = IF f = fam THEN DeliveredThrough(answer)
                                                     ELSE through[f]
      BY <1>1, PromiseTypes
    <2>2. WholeIn(fam, DeliveredThrough(answer), rowPos', got', Limit')
      BY <1>1, <1>3, DeliveredIsWhole
    <2>3. QED
      BY <1>3, <2>1, <2>2, PlacesStayWhole
  <1>5. MarksAreWhole' /\ ServedIsWhole'
    BY <1>1, <1>3, <1>4, PlacesStayWhole DEF MarksAreWhole, ServedIsWhole, Whole
  <1>6. CursorIsHeld'
    <2>1. BehindIsHeld'
      BY <1>1, LandedIsBehind DEF PromiseInv, DeliveryInv, CursorIsHeld
    <2>2. start'.pos < Limit'
      BY <1>1, <1>2, <1>3
    <2>3. QED
      BY <2>1, <2>2 DEF CursorIsHeld
  <1>7. Steady' /\ CapIsServed' /\ PageIsCurrent' /\ PageIsFirst'
    BY <1>1 DEF PromiseInv, DeliveryInv, Steady, CapIsServed, PageIsCurrent, PageIsFirst
  <1>8. QED
    BY <1>5, <1>6, <1>7 DEF DeliveryInv

\* A transfer that ends at whole places hands the turn on at one.
LEMMA TransferOverKeepsPromise ==
    ASSUME PromiseInv, stage # "idle", Keeps, UNCHANGED <<diskMark, ownMark, savedMark>>,
           NEW reached \in [Family -> Nat], TransferOver(reached),
           \A f \in Family : WholeIn(f, reached[f], rowPos', got', Limit')
    PROVE  DeliveryInv'
  <1>1. behind = FALSE /\ forgotAt = 0 /\ from = mark
    BY DEF PromiseInv, DeliveryInv, Steady
  <1>2. /\ mark' = mark /\ from' = mark
        /\ stage' \in {"ask", "read"} /\ start' = AtPosition(mark)
        /\ behind' = FALSE /\ forgotAt' = 0
        /\ fam' \in {fam, fam + 1}
        /\ through' \in {reached, [reached EXCEPT ![fam + 1] = mark]}
    BY <1>1 DEF TransferOver
  <1>3. \A f \in Family : WholeIn(f, through'[f], rowPos', got', Limit')
    <2>1. \A f \in Family : through'[f] \in {reached[f], mark}
      BY <1>2
    <2>2. QED
      BY <2>1, PlacesStayWhole
  <1>4. MarksAreWhole' /\ ServedIsWhole'
    BY <1>2, <1>3, PlacesStayWhole DEF MarksAreWhole, ServedIsWhole, Whole
  <1>5. CursorIsHeld'
    <2>1. \A f \in Family : WholeIn(f, mark, rowPos', got', Limit')
      BY PlacesStayWhole
    <2>2. /\ rowPos' \in [Rows -> Nat] /\ mark \in Nat
          /\ start'.pos = mark /\ start'.id = 0
      BY <1>2, PromiseTypes DEF Keeps, AtPosition
    <2>3. mark = 0 \/ mark < Limit'
      BY <2>1, PromiseTypes DEF WholeIn
    <2>4. ASSUME NEW r \in Rows, rowPos'[r] # 0, ~ComesAfter(r)'
          PROVE  got'[r] = rowPos'[r]
      <3>1. rowPos'[r] <= mark
        BY <2>2, <2>4 DEF ComesAfter
      <3>2. FamilyOf[r] \in Family
        BY FamilyAssumption DEF Family
      <3>3. QED
        BY <2>1, <2>4, <3>1, <3>2 DEF WholeIn
    <2>5. QED
      BY <2>2, <2>3, <2>4 DEF CursorIsHeld, BehindIsHeld
  <1>6. Steady' /\ CapIsServed' /\ PageIsCurrent' /\ PageIsFirst'
    BY <1>2 DEF Steady, CapIsServed, PageIsCurrent, PageIsFirst
  <1>7. QED
    BY <1>4, <1>5, <1>6 DEF DeliveryInv

\* A turn that ends leaves the mark where it stood or at a whole place.
LEMMA TurnOverKeepsPromise ==
    ASSUME PromiseInv, TurnOver, Keeps, UNCHANGED <<diskMark, savedMark>>,
           ownMark' \in {ownMark, savedMark},
           \A f \in Family : WholeIn(f, mark', rowPos', got', Limit')
    PROVE  DeliveryInv'
  <1>1. /\ stage' = "idle" /\ behind' = FALSE /\ forgotAt' = 0
        /\ through' = [f \in Family |-> 0]
    BY DEF TurnOver
  <1>2. \A f \in Family : WholeIn(f, through'[f], rowPos', got', Limit')
    BY <1>1, NothingIsWhole DEF Keeps
  <1>3. MarksAreWhole' /\ ServedIsWhole'
    BY <1>2, PlacesStayWhole DEF MarksAreWhole, ServedIsWhole, Whole
  <1>4. QED
    BY <1>1, <1>3 DEF DeliveryInv, Steady, CapIsServed, CursorIsHeld, PageIsCurrent,
         PageIsFirst

\* The four ways a transfer ends.
LEMMA TransferEndsKeepPromise ==
    ASSUME PromiseInv, DeliverLastPage \/ StopAtPageBound \/ StopEarly \/ LandingFails
    PROVE  DeliveryInv'
  <1>1. /\ rowPos \in [Rows -> Nat] /\ got \in [Rows -> Nat] /\ Limit \in Nat
        /\ Limit <= capServed /\ capServed \in Nat /\ through \in [Family -> Nat]
        /\ PullTypeOK
    BY PromiseTypes
  <1>2. CASE DeliverLastPage
    <2> DEFINE reached == [through EXCEPT ![fam] = DeliveredThrough(answer)]
    <2>1. /\ stage = "answered" /\ TransferOver(reached) /\ got' = Landed(Rows)
          /\ UNCHANGED <<rowPos, capServed, diskMark, ownMark, savedMark>>
      BY <1>2 DEF DeliverLastPage, streamVars
    <2>2. stage' \notin {"reading", "answered"}
      BY <2>1 DEF TransferOver
    <2>3. Keeps /\ Limit' = capServed
      BY <2>1, <2>2, LandingIsKept
    <2>4. /\ reached \in [Family -> Nat] /\ reached[fam] = DeliveredThrough(answer)
          /\ \A f \in Family : f # fam => reached[f] = through[f]
      BY <1>1, LastPageReaches
    <2>5. WholeIn(fam, reached[fam], rowPos', got', Limit')
      BY <2>1, <2>3, <2>4, DeliveredIsWhole
    <2>6. \A f \in Family : WholeIn(f, reached[f], rowPos', got', Limit')
      BY <2>3, <2>4, <2>5, PlacesStayWhole
    <2> HIDE DEF reached
    <2>7. QED
      BY <2>1, <2>3, <2>4, <2>6, TransferOverKeepsPromise
  <1>3. CASE StopAtPageBound \/ StopEarly
    <2>1. /\ stage \in {"ask", "reading"} /\ TransferOver(through)
          /\ UNCHANGED <<rowPos, capServed, diskMark, ownMark, savedMark, got>>
      BY <1>3 DEF StopAtPageBound, StopEarly, streamVars
    <2>2. stage' \notin {"reading", "answered"}
      BY <2>1 DEF TransferOver
    <2>3. Keeps
      BY <1>1, <2>1, <2>2 DEF Keeps, Limit
    <2>4. QED
      BY <1>1, <2>1, <2>3, PlacesStayWhole, TransferOverKeepsPromise
  <1>4. CASE LandingFails
    <2>1. /\ stage = "answered" /\ TransferOver(through)
          /\ UNCHANGED <<rowPos, capServed, diskMark, ownMark, savedMark>>
      BY <1>4 DEF LandingFails, streamVars
    <2>2. stage' \notin {"reading", "answered"}
      BY <2>1 DEF TransferOver
    <2>3. Keeps
      BY <1>4, <2>1, <2>2, LandingIsKept DEF LandingFails
    <2>4. QED
      BY <1>1, <2>1, <2>3, PlacesStayWhole, TransferOverKeepsPromise
  <1>5. QED
    BY <1>2, <1>3, <1>4

\* The mark that a turn resolves is whole in every family (safeWatermark: the
\* least any transfer is complete through).
LEMMA ResolvedMarkIsWhole ==
    ASSUME PromiseInv, ResolveWatermark
    PROVE  \A f \in Family : Whole(f, mark')
  <1>1. /\ rowPos \in [Rows -> Nat] /\ got \in [Rows -> Nat] /\ Limit \in Nat
        /\ mark \in Nat /\ from \in Nat /\ through \in [Family -> Nat] /\ PullTypeOK
    BY PromiseTypes
  <1>2. /\ mark' \in Nat
        /\ \/ mark' = mark
           \/ \A f \in Family : mark' <= Max2(mark, Max2(from, through[f]))
    BY <1>1, ResolveIsTyped
  <1>3. from = mark
    BY DEF PromiseInv, DeliveryInv, Steady, ResolveWatermark
  <1>4. ASSUME NEW f \in Family
        PROVE  Whole(f, mark')
    <2>1. Whole(f, mark) /\ Whole(f, through[f]) /\ through[f] \in Nat
      BY <1>1 DEF PromiseInv, DeliveryInv, MarksAreWhole
    <2>2. mark' <= mark \/ mark' <= through[f]
      BY <1>1, <1>2, <1>3, <2>1 DEF Max2
    <2>3. QED
      BY <1>1, <1>2, <2>1, <2>2, WholeBelow DEF Whole
  <1>5. QED
    BY <1>4

LEMMA TurnEndsKeepPromise ==
    ASSUME PromiseInv, ResolveWatermark \/ TurnCut \/ PullerCrash
    PROVE  DeliveryInv'
  <1>1. TurnOver /\ UNCHANGED <<rowPos, capServed, ownMark, savedMark, diskMark, got>>
    BY DEF ResolveWatermark, TurnCut, PullerCrash, streamVars
  <1>2. /\ rowPos \in [Rows -> Nat] /\ got \in [Rows -> Nat] /\ Limit \in Nat
        /\ Limit <= capServed /\ capServed \in Nat /\ stage' = "idle"
    BY <1>1, PromiseTypes DEF TurnOver
  <1>3. Keeps
    BY <1>1, <1>2 DEF Keeps, Limit
  <1>4. \A f \in Family : WholeIn(f, mark', rowPos', got', Limit')
    <2>1. CASE ResolveWatermark
      <3>1. mark' \in Nat /\ \A f \in Family : Whole(f, mark')
        BY <2>1, PromiseTypes, ResolveIsTyped, ResolvedMarkIsWhole
      <3>2. QED
        BY <1>3, <3>1, KeepsWhole
    <2>2. CASE TurnCut \/ PullerCrash
      BY <1>3, <2>2, PlacesStayWhole DEF TurnCut, PullerCrash
    <2>3. QED
      BY <2>1, <2>2
  <1>5. QED
    BY <1>1, <1>3, <1>4, TurnOverKeepsPromise

\* The steps that are not the puller's turn.
LEMMA OtherStepsKeepPromise ==
    ASSUME PromiseInv, TypeOK', StreamMoves,
           \/ StreamStep /\ UNCHANGED pullVars
           \/ ServerCrash \/ PruneTombstones \/ SavePullMark \/ UNCHANGED vars
    PROVE  DeliveryInv'
  <1>1. CASE StreamStep /\ UNCHANGED pullVars
    <2>1. ownMark' = ownMark /\ savedMark' \in {savedMark, ownMark}
      BY <1>1 DEF StreamStep, WallTick, WallStepBack, Seed, Restart, SaveMark, WriterStep,
           StampWrite, StampStatement, LandRow, RemoveRow, EndWrite, BeginTxn,
           EndStatement, CommitTxn, RetryTxn, EndTxn, markVars
    <2>2. QED
      BY <1>1, <2>1, StreamKeepsPromise DEF pullVars
  <1>2. CASE ServerCrash
    <2>1. ownMark' = savedMark /\ UNCHANGED <<rowPos, savedMark, capServed>>
      BY <1>2 DEF ServerCrash, Crash
    <2>2. CASE stage = "reading"
      <3>1. TurnOver /\ UNCHANGED <<mark, diskMark, got>>
        BY <1>2, <2>2 DEF ServerCrash
      <3>2. /\ rowPos \in [Rows -> Nat] /\ got \in [Rows -> Nat] /\ Limit \in Nat
            /\ Limit <= capServed /\ capServed \in Nat /\ stage' = "idle"
        BY <3>1, PromiseTypes DEF TurnOver
      <3>3. Keeps
        BY <2>1, <3>1, <3>2 DEF Keeps, Limit
      <3>4. QED
        BY <2>1, <3>1, <3>3, PlacesStayWhole, TurnOverKeepsPromise
    <2>3. CASE stage # "reading"
      <3>1. UNCHANGED pullVars
        BY <1>2, <2>3 DEF ServerCrash
      <3>2. QED
        BY <2>1, <3>1, StreamKeepsPromise DEF pullVars
    <2>4. QED
      BY <2>2, <2>3
  <1>3. CASE PruneTombstones
    BY <1>3, StreamKeepsPromise DEF PruneTombstones, pullVars, markVars
  <1>4. CASE SavePullMark
    BY <1>4, StreamKeepsPromise DEF SavePullMark, streamVars
  <1>5. CASE UNCHANGED vars
    BY <1>5, StreamKeepsPromise DEF vars, streamVars, pullVars
  <1>6. QED
    BY <1>1, <1>2, <1>3, <1>4, <1>5

LEMMA NextKeepsPromise == PromiseInv /\ [PullNext]_vars /\ ~WallStepBack => PromiseInv'
  <1> SUFFICES ASSUME PromiseInv, [PullNext]_vars, ~WallStepBack
               PROVE  PromiseInv'
    OBVIOUS
  <1>1. TurnInv' /\ CapInv'
    BY NextKeepsTurn, NextKeepsPulledCaps DEF PromiseInv
  <1>2. StreamMoves
    BY PullStepsMoveStream
  <1>3. ~RestartBehind
    BY HeadIsNotBehind DEF RestartBehind
  <1>4. TypeOK'
    BY <1>1 DEF TurnInv
  <1>5. DeliveryInv'
    BY <1>2, <1>3, <1>4, PullCases, OtherStepsKeepPromise, CapKeepsPromise, PageKeepsPromise,
       StartKeepsPromise, DeliverKeepsPromise, TransferEndsKeepPromise, TurnEndsKeepPromise
  <1>6. QED
    BY <1>1, <1>5 DEF PromiseInv

LEMMA PromiseInvariant ==
    ASSUME MaxStepBacks = 0
    PROVE  PullSpec => []PromiseInv
  <1>1. PromiseInv /\ [PullNext]_vars => PromiseInv'
    BY NextKeepsPromise DEF PromiseInv, CapInv, WallStepBack
  <1>2. QED
    BY <1>1, InitIsPromised, PTL DEF PullSpec

\* A place that is whole in every family: nothing at or below it is missing.
LEMMA WholeMarks ==
    ASSUME PromiseInv
    PROVE  NothingSkipped /\ PrunableIsApplied /\ HonestHeadIsReached
  <1>1. \A r \in Rows : FamilyOf[r] \in Family
    BY FamilyAssumption DEF Family
  <1>2. NothingSkipped
    BY <1>1 DEF NothingSkipped, PromiseInv, DeliveryInv, MarksAreWhole, Whole, WholeIn
  <1>3. PrunableIsApplied
    <2>1. /\ rowPos \in [Rows -> Nat] /\ ownMark \in Nat
          /\ Whole(1, ownMark)
      BY PromiseTypes DEF PromiseInv, DeliveryInv, ServedIsWhole
    <2>2. QED
      BY <2>1 DEF PrunableIsApplied, TombstoneFloor, Whole, WholeIn
  <1>4. HonestHeadIsReached
    BY DEF HonestHeadIsReached, Reread, PromiseInv, DeliveryInv, Steady
  <1>5. QED
    BY <1>2, <1>3, <1>4

\* The promise of the receive mark, on a clock never set back: for any number of
\* rows, families and crashes, and however pages are cut, no row the server
\* shows at or below the mark is missing at the puller.
THEOREM MarkSkipsNothing ==
    ASSUME MaxStepBacks = 0
    PROVE  PullSpec => []NothingSkipped
  BY PromiseInvariant, WholeMarks, PTL

\* The promise of the tombstone floor: what a prune may take, the puller has
\* applied.
THEOREM PrunedIsApplied ==
    ASSUME MaxStepBacks = 0
    PROVE  PullSpec => []PrunableIsApplied
  BY PromiseInvariant, WholeMarks, PTL

\* The head guard has nothing to do: a page's head is never below where a
\* transfer stands, through writes, stops and deaths of either process.
THEOREM HonestHeadsAreReached ==
    ASSUME MaxStepBacks = 0
    PROVE  PullSpec => []HonestHeadIsReached
  BY PromiseInvariant, WholeMarks, PTL

-----------------------------------------------------------------------------
(***************************************************************************)
(* The pull implements complete delivery.                                  *)
(***************************************************************************)

\* A step moves one side: the source's rows, the puller's rows, or the mark.
LEMMA PullStepMovesOne ==
    ASSUME PromiseInv, [PullNext]_vars
    PROVE  \/ UNCHANGED <<got, mark>>
           \/ UNCHANGED <<rowPos, mark>>
           \/ UNCHANGED <<rowPos, got>>
  <1>1. behind = FALSE
    BY DEF PromiseInv, DeliveryInv, Steady
  <1>2. CASE \/ StreamStep /\ UNCHANGED pullVars
             \/ ServerCrash \/ PruneTombstones \/ SavePullMark \/ UNCHANGED vars
    BY <1>2 DEF ServerCrash, PruneTombstones, SavePullMark, vars, pullVars
  <1>3. CASE ServerTakesCap \/ ServerReadsPage \/ StartTurn \/ RestartBehind
    BY <1>3 DEF ServerTakesCap, ServerReadsPage, StartTurn, RestartBehind
  <1>4. CASE DeliverPage
    BY <1>4 DEF DeliverPage, streamVars
  <1>5. CASE DeliverLastPage \/ StopAtPageBound \/ StopEarly \/ LandingFails
    BY <1>1, <1>5
       DEF DeliverLastPage, StopAtPageBound, StopEarly, LandingFails, TransferOver, streamVars
  <1>6. CASE ResolveWatermark \/ TurnCut \/ PullerCrash
    BY <1>6 DEF ResolveWatermark, TurnCut, PullerCrash, streamVars
  <1>7. QED
    BY <1>2, <1>3, <1>4, <1>5, <1>6, PullCases

\* Rows change above the mark, land without undoing what it covers, and the mark
\* moves only to where everything at or below it is here.
LEMMA StepIsDelivery ==
    ASSUME PromiseInv, PromiseInv', NothingSkipped', [PullNext]_vars
    PROVE  [Delivery!Next]_(Delivery!vars)
  <1>1. /\ rowPos \in [Rows -> Nat] /\ mark \in Nat
        /\ Limit \in Nat /\ Limit <= capServed /\ capServed \in Nat
    BY PromiseTypes
  <1>2. got' \in [Rows -> Nat] /\ mark' \in Nat
    BY DEF PromiseInv, TurnInv, PullTypeOK
  <1>3. CASE UNCHANGED <<got, mark>>
    <2>1. StreamMoves
      BY PullStepsMoveStream
    <2>2. mark = 0 \/ mark < capServed
      <3>1. mark = 0 \/ mark < Limit
        BY <1>1, NothingRead DEF PromiseInv, DeliveryInv, MarksAreWhole, Whole, WholeIn
      <3>2. QED
        BY <1>1, <3>1
    <2>3. \A r \in Rows : rowPos'[r] \in {rowPos[r], 0} \/ mark < rowPos'[r]
      BY <1>1, <2>1, <2>2 DEF StreamMoves
    <2>4. QED
      BY <1>3, <2>1, <2>3 DEF StreamMoves, Delivery!Next, Delivery!Change
  <1>4. CASE UNCHANGED <<rowPos, mark>>
    BY <1>2, <1>4 DEF NothingSkipped, Delivery!Next, Delivery!Deliver
  <1>5. CASE UNCHANGED <<rowPos, got>>
    BY <1>2, <1>5
       DEF NothingSkipped, Delivery!Next, Delivery!MoveMark, Delivery!Complete
  <1>6. QED
    BY <1>3, <1>4, <1>5, PullStepMovesOne

LEMMA InitIsDelivered == PullInit => Delivery!Init
  <1> SUFFICES ASSUME PullInit PROVE Delivery!Init
    OBVIOUS
  <1>1. PromiseInv
    BY InitIsPromised
  <1>2. rowPos \in [Rows -> Nat] /\ got \in [Rows -> Nat] /\ mark \in Nat
    BY <1>1, PromiseTypes
  <1>3. NothingSkipped
    BY <1>1, WholeMarks
  <1>4. QED
    BY <1>2, <1>3 DEF NothingSkipped, Delivery!Init, Delivery!Complete

\* The pull, with its pages, cursors, cuts and crashes, implements complete
\* delivery, on a clock never set back: whatever the step, the one number kept of
\* a member and a space tells the truth (sync/watermark.ts).
THEOREM PullDeliversCompletely ==
    ASSUME MaxStepBacks = 0
    PROVE  PullSpec => PullIsComplete
  <1>1. PromiseInv /\ [PullNext]_vars => PromiseInv'
    BY NextKeepsPromise DEF PromiseInv, CapInv, WallStepBack
  <1>2. PromiseInv => NothingSkipped
    BY WholeMarks
  <1>3. /\ PromiseInv /\ PromiseInv' /\ NothingSkipped' /\ [PullNext]_vars
        => [Delivery!Next]_(Delivery!vars)
    BY StepIsDelivery
  <1>4. QED
    BY <1>1, <1>2, <1>3, InitIsDelivered, PromiseInvariant, PTL
       DEF PullSpec, Delivery!Spec, PullIsComplete
=============================================================================
