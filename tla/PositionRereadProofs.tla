------------------------ MODULE PositionRereadProofs ------------------------
(***************************************************************************)
(* The re-read of PositionPull, after the server's wall clock was set back *)
(* once and while no process has died: for any rows, writers, families,    *)
(* page sizes and page bounds, what the head guard has read again is       *)
(* whole.                                                                  *)
(*                                                                         *)
(* The caps handed out before the clock went back say nothing any more,    *)
(* and neither do the marks.  What the re-read rests on is what is settled *)
(* NOW: a position below the next one to be handed out and below every     *)
(* open hold stays so, and no row appears there, as long as the clock only *)
(* rises.                                                                  *)
(***************************************************************************)
EXTENDS PositionPullProofs

-----------------------------------------------------------------------------
(***************************************************************************)
(* What is settled now.                                                    *)
(***************************************************************************)

\* Nothing stands at 0; any other position is settled when the clock has passed
\* it and every open hold is above it.
SettledIn(p, isSeeded, next, holds, floors) ==
    p # 0 => /\ isSeeded
             /\ p < next
             /\ \A w \in Writers : /\ holds[w] # 0 => p < holds[w]
                                   /\ floors[w] # 0 => p < floors[w]
IsSettled(p) == SettledIn(p, seeded, NextPosition, hold, floor)

\* A step that keeps every settled position settled, and publishes above it.
KeepsSettled ==
    \A p \in Nat : IsSettled(p) =>
        /\ SettledIn(p, seeded', NextPosition', hold', floor')
        /\ \A r \in Rows : rowPos'[r] \in {rowPos[r], 0} \/ p < rowPos'[r]

\* What is below a settled position is settled.
LEMMA SettledBelow ==
    ASSUME TypeOK, NEW p \in Nat, NEW q \in Nat, q <= p, IsSettled(p)
    PROVE  IsSettled(q)
  <1>1. NextPosition \in Nat /\ hold \in [Writers -> Nat] /\ floor \in [Writers -> Nat]
    BY NextPositionBounds DEF TypeOK
  <1>2. QED
    BY <1>1 DEF IsSettled, SettledIn

\* A settled cap has everything below it settled.
LEMMA BelowCapIsSettled ==
    ASSUME HeldInv, seeded, NEW c \in Caps, SettledCap(c)
    PROVE  c \in Nat \ {0} /\ IsSettled(c - 1) /\ \A p \in Nat : IsSettled(p) => p < c
  <1>1. /\ TypeOK /\ NextPosition \in Nat \ {0}
        /\ hold \in [Writers -> Nat] /\ floor \in [Writers -> Nat]
    BY NextPositionBounds DEF HeldInv, TypeOK
  <1>2. /\ c \in Nat /\ c <= NextPosition
        /\ \A w \in Writers : /\ hold[w] # 0 => c <= hold[w]
                              /\ floor[w] # 0 => c <= floor[w]
    BY CapIsLowest
  <1>3. c = NextPosition \/ \E w \in Writers : c # 0 /\ (c = hold[w] \/ c = floor[w])
    BY DEF SettledCap, OpenHolds
  <1>4. c \in Nat \ {0}
    BY <1>1, <1>2, <1>3
  <1>5. IsSettled(c - 1)
    BY <1>1, <1>2, <1>4 DEF IsSettled, SettledIn
  <1>6. ASSUME NEW p \in Nat, IsSettled(p)
        PROVE  p < c
    BY <1>1, <1>3, <1>4, <1>6 DEF IsSettled, SettledIn
  <1>7. QED
    BY <1>4, <1>5, <1>6

\* A step that leaves the rows, moves the clock no way but up, and opens no hold
\* but at the next position, keeps what is settled.
LEMMA ForwardKeepsSettled ==
    ASSUME TypeOK, TypeOK', UNCHANGED seeded, wall <= wall', last <= last',
           \A w \in Writers :
              /\ hold'[w] \in {0, hold[w], NextPosition}
              /\ floor'[w] \in {0, floor[w], NextPosition},
           NEW p \in Nat, IsSettled(p)
    PROVE  SettledIn(p, seeded', NextPosition', hold', floor')
  <1>1. NextPosition \in Nat /\ NextPosition' \in Nat /\ NextPosition <= NextPosition'
    BY NextPositionRises
  <1>2. QED
    BY <1>1 DEF IsSettled, SettledIn

\* What is stamped is above what is settled: its writer holds it.
LEMMA StampsAreAboveSettled ==
    ASSUME HeldInv, NEW p \in Nat, IsSettled(p),
           NEW w \in Writers, NEW r \in Rows, pending[w][r] # 0
    PROVE  p < pending[w][r]
  <1>1. TypeOK /\ StampsAreFloored
    BY DEF HeldInv
  <1>2. phase[w] \in {"write", "txn", "statement"}
    BY <1>1 DEF TypeOK, Phases, NoStamps
  <1>3. pending[w][r] \in Nat /\ hold[w] \in Nat /\ floor[w] \in Nat
    BY <1>1 DEF TypeOK
  <1>4. CASE p = 0
    BY <1>3, <1>4
  <1>5. CASE p # 0 /\ phase[w] = "write"
    BY <1>1, <1>3, <1>5 DEF TypeOK, StampsAreFloored, IsSettled, SettledIn
  <1>6. CASE p # 0 /\ phase[w] \in {"txn", "statement"}
    BY <1>1, <1>3, <1>6 DEF TypeOK, StampsAreFloored, IsSettled, SettledIn
  <1>7. QED
    BY <1>2, <1>4, <1>5, <1>6

\* Rows appear with the position they were stamped, or go.
LEMMA RowsAppearStamped ==
    ASSUME NEW w \in Writers, WriterStep(w), TypeOK, NEW r \in Rows
    PROVE  \/ rowPos'[r] \in {rowPos[r], 0}
           \/ pending[w][r] # 0 /\ rowPos'[r] = pending[w][r]
  <1>1. rowPos \in [Rows -> Nat]
    BY DEF TypeOK
  <1>2. CASE \E s \in Rows : LandRow(w, s)
    BY <1>1, <1>2 DEF LandRow
  <1>3. CASE CommitTxn(w)
    BY <1>3 DEF CommitTxn
  <1>4. CASE ~(\E s \in Rows : LandRow(w, s)) /\ ~CommitTxn(w)
    BY <1>4 DEF WriterStep, StampWrite, StampStatement, RemoveRow, EndWrite, BeginTxn,
         EndStatement, RetryTxn, EndTxn
  <1>5. QED
    BY <1>2, <1>3, <1>4

\* Every step of the stream but a set back of the clock and a crash.
LEMMA StreamKeepsSettled ==
    ASSUME HeldInv, TypeOK', [Next]_streamVars, ~WallStepBack, ~Crash
    PROVE  KeepsSettled
  <1> SUFFICES ASSUME NEW p \in Nat, IsSettled(p)
               PROVE  /\ SettledIn(p, seeded', NextPosition', hold', floor')
                      /\ \A r \in Rows : rowPos'[r] \in {rowPos[r], 0} \/ p < rowPos'[r]
    BY DEF KeepsSettled
  <1>1. TypeOK /\ wall \in Nat /\ last \in Nat
    BY BoundAssumption DEF HeldInv, TypeOK
  <1>2. CASE WallTick
    BY <1>1, <1>2, ForwardKeepsSettled DEF WallTick, lifeVars, writerVars
  <1>3. CASE SaveMark \/ ReadCap \/ RecordMark \/ UNCHANGED streamVars
    <2>1. UNCHANGED <<wall, seeded, last, rowPos, hold, floor>>
      BY <1>3 DEF SaveMark, ReadCap, RecordMark, streamVars, clockVars, lifeVars, writerVars
    <2>2. QED
      BY <1>1, <2>1, ForwardKeepsSettled
  <1>4. CASE Seed \/ Restart
    <2>1. ~seeded /\ UNCHANGED rowPos
      BY <1>1, <1>4 DEF Seed, Restart, TypeOK
    <2>2. p = 0
      BY <2>1 DEF IsSettled, SettledIn
    <2>3. QED
      BY <2>1, <2>2 DEF SettledIn
  <1>5. ASSUME NEW w \in Writers, WriterStep(w)
        PROVE  /\ SettledIn(p, seeded', NextPosition', hold', floor')
               /\ \A r \in Rows : rowPos'[r] \in {rowPos[r], 0} \/ p < rowPos'[r]
    <2>1. UNCHANGED <<seeded, wall>>
      BY <1>5 DEF WriterStep, StampWrite, StampStatement, LandRow, RemoveRow, EndWrite,
           BeginTxn, EndStatement, CommitTxn, RetryTxn, EndTxn, clockVars
    <2>2. /\ last <= last'
          /\ \A v \in Writers : /\ hold'[v] \in {0, hold[v], NextPosition}
                                /\ floor'[v] \in {0, floor[v], NextPosition}
      BY <1>1, <1>5, WriterMovesHolds DEF TypeOK
    <2>3. SettledIn(p, seeded', NextPosition', hold', floor')
      BY <1>1, <2>1, <2>2, ForwardKeepsSettled
    <2>4. ASSUME NEW r \in Rows
          PROVE  rowPos'[r] \in {rowPos[r], 0} \/ p < rowPos'[r]
      <3>1. pending[w][r] # 0 => p < pending[w][r]
        BY StampsAreAboveSettled
      <3>2. QED
        BY <1>1, <1>5, <3>1, RowsAppearStamped
    <2>5. QED
      BY <2>3, <2>4
  <1>6. QED
    BY <1>2, <1>3, <1>4, <1>5 DEF Next, StreamStep

\* And every step of a puller at its doors.
LEMMA PullKeepsSettled ==
    ASSUME TurnInv, HeldInv, [PullNext]_vars, ~WallStepBack, ~Crash
    PROVE  KeepsSettled
  <1>1. TypeOK /\ TypeOK' /\ start \in [pos : Nat, id : Nat]
    BY NextKeepsTurn DEF TurnInv, PullTypeOK
  <1>2. CASE [Next]_streamVars
    BY <1>1, <1>2, StreamKeepsSettled
  <1>3. CASE ServerReadsPage \/ PruneTombstones
    <2>1. Serves
      BY <1>1, <1>3, PageServes
    <2>2. NextPosition' = NextPosition
      BY <2>1 DEF Serves, NextPosition
    <2>3. QED
      BY <2>1, <2>2 DEF Serves, KeepsSettled, IsSettled
  <1>4. QED
    BY <1>2, <1>3, StreamSees

-----------------------------------------------------------------------------
(***************************************************************************)
(* The invariant of a re-read.  A transfer that found the peer behind      *)
(* starts again from 0, where nothing is missing, and so does every        *)
(* transfer after it once the mark is forgotten; from there each one is    *)
(* complete through a place that is settled and held, and its page is cut  *)
(* below a cap above all of them.  Before the clock is set back the        *)
(* promise of the mark holds, under which no head is found behind.         *)
(***************************************************************************)
Rereads == behind \/ forgotAt # 0

HoldsIn(f, p, shown, held) ==
    \A r \in Rows :
        FamilyOf[r] = f /\ shown[r] # 0 /\ shown[r] <= p => held[r] = shown[r]

RereadsAreFirm ==
    \A f \in Reread : IsSettled(through[f]) /\ HoldsIn(f, through[f], rowPos, got)

RequestIsFirm ==
    stage \in {"ask", "reading", "answered"} => IsSettled(start.pos) /\ BehindIsHeld

PageIsSettled ==
    stage \in {"reading", "answered"} =>
        /\ answer.cap # 0 /\ IsSettled(answer.cap - 1)
        /\ \A f \in Reread : through[f] < answer.cap

RereadInv ==
    Rereads =>
        /\ stepBacks # 0
        /\ forgotAt # 0 => from = 0
        /\ RereadsAreFirm /\ RequestIsFirm
        /\ PageIsSettled /\ PageIsCurrent /\ PageIsFirst

SetbackInv ==
    /\ TurnInv /\ HeldInv
    /\ stepBacks = 0 => PromiseInv
    /\ stepBacks <= 1 /\ crashes = 0 => RereadInv

\* The transfers that are read again are families of the turn, and the one being
\* read is among them.
LEMMA RereadFamilies ==
    ASSUME TurnInv
    PROVE  /\ Reread \subseteq Family
           /\ Reread # {} => Rereads
           /\ Rereads => fam \in Reread
  <1>1. /\ fam \in Nat /\ 1 <= fam /\ fam <= Families /\ Families \in Nat
        /\ forgotAt \in 0 .. fam /\ behind \in BOOLEAN
    BY FamilyAssumption DEF TurnInv, PullTypeOK, Family
  <1>2. QED
    BY <1>1 DEF Reread, Rereads, Family

\* What a re-read rests on.
LEMMA RereadTypes ==
    ASSUME TurnInv
    PROVE  /\ rowPos \in [Rows -> Nat] /\ got \in [Rows -> Nat]
           /\ through \in [Family -> Nat] /\ fam \in Family
           /\ start.pos \in Nat /\ answer.cap \in Nat /\ from \in Nat
           /\ forgotAt \in Nat /\ behind \in BOOLEAN
           /\ answer.next.pos \in Nat /\ answer.next.id \in Nat
           /\ stepBacks \in Nat /\ crashes \in Nat
           /\ \A f \in Reread : f \in Family /\ through[f] \in Nat
  <1>1. rowPos \in [Rows -> Nat] /\ stepBacks \in Nat /\ crashes \in Nat
    BY DEF TurnInv, TypeOK
  <1>2. /\ got \in [Rows -> Nat] /\ through \in [Family -> Nat] /\ fam \in Family
        /\ start.pos \in Nat /\ answer.cap \in Nat /\ from \in Nat
        /\ forgotAt \in 0 .. fam /\ behind \in BOOLEAN
        /\ answer.next.pos \in Nat /\ answer.next.id \in Nat
    BY DEF TurnInv, PullTypeOK
  <1>3. forgotAt \in Nat
    BY <1>2, FamilyAssumption DEF Family
  <1>4. \A f \in Reread : f \in Family /\ through[f] \in Nat
    BY <1>2, RereadFamilies
  <1>5. QED
    BY <1>1, <1>2, <1>3, <1>4

\* Position 0 is settled and nothing stands there.
LEMMA NothingIsFirm ==
    ASSUME TypeOK'
    PROVE  /\ SettledIn(0, seeded', NextPosition', hold', floor')
           /\ \A f : HoldsIn(f, 0, rowPos', got')
  BY DEF SettledIn, HoldsIn, TypeOK

\* What is held through a settled place stays held when rows appear above it.
LEMMA HeldStays ==
    ASSUME TurnInv, TypeOK', KeepsSettled, UNCHANGED got,
           NEW f, NEW p \in Nat, IsSettled(p), HoldsIn(f, p, rowPos, got)
    PROVE  HoldsIn(f, p, rowPos', got')
  <1>1. \A r \in Rows : rowPos'[r] \in {rowPos[r], 0} \/ p < rowPos'[r]
    BY DEF KeepsSettled
  <1>2. \A r \in Rows : rowPos'[r] \in Nat
    BY DEF TypeOK
  <1>3. QED
    BY <1>1, <1>2 DEF HoldsIn

\* The server's steps, with the puller's turn where it was.
LEMMA StreamKeepsReread ==
    ASSUME TurnInv, TypeOK', RereadInv, KeepsSettled, stepBacks' = stepBacks,
           UNCHANGED <<got, turnVars>>
    PROVE  RereadInv'
  <1>1. UNCHANGED <<stage, fam, from, through, start, behind, forgotAt, answer, got>>
    BY DEF turnVars
  <1> SUFFICES ASSUME Rereads
               PROVE  RereadInv'
    BY <1>1 DEF RereadInv, Rereads
  <1>2. Reread' = Reread
    BY <1>1 DEF Reread
  <1>3. /\ stepBacks # 0 /\ (forgotAt # 0 => from = 0)
        /\ RereadsAreFirm /\ RequestIsFirm /\ PageIsSettled
        /\ PageIsCurrent /\ PageIsFirst
    BY DEF RereadInv
  <1>4. RereadsAreFirm'
    <2>1. ASSUME NEW f \in Reread
          PROVE  /\ SettledIn(through[f], seeded', NextPosition', hold', floor')
                 /\ HoldsIn(f, through[f], rowPos', got')
      <3>1. /\ through[f] \in Nat /\ IsSettled(through[f])
            /\ HoldsIn(f, through[f], rowPos, got)
        BY <1>3, RereadTypes DEF RereadsAreFirm
      <3>2. QED
        BY <1>1, <3>1, HeldStays DEF KeepsSettled
    <2>2. QED
      BY <1>1, <1>2, <2>1 DEF RereadsAreFirm, IsSettled
  <1>5. RequestIsFirm'
    <2>1. CASE stage \in {"ask", "reading", "answered"}
      <3>1. start.pos \in Nat /\ IsSettled(start.pos) /\ BehindIsHeld
        BY <1>3, <2>1, RereadTypes DEF RequestIsFirm
      <3>2. /\ SettledIn(start.pos, seeded', NextPosition', hold', floor')
            /\ \A r \in Rows : rowPos'[r] \in {rowPos[r], 0} \/ start.pos < rowPos'[r]
        BY <3>1 DEF KeepsSettled
      <3>3. BehindIsHeld'
        BY <1>1, <3>1, <3>2, BehindStays
      <3>4. QED
        BY <1>1, <3>2, <3>3 DEF RequestIsFirm, IsSettled
    <2>2. CASE stage \notin {"ask", "reading", "answered"}
      BY <1>1, <2>2 DEF RequestIsFirm
    <2>3. QED
      BY <2>1, <2>2
  <1>6. PageIsSettled' /\ PageIsCurrent' /\ PageIsFirst'
    <2>1. CASE stage \in {"reading", "answered"}
      <3>1. /\ answer.cap \in Nat /\ answer.cap # 0 /\ IsSettled(answer.cap - 1)
            /\ \A f \in Reread : through[f] < answer.cap
        BY <1>3, <2>1, RereadTypes DEF PageIsSettled
      <3>2. /\ SettledIn(answer.cap - 1, seeded', NextPosition', hold', floor')
            /\ \A r \in Rows : rowPos'[r] \in {rowPos[r], 0} \/ answer.cap - 1 < rowPos'[r]
        BY <3>1 DEF KeepsSettled
      <3>3. PageIsSettled'
        BY <1>1, <1>2, <3>1, <3>2 DEF PageIsSettled, IsSettled
      <3>4. \A r \in Rows : rowPos'[r] \in {rowPos[r], 0} \/ answer.cap <= rowPos'[r]
        BY <3>1, <3>2 DEF TypeOK
      <3>5. CASE stage = "answered"
        BY <1>1, <1>3, <3>3, <3>4, <3>5, PageStays
      <3>6. CASE stage # "answered"
        BY <1>1, <3>3, <3>6 DEF PageIsCurrent, PageIsFirst
      <3>7. QED
        BY <3>5, <3>6
    <2>2. CASE stage \notin {"reading", "answered"}
      BY <1>1, <2>2 DEF PageIsSettled, PageIsCurrent, PageIsFirst
    <2>3. QED
      BY <2>1, <2>2
  <1>7. QED
    BY <1>1, <1>3, <1>4, <1>5, <1>6 DEF RereadInv

\* A page's cap is above every place that is settled, those of the re-read among
\* them.
LEMMA CapKeepsReread ==
    ASSUME TurnInv, HeldInv, RereadInv, ServerTakesCap
    PROVE  RereadInv'
  <1>1. PICK c \in Caps : SettledCap(c) /\ answer' = [NoAnswer EXCEPT !.cap = c]
    BY DEF ServerTakesCap, HandCap
  <1>2. /\ stage = "ask" /\ stage' = "reading" /\ seeded
        /\ UNCHANGED <<wall, stepBacks, seeded, last, rowPos, hold, floor, got, fam, from,
                       through, start, behind, forgotAt>>
    BY DEF ServerTakesCap, clockVars, writerVars
  <1> SUFFICES ASSUME Rereads
               PROVE  RereadInv'
    BY <1>2 DEF RereadInv, Rereads
  <1>3. Reread' = Reread /\ NextPosition' = NextPosition
    BY <1>2 DEF Reread, NextPosition
  <1>4. /\ stepBacks # 0 /\ (forgotAt # 0 => from = 0)
        /\ RereadsAreFirm /\ RequestIsFirm
    BY DEF RereadInv
  <1>5. c \in Nat \ {0} /\ IsSettled(c - 1) /\ \A p \in Nat : IsSettled(p) => p < c
    BY <1>1, <1>2, BelowCapIsSettled
  <1>6. answer'.cap = c
    BY <1>1 DEF NoAnswer
  <1>7. \A f \in Reread : through[f] < c
    BY <1>4, <1>5, RereadTypes DEF RereadsAreFirm
  <1>8. PageIsSettled'
    BY <1>2, <1>3, <1>5, <1>6, <1>7 DEF PageIsSettled, IsSettled
  <1>9. RereadsAreFirm' /\ RequestIsFirm'
    BY <1>2, <1>3, <1>4
       DEF RereadsAreFirm, RequestIsFirm, IsSettled, BehindIsHeld, ComesAfter
  <1>10. PageIsCurrent' /\ PageIsFirst'
    BY <1>2 DEF PageIsCurrent, PageIsFirst
  <1>11. QED
    BY <1>2, <1>4, <1>8, <1>9, <1>10 DEF RereadInv

\* The page holds the first rows of what was asked for.
LEMMA PageKeepsReread ==
    ASSUME TurnInv, RereadInv, ServerReadsPage
    PROVE  RereadInv'
  <1>1. answer'.cap = answer.cap
    BY PageRead
  <1>2. /\ stage = "reading" /\ stage' = "answered"
        /\ UNCHANGED <<wall, stepBacks, seeded, last, rowPos, hold, floor, got, fam, from,
                       through, start, behind, forgotAt>>
    BY DEF ServerReadsPage, clockVars, writerVars
  <1> SUFFICES ASSUME Rereads
               PROVE  RereadInv'
    BY <1>2 DEF RereadInv, Rereads
  <1>3. Reread' = Reread /\ NextPosition' = NextPosition
    BY <1>2 DEF Reread, NextPosition
  <1>4. /\ stepBacks # 0 /\ (forgotAt # 0 => from = 0)
        /\ RereadsAreFirm /\ RequestIsFirm /\ PageIsSettled
    BY DEF RereadInv
  <1>5. RereadsAreFirm' /\ RequestIsFirm' /\ PageIsSettled'
    BY <1>1, <1>2, <1>3, <1>4
       DEF RereadsAreFirm, RequestIsFirm, PageIsSettled, IsSettled, BehindIsHeld, ComesAfter
  <1>6. PageIsCurrent' /\ PageIsFirst'
    BY ReadPageIsFirst
  <1>7. QED
    BY <1>2, <1>4, <1>5, <1>6 DEF RereadInv

\* A page that lands, whole or in part, takes back nothing of a re-read: it was
\* cut above every place the re-read is complete through.
LEMMA LandingKeepsReread ==
    ASSUME TurnInv, RereadInv, Rereads, stage = "answered", NEW S, NEW f \in Reread
    PROVE  HoldsIn(f, through[f], rowPos, Landed(S))
  <1>1. /\ RereadsAreFirm /\ PageIsSettled /\ PageIsCurrent
        /\ through[f] \in Nat /\ answer.cap \in Nat /\ rowPos \in [Rows -> Nat]
    BY RereadTypes DEF RereadInv
  <1>2. through[f] < answer.cap /\ HoldsIn(f, through[f], rowPos, got)
    BY <1>1 DEF RereadsAreFirm, PageIsSettled
  <1>3. ASSUME NEW r \in Rows, FamilyOf[r] = f, rowPos[r] # 0, rowPos[r] <= through[f]
        PROVE  Landed(S)[r] = rowPos[r]
    <2>1. rowPos[r] < answer.cap /\ got[r] = rowPos[r]
      BY <1>1, <1>2, <1>3 DEF HoldsIn
    <2>2. QED
      BY <1>1, <1>3, <2>1, LandingKeeps
  <1>4. QED
    BY <1>3 DEF HoldsIn

\* What a landed page makes its transfer complete through is settled and held.
LEMMA DeliveredIsFirm ==
    ASSUME TurnInv, RereadInv, Rereads, stage = "answered"
    PROVE  /\ IsSettled(DeliveredThrough(answer))
           /\ HoldsIn(fam, DeliveredThrough(answer), rowPos, Landed(Rows))
  <1>1. /\ fam \in Reread /\ through[fam] \in Nat /\ answer.cap \in Nat
        /\ answer.next.pos \in Nat /\ rowPos \in [Rows -> Nat]
    BY RereadFamilies, RereadTypes
  <1>2. /\ RereadsAreFirm /\ PageIsSettled /\ PageIsCurrent /\ PageIsFirst
        /\ BehindIsHeld
    BY DEF RereadInv, RequestIsFirm
  <1>3. /\ answer.cap # 0 /\ IsSettled(answer.cap - 1)
        /\ HasMore(answer) => answer.next.pos < answer.cap
    BY <1>2 DEF PageIsSettled, PageIsFirst
  <1>4. CASE DeliveredThrough(answer) = through[fam]
    <2>1. IsSettled(through[fam]) /\ HoldsIn(fam, through[fam], rowPos, Landed(Rows))
      BY <1>1, <1>2, LandingKeepsReread DEF RereadsAreFirm
    <2>2. QED
      BY <1>4, <2>1
  <1>5. CASE DeliveredThrough(answer) # through[fam]
    <2>1. /\ DeliveredThrough(answer) = PageThrough(answer)
          /\ PageThrough(answer) \in Nat /\ PageThrough(answer) <= answer.cap - 1
      BY <1>1, <1>3, <1>5 DEF DeliveredThrough, Max2, PageThrough
    <2>2. IsSettled(PageThrough(answer))
      BY <1>1, <1>3, <2>1, SettledBelow DEF TurnInv
    <2>3. ASSUME NEW r \in Rows, rowPos[r] <= PageThrough(answer)
          PROVE  rowPos[r] < answer.cap /\ (HasMore(answer) => rowPos[r] < answer.next.pos)
      BY <1>1, <1>3, <2>1, <2>3 DEF PageThrough
    <2>4. HoldsIn(fam, PageThrough(answer), rowPos, Landed(Rows))
      BY <1>2, <2>3, LandedPage DEF HoldsIn
    <2>5. QED
      BY <2>1, <2>2, <2>4
  <1>6. QED
    BY <1>4, <1>5

\* The puller's own steps leave what is settled where it is.
LEMMA PullerLeavesSettled ==
    ASSUME UNCHANGED streamVars
    PROVE  /\ UNCHANGED <<rowPos, stepBacks, seeded, hold, floor>>
           /\ NextPosition' = NextPosition
  BY DEF streamVars, NextPosition

\* The cursor is followed past what landed.
LEMMA DeliverKeepsReread ==
    ASSUME TurnInv, RereadInv, DeliverPage
    PROVE  RereadInv'
  <1>1. /\ stage = "answered" /\ stage' = "ask"
        /\ got' = Landed(Rows)
        /\ through' = [through EXCEPT ![fam] = DeliveredThrough(answer)]
        /\ UNCHANGED <<fam, from, behind, forgotAt>>
        /\ UNCHANGED <<rowPos, stepBacks, seeded, hold, floor>>
        /\ NextPosition' = NextPosition
    BY PullerLeavesSettled DEF DeliverPage
  <1> SUFFICES ASSUME Rereads
               PROVE  RereadInv'
    BY <1>1 DEF RereadInv, Rereads
  <1>2. Reread' = Reread
    BY <1>1 DEF Reread
  <1>3. /\ stepBacks # 0 /\ (forgotAt # 0 => from = 0)
        /\ RereadsAreFirm /\ PageIsSettled /\ PageIsCurrent /\ PageIsFirst /\ BehindIsHeld
    BY <1>1 DEF RereadInv, RequestIsFirm
  <1>4. RereadsAreFirm'
    <2>1. ASSUME NEW f \in Reread
          PROVE  IsSettled(through'[f]) /\ HoldsIn(f, through'[f], rowPos, Landed(Rows))
      <3>1. through'[f] = IF f = fam THEN DeliveredThrough(answer) ELSE through[f]
        BY <1>1, RereadTypes
      <3>2. CASE f = fam
        BY <1>1, <3>1, <3>2, DeliveredIsFirm
      <3>3. CASE f # fam
        BY <1>1, <1>3, <3>1, <3>3, LandingKeepsReread DEF RereadsAreFirm
      <3>4. QED
        BY <3>2, <3>3
    <2>2. QED
      BY <1>1, <1>2, <2>1 DEF RereadsAreFirm, IsSettled
  <1>5. RequestIsFirm'
    <2>1. /\ BehindIsHeld' /\ start' = answer.next /\ answer.next.pos < answer.cap
      BY <1>1, <1>3, LandedIsBehind
    <2>2. /\ answer.next.pos \in Nat /\ answer.cap - 1 \in Nat
          /\ answer.next.pos <= answer.cap - 1 /\ IsSettled(answer.cap - 1)
      BY <1>1, <1>3, <2>1, RereadTypes DEF PageIsSettled
    <2>3. IsSettled(answer.next.pos)
      BY <2>2, SettledBelow DEF TurnInv
    <2>4. QED
      BY <1>1, <2>1, <2>3 DEF RequestIsFirm, IsSettled
  <1>6. PageIsSettled' /\ PageIsCurrent' /\ PageIsFirst'
    BY <1>1 DEF PageIsSettled, PageIsCurrent, PageIsFirst
  <1>7. QED
    BY <1>1, <1>3, <1>4, <1>5, <1>6 DEF RereadInv

\* A transfer that found the peer behind starts again from 0.
LEMMA RestartBeginsReread ==
    ASSUME TurnInv, TypeOK', RereadInv, stepBacks # 0, RestartBehind
    PROVE  RereadInv'
  <1>1. /\ stage' = "ask" /\ behind' = TRUE
        /\ through' = [through EXCEPT ![fam] = 0] /\ start' = AtPosition(0)
        /\ UNCHANGED <<got, fam, from, forgotAt>>
        /\ UNCHANGED <<rowPos, stepBacks, seeded, hold, floor>>
        /\ NextPosition' = NextPosition
    BY PullerLeavesSettled DEF RestartBehind, RereadFrom
  <1>2. forgotAt # 0 => from = 0
    BY DEF RereadInv, Rereads
  <1>3. ASSUME NEW f \in Reread'
        PROVE  /\ SettledIn(through'[f], seeded', NextPosition', hold', floor')
               /\ HoldsIn(f, through'[f], rowPos', got')
    <2>1. f = fam \/ (f # fam /\ Rereads /\ f \in Reread)
      BY <1>1 DEF Reread, Rereads
    <2>2. f \in Family /\ fam \in Family /\ through \in [Family -> Nat]
      BY <2>1, RereadTypes
    <2>3. CASE f = fam
      <3>1. through'[f] = 0
        BY <1>1, <2>2, <2>3
      <3>2. QED
        BY <3>1, NothingIsFirm
    <2>4. CASE f # fam /\ Rereads /\ f \in Reread
      <3>1. through'[f] = through[f]
        BY <1>1, <2>2, <2>4
      <3>2. IsSettled(through[f]) /\ HoldsIn(f, through[f], rowPos, got)
        BY <2>4 DEF RereadInv, RereadsAreFirm
      <3>3. QED
        BY <1>1, <3>1, <3>2 DEF IsSettled
    <2>5. QED
      BY <2>1, <2>3, <2>4
  <1>4. RereadsAreFirm'
    BY <1>3 DEF RereadsAreFirm, IsSettled
  <1>5. RequestIsFirm'
    BY <1>1, NothingIsBehind, NothingIsFirm DEF RequestIsFirm, IsSettled, AtPosition
  <1>6. PageIsSettled' /\ PageIsCurrent' /\ PageIsFirst'
    BY <1>1 DEF PageIsSettled, PageIsCurrent, PageIsFirst
  <1>7. QED
    BY <1>1, <1>2, <1>4, <1>5, <1>6 DEF RereadInv

\* A transfer of a re-read that ends, wherever it is complete through, hands on
\* a turn that reads from 0.
LEMMA TransferOverKeepsReread ==
    ASSUME TurnInv, TypeOK', RereadInv, UNCHANGED streamVars,
           NEW reached \in [Family -> Nat], TransferOver(reached),
           Rereads => \A f \in Reread : IsSettled(reached[f])
                                        /\ HoldsIn(f, reached[f], rowPos, got')
    PROVE  RereadInv'
  <1> DEFINE forgets == behind /\ from # 0
             since   == IF forgets THEN 0 ELSE from
             more    == fam < Families
  <1>1. /\ behind' = FALSE /\ from' = since
        /\ fam' = (IF more THEN fam + 1 ELSE fam)
        /\ stage' = (IF more THEN "ask" ELSE "read")
        /\ through' = (IF more THEN [reached EXCEPT ![fam + 1] = since] ELSE reached)
        /\ start' = AtPosition(since)
        /\ forgotAt' = (IF forgets THEN fam ELSE forgotAt)
    BY DEF TransferOver
  <1>2. /\ UNCHANGED <<rowPos, stepBacks, seeded, hold, floor>>
        /\ NextPosition' = NextPosition
    BY PullerLeavesSettled
  <1> SUFFICES ASSUME forgotAt' # 0
               PROVE  RereadInv'
    BY <1>1 DEF RereadInv, Rereads
  <1>3. /\ Rereads /\ since = 0
        /\ forgotAt' = fam \/ (forgotAt # 0 /\ forgotAt' = forgotAt)
        /\ forgotAt' = fam => fam \in Reread
    <2>1. CASE forgets
      BY <1>1, <2>1 DEF Rereads, Reread
    <2>2. CASE ~forgets
      <3>1. forgotAt # 0 /\ forgotAt' = forgotAt /\ since = from
        BY <1>1, <2>2
      <3>2. Rereads
        BY <3>1 DEF Rereads
      <3>3. from = 0
        BY <3>1, <3>2 DEF RereadInv
      <3>4. fam \in Reread
        BY <3>2, RereadFamilies
      <3>5. QED
        BY <3>1, <3>2, <3>3, <3>4
    <2>3. QED
      BY <2>1, <2>2
  <1>4. stepBacks # 0
    BY <1>3 DEF RereadInv
  <1> HIDE DEF since, forgets
  <1>5. /\ fam \in Nat /\ 1 <= fam /\ fam <= Families /\ Families \in Nat
        /\ forgotAt \in Nat
    BY FamilyAssumption, RereadTypes DEF Family
  <1>6. ASSUME NEW f \in Reread'
        PROVE  \/ more /\ f = fam + 1 /\ through'[f] = 0
               \/ f \in Reread /\ through'[f] = reached[f]
    <2>1. f \in forgotAt' .. fam'
      BY <1>1 DEF Reread
    <2>2. CASE more /\ f = fam + 1
      <3>1. fam + 1 \in Family
        BY <1>5, <2>2 DEF Family
      <3>2. QED
        BY <1>1, <1>3, <2>2, <3>1
    <2>3. CASE ~(more /\ f = fam + 1)
      <3>1. f \in forgotAt' .. fam
        BY <1>1, <1>3, <1>5, <2>1, <2>3
      <3>2. f \in Reread
        <4>1. CASE forgotAt' = fam
          <5>1. f = fam
            BY <1>5, <3>1, <4>1
          <5>2. QED
            BY <1>3, <4>1, <5>1
        <4>2. CASE forgotAt # 0 /\ forgotAt' = forgotAt
          BY <3>1, <4>2 DEF Reread
        <4>3. QED
          BY <1>3, <4>1, <4>2
      <3>3. f \in Family
        BY <3>2, RereadTypes
      <3>4. through'[f] = reached[f]
        BY <1>1, <1>5, <2>3, <3>3
      <3>5. QED
        BY <3>2, <3>4
    <2>4. QED
      BY <2>2, <2>3
  <1>7. RereadsAreFirm'
    <2>1. ASSUME NEW f \in Reread'
          PROVE  /\ SettledIn(through'[f], seeded', NextPosition', hold', floor')
                 /\ HoldsIn(f, through'[f], rowPos', got')
      <3>1. CASE through'[f] = 0
        BY <3>1, NothingIsFirm
      <3>2. CASE f \in Reread /\ through'[f] = reached[f]
        <4>1. IsSettled(reached[f]) /\ HoldsIn(f, reached[f], rowPos, got')
          BY <1>3, <3>2
        <4>2. QED
          BY <1>2, <3>2, <4>1 DEF IsSettled
      <3>3. QED
        BY <1>6, <2>1, <3>1, <3>2
    <2>2. QED
      BY <2>1 DEF RereadsAreFirm, IsSettled
  <1>8. RequestIsFirm'
    <2>1. start' = AtPosition(0)
      BY <1>1, <1>3
    <2>2. QED
      BY <2>1, NothingIsBehind, NothingIsFirm DEF RequestIsFirm, IsSettled, AtPosition
  <1>9. PageIsSettled' /\ PageIsCurrent' /\ PageIsFirst'
    BY <1>1 DEF PageIsSettled, PageIsCurrent, PageIsFirst
  <1>10. from' = 0
    BY <1>1, <1>3
  <1>11. QED
    BY <1>2, <1>4, <1>7, <1>8, <1>9, <1>10 DEF RereadInv

\* The four ways a transfer ends.
LEMMA TransferEndsKeepReread ==
    ASSUME TurnInv, TypeOK', RereadInv,
           DeliverLastPage \/ StopAtPageBound \/ StopEarly \/ LandingFails
    PROVE  RereadInv'
  <1>1. through \in [Family -> Nat] /\ PullTypeOK
    BY RereadTypes DEF TurnInv
  <1>2. Rereads => RereadsAreFirm
    BY DEF RereadInv
  <1>3. CASE DeliverLastPage
    <2> DEFINE reached == [through EXCEPT ![fam] = DeliveredThrough(answer)]
    <2>1. /\ stage = "answered" /\ TransferOver(reached) /\ got' = Landed(Rows)
          /\ UNCHANGED streamVars
      BY <1>3 DEF DeliverLastPage
    <2>2. /\ reached \in [Family -> Nat] /\ reached[fam] = DeliveredThrough(answer)
          /\ \A f \in Family : f # fam => reached[f] = through[f]
      BY <1>1, LastPageReaches
    <2> HIDE DEF reached
    <2>3. ASSUME Rereads, NEW f \in Reread
          PROVE  IsSettled(reached[f]) /\ HoldsIn(f, reached[f], rowPos, got')
      <3>1. CASE f = fam
        BY <2>1, <2>2, <2>3, <3>1, DeliveredIsFirm
      <3>2. CASE f # fam
        <4>1. reached[f] = through[f]
          BY <2>2, <2>3, <3>2, RereadTypes
        <4>2. QED
          BY <1>2, <2>1, <2>3, <4>1, LandingKeepsReread DEF RereadsAreFirm
      <3>3. QED
        BY <3>1, <3>2
    <2>4. QED
      BY <2>1, <2>2, <2>3, TransferOverKeepsReread
  <1>4. CASE StopAtPageBound \/ StopEarly
    <2>1. TransferOver(through) /\ UNCHANGED <<streamVars, got>>
      BY <1>4 DEF StopAtPageBound, StopEarly
    <2>2. Rereads => \A f \in Reread : IsSettled(through[f])
                                       /\ HoldsIn(f, through[f], rowPos, got')
      BY <1>2, <2>1 DEF RereadsAreFirm
    <2>3. QED
      BY <1>1, <2>1, <2>2, TransferOverKeepsReread
  <1>5. CASE LandingFails
    <2>1. stage = "answered" /\ TransferOver(through) /\ UNCHANGED streamVars
      BY <1>5 DEF LandingFails
    <2>2. PICK S \in SUBSET Rows : got' = Landed(S)
      BY <1>5 DEF LandingFails
    <2>3. Rereads => \A f \in Reread : IsSettled(through[f])
                                       /\ HoldsIn(f, through[f], rowPos, got')
      BY <1>2, <2>1, <2>2, LandingKeepsReread DEF RereadsAreFirm
    <2>4. QED
      BY <1>1, <2>1, <2>3, TransferOverKeepsReread
  <1>6. QED
    BY <1>3, <1>4, <1>5

\* A turn that begins, or is over, reads nothing again.
LEMMA TurnEndsEndReread ==
    ASSUME TurnInv, StartTurn \/ ResolveWatermark \/ TurnCut \/ PullerCrash
    PROVE  RereadInv'
  <1>1. behind' = FALSE /\ forgotAt' = 0
    BY DEF TurnInv, PullTypeOK, StartTurn, ResolveWatermark, TurnCut, PullerCrash, TurnOver
  <1>2. QED
    BY <1>1 DEF RereadInv, Rereads

\* What a step does to the count of set backs and of deaths.
LEMMA FaultsAreCounted ==
    ASSUME TurnInv, [PullNext]_vars
    PROVE  /\ \/ stepBacks' = stepBacks /\ ~WallStepBack
              \/ /\ stepBacks' = stepBacks + 1
                 /\ WallStepBack /\ UNCHANGED <<crashes, pullVars>>
           /\ \/ crashes' = crashes /\ ~Crash
              \/ crashes' = crashes + 1
  <1>1. stepBacks \in Nat /\ crashes \in Nat
    BY RereadTypes
  <1>2. CASE ServerCrash
    BY <1>1, <1>2 DEF ServerCrash, Crash, WallStepBack, clockVars
  <1>3. CASE StreamStep /\ UNCHANGED pullVars
    <2>1. CASE WallStepBack
      BY <1>1, <1>3, <2>1 DEF WallStepBack, Crash, lifeVars
    <2>2. CASE ~WallStepBack
      <3>1. UNCHANGED <<stepBacks, crashes>>
        BY <1>3, <2>2 DEF StreamStep, WallTick, Seed, Restart, SaveMark, WriterStep,
             StampWrite, StampStatement, LandRow, RemoveRow, EndWrite, BeginTxn,
             EndStatement, CommitTxn, RetryTxn, EndTxn, clockVars, lifeVars
      <3>2. QED
        BY <1>1, <2>2, <3>1 DEF Crash
    <2>3. QED
      BY <2>1, <2>2
  <1>4. CASE PruneTombstones \/ SavePullMark \/ UNCHANGED vars
             \/ ServerTakesCap \/ ServerReadsPage
             \/ StartTurn \/ RestartBehind \/ DeliverPage
             \/ DeliverLastPage \/ StopAtPageBound \/ StopEarly \/ LandingFails
             \/ ResolveWatermark \/ TurnCut \/ PullerCrash
    <2>1. UNCHANGED <<stepBacks, crashes>>
      BY <1>4 DEF PruneTombstones, SavePullMark, vars, ServerTakesCap, ServerReadsPage,
           StartTurn, RestartBehind, DeliverPage, DeliverLastPage, StopAtPageBound,
           StopEarly, LandingFails, ResolveWatermark, TurnCut, PullerCrash, streamVars,
           clockVars, lifeVars
    <2>2. QED
      BY <1>1, <2>1 DEF WallStepBack, Crash
  <1>5. QED
    BY <1>2, <1>3, <1>4, PullCases

\* Every step, with no set back but the first and no death.
LEMMA NextKeepsReread ==
    ASSUME SetbackInv, TurnInv', [PullNext]_vars, stepBacks' <= 1, crashes' = 0
    PROVE  RereadInv'
  <1>1. TurnInv /\ HeldInv /\ TypeOK' /\ stepBacks \in Nat /\ crashes \in Nat
    BY RereadTypes DEF SetbackInv, TurnInv
  <1>2. /\ ~Crash /\ stepBacks <= 1 /\ RereadInv
        /\ \/ stepBacks' = stepBacks /\ ~WallStepBack
           \/ stepBacks = 0 /\ WallStepBack /\ UNCHANGED pullVars
    BY <1>1, FaultsAreCounted DEF SetbackInv
  <1>3. CASE stepBacks = 0 /\ WallStepBack /\ UNCHANGED pullVars
    <2>1. behind' = FALSE /\ forgotAt' = 0
      BY <1>3 DEF SetbackInv, PromiseInv, DeliveryInv, Steady, TurnInv, PullTypeOK,
           pullVars, turnVars
    <2>2. QED
      BY <2>1 DEF RereadInv, Rereads
  <1>4. CASE stepBacks' = stepBacks /\ ~WallStepBack
    <2>1. KeepsSettled
      BY <1>1, <1>2, <1>4, PullKeepsSettled
    <2>2. CASE \/ StreamStep /\ UNCHANGED pullVars
               \/ PruneTombstones \/ SavePullMark \/ UNCHANGED vars
      <3>1. UNCHANGED <<got, turnVars>>
        BY <2>2 DEF PruneTombstones, SavePullMark, vars, pullVars
      <3>2. QED
        BY <1>1, <1>2, <1>4, <2>1, <3>1, StreamKeepsReread
    <2>3. ~ServerCrash
      BY <1>2 DEF ServerCrash
    <2>4. CASE ServerTakesCap \/ ServerReadsPage
      BY <1>1, <1>2, <2>4, CapKeepsReread, PageKeepsReread
    <2>5. CASE RestartBehind
      <3>1. stepBacks # 0
        BY <2>5, HeadIsNotBehind DEF SetbackInv, RestartBehind
      <3>2. QED
        BY <1>1, <1>2, <2>5, <3>1, RestartBeginsReread
    <2>6. CASE DeliverPage
      BY <1>1, <1>2, <2>6, DeliverKeepsReread
    <2>7. CASE DeliverLastPage \/ StopAtPageBound \/ StopEarly \/ LandingFails
      BY <1>1, <1>2, <2>7, TransferEndsKeepReread
    <2>8. CASE StartTurn \/ ResolveWatermark \/ TurnCut \/ PullerCrash
      BY <1>1, <2>8, TurnEndsEndReread
    <2>9. QED
      BY <2>2, <2>3, <2>4, <2>5, <2>6, <2>7, <2>8, PullCases
  <1>5. QED
    BY <1>2, <1>3, <1>4

LEMMA NextKeepsSetback == SetbackInv /\ [PullNext]_vars => SetbackInv'
  <1> SUFFICES ASSUME SetbackInv, [PullNext]_vars
               PROVE  SetbackInv'
    OBVIOUS
  <1>1. TurnInv' /\ HeldInv' /\ TurnInv
    BY NextKeepsTurn, NextKeepsPulledHeld DEF SetbackInv
  <1>2. stepBacks' = 0 => PromiseInv'
    <2>1. stepBacks' = 0 => stepBacks = 0 /\ ~WallStepBack
      BY <1>1, RereadTypes, FaultsAreCounted
    <2>2. QED
      BY <2>1, NextKeepsPromise DEF SetbackInv
  <1>3. stepBacks' <= 1 /\ crashes' = 0 => RereadInv'
    BY <1>1, NextKeepsReread
  <1>4. QED
    BY <1>1, <1>2, <1>3 DEF SetbackInv

LEMMA InitIsSetback == PullInit => SetbackInv
  <1> SUFFICES ASSUME PullInit PROVE SetbackInv
    OBVIOUS
  <1>1. PromiseInv /\ behind = FALSE /\ forgotAt = 0
    BY InitIsPromised DEF PullInit
  <1>2. QED
    BY <1>1 DEF SetbackInv, PromiseInv, CapInv, RereadInv, Rereads

\* Once the server's wall clock was set back, with no process dead since the
\* start, what a transfer has read again is whole through where it says it is
\* complete: the restart at 0 (pagePositionRuns) brings the rows that were
\* stamped where the mark already stood.
THEOREM TransfersReadAgainAreWhole ==
    PullSpec => [](stepBacks <= 1 /\ crashes = 0 => RereadIsWhole)
  <1>1. SetbackInv => (stepBacks <= 1 /\ crashes = 0 => RereadIsWhole)
    BY RereadFamilies
       DEF SetbackInv, RereadInv, RereadsAreFirm, HoldsIn, RereadIsWhole, HoldsThrough
  <1>2. QED
    BY <1>1, InitIsSetback, NextKeepsSetback, PTL DEF PullSpec
=============================================================================
