------------------------- MODULE PositionPushProofs -------------------------
(***************************************************************************)
(* Theorems about PositionPush, for any rows, families, page sizes and     *)
(* positions, and any number of turns, crashes and re-reads: its type,     *)
(* the promise of the push mark, and the promise of a full re-read.        *)
(***************************************************************************)
EXTENDS PositionPush, TLAPS

-----------------------------------------------------------------------------
(***************************************************************************)
(* The inductive invariant, in parts.                                      *)
(***************************************************************************)

\* What family f offers at or below p is with the peer.
SentThrough(f, p) ==
    \A r \in Rows :
        FamilyOf[r] = f /\ offered[r] # 0 /\ offered[r] <= p => sent[r] = offered[r]

\* What the mark and each transfer claim.
MarkIsSent      == \A f \in Family : SentThrough(f, mark)
TransfersAreSent == \A f \in Family : SentThrough(f, through[f])

InTransfer == stage \in {"ask", "reading", "sending"}

\* What the cursor has left behind: more than the transfer claims, while the
\* run it stands in goes on.
CursorIsSent ==
    InTransfer =>
        \A r \in Rows :
            FamilyOf[r] = fam /\ offered[r] # 0 /\ ~ComesAfter(r, after)
                => sent[r] = offered[r]

\* A row of the page is as it was read, or gone, or landed at or above the cap.
PageIsCurrent ==
    \A r \in Rows :
        page[r] # 0 => offered[r] = page[r] \/ offered[r] = 0 \/ cap <= offered[r]

\* A row below the cap that is not in the page follows every row of a full one.
PageIsFirst ==
    stage = "sending" =>
        \A r \in Rows :
            FamilyOf[r] = fam /\ offered[r] # 0 /\ offered[r] < cap
            /\ ComesAfter(r, after) /\ page[r] # offered[r]
                => /\ Full
                   /\ \A s \in InPage :
                         page[s] < offered[r] \/ (page[s] = offered[r] /\ s < r)

SentInv ==
    /\ MarkIsSent
    /\ TransfersAreSent
    /\ CursorIsSent
    /\ PageIsCurrent
    /\ PageIsFirst

\* A turn of a re-read in which nothing stopped has been through all that was
\* settled when the re-read began, family after family.
RereadCovers ==
    reread = "catching" =>
        /\ promised <= horizon
        /\ cap # 0 => promised <= cap
        /\ whole /\ InTransfer => \A f \in 1 .. fam - 1 : promised <= through[f] + 1
        /\ whole /\ stage = "read" => \A f \in Family : promised <= through[f] + 1
        /\ whole /\ stage = "marked" => promised <= mark + 1

Inv == PushTypeOK /\ SentInv /\ RereadCovers

-----------------------------------------------------------------------------
(***************************************************************************)
(* Types.                                                                  *)
(***************************************************************************)

\* Nothing is offered, marked or in a page at the start (PushInit).
LEMMA InitTyped == PushInit => PushTypeOK
  <1> SUFFICES ASSUME PushInit PROVE PushTypeOK
    OBVIOUS
  <1>1. /\ stage = "idle" /\ fam \in Family /\ pages = 0 /\ cap = 0 /\ page = NoPage
        /\ whole = FALSE /\ horizon = 0 /\ mark = 0 /\ diskMark = 0
        /\ reread = "none" /\ promised = 0 /\ sent = NoPage
    BY PushFamilyAssumption DEF PushInit, Family, NoPage
  <1>2. offered \in [Rows -> Nat]
    BY PushBoundAssumption DEF PushInit
  <1>3. through \in [Family -> Nat] /\ \A f \in Family : through[f] = 0
    BY DEF PushInit
  <1>4. after \in [pos : Nat, id : Nat] /\ after.pos = 0
    BY DEF PushInit, AtPosition
  <1>5. NoPage \in [Rows -> Nat] /\ \A r \in Rows : NoPage[r] = 0
    BY DEF NoPage
  <1>6. diskMark <= mark /\ IsSettled(mark) /\ IsSettled(after.pos)
        /\ \A f \in Family : IsSettled(through[f])
    BY <1>1, <1>3, <1>4 DEF IsSettled
  <1>7. \A r \in Rows : page[r] = 0
    BY <1>1, <1>5
  <1>8. stage \in Stages /\ stage \notin {"reading", "sending", "read", "marked"}
    BY <1>1 DEF Stages
  <1> QED BY <1>1, <1>2, <1>3, <1>4, <1>5, <1>6, <1>7, <1>8 DEF PushTypeOK

\* A row that lands, goes or leaves the selection touches nothing of a turn.
LEMMA PublishTyped ==
  ASSUME PushTypeOK, NEW r \in Rows, NEW p \in 0 .. MaxPosition, Publish(r, p)
  PROVE  PushTypeOK'
  BY PushBoundAssumption
     DEF Publish, Stream!Publish, PushTypeOK, IsSettled, NoPage, markVars, turnVars, taleVars

\* A horizon that rises leaves every settled position settled.
LEMMA SettleTyped ==
  ASSUME PushTypeOK, Settle
  PROVE  PushTypeOK'
  BY PushBoundAssumption
     DEF Settle, PushTypeOK, IsSettled, NoPage, markVars, turnVars, taleVars

\* A turn that begins from a settled position no greater than the file's.
LEMMA TurnFromTyped ==
  ASSUME PushTypeOK, NEW since \in Nat, NEW soFar \in BOOLEAN, IsSettled(since),
         TurnFrom(since, soFar), UNCHANGED <<streamVars>>,
         mark' = since, diskMark' \in Nat, diskMark' <= mark',
         reread' \in {"none", "owed", "catching"},
         sent' \in [Rows -> Nat], promised' \in Nat
  PROVE  PushTypeOK'
  BY PushFamilyAssumption
     DEF TurnFrom, PushTypeOK, IsSettled, AtPosition, NoPage, Stages, Family, streamVars

LEMMA StartTurnTyped ==
  ASSUME PushTypeOK, NEW soFar \in BOOLEAN, StartTurn(soFar)
  PROVE  PushTypeOK'
  <1>1. mark \in Nat /\ IsSettled(mark) /\ mark' = mark /\ diskMark' = diskMark
        /\ diskMark \in Nat /\ diskMark <= mark
    BY DEF StartTurn, markVars, PushTypeOK
  <1>2. reread' \in {"none", "owed", "catching"} /\ sent' \in [Rows -> Nat] /\ promised' \in Nat
    BY DEF StartTurn, markVars, taleVars, PushTypeOK
  <1>3. TurnFrom(mark, soFar) /\ UNCHANGED streamVars
    BY DEF StartTurn
  <1> QED BY <1>1, <1>2, <1>3, TurnFromTyped

LEMMA BeginRereadTyped ==
  ASSUME PushTypeOK, NEW soFar \in BOOLEAN, BeginReread(soFar)
  PROVE  PushTypeOK'
  <1>1. 0 \in Nat /\ IsSettled(0) /\ mark' = 0 /\ diskMark' \in Nat /\ diskMark' <= mark'
    BY DEF BeginReread, ForgottenOnDisk, IsSettled
  <1>2. reread' \in {"none", "owed", "catching"} /\ sent' \in [Rows -> Nat] /\ promised' \in Nat
    BY DEF BeginReread, PushTypeOK
  <1>3. TurnFrom(0, soFar) /\ UNCHANGED streamVars
    BY DEF BeginReread
  <1> QED BY <1>1, <1>2, <1>3, TurnFromTyped

LEMMA TakeCapTyped ==
  ASSUME PushTypeOK, TakeCap
  PROVE  PushTypeOK'
  BY PushBoundAssumption
     DEF TakeCap, PushTypeOK, IsSettled, Greater, NoPage, Stages, markVars, taleVars

LEMMA ReadPageTyped ==
  ASSUME PushTypeOK, ReadPage
  PROVE  PushTypeOK'
  <1>1. PICK P \in SUBSET Candidates :
           page' = [r \in Rows |-> IF r \in P THEN offered[r] ELSE 0]
    BY DEF ReadPage
  <1>2. page' \in [Rows -> Nat]
    BY <1>1 DEF PushTypeOK
  <1>3. \A r \in Rows : page'[r] # 0 => page'[r] < cap /\ FamilyOf[r] = fam
    BY <1>1 DEF Candidates
  <1>4. stage = "reading" /\ stage' = "sending" /\ pages' = pages + 1
        /\ UNCHANGED <<offered, horizon, mark, diskMark, reread, fam, through, after,
                       cap, whole, sent, promised>>
    BY DEF ReadPage, streamVars, markVars, taleVars
  <1> QED BY <1>2, <1>3, <1>4 DEF PushTypeOK, IsSettled, NoPage, Stages

\* What the peer has taken is a version of each row.
LEMMA TakenType ==
  ASSUME PushTypeOK
  PROVE  Taken \in [Rows -> Nat]
  BY DEF Taken, PushTypeOK

LEMMA FullPageTakenTyped ==
  ASSUME PushTypeOK, FullPageTaken
  PROVE  PushTypeOK'
  <1>1. PICK l \in InPage :
           /\ through' = [through EXCEPT ![fam] = Greater(@, CompleteThrough(page[l]))]
           /\ after' = [pos |-> page[l], id |-> l]
    BY DEF FullPageTaken
  <1>2. l \in Rows /\ l \in Nat /\ page[l] \in Nat /\ page[l] # 0 /\ page[l] < cap /\ cap <= horizon
    BY PushIdAssumption DEF InPage, PushTypeOK, FullPageTaken
  <1>3. after' \in [pos : Nat, id : Nat] /\ after'.pos < horizon
    BY <1>1, <1>2 DEF PushTypeOK
  <1>4. through' \in [Family -> Nat]
        /\ \A f \in Family : through'[f] = 0 \/ through'[f] < horizon
    BY <1>1, <1>2 DEF PushTypeOK, Greater, CompleteThrough, IsSettled
  <1>5. sent' \in [Rows -> Nat]
    BY TakenType DEF FullPageTaken
  <1>6. stage' = "ask" /\ cap' = 0 /\ page' = NoPage
        /\ UNCHANGED <<offered, horizon, mark, diskMark, reread, fam, pages, whole, promised>>
    BY DEF FullPageTaken, streamVars, markVars
  <1> QED BY <1>3, <1>4, <1>5, <1>6 DEF PushTypeOK, IsSettled, NoPage, Stages

\* The end of a transfer, complete through `reached`.
LEMMA TransferOverTyped ==
  ASSUME PushTypeOK, NEW reached \in [Family -> Nat], NEW soFar \in BOOLEAN,
         \A f \in Family : IsSettled(reached[f]),
         TransferOver(reached, soFar), UNCHANGED <<streamVars, markVars, promised>>,
         sent' \in [Rows -> Nat]
  PROVE  PushTypeOK'
  <1>1. fam' \in Family /\ stage' \in {"ask", "read"} /\ (stage' = "read" => fam' = Families)
    BY PushFamilyAssumption DEF TransferOver, PushTypeOK, Family
  <1>2. after' = AtPosition(mark) /\ pages' = 0 /\ cap' = 0 /\ page' = NoPage
        /\ through' = reached /\ whole' = soFar
    BY DEF TransferOver
  <1>3. UNCHANGED <<offered, horizon, mark, diskMark, reread, promised>>
    BY DEF streamVars, markVars
  <1> QED BY <1>1, <1>2, <1>3 DEF PushTypeOK, IsSettled, AtPosition, NoPage, Stages

\* What the last page makes of its transfer is settled.
LEMMA LastPageReaches ==
  ASSUME PushTypeOK, stage = "sending",
         NEW reached, reached = [through EXCEPT ![fam] = Greater(@, cap - 1)]
  PROVE  /\ reached \in [Family -> Nat]
         /\ \A f \in Family : IsSettled(reached[f]) /\ through[f] <= reached[f]
         /\ cap <= reached[fam] + 1
         /\ reached[fam] <= cap - 1
         /\ \A f \in Family : f # fam => reached[f] = through[f]
  BY DEF PushTypeOK, IsSettled, Greater

LEMMA LastPageTakenTyped ==
  ASSUME PushTypeOK, LastPageTaken
  PROVE  PushTypeOK'
  <1> DEFINE reached == [through EXCEPT ![fam] = Greater(@, cap - 1)]
  <1>1. reached \in [Family -> Nat] /\ \A f \in Family : IsSettled(reached[f])
    BY LastPageReaches DEF LastPageTaken
  <1>2. sent' \in [Rows -> Nat] /\ UNCHANGED <<streamVars, markVars, promised>>
        /\ TransferOver(reached, whole) /\ whole \in BOOLEAN
    BY TakenType DEF LastPageTaken, PushTypeOK
  <1> HIDE DEF reached
  <1> QED BY <1>1, <1>2, TransferOverTyped

\* A stop leaves every transfer where it is complete.
LEMMA StopTyped ==
  ASSUME PushTypeOK, StopAtPageBound \/ TransferStops
  PROVE  PushTypeOK'
  <1>1. TransferOver(through, FALSE) /\ UNCHANGED <<streamVars, markVars, promised>>
        /\ sent' \in [Rows -> Nat]
    BY DEF StopAtPageBound, TransferStops, taleVars, PushTypeOK
  <1>2. through \in [Family -> Nat] /\ \A f \in Family : IsSettled(through[f])
    BY DEF PushTypeOK
  <1> QED BY <1>1, <1>2, TransferOverTyped

\* What the mark becomes: not below where it was, not above the cap it is cut
\* at, and no further than the transfer that reached least.
LEMMA MarkBecomes ==
  ASSUME PushTypeOK, ResolveWatermark
  PROVE  /\ mark' \in Nat /\ horizon' \in Nat
         /\ mark <= mark' /\ horizon <= horizon'
         /\ mark' = 0 \/ mark' < horizon'
         /\ mark' = mark \/ \A f \in Family : mark' <= through[f]
         /\ \E f \in Family : through[f] <= mark'
  <1>1. PICK at \in {mark} \cup {through[f] : f \in Family} :
           /\ SafeWatermark(at)
           /\ IF at > mark
              THEN /\ horizon' \in Greater(horizon, 1) .. MaxPosition + 1
                   /\ mark' = PushMark(at, horizon')
              ELSE UNCHANGED <<horizon, mark>>
    BY DEF ResolveWatermark
  <1>2. PICK f \in Family : /\ \A g \in Family : through[f] <= through[g]
                            /\ at = Greater(mark, through[f])
    BY <1>1 DEF SafeWatermark
  <1>3. /\ mark \in Nat /\ horizon \in Nat /\ through[f] \in Nat
        /\ mark = 0 \/ mark < horizon
        /\ through[f] = 0 \/ through[f] < horizon
        /\ \A g \in Family : through[g] \in Nat
    BY DEF PushTypeOK, IsSettled
  <1>4. CASE at > mark
    <2>1. at = through[f] /\ horizon' \in Nat /\ horizon <= horizon' /\ 1 <= horizon'
          /\ mark' = Greater(mark, Lesser(at, horizon'))
      BY <1>1, <1>2, <1>3, <1>4, PushBoundAssumption DEF Greater, PushMark
    <2>2. mark' = through[f]
      BY <2>1, <1>3, <1>4 DEF Greater, Lesser
    <2> QED BY <2>1, <2>2, <1>2, <1>3, <1>4
  <1>5. CASE ~(at > mark)
    <2>1. mark' = mark /\ horizon' = horizon
      BY <1>1, <1>5
    <2>2. through[f] <= mark
      BY <1>2, <1>3, <1>5 DEF Greater
    <2> QED BY <2>1, <2>2, <1>3
  <1> QED BY <1>4, <1>5

LEMMA ResolveTyped ==
  ASSUME PushTypeOK, ResolveWatermark
  PROVE  PushTypeOK'
  <1>1. stage = "read" /\ stage' = "marked"
        /\ UNCHANGED <<offered, diskMark, reread, fam, through, after, pages, cap,
                       page, whole, sent, promised>>
    BY DEF ResolveWatermark, taleVars
  <1> QED BY <1>1, MarkBecomes DEF PushTypeOK, IsSettled, NoPage, Stages

\* A turn that is over, whichever way, leaves a mark no further than it was.
LEMMA TurnOverTyped ==
  ASSUME PushTypeOK, TurnOver, UNCHANGED <<streamVars, sent>>,
         mark' \in {mark, diskMark}, diskMark' \in {mark', diskMark},
         reread' \in {"none", "owed", "catching"}, promised' \in Nat
  PROVE  PushTypeOK'
  <1>1. /\ stage' = "idle" /\ fam' \in Family /\ pages' = 0 /\ cap' = 0 /\ page' = NoPage
        /\ whole' = FALSE /\ UNCHANGED <<offered, horizon, sent>>
    BY PushFamilyAssumption DEF TurnOver, Family, streamVars
  <1>2. through' \in [Family -> Nat] /\ \A f \in Family : through'[f] = 0
    BY DEF TurnOver
  <1>3. after' \in [pos : Nat, id : Nat] /\ after'.pos = 0
    BY DEF TurnOver, AtPosition
  <1>4. mark' \in Nat /\ diskMark' \in Nat /\ diskMark' <= mark'
        /\ (mark' = 0 \/ mark' < horizon)
    BY DEF PushTypeOK, IsSettled
  <1> QED BY <1>1, <1>2, <1>3, <1>4 DEF PushTypeOK, IsSettled, NoPage, Stages

LEMMA TurnEndTyped ==
  ASSUME PushTypeOK, EndTurn \/ TurnCut \/ Crash
  PROVE  PushTypeOK'
  <1>1. TurnOver /\ UNCHANGED <<streamVars, sent>>
    BY DEF EndTurn, TurnCut, Crash, taleVars
  <1>2. mark' \in {mark, diskMark} /\ diskMark' \in {mark', diskMark}
        /\ reread' \in {"none", "owed", "catching"} /\ promised' \in Nat
    BY DEF EndTurn, TurnCut, Crash, markVars, taleVars, PushTypeOK
  <1> QED BY <1>1, <1>2, TurnOverTyped

\* A save copies the mark to the file.
LEMMA SaveTyped ==
  ASSUME PushTypeOK, RequestReread \/ SaveMark
  PROVE  PushTypeOK'
  BY DEF RequestReread, SaveMark, PushTypeOK, IsSettled, NoPage, streamVars, turnVars, taleVars

\* Every step is one of these.
LEMMA StepCases ==
  ASSUME PushNext
  PROVE  \/ \E r \in Rows, p \in 0 .. MaxPosition : Publish(r, p)
         \/ Settle
         \/ \E soFar \in BOOLEAN : StartTurn(soFar)
         \/ \E soFar \in BOOLEAN : BeginReread(soFar)
         \/ TakeCap \/ ReadPage \/ FullPageTaken \/ LastPageTaken
         \/ StopAtPageBound \/ TransferStops
         \/ ResolveWatermark
         \/ EndTurn \/ TurnCut \/ Crash
         \/ RequestReread \/ SaveMark
  BY DEF PushNext, TurnStep, FaultStep

LEMMA StepTyped ==
  ASSUME PushTypeOK, [PushNext]_pushVars
  PROVE  PushTypeOK'
  <1>1. CASE PushNext
    BY <1>1, StepCases, PublishTyped, SettleTyped, StartTurnTyped, BeginRereadTyped,
       TakeCapTyped, ReadPageTyped, FullPageTakenTyped, LastPageTakenTyped, StopTyped,
       ResolveTyped, TurnEndTyped, SaveTyped
  <1>2. CASE UNCHANGED pushVars
    BY <1>2 DEF pushVars, streamVars, markVars, turnVars, taleVars, PushTypeOK, IsSettled, NoPage
  <1> QED BY <1>1, <1>2

\* Every state of a push is well formed (PushTypeOK), the file's mark never
\* ahead of the process's and no mark past what is settled.
THEOREM PushTypesCorrect == PushSpec => []PushTypeOK
  <1>1. PushInit => PushTypeOK
    BY InitTyped
  <1>2. PushTypeOK /\ [PushNext]_pushVars => PushTypeOK'
    BY StepTyped
  <1> QED BY <1>1, <1>2, PTL DEF PushSpec

-----------------------------------------------------------------------------
(***************************************************************************)
(* The promise of the push mark.                                           *)
(***************************************************************************)

\* At the start nothing is claimed (PushInit).
LEMMA InitSent == PushInit /\ PushTypeOK => SentInv
  BY DEF PushInit, PushTypeOK, SentInv, MarkIsSent, TransfersAreSent, SentThrough,
         CursorIsSent, PageIsCurrent, PageIsFirst, InTransfer, NoPage

\* A row that lands, lands above all that is claimed and above the page's cap.
LEMMA PublishSent ==
  ASSUME PushTypeOK, SentInv, NEW q \in Rows, NEW p \in 0 .. MaxPosition, Publish(q, p)
  PROVE  SentInv'
  <1>1. \A r \in Rows : offered'[r] = offered[r] \/ offered'[r] = 0 \/ horizon <= offered'[r]
    BY DEF Publish, Stream!Publish
  <1>2. UNCHANGED <<horizon, mark, stage, fam, through, after, cap, page, sent>>
    BY DEF Publish, Stream!Publish, markVars, turnVars, taleVars
  <1>3. offered' \in [Rows -> Nat]
    BY DEF Publish, Stream!Publish
  <1>4. MarkIsSent' /\ TransfersAreSent'
    BY <1>1, <1>2, <1>3
       DEF SentInv, MarkIsSent, TransfersAreSent, SentThrough, PushTypeOK, IsSettled
  <1>5. CursorIsSent'
    BY <1>1, <1>2, <1>3
       DEF SentInv, CursorIsSent, InTransfer, ComesAfter, PushTypeOK, IsSettled
  <1>6. PageIsCurrent'
    <2>1. \A r \in Rows : page[r] # 0 => cap <= horizon
      BY DEF PushTypeOK, NoPage
    <2> QED BY <1>1, <1>2, <1>3, <2>1 DEF SentInv, PageIsCurrent, PushTypeOK
  <1>7. PageIsFirst'
    <2>1. SUFFICES ASSUME stage = "sending", NEW r \in Rows,
                          FamilyOf[r] = fam, offered'[r] # 0, offered'[r] < cap,
                          ComesAfter(r, after)', page[r] # offered'[r]
                   PROVE  /\ Full
                          /\ \A s \in InPage :
                                page[s] < offered'[r] \/ (page[s] = offered'[r] /\ s < r)
      BY <1>2 DEF PageIsFirst, Full, InPage
    <2>2. cap <= horizon
      BY <2>1 DEF PushTypeOK
    <2>3. offered'[r] = offered[r]
      BY <1>1, <1>3, <2>1, <2>2 DEF PushTypeOK
    <2>4. ComesAfter(r, after)
      BY <1>2, <2>1, <2>3 DEF ComesAfter
    <2> QED BY <2>1, <2>3, <2>4 DEF SentInv, PageIsFirst
  <1> QED BY <1>4, <1>5, <1>6, <1>7 DEF SentInv

\* A turn starts after a position through which everything is sent.
LEMMA TurnFromSent ==
  ASSUME PushTypeOK, NEW since \in Nat, NEW soFar, TurnFrom(since, soFar),
         offered' = offered, mark' = since,
         \A f \in Family : SentThrough(f, since)'
  PROVE  SentInv'
  <1>1. /\ fam' = 1 /\ after' = AtPosition(since) /\ page' = NoPage /\ stage' = "ask"
        /\ \A f \in Family : through'[f] = since
    BY DEF TurnFrom
  <1>2. 1 \in Family
    BY PushFamilyAssumption DEF Family
  <1>3. MarkIsSent' /\ TransfersAreSent'
    BY <1>1 DEF MarkIsSent, TransfersAreSent, SentThrough
  <1>4. CursorIsSent'
    BY <1>1, <1>2 DEF CursorIsSent, SentThrough, ComesAfter, AtPosition, PushTypeOK
  <1>5. PageIsCurrent' /\ PageIsFirst'
    BY <1>1 DEF PageIsCurrent, PageIsFirst, NoPage
  <1> QED BY <1>3, <1>4, <1>5 DEF SentInv

LEMMA StartTurnSent ==
  ASSUME PushTypeOK, SentInv, NEW soFar \in BOOLEAN, StartTurn(soFar)
  PROVE  SentInv'
  <1>1. TurnFrom(mark, soFar) /\ offered' = offered /\ mark' = mark /\ sent' = sent /\ mark \in Nat
    BY DEF StartTurn, streamVars, markVars, taleVars, PushTypeOK
  <1>2. \A f \in Family : SentThrough(f, mark)'
    BY <1>1 DEF SentInv, MarkIsSent, SentThrough
  <1> QED BY <1>1, <1>2, TurnFromSent

\* A re-read starts from nothing: nothing is claimed.
LEMMA BeginRereadSent ==
  ASSUME PushTypeOK, SentInv, NEW soFar \in BOOLEAN, BeginReread(soFar)
  PROVE  SentInv'
  <1>1. TurnFrom(0, soFar) /\ offered' = offered /\ mark' = 0
    BY DEF BeginReread, streamVars
  <1>2. \A f \in Family : SentThrough(f, 0)'
    BY <1>1 DEF SentThrough, PushTypeOK
  <1> QED BY <1>1, <1>2, TurnFromSent

LEMMA TakeCapSent ==
  ASSUME PushTypeOK, SentInv, TakeCap
  PROVE  SentInv'
  <1>1. /\ stage = "ask" /\ stage' = "reading" /\ page = NoPage
        /\ UNCHANGED <<offered, mark, fam, through, after, page, sent>>
    BY DEF TakeCap, markVars, taleVars, PushTypeOK
  <1> QED BY <1>1 DEF SentInv, MarkIsSent, TransfersAreSent, SentThrough, CursorIsSent,
                      PageIsCurrent, PageIsFirst, InTransfer, ComesAfter, NoPage

\* The page is what the cursor reads next, cut where it is full.
LEMMA ReadPageSent ==
  ASSUME PushTypeOK, SentInv, ReadPage
  PROVE  SentInv'
  <1>1. PICK P \in SUBSET Candidates :
           /\ IsPage(P)
           /\ page' = [r \in Rows |-> IF r \in P THEN offered[r] ELSE 0]
    BY DEF ReadPage
  <1>2. /\ stage = "reading" /\ stage' = "sending"
        /\ UNCHANGED <<offered, mark, fam, through, after, cap, sent>>
    BY DEF ReadPage, streamVars, markVars, taleVars
  <1>3. MarkIsSent' /\ TransfersAreSent' /\ CursorIsSent'
    BY <1>2 DEF SentInv, MarkIsSent, TransfersAreSent, SentThrough, CursorIsSent,
                InTransfer, ComesAfter
  <1>4. PageIsCurrent'
    BY <1>1, <1>2 DEF PageIsCurrent
  <1>5. InPage' = P
    BY <1>1 DEF InPage, Candidates
  <1>6. PageIsFirst'
    <2>1. SUFFICES ASSUME NEW r \in Rows, FamilyOf[r] = fam, offered[r] # 0,
                          offered[r] < cap, ComesAfter(r, after), page'[r] # offered[r]
                   PROVE  /\ Full'
                          /\ \A s \in P :
                                page'[s] < offered[r] \/ (page'[s] = offered[r] /\ s < r)
      BY <1>2, <1>5 DEF PageIsFirst, ComesAfter
    <2>2. r \in Candidates \ P
      BY <1>1, <2>1 DEF Candidates
    <2>3. Full'
      BY <1>1, <1>5, <2>2 DEF IsPage, Full
    <2>4. \A s \in P : Precedes(s, r, offered) /\ s \in Rows
      BY <1>1, <2>2 DEF IsPage, Candidates
    <2> QED BY <1>1, <2>3, <2>4 DEF Precedes
  <1> QED BY <1>3, <1>4, <1>6 DEF SentInv

\* Taking a page sends its rows and takes back nothing below its cap.
LEMMA TakenIsSent ==
  ASSUME PushTypeOK, SentInv, NEW r \in Rows, offered[r] # 0, offered[r] < cap,
         sent[r] = offered[r] \/ page[r] = offered[r]
  PROVE  Taken[r] = offered[r]
  BY DEF Taken, SentInv, PageIsCurrent, PushTypeOK

\* What was claimed below the cap is still sent once a page is taken.
LEMMA TakenKeeps ==
  ASSUME PushTypeOK, SentInv, stage = "sending", NEW f \in Family,
         NEW p \in Nat, p < cap, SentThrough(f, p)
  PROVE  \A r \in Rows :
            FamilyOf[r] = f /\ offered[r] # 0 /\ offered[r] <= p => Taken[r] = offered[r]
  BY TakenIsSent DEF SentThrough, PushTypeOK

\* The mark and the transfers below the cap are none the worse for a page taken.
LEMMA TakenKeepsClaims ==
  ASSUME PushTypeOK, SentInv, stage = "sending", NEW f \in Family
  PROVE  /\ \A r \in Rows : FamilyOf[r] = f /\ offered[r] # 0 /\ offered[r] <= mark
                              => Taken[r] = offered[r]
         /\ \A r \in Rows : FamilyOf[r] = f /\ offered[r] # 0 /\ offered[r] <= through[f]
                              => Taken[r] = offered[r]
  <1>1. mark \in Nat /\ mark < cap /\ through[f] \in Nat /\ through[f] < cap
    BY DEF PushTypeOK
  <1>2. SentThrough(f, mark) /\ SentThrough(f, through[f])
    BY DEF SentInv, MarkIsSent, TransfersAreSent
  <1> QED BY <1>1, <1>2, TakenKeeps

\* A row below the cap that the page does not hold and the cursor has not left
\* behind follows the page's rows, and the page is full.
LEMMA NextOrTaken ==
  ASSUME PushTypeOK, SentInv, stage = "sending", NEW r \in Rows,
         FamilyOf[r] = fam, offered[r] # 0, offered[r] < cap
  PROVE  \/ Taken[r] = offered[r]
         \/ /\ Full
            /\ \A s \in InPage : page[s] < offered[r] \/ (page[s] = offered[r] /\ s < r)
  <1>1. CASE ~ComesAfter(r, after)
    BY <1>1, TakenIsSent DEF SentInv, CursorIsSent, InTransfer
  <1>2. CASE page[r] = offered[r]
    BY <1>2, TakenIsSent
  <1>3. CASE ComesAfter(r, after) /\ page[r] # offered[r]
    BY <1>3 DEF SentInv, PageIsFirst
  <1> QED BY <1>1, <1>2, <1>3

\* A full page: its transfer is complete below the page's last row, and the
\* cursor stands at that row.
LEMMA FullPageTakenSent ==
  ASSUME PushTypeOK, SentInv, FullPageTaken
  PROVE  SentInv'
  <1>1. PICK l \in InPage :
           /\ \A r \in InPage : r = l \/ Precedes(r, l, page)
           /\ through' = [through EXCEPT ![fam] = Greater(@, CompleteThrough(page[l]))]
           /\ after' = [pos |-> page[l], id |-> l]
    BY DEF FullPageTaken
  <1>2. /\ stage = "sending" /\ stage' = "ask" /\ sent' = Taken /\ page' = NoPage
        /\ UNCHANGED <<offered, mark, fam>>
    BY DEF FullPageTaken, streamVars, markVars
  <1>3. /\ l \in Rows /\ l \in Nat /\ l # 0
        /\ page[l] \in Nat /\ page[l] # 0 /\ page[l] < cap /\ cap \in Nat
    BY PushIdAssumption DEF InPage, PushTypeOK
  <1>4. MarkIsSent'
    BY <1>2, TakenKeepsClaims DEF MarkIsSent, SentThrough
  <1>5. ASSUME NEW r \in Rows, FamilyOf[r] = fam, offered[r] # 0,
               offered[r] < page[l] \/ (offered[r] = page[l] /\ r <= l)
        PROVE  Taken[r] = offered[r]
    <2>1. offered[r] \in Nat /\ r \in Nat /\ offered[r] < cap
      BY <1>3, <1>5, PushIdAssumption DEF PushTypeOK
    <2>2. ~(page[l] < offered[r] \/ (page[l] = offered[r] /\ l < r))
      BY <1>3, <1>5, <2>1
    <2> QED BY <1>2, <1>5, <2>1, <2>2, NextOrTaken
  <1>6. TransfersAreSent'
    <2>1. SUFFICES ASSUME NEW f \in Family, NEW r \in Rows, FamilyOf[r] = f,
                          offered[r] # 0, offered[r] <= through'[f]
                   PROVE  Taken[r] = offered[r]
      BY <1>2 DEF TransfersAreSent, SentThrough
    <2>2. offered[r] \in Nat /\ through[f] \in Nat /\ through \in [Family -> Nat] /\ fam \in Family
      BY DEF PushTypeOK
    <2>3. CASE offered[r] <= through[f]
      BY <1>2, <2>1, <2>3, TakenKeepsClaims
    <2>4. CASE ~(offered[r] <= through[f])
      <3>1. f = fam /\ offered[r] < page[l]
        BY <1>1, <1>3, <2>1, <2>2, <2>4 DEF Greater, CompleteThrough
      <3> QED BY <1>5, <2>1, <3>1
    <2> QED BY <2>3, <2>4
  <1>7. CursorIsSent'
    <2>1. SUFFICES ASSUME NEW r \in Rows, FamilyOf[r] = fam, offered[r] # 0,
                          ~ComesAfter(r, after)'
                   PROVE  Taken[r] = offered[r]
      BY <1>2 DEF CursorIsSent
    <2>2. offered[r] \in Nat /\ r \in Nat
      BY PushIdAssumption DEF PushTypeOK
    <2>3. offered[r] < page[l] \/ (offered[r] = page[l] /\ r <= l)
      BY <1>1, <1>2, <1>3, <2>1, <2>2 DEF ComesAfter
    <2> QED BY <1>5, <2>1, <2>3
  <1>8. PageIsCurrent' /\ PageIsFirst'
    BY <1>2 DEF PageIsCurrent, PageIsFirst, NoPage
  <1> QED BY <1>4, <1>6, <1>7, <1>8 DEF SentInv

\* The end of a transfer: the next one is read after the mark.
LEMMA TransferOverSent ==
  ASSUME PushTypeOK, NEW reached, NEW soFar, TransferOver(reached, soFar),
         UNCHANGED <<offered, mark>>, MarkIsSent',
         \A f \in Family, r \in Rows :
            FamilyOf[r] = f /\ offered[r] # 0 /\ offered[r] <= reached[f]
                => sent'[r] = offered[r]
  PROVE  SentInv'
  <1>1. /\ through' = reached /\ after' = AtPosition(mark) /\ page' = NoPage
        /\ stage' \in {"ask", "read"} /\ fam' \in Family
    BY PushFamilyAssumption DEF TransferOver, PushTypeOK, Family
  <1>2. TransfersAreSent'
    BY <1>1 DEF TransfersAreSent, SentThrough
  <1>3. CursorIsSent'
    BY <1>1 DEF CursorIsSent, MarkIsSent, SentThrough, ComesAfter, AtPosition, PushTypeOK
  <1>4. PageIsCurrent' /\ PageIsFirst'
    BY <1>1 DEF PageIsCurrent, PageIsFirst, NoPage
  <1> QED BY <1>2, <1>3, <1>4 DEF SentInv

\* A short page: everything below its cap is sent.
LEMMA LastPageTakenSent ==
  ASSUME PushTypeOK, SentInv, LastPageTaken
  PROVE  SentInv'
  <1> DEFINE reached == [through EXCEPT ![fam] = Greater(@, cap - 1)]
  <1>1. /\ stage = "sending" /\ ~Full /\ sent' = Taken /\ TransferOver(reached, whole)
        /\ UNCHANGED <<offered, mark>>
    BY DEF LastPageTaken, streamVars, markVars
  <1>2. MarkIsSent'
    BY <1>1, TakenKeepsClaims DEF MarkIsSent, SentThrough
  <1>3. \A f \in Family, r \in Rows :
            FamilyOf[r] = f /\ offered[r] # 0 /\ offered[r] <= reached[f]
                => sent'[r] = offered[r]
    <2>1. SUFFICES ASSUME NEW f \in Family, NEW r \in Rows, FamilyOf[r] = f,
                          offered[r] # 0, offered[r] <= reached[f]
                   PROVE  Taken[r] = offered[r]
      BY <1>1
    <2>2. reached[fam] <= cap - 1 /\ \A g \in Family : g # fam => reached[g] = through[g]
      BY <1>1, LastPageReaches
    <2>3. offered[r] \in Nat /\ cap \in Nat /\ reached[fam] \in Nat
      BY <1>1, LastPageReaches DEF PushTypeOK
    <2> HIDE DEF reached
    <2>4. CASE f = fam
      BY <1>1, <2>1, <2>2, <2>3, <2>4, NextOrTaken
    <2>5. CASE f # fam
      BY <1>1, <2>1, <2>2, <2>5, TakenKeepsClaims
    <2> QED BY <2>4, <2>5
  <1> HIDE DEF reached
  <1> QED BY <1>1, <1>2, <1>3, TransferOverSent

LEMMA StopSent ==
  ASSUME PushTypeOK, SentInv, StopAtPageBound \/ TransferStops
  PROVE  SentInv'
  <1>1. TransferOver(through, FALSE) /\ UNCHANGED <<offered, mark, sent>>
    BY DEF StopAtPageBound, TransferStops, streamVars, markVars, taleVars
  <1>2. MarkIsSent'
    BY <1>1 DEF SentInv, MarkIsSent, SentThrough
  <1>3. \A f \in Family, r \in Rows :
            FamilyOf[r] = f /\ offered[r] # 0 /\ offered[r] <= through[f]
                => sent'[r] = offered[r]
    BY <1>1 DEF SentInv, TransfersAreSent, SentThrough
  <1> QED BY <1>1, <1>2, <1>3, TransferOverSent

\* The mark moves no further than the transfer that reached least.
LEMMA ResolveSent ==
  ASSUME PushTypeOK, SentInv, ResolveWatermark
  PROVE  SentInv'
  <1>1. /\ stage' = "marked" /\ page = NoPage
        /\ UNCHANGED <<offered, fam, through, after, cap, page, sent>>
    BY DEF ResolveWatermark, taleVars, PushTypeOK
  <1>2. MarkIsSent'
    <2>1. SUFFICES ASSUME NEW f \in Family, NEW r \in Rows, FamilyOf[r] = f,
                          offered[r] # 0, offered[r] <= mark'
                   PROVE  sent[r] = offered[r]
      BY <1>1 DEF MarkIsSent, SentThrough
    <2>2. CASE mark' = mark
      BY <2>1, <2>2 DEF SentInv, MarkIsSent, SentThrough
    <2>3. CASE mark' <= through[f]
      <3>1. offered[r] \in Nat /\ mark' \in Nat /\ through[f] \in Nat
        BY MarkBecomes DEF PushTypeOK
      <3>2. offered[r] <= through[f]
        BY <2>1, <2>3, <3>1
      <3> QED BY <2>1, <3>2 DEF SentInv, TransfersAreSent, SentThrough
    <2> QED BY <2>2, <2>3, MarkBecomes
  <1> QED BY <1>1, <1>2 DEF SentInv, TransfersAreSent, SentThrough, CursorIsSent, InTransfer,
                            PageIsCurrent, PageIsFirst, NoPage

\* A turn that is over claims nothing but its mark, and a crash claims less.
LEMMA TurnEndSent ==
  ASSUME PushTypeOK, SentInv, EndTurn \/ TurnCut \/ Crash
  PROVE  SentInv'
  <1>1. TurnOver /\ UNCHANGED <<offered, sent>> /\ mark' \in {mark, diskMark}
    BY DEF EndTurn, TurnCut, Crash, streamVars, markVars, taleVars
  <1>2. MarkIsSent'
    BY <1>1 DEF SentInv, MarkIsSent, SentThrough, PushTypeOK
  <1>3. TransfersAreSent'
    BY <1>1 DEF TurnOver, TransfersAreSent, SentThrough, PushTypeOK
  <1> QED BY <1>1, <1>2, <1>3
          DEF TurnOver, SentInv, CursorIsSent, InTransfer, PageIsCurrent, PageIsFirst, NoPage

\* Steps that touch nothing a claim is about.
LEMMA QuietSent ==
  ASSUME SentInv, UNCHANGED <<offered, mark, stage, fam, through, after, cap, page, sent>>
  PROVE  SentInv'
  BY DEF SentInv, MarkIsSent, TransfersAreSent, SentThrough, CursorIsSent, InTransfer,
         ComesAfter, PageIsCurrent, PageIsFirst, Full, InPage

LEMMA StepSent ==
  ASSUME PushTypeOK, SentInv, [PushNext]_pushVars
  PROVE  SentInv'
  <1>1. CASE Settle \/ RequestReread \/ SaveMark \/ UNCHANGED pushVars
    BY <1>1, QuietSent
       DEF Settle, RequestReread, SaveMark, pushVars, streamVars, markVars, turnVars, taleVars
  <1>2. CASE PushNext
    BY <1>1, <1>2, StepCases, PublishSent, StartTurnSent, BeginRereadSent, TakeCapSent,
       ReadPageSent, FullPageTakenSent, LastPageTakenSent, StopSent, ResolveSent, TurnEndSent
  <1> QED BY <1>1, <1>2

-----------------------------------------------------------------------------
(***************************************************************************)
(* The promise of a full re-read.                                          *)
(***************************************************************************)

\* Steps of the stream and of the configuration: at most the horizon rises, and
\* a re-read is asked for.
LEMMA QuietCovers ==
  ASSUME PushTypeOK, PushTypeOK', RereadCovers, horizon <= horizon',
         reread' = reread \/ reread' = "owed",
         UNCHANGED <<stage, fam, through, cap, whole, mark, promised>>
  PROVE  RereadCovers'
  BY DEF RereadCovers, InTransfer, PushTypeOK

\* A turn that begins has been through nothing yet.
LEMMA TurnFromCovers ==
  ASSUME PushTypeOK, PushTypeOK', NEW since, NEW soFar, TurnFrom(since, soFar),
         reread' = "catching" => promised' <= horizon'
  PROVE  RereadCovers'
  BY DEF RereadCovers, TurnFrom, InTransfer, PushTypeOK

LEMMA TurnStartCovers ==
  ASSUME PushTypeOK, PushTypeOK', RereadCovers, NEW soFar \in BOOLEAN,
         StartTurn(soFar) \/ BeginReread(soFar)
  PROVE  RereadCovers'
  <1>1. CASE StartTurn(soFar)
    <2>1. TurnFrom(mark, soFar) /\ (reread' = "catching" => promised' <= horizon')
      BY <1>1 DEF StartTurn, RereadCovers, streamVars, markVars, taleVars
    <2> QED BY <2>1, TurnFromCovers
  <1>2. CASE BeginReread(soFar)
    <2>1. TurnFrom(0, soFar) /\ promised' <= horizon'
      BY <1>2 DEF BeginReread, streamVars, PushTypeOK
    <2> QED BY <2>1, TurnFromCovers
  <1> QED BY <1>1, <1>2

\* The cap of a page is at or above the horizon the re-read began at.
LEMMA PageCovers ==
  ASSUME PushTypeOK, PushTypeOK', RereadCovers, TakeCap \/ ReadPage
  PROVE  RereadCovers'
  <1>1. CASE TakeCap
    <2>1. /\ stage = "ask" /\ stage' = "reading" /\ cap' = horizon' /\ horizon <= horizon'
          /\ UNCHANGED <<reread, fam, through, whole, promised>>
      BY <1>1, PushBoundAssumption DEF TakeCap, Greater, PushTypeOK, markVars, taleVars
    <2> QED BY <2>1 DEF RereadCovers, InTransfer, PushTypeOK
  <1>2. CASE ReadPage
    <2>1. /\ stage = "reading" /\ stage' = "sending"
          /\ UNCHANGED <<horizon, reread, fam, through, cap, whole, promised>>
      BY <1>2 DEF ReadPage, streamVars, markVars, taleVars
    <2> QED BY <2>1 DEF RereadCovers, InTransfer
  <1> QED BY <1>1, <1>2

\* A full page ends nothing: the transfers before it are as they were.
LEMMA FullPageCovers ==
  ASSUME PushTypeOK, PushTypeOK', RereadCovers, FullPageTaken
  PROVE  RereadCovers'
  <1>1. /\ stage = "sending" /\ stage' = "ask" /\ cap' = 0
        /\ UNCHANGED <<horizon, reread, fam, whole, promised>>
    BY DEF FullPageTaken, streamVars, markVars
  <1>2. \A f \in 1 .. fam - 1 : through'[f] = through[f]
    BY PushFamilyAssumption DEF FullPageTaken, PushTypeOK, Family
  <1> QED BY <1>1, <1>2 DEF RereadCovers, InTransfer

\* A short page completes its transfer through the page's cap.
LEMMA LastPageCovers ==
  ASSUME PushTypeOK, PushTypeOK', RereadCovers, LastPageTaken
  PROVE  RereadCovers'
  <1> DEFINE reached == [through EXCEPT ![fam] = Greater(@, cap - 1)]
  <1>1. /\ stage = "sending" /\ TransferOver(reached, whole)
        /\ UNCHANGED <<horizon, mark, reread, promised>>
    BY DEF LastPageTaken, streamVars, markVars
  <1>2. /\ cap <= reached[fam] + 1 /\ \A f \in Family : f # fam => reached[f] = through[f]
        /\ fam \in Family /\ cap # 0 /\ cap \in Nat /\ reached[fam] \in Nat /\ promised \in Nat
    <2>1. /\ cap <= reached[fam] + 1 /\ \A f \in Family : f # fam => reached[f] = through[f]
          /\ reached \in [Family -> Nat]
      BY <1>1, LastPageReaches
    <2>2. fam \in Family /\ cap \in 1 .. horizon /\ horizon \in Nat /\ promised \in Nat
      BY <1>1 DEF PushTypeOK
    <2> HIDE DEF reached
    <2> QED BY <2>1, <2>2
  <1> HIDE DEF reached
  <1>3. through' = reached /\ whole' = whole /\ cap' = 0
        /\ (IF fam < Families THEN stage' = "ask" /\ fam' = fam + 1
                              ELSE stage' = "read" /\ fam' = fam)
    BY <1>1 DEF TransferOver
  <1>4. reread = "catching" /\ whole => \A f \in 1 .. fam : promised <= through'[f] + 1
    <2>1. reread = "catching" => promised <= reached[fam] + 1
      BY <1>2 DEF RereadCovers
    <2>2. reread = "catching" /\ whole => \A f \in 1 .. fam - 1 : promised <= reached[f] + 1
      BY <1>1, <1>2, PushFamilyAssumption DEF RereadCovers, InTransfer, Family
    <2> QED BY <1>2, <1>3, <2>1, <2>2, PushFamilyAssumption DEF Family
  <1> QED BY <1>1, <1>2, <1>3, <1>4, PushFamilyAssumption DEF RereadCovers, InTransfer, Family

\* A turn in which a transfer stopped claims nothing for the re-read.
LEMMA StopCovers ==
  ASSUME PushTypeOK, PushTypeOK', RereadCovers, StopAtPageBound \/ TransferStops
  PROVE  RereadCovers'
  <1>1. whole' = FALSE /\ cap' = 0 /\ UNCHANGED <<horizon, reread, promised>>
    BY DEF StopAtPageBound, TransferStops, TransferOver, streamVars, markVars, taleVars
  <1> QED BY <1>1 DEF RereadCovers

\* The mark of a whole turn is at least where its least transfer is.
LEMMA ResolveCovers ==
  ASSUME PushTypeOK, PushTypeOK', RereadCovers, ResolveWatermark
  PROVE  RereadCovers'
  <1>1. /\ stage = "read" /\ stage' = "marked"
        /\ UNCHANGED <<reread, cap, whole, promised>>
    BY DEF ResolveWatermark, taleVars
  <1>2. PICK f \in Family : through[f] <= mark'
    BY MarkBecomes
  <1>3. /\ through[f] \in Nat /\ mark' \in Nat /\ promised \in Nat
        /\ horizon \in Nat /\ horizon' \in Nat /\ horizon <= horizon'
    BY MarkBecomes DEF PushTypeOK
  <1>4. ASSUME reread = "catching", whole PROVE promised <= mark' + 1
    <2>1. promised <= through[f] + 1
      BY <1>1, <1>4 DEF RereadCovers
    <2>2. \A a, b, c \in Nat : a <= b + 1 /\ b <= c => a <= c + 1
      OBVIOUS
    <2>3. through[f] <= mark'
      BY <1>2
    <2>4. promised \in Nat /\ through[f] \in Nat /\ mark' \in Nat
      BY <1>3
    <2> QED BY <2>1, <2>2, <2>3, <2>4
  <1>5. reread = "catching" => promised <= horizon' /\ (cap # 0 => promised <= cap)
    BY <1>3 DEF RereadCovers
  <1> QED BY <1>1, <1>4, <1>5 DEF RereadCovers, InTransfer

LEMMA TurnEndCovers ==
  ASSUME PushTypeOK, PushTypeOK', RereadCovers, EndTurn \/ TurnCut \/ Crash
  PROVE  RereadCovers'
  <1>1. stage' = "idle" /\ cap' = 0 /\ whole' = FALSE /\ horizon' = horizon
    BY DEF EndTurn, TurnCut, Crash, TurnOver, streamVars
  <1>2. reread' = "catching" => reread = "catching" /\ promised' = promised
    BY DEF EndTurn, TurnCut, Crash, markVars, taleVars
  <1> QED BY <1>1, <1>2 DEF RereadCovers

LEMMA StepCovers ==
  ASSUME PushTypeOK, PushTypeOK', RereadCovers, [PushNext]_pushVars
  PROVE  RereadCovers'
  <1>1. CASE Settle \/ RequestReread \/ SaveMark \/ UNCHANGED pushVars
    <2>1. /\ horizon <= horizon' /\ (reread' = reread \/ reread' = "owed")
          /\ UNCHANGED <<stage, fam, through, cap, whole, mark, promised>>
      BY <1>1, PushBoundAssumption
         DEF Settle, RequestReread, SaveMark, pushVars, streamVars, markVars, turnVars,
             taleVars, PushTypeOK
    <2> QED BY <2>1, QuietCovers
  <1>2. CASE \E r \in Rows, p \in 0 .. MaxPosition : Publish(r, p)
    <2>1. /\ horizon <= horizon' /\ reread' = reread
          /\ UNCHANGED <<stage, fam, through, cap, whole, mark, promised>>
      BY <1>2 DEF Publish, Stream!Publish, markVars, turnVars, taleVars, PushTypeOK
    <2> QED BY <2>1, QuietCovers
  <1>3. CASE PushNext
    BY <1>1, <1>2, <1>3, StepCases, TurnStartCovers, PageCovers, FullPageCovers,
       LastPageCovers, StopCovers, ResolveCovers, TurnEndCovers
  <1> QED BY <1>1, <1>3

-----------------------------------------------------------------------------
(***************************************************************************)
(* The theorems.                                                           *)
(***************************************************************************)

\* The parts hold together from the start and are kept by every step.
THEOREM PushInductive == PushSpec => []Inv
  <1>1. PushInit => Inv
    <2>1. PushInit => RereadCovers
      BY DEF PushInit, RereadCovers
    <2> QED BY <2>1, InitTyped, InitSent DEF Inv
  <1>2. Inv /\ [PushNext]_pushVars => Inv'
    BY StepTyped, StepSent, StepCovers DEF Inv
  <1> QED BY <1>1, <1>2, PTL DEF PushSpec

\* The push mark never passes what the peer has not been sent, whatever pages
\* are cut, transfers stop and processes die (NothingLeftBehind).
THEOREM PushedIsSent == PushSpec => []NothingLeftBehind
  <1>1. Inv => NothingLeftBehind
    <2>1. SUFFICES ASSUME Inv, NEW r \in Rows, offered[r] \in 1 .. mark
                   PROVE  sent[r] = offered[r]
      BY DEF NothingLeftBehind
    <2>2. FamilyOf[r] \in Family /\ offered[r] # 0 /\ offered[r] <= mark
      BY <2>1, PushFamilyAssumption DEF Family, Inv, PushTypeOK
    <2> QED BY <2>1, <2>2 DEF Inv, SentInv, MarkIsSent, SentThrough
  <1> QED BY <1>1, PushInductive, PTL

\* A full re-read ends only when all that was settled when it began has been
\* sent again (RereadIsWhole).
THEOREM RereadsAreWhole == PushSpec => RereadIsWhole
  <1>1. Inv /\ [PushNext]_pushVars
          => [reread = "catching" /\ reread' = "none" =>
                \A r \in Rows :
                   offered[r] # 0 /\ offered[r] < promised => sent[r] = offered[r]]_pushVars
    <2>1. SUFFICES ASSUME Inv, PushNext, reread = "catching", reread' = "none",
                          NEW r \in Rows, offered[r] # 0, offered[r] < promised
                   PROVE  sent[r] = offered[r]
      OBVIOUS
    <2>2. EndTurn
      BY <2>1, StepCases
         DEF Publish, Settle, StartTurn, BeginReread, TakeCap, ReadPage, FullPageTaken,
             LastPageTaken, StopAtPageBound, TransferStops, ResolveWatermark, TurnCut, Crash,
             RequestReread, SaveMark, markVars
    <2>3. stage = "marked" /\ whole
      BY <2>1, <2>2 DEF EndTurn, EndsReread
    <2>4. promised <= mark + 1
      BY <2>1, <2>3 DEF Inv, RereadCovers
    <2>5. offered[r] <= mark
      BY <2>1, <2>4 DEF Inv, PushTypeOK
    <2>6. FamilyOf[r] \in Family
      BY PushFamilyAssumption DEF Family
    <2> QED BY <2>1, <2>5, <2>6 DEF Inv, SentInv, MarkIsSent, SentThrough
  <1> QED BY <1>1, PushInductive, PTL DEF PushSpec, RereadIsWhole
=============================================================================
