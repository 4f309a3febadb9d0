---------------------------- MODULE PositionPull ----------------------------
(***************************************************************************)
(* One peer pulls the space of PositionStream: the pages a server answers  *)
(* (util/position-keyset.ts, sync/wire-answer.ts), the pager that follows  *)
(* them (sync/position-run-pager.ts), the turn that reads every family     *)
(* under one mark (sync/space-exchange.ts, sync/watermark.ts), and the     *)
(* mark the server keeps of how far the peer was served, which is the      *)
(* floor its tombstones are pruned to (sync/served-watermark.ts,           *)
(* brain/tombstone-prune.ts).                                              *)
(*                                                                         *)
(* A row's version is named by its position.  Family 1 is the brain        *)
(* tombstones; the families are read in order, one after the other.        *)
(***************************************************************************)
EXTENDS PositionStream, FiniteSets

CONSTANTS
    Families,   \* how many transfers run under the mark (seven in the code)
    FamilyOf,   \* the family of each row
    PageSize,   \* rows per page
    MaxPages    \* requests one transfer makes per cycle (PULL_MAX_PAGES)

ASSUME IdAssumption     == Rows \subseteq Nat \ {0}   \* a row's _id, and its order
ASSUME FamilyAssumption == /\ Families \in Nat \ {0}
                           /\ FamilyOf \in [Rows -> 1 .. Families]
ASSUME PageAssumption   == PageSize \in Nat \ {0} /\ MaxPages \in Nat \ {0}

VARIABLES
    mark,       \* lastPosReceived, as the puller's process has it
    diskMark,   \* lastPosReceived, as the puller's configuration file has it
    got,        \* the puller's store: the version it holds of each row
    stage,      \* where the puller's turn stands
    fam,        \* the family being read
    from,       \* the mark the turn's transfers begin from
    through,    \* deliveredThrough of each transfer of the turn
    start,      \* what the next request reads after: a position, or a cursor
    checked,    \* the transfer's first answer was compared with its head
    behind,     \* the transfer found the peer's head below its mark
    forgotAt,   \* history: the transfer that had the mark forgotten, 0 = none
    pages,      \* requests the transfer has made
    answer      \* the page being read, or on the wire

turnVars == <<stage, fam, from, through, start, checked, behind, forgotAt,
              pages, answer>>
pullVars == <<mark, diskMark, got, turnVars>>
vars     == <<streamVars, pullVars>>

Stages == {"idle", "ask", "reading", "answered", "read"}
Family == 1 .. Families

\* A start with id 0 is a bare position; any other is a cursor's pair.
AtPosition(p) == [pos |-> p, id |-> 0]
NoAnswer == [items |-> NoStamps, next |-> AtPosition(0), cap |-> 0]

\* The requests of one transfer and cycle are spent.  The variant allows one
\* request more.
PastPageBound == pages > MaxPages
AtPageBound == pages = MaxPages

-----------------------------------------------------------------------------
(***************************************************************************)
(* The server: one page of a family.                                       *)
(***************************************************************************)

\* Row r comes after the start: the rest of the run at a cursor's position,
\* and everything above it.
ComesAfter(r) ==
    \/ rowPos[r] > start.pos
    \/ start.id # 0 /\ rowPos[r] = start.pos /\ r > start.id

Candidates(f, c) ==
    {r \in Rows : FamilyOf[r] = f /\ rowPos[r] # 0 /\ rowPos[r] < c /\ ComesAfter(r)}

\* The order of every position read: by position, then by id.
Precedes(r, s) ==
    rowPos[r] < rowPos[s] \/ (rowPos[r] = rowPos[s] /\ r < s)

\* The first PageSize of a set of rows, or all of them when there are no more.
FirstPage(rows) ==
    {P \in SUBSET rows :
        /\ IF P = rows THEN Cardinality(P) <= PageSize
                       ELSE Cardinality(P) = PageSize
        /\ \A r \in P : \A s \in rows \ P : Precedes(r, s)}

\* The cursor of the page after P: P's last row while more follows.
CursorAfter(P, rows, next) ==
    IF P = rows
    THEN next = AtPosition(0)
    ELSE \E l \in P : /\ \A r \in P : r = l \/ Precedes(r, l)
                      /\ next = [pos |-> rowPos[l], id |-> l]

HasMore(a) == a.next.id # 0

\* The position a page is complete through: before an unfinished run of equal
\* positions, or with nothing following the settled cap less one.  The variant
\* names the last row's own position.
ThroughLastRow(a) == IF HasMore(a) THEN a.next.pos ELSE a.cap - 1
PageThrough(a) == IF HasMore(a) THEN a.next.pos - 1 ELSE a.cap - 1

\* The highest position the server can have handed out and settled.
PageHead(a) == a.cap - 1

\* How far a tombstone request shows the puller to have been served: where it
\* asks from, and inside a run only the position before it.  The variant counts
\* the run a cursor stands in.
ServedThroughRun(s) == s.pos
ServedBy(s) == IF s.id = 0 THEN s.pos ELSE s.pos - 1

\* One cap for the page, taken before its rows are read.
ServerTakesCap ==
    /\ stage = "ask"
    /\ ~AtPageBound
    /\ seeded
    /\ \E c \in Caps : HandCap(c) /\ answer' = [NoAnswer EXCEPT !.cap = c]
    /\ stage' = "reading"
    /\ UNCHANGED <<clockVars, lifeVars, seeded, last, rowPos, writerVars,
                   markVars, mark, diskMark, got, fam, from, through, start,
                   checked, behind, forgotAt, pages>>

\* The finds run below that cap; the tombstone door then records how far this
\* peer was served.
ServerReadsPage ==
    /\ stage = "reading"
    /\ LET rows == Candidates(fam, answer.cap)
       IN  \E P \in FirstPage(rows) :
             \E next \in {AtPosition(0)} \cup {[pos |-> rowPos[l], id |-> l] : l \in P} :
               /\ CursorAfter(P, rows, next)
               /\ answer' = [answer EXCEPT
                     !.items = [r \in Rows |-> IF r \in P THEN rowPos[r] ELSE 0],
                     !.next  = next]
    /\ IF fam = 1 /\ ServedBy(start) > 0
       THEN \E c \in Caps : HandCap(c) /\ ownMark' = OwnPositionMark(ServedBy(start), c)
       ELSE UNCHANGED <<ownMark, capServed>>
    /\ stage' = "answered"
    /\ pages' = pages + 1
    /\ UNCHANGED <<clockVars, lifeVars, seeded, last, rowPos, writerVars,
                   savedMark, mark, diskMark, got, fam, from, through, start,
                   checked, behind, forgotAt>>

\* The floor tombstones are pruned to, with one member on the space's networks.
TombstoneFloor == ownMark

\* The prune deletes the tombstones at or below the floor.
PruneTombstones ==
    /\ up
    /\ \E r \in Rows : FamilyOf[r] = 1 /\ rowPos[r] \in 1 .. TombstoneFloor
    /\ rowPos' = [r \in Rows |->
                    IF FamilyOf[r] = 1 /\ rowPos[r] <= TombstoneFloor
                    THEN 0 ELSE rowPos[r]]
    /\ UNCHANGED <<clockVars, lifeVars, seeded, last, writerVars, markVars,
                   capServed, pullVars>>

-----------------------------------------------------------------------------
(***************************************************************************)
(* The puller: the pages of one transfer.                                  *)
(***************************************************************************)

\* What a turn that is over leaves behind.
TurnOver ==
    /\ stage' = "idle"
    /\ fam' = 1
    /\ from' = 0
    /\ through' = [f \in Family |-> 0]
    /\ start' = AtPosition(0)
    /\ checked' = FALSE
    /\ behind' = FALSE
    /\ forgotAt' = 0
    /\ pages' = 0
    /\ answer' = NoAnswer

\* The transfer of fam is over, complete through reached[fam].  One that found
\* the peer behind has the mark forgotten and the rest of the turn read from 0.
TransferOver(reached) ==
    LET forgets == behind /\ from # 0
        since   == IF forgets THEN 0 ELSE from
        more    == fam < Families
    IN  /\ mark' = IF forgets THEN 0 ELSE mark
        /\ from' = since
        /\ fam' = IF more THEN fam + 1 ELSE fam
        /\ stage' = IF more THEN "ask" ELSE "read"
        /\ through' = IF more THEN [reached EXCEPT ![fam + 1] = since] ELSE reached
        /\ start' = AtPosition(since)
        /\ checked' = FALSE
        /\ behind' = FALSE
        /\ forgotAt' = IF forgets THEN fam ELSE forgotAt
        /\ pages' = 0
        /\ answer' = NoAnswer

StartTurn ==
    /\ stage = "idle"
    /\ stage' = "ask"
    /\ fam' = 1
    /\ from' = mark
    /\ through' = [f \in Family |-> IF f = 1 THEN mark ELSE 0]
    /\ start' = AtPosition(mark)
    /\ checked' = FALSE
    /\ behind' = FALSE
    /\ pages' = 0
    /\ answer' = NoAnswer
    /\ UNCHANGED <<streamVars, mark, diskMark, got, forgotAt>>

\* The first answer's head is below where the transfer started: the server's
\* positions went backwards.  The variant takes a server with nothing new for
\* one that did.
ReachesHead(a) == ~checked /\ start.id = 0 /\ through[fam] >= PageHead(a)
FoundBehind(a) == ~checked /\ start.id = 0 /\ through[fam] > PageHead(a)

\* Where a transfer that found so is read again from.  The variant clamps it to
\* the server's head.
RereadFromHead(a) == PageHead(a)
RereadFrom(a) == 0

\* The transfer is read again; the page that said so is dropped.
RestartBehind ==
    /\ stage = "answered"
    /\ FoundBehind(answer)
    /\ stage' = "ask"
    /\ checked' = TRUE
    /\ behind' = TRUE
    /\ through' = [through EXCEPT ![fam] = RereadFrom(answer)]
    /\ start' = AtPosition(RereadFrom(answer))
    /\ answer' = NoAnswer
    /\ UNCHANGED <<streamVars, mark, diskMark, got, fam, from, forgotAt, pages>>

\* The rows of the page in S land here.
Landed(S) ==
    [r \in Rows |-> IF r \in S /\ answer.items[r] # 0 THEN answer.items[r] ELSE got[r]]

\* How far the transfer is complete once the answer is delivered.
DeliveredThrough(a) == Max2(through[fam], PageThrough(a))

\* A page lands and the peer's cursor is followed.
DeliverPage ==
    /\ stage = "answered"
    /\ ~FoundBehind(answer)
    /\ HasMore(answer)
    /\ got' = Landed(Rows)
    /\ through' = [through EXCEPT ![fam] = DeliveredThrough(answer)]
    /\ start' = answer.next
    /\ checked' = TRUE
    /\ stage' = "ask"
    /\ answer' = NoAnswer
    /\ UNCHANGED <<streamVars, mark, diskMark, fam, from, behind, forgotAt, pages>>

\* The last page lands.
DeliverLastPage ==
    /\ stage = "answered"
    /\ ~FoundBehind(answer)
    /\ ~HasMore(answer)
    /\ got' = Landed(Rows)
    /\ TransferOver([through EXCEPT ![fam] = DeliveredThrough(answer)])
    /\ UNCHANGED <<streamVars, diskMark>>

\* The requests of one transfer and cycle are spent: a stop, nothing failed.
StopAtPageBound ==
    /\ stage = "ask"
    /\ AtPageBound
    /\ TransferOver(through)
    /\ UNCHANGED <<streamVars, diskMark, got>>

\* The server answers a status, or shutdown begins: the transfer stops where
\* it is complete and the turn goes on with the next family.
StopEarly ==
    /\ stage \in {"ask", "reading"}
    /\ TransferOver(through)
    /\ UNCHANGED <<streamVars, diskMark, got>>

\* The puller's own store fails part-way through landing a page.
LandingFails ==
    /\ stage = "answered"
    /\ ~FoundBehind(answer)
    /\ \E S \in SUBSET Rows : got' = Landed(S)
    /\ TransferOver(through)
    /\ UNCHANGED <<streamVars, diskMark>>

-----------------------------------------------------------------------------
(***************************************************************************)
(* The puller: the turn and its one mark.                                  *)
(***************************************************************************)

\* at is where the mark may move: the least any transfer is complete through,
\* and never below where the turn began.  The variant takes the greatest.
GreatestMark(at) ==
    \E f \in Family : /\ \A g \in Family : through[g] <= through[f]
                      /\ at = Max2(from, through[f])
SafeWatermark(at) ==
    \E f \in Family : /\ \A g \in Family : through[f] <= through[g]
                      /\ at = Max2(from, through[f])

\* Every family was read: the mark moves.
ResolveWatermark ==
    /\ stage = "read"
    /\ \E at \in {from} \cup {through[f] : f \in Family} :
          /\ SafeWatermark(at)
          /\ mark' = IF at > from THEN Max2(mark, at) ELSE mark
    /\ TurnOver
    /\ UNCHANGED <<streamVars, diskMark, got>>

\* A fetch throws, an act on the space cuts the turn, or the space is newly
\* held when the mark would be written: the turn ends and writes no mark.
TurnCut ==
    /\ stage # "idle"
    /\ TurnOver
    /\ UNCHANGED <<streamVars, mark, diskMark, got>>

\* The coalesced save of the puller's configuration reaches the disk.
SavePullMark ==
    /\ diskMark' = mark
    /\ UNCHANGED <<streamVars, mark, got, turnVars>>

\* The puller's process dies and starts again: what landed is kept, the mark is
\* the one on the disk.
PullerCrash ==
    /\ mark' = diskMark
    /\ TurnOver
    /\ UNCHANGED <<streamVars, diskMark, got>>

\* The server's process dies: a request it was reading for fails.
ServerCrash ==
    /\ Crash
    /\ IF stage = "reading" THEN TurnOver /\ UNCHANGED <<mark, diskMark, got>>
                            ELSE UNCHANGED pullVars

-----------------------------------------------------------------------------
PullInit ==
    /\ Init
    /\ mark = 0
    /\ diskMark = 0
    /\ got = NoStamps
    /\ stage = "idle"
    /\ fam = 1
    /\ from = 0
    /\ through = [f \in Family |-> 0]
    /\ start = AtPosition(0)
    /\ checked = FALSE
    /\ behind = FALSE
    /\ forgotAt = 0
    /\ pages = 0
    /\ answer = NoAnswer

\* The steps of a turn that meets no fault.
TurnStep ==
    \/ ServerTakesCap \/ ServerReadsPage
    \/ StartTurn \/ RestartBehind
    \/ DeliverPage \/ DeliverLastPage \/ StopAtPageBound
    \/ ResolveWatermark

FaultStep == StopEarly \/ LandingFails \/ TurnCut \/ PullerCrash

PullNext ==
    \/ StreamStep /\ UNCHANGED pullVars
    \/ ServerCrash
    \/ PruneTombstones
    \/ TurnStep
    \/ FaultStep
    \/ SavePullMark

PullSpec == PullInit /\ [][PullNext]_vars

(***************************************************************************)
(* Fairness: the stream's, and a puller whose cycle keeps running; faults  *)
(* of the network and of the puller come to an end.  A fault that changes  *)
(* what a healthy step changes (a turn cut where the mark would not have   *)
(* moved) is one: it may go on for ever.                                   *)
(***************************************************************************)
PullFairness ==
    /\ WF_vars(WallTick /\ UNCHANGED pullVars)
    /\ WF_vars(Seed /\ UNCHANGED pullVars)
    /\ WF_vars(Restart /\ UNCHANGED pullVars)
    /\ \A w \in Writers : /\ WF_vars(EndWrite(w) /\ UNCHANGED pullVars)
                          /\ WF_vars(EndTxn(w) /\ UNCHANGED pullVars)
    /\ WF_vars(TurnStep)

FaultsCease == <>[][FaultStep => TurnStep]_vars

PullFairSpec == PullSpec /\ PullFairness /\ FaultsCease

-----------------------------------------------------------------------------
\* The shape of a turn: an idle turn carries nothing, an answer exists only
\* while one is being read or is on the wire, and every transfer that is over
\* or running is complete at least through where the turn began.
PullTypeOK ==
    /\ mark \in Nat /\ diskMark \in Nat /\ from \in Nat /\ pages \in 0 .. MaxPages
    /\ got \in [Rows -> Nat]
    /\ stage \in Stages
    /\ fam \in Family
    /\ through \in [Family -> Nat]
    /\ start \in [pos : Nat, id : Nat]
    /\ checked \in BOOLEAN /\ behind \in BOOLEAN /\ forgotAt \in 0 .. fam
    /\ answer \in [items : [Rows -> Nat], next : [pos : Nat, id : Nat], cap : Nat]
    /\ stage \notin {"reading", "answered"} => answer = NoAnswer
    /\ stage = "idle" => ~checked /\ ~behind /\ pages = 0 /\ from = 0 /\ forgotAt = 0
    /\ stage # "idle" /\ ~behind => \A f \in 1 .. fam : from <= through[f]

(***************************************************************************)
(* Safety.                                                                 *)
(***************************************************************************)

\* The promise of the mark: no row the server shows at or below it is missing
\* here.  Writes land while families are read one after another, pages are cut
\* inside runs of equal positions, transfers stop anywhere, both processes die.
NothingSkipped ==
    \A r \in Rows : rowPos[r] # 0 /\ rowPos[r] <= mark => got[r] = rowPos[r]

\* A tombstone at or below the floor has been applied by the puller, so a prune
\* takes nothing it still needs (tombstone-prune.ts: "below it, every peer has
\* already applied the deletion").
PrunableIsApplied ==
    \A r \in Rows :
        FamilyOf[r] = 1 /\ rowPos[r] \in 1 .. TombstoneFloor => got[r] = rowPos[r]

\* The transfers of this turn that were read from 0 because the server's
\* positions went backwards: the one that found it, and the ones after it.
Reread == (IF behind THEN {fam} ELSE {})
          \cup (IF forgotAt # 0 THEN forgotAt .. fam ELSE {})

HoldsThrough(f, p) ==
    \A r \in Rows :
        FamilyOf[r] = f /\ rowPos[r] # 0 /\ rowPos[r] <= p => got[r] = rowPos[r]

\* A server whose clock is never set back is never found behind, so no mark is
\* forgotten and nothing read again (position-run-pager.ts: a mark above the head
\* "means the peer's numbers went backwards"): a mark is below every later cap,
\* whoever crashes, though the caps are not stored and the clock starts anew.
HonestHeadIsReached == Reread = {}

\* What the head guard has read again is whole, through where its transfer says
\* it is complete: the server's clock went back, rows were stamped where the
\* mark already stood, and the puller holds them (pagePositionRuns' restart).
RereadIsWhole == \A f \in Reread : HoldsThrough(f, through[f])

\* A turn that forgot the mark is about to move it over a space it has read
\* again from the start, as forgetBehindMark says ("The mark is forgotten and the
\* space is read again from the start", space-exchange.ts:307): nothing the
\* server shows at or below the new mark is missing here.
ForgottenMarkIsRebuilt ==
    stage = "read" /\ forgotAt # 0 =>
        \A at \in {through[f] : f \in Family} :
            SafeWatermark(at) => \A f \in Family : HoldsThrough(f, at)

\* The pull implements complete delivery: the mark only ever moves to where
\* everything at or below it is here, and nothing appears below it afterwards.
Delivery == INSTANCE CompleteDelivery
PullIsComplete == Delivery!Spec

(***************************************************************************)
(* Liveness.                                                               *)
(***************************************************************************)

\* Every row the server shows reaches the puller, or is written again or gone
\* first: holds, page bounds and restarts only delay it.
EveryRowArrives ==
    \A r \in Rows : \A p \in 1 .. MaxPosition :
        rowPos[r] = p ~> (rowPos[r] # p \/ got[r] = p)
=============================================================================
