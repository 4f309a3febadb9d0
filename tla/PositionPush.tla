---------------------------- MODULE PositionPush ----------------------------
(***************************************************************************)
(* One space of this instance is pushed to one peer: the loop that sends   *)
(* the stream in pages (sync/push-position-runs.ts), the seven transfers   *)
(* of a turn under one mark (sync/space-exchange.ts pushToPeer), and the   *)
(* operator's full re-read, which forgets the mark and is owed until a     *)
(* turn has gone through everything again (sync/full-reread.ts).           *)
(*                                                                         *)
(* The stream is the one SettledStream promises and PositionStream keeps.  *)
(* Here the reader is the instance that keeps it: it takes a cap of its    *)
(* own for every page, and hands a row to the peer with no position.       *)
(* Family 1 is the brain tombstones, the only transfer with a page bound.  *)
(***************************************************************************)
EXTENDS Naturals, FiniteSets

CONSTANTS
    Rows,           \* the rows of the space, each its own _id
    Families,       \* how many transfers run under the mark (seven in the code)
    FamilyOf,       \* the family of each row
    PageSize,       \* rows per page (PUSH_PAGE, PUSH_BATCH_SIZE)
    MaxPages,       \* pages of tombstones one turn sends (MAX_TRANSFER_PAGES)
    BandFloor,      \* MAX_SYNC_SEQ: the top of the legacy band
    MaxPosition     \* BOUND: the highest position a row lands at

ASSUME PushIdAssumption     == Rows \subseteq Nat \ {0} /\ IsFiniteSet(Rows)
ASSUME PushFamilyAssumption == /\ Families \in Nat \ {0}
                               /\ FamilyOf \in [Rows -> 1 .. Families]
ASSUME PushPageAssumption   == PageSize \in Nat \ {0} /\ MaxPages \in Nat \ {0}
ASSUME PushBoundAssumption  == BandFloor \in Nat /\ MaxPosition \in Nat

VARIABLES
    offered,    \* the position of each row the push's selection offers, 0 = none
    horizon,    \* no row lands below it any more: the highest cap taken
    mark,       \* lastPosPushed, as the process has it
    diskMark,   \* lastPosPushed, as the configuration file has it
    reread,     \* fullRereadState of the space, in memory and in the file
    stage,      \* where the turn stands
    fam,        \* the family being sent
    through,    \* deliveredThrough of each transfer of the turn
    after,      \* what the next page is read after: a position, or a pair
    pages,      \* pages the transfer has read
    cap,        \* the settled cap of the page being read
    page,       \* the positions of the rows in the page, 0 = not in it
    whole,      \* no transfer of the turn, its pull among them, stopped early
    sent,       \* history: the version of each row the peer took since the
                \* re-read began
    promised    \* history: the horizon when the running re-read began

streamVars == <<offered, horizon>>
markVars   == <<mark, diskMark, reread>>
turnVars   == <<stage, fam, through, after, pages, cap, page, whole>>
taleVars   == <<sent, promised>>
pushVars   == <<streamVars, markVars, turnVars, taleVars>>

Stages  == {"idle", "ask", "reading", "sending", "read", "marked"}
Family  == 1 .. Families
NoPage  == [r \in Rows |-> 0]

\* A start with id 0 is a bare position; any other continues a run.
AtPosition(p) == [pos |-> p, id |-> 0]

Greater(a, b) == IF a >= b THEN a ELSE b
Lesser(a, b)  == IF a <= b THEN a ELSE b

-----------------------------------------------------------------------------
(***************************************************************************)
(* The stream.                                                             *)
(***************************************************************************)

Stream == INSTANCE SettledStream WITH rowPos <- offered

\* A row lands at a position of its own, goes, or is written by another hand
\* and leaves the selection (writtenHere, issuedHere): the push sees position
\* 0 for both.
Publish(r, p) ==
    /\ p # 0 => p > BandFloor /\ \A s \in Rows : offered[s] # p
    /\ offered' = [offered EXCEPT ![r] = p]
    /\ Stream!Publish
    /\ UNCHANGED <<markVars, turnVars, taleVars>>

\* Another reader takes a cap: the horizon rises with it.
Settle ==
    /\ horizon' \in horizon + 1 .. MaxPosition + 1
    /\ UNCHANGED <<offered, markVars, turnVars, taleVars>>

-----------------------------------------------------------------------------
(***************************************************************************)
(* The turn begins.                                                        *)
(***************************************************************************)

\* The first family is read after the mark `since`.
TurnFrom(since, soFar) ==
    /\ stage' = "ask"
    /\ fam' = 1
    /\ through' = [f \in Family |-> since]
    /\ after' = AtPosition(since)
    /\ pages' = 0
    /\ cap' = 0
    /\ page' = NoPage
    /\ whole' = soFar

TurnOver ==
    /\ stage' = "idle"
    /\ fam' = 1
    /\ through' = [f \in Family |-> 0]
    /\ after' = AtPosition(0)
    /\ pages' = 0
    /\ cap' = 0
    /\ page' = NoPage
    /\ whole' = FALSE

\* A turn whose space is owed nothing, is catching up, or is owed a re-read it
\* cannot begin (the slot is another space's, or the space is held): it goes on
\* from the mark.  soFar: the pull before it reached its end.
StartTurn(soFar) ==
    /\ stage = "idle"
    /\ TurnFrom(mark, soFar)
    /\ UNCHANGED <<streamVars, markVars, taleVars>>

\* What the begin of a re-read writes of the mark on the disk: both marks and
\* the state are one durable write.  The variant leaves it to a later save.
ForgottenInMemory == diskMark
ForgottenOnDisk == 0

\* The turn that begins an owed re-read.
BeginReread(soFar) ==
    /\ stage = "idle"
    /\ reread = "owed"
    /\ reread' = "catching"
    /\ mark' = 0
    /\ diskMark' = ForgottenOnDisk
    /\ sent' = [r \in Rows |-> 0]
    /\ promised' = horizon
    /\ TurnFrom(0, soFar)
    /\ UNCHANGED streamVars

-----------------------------------------------------------------------------
(***************************************************************************)
(* One page of one transfer.                                               *)
(***************************************************************************)

\* Tombstones stop at the pages of one turn; the record families do not.
AtPageBound == fam = 1 /\ pages = MaxPages

\* The settled cap of this page, taken before its rows are read.
TakeCap ==
    /\ stage = "ask"
    /\ ~AtPageBound
    /\ horizon' \in Greater(horizon, 1) .. MaxPosition + 1
    /\ cap' = horizon'
    /\ stage' = "reading"
    /\ UNCHANGED <<offered, markVars, fam, through, after, pages, page, whole,
                   taleVars>>

\* Row r comes after s: the rest of the run a pair stands in, and what is above
\* it.  The variant continues by the position alone.
AbovePosition(r, s) == offered[r] > s.pos
ComesAfter(r, s) ==
    \/ offered[r] > s.pos
    \/ s.id # 0 /\ offered[r] = s.pos /\ r > s.id

Candidates ==
    {r \in Rows : FamilyOf[r] = fam /\ offered[r] # 0 /\ offered[r] < cap
                  /\ ComesAfter(r, after)}

\* The order of a position read: by position, then by id.
Precedes(r, s, pos) == pos[r] < pos[s] \/ (pos[r] = pos[s] /\ r < s)

\* The rows in P are the page: the first PageSize, or all there are.
IsPage(P) ==
    /\ Cardinality(P) <= PageSize
    /\ Cardinality(P) = PageSize \/ P = Candidates
    /\ \A r \in P : \A s \in Candidates \ P : Precedes(r, s, offered)

ReadPage ==
    /\ stage = "reading"
    /\ \E P \in SUBSET Candidates :
          /\ IsPage(P)
          /\ page' = [r \in Rows |-> IF r \in P THEN offered[r] ELSE 0]
    /\ pages' = pages + 1
    /\ stage' = "sending"
    /\ UNCHANGED <<streamVars, markVars, fam, through, after, cap, whole,
                   taleVars>>

InPage == {r \in Rows : page[r] # 0}
Full   == Cardinality(InPage) = PageSize

\* The page's versions are with the peer.
Taken == [r \in Rows |-> IF page[r] # 0 THEN page[r] ELSE sent[r]]

\* A full page may end inside a run of equal positions: it is complete through
\* the position before its last row's.  One variant takes that row's own, one
\* counts nothing before the last page.
ThroughLastRow(pos) == pos
ThroughNothing(pos) == 0
CompleteThrough(pos) == pos - 1

\* The transfer of fam is over, for good or for now: the next family is read
\* from the mark, and after the last one the mark is resolved.
TransferOver(reached, soFar) ==
    /\ through' = reached
    /\ whole' = soFar
    /\ IF fam < Families
       THEN stage' = "ask" /\ fam' = fam + 1
       ELSE stage' = "read" /\ fam' = fam
    /\ after' = AtPosition(mark)
    /\ pages' = 0
    /\ cap' = 0
    /\ page' = NoPage

\* The peer takes a full page; the next one continues after its last row.
FullPageTaken ==
    /\ stage = "sending"
    /\ Full
    /\ sent' = Taken
    /\ \E l \in InPage :
          /\ \A r \in InPage : r = l \/ Precedes(r, l, page)
          /\ through' = [through EXCEPT ![fam] = Greater(@, CompleteThrough(page[l]))]
          /\ after' = [pos |-> page[l], id |-> l]
    /\ stage' = "ask"
    /\ cap' = 0
    /\ page' = NoPage
    /\ UNCHANGED <<streamVars, markVars, fam, pages, whole, promised>>

\* The peer takes a short page, or none was sent because nothing is left: all
\* there is below the page's cap has gone.
LastPageTaken ==
    /\ stage = "sending"
    /\ ~Full
    /\ sent' = Taken
    /\ TransferOver([through EXCEPT ![fam] = Greater(@, cap - 1)], whole)
    /\ UNCHANGED <<streamVars, markVars, promised>>

\* The pages of one turn are spent: a stop, and nothing failed.
StopAtPageBound ==
    /\ stage = "ask"
    /\ AtPageBound
    /\ TransferOver(through, FALSE)
    /\ UNCHANGED <<streamVars, markVars, taleVars>>

\* The peer refuses the page or holds the family, or shutdown begins: this
\* transfer stops where it is complete and the next one goes on.
TransferStops ==
    /\ stage = "ask" \/ (stage = "sending" /\ InPage # {})
    /\ TransferOver(through, FALSE)
    /\ UNCHANGED <<streamVars, markVars, taleVars>>

-----------------------------------------------------------------------------
(***************************************************************************)
(* The mark, and the end of the turn.                                      *)
(***************************************************************************)

\* at is where the mark may move: the least any transfer is complete through,
\* and never below where the turn began.
SafeWatermark(at) ==
    \E f \in Family : /\ \A g \in Family : through[f] <= through[g]
                      /\ at = Greater(mark, through[f])

\* What the turn records of `at`, cut at cap c.  The variant records nothing of
\* a turn in which a transfer stopped.
OnlyWhenWhole(at, c) == IF whole THEN Greater(mark, Lesser(at, c)) ELSE mark
PushMark(at, c) == Greater(mark, Lesser(at, c))

ResolveWatermark ==
    /\ stage = "read"
    /\ \E at \in {mark} \cup {through[f] : f \in Family} :
          /\ SafeWatermark(at)
          /\ IF at > mark
             THEN /\ horizon' \in Greater(horizon, 1) .. MaxPosition + 1
                  /\ mark' = PushMark(at, horizon')
             ELSE UNCHANGED <<horizon, mark>>
    /\ stage' = "marked"
    /\ UNCHANGED <<offered, diskMark, reread, fam, through, after, pages, cap,
                   page, whole, taleVars>>

\* Whether a turn that took part in a re-read ends it: every leg reached the
\* end.  The variant ends it whatever stopped.
EndsAnyway == TRUE
EndsReread == whole

\* The turn ends.  Removing the state is a durable save of the configuration,
\* the mark in it.
EndTurn ==
    /\ stage = "marked"
    /\ IF reread = "catching" /\ EndsReread
       THEN reread' = "none" /\ diskMark' = mark /\ promised' = 0
       ELSE UNCHANGED <<reread, diskMark, promised>>
    /\ TurnOver
    /\ UNCHANGED <<streamVars, mark, sent>>

\* A throw, a refusal that holds the space, or an act on it ends the turn: what
\* was marked stays, and a re-read stays where it is.
TurnCut ==
    /\ stage # "idle"
    /\ TurnOver
    /\ UNCHANGED <<streamVars, markVars, taleVars>>

\* The operator asks for a full re-read: one durable save.
RequestReread ==
    /\ reread = "none"
    /\ reread' = "owed"
    /\ diskMark' = mark
    /\ UNCHANGED <<streamVars, mark, turnVars, taleVars>>

\* The coalesced save reaches the disk.
SaveMark ==
    /\ diskMark' = mark
    /\ UNCHANGED <<streamVars, mark, reread, turnVars, taleVars>>

\* The process dies and starts again, with the mark of the file.
Crash ==
    /\ mark' = diskMark
    /\ TurnOver
    /\ UNCHANGED <<streamVars, diskMark, reread, taleVars>>

-----------------------------------------------------------------------------
(***************************************************************************)
(* A run of tombstones at one legacy position is shorter than what one     *)
(* turn sends: a longer one would be begun again in every turn and never   *)
(* ended (100000 tombstones at one position in the code).                  *)
(***************************************************************************)
RunsFit(pos) ==
    \A p \in 1 .. BandFloor :
        Cardinality({r \in Rows : FamilyOf[r] = 1 /\ pos[r] = p}) < PageSize * MaxPages

PushInit ==
    /\ offered \in [Rows -> 0 .. BandFloor]
    /\ RunsFit(offered)
    /\ horizon = 0
    /\ mark = 0
    /\ diskMark = 0
    /\ reread = "none"
    /\ stage = "idle"
    /\ fam = 1
    /\ through = [f \in Family |-> 0]
    /\ after = AtPosition(0)
    /\ pages = 0
    /\ cap = 0
    /\ page = NoPage
    /\ whole = FALSE
    /\ sent = [r \in Rows |-> 0]
    /\ promised = 0

\* The steps of a turn that meets no fault: one that may begin an owed re-read
\* begins it.
TurnStep ==
    \/ reread # "owed" /\ StartTurn(TRUE)
    \/ BeginReread(TRUE)
    \/ TakeCap \/ ReadPage
    \/ FullPageTaken \/ LastPageTaken \/ StopAtPageBound
    \/ ResolveWatermark \/ EndTurn

FaultStep ==
    \/ \E soFar \in BOOLEAN : StartTurn(soFar) \/ BeginReread(soFar)
    \/ TransferStops
    \/ TurnCut
    \/ Crash

PushNext ==
    \/ \E r \in Rows, p \in 0 .. MaxPosition : Publish(r, p)
    \/ Settle
    \/ RequestReread
    \/ SaveMark
    \/ TurnStep
    \/ FaultStep

PushSpec == PushInit /\ [][PushNext]_pushVars

(***************************************************************************)
(* Fairness: turns keep running (the cycle's schedule), caps keep rising   *)
(* (PositionStream's EveryRowBecomesReadable), and faults come to an end.  *)
(***************************************************************************)
PushFairness == WF_pushVars(TurnStep) /\ WF_pushVars(Settle)

FaultsCease == <>[][FaultStep => TurnStep]_pushVars

PushFairSpec == PushSpec /\ PushFairness /\ FaultsCease

-----------------------------------------------------------------------------
\* Everything up to p is settled: nothing lands there any more.
IsSettled(p) == p = 0 \/ p < horizon

\* The shape of a turn: a page exists only while it is read and sent and lies
\* below its cap, no mark, transfer or cursor is past what is settled or past
\* the cap of the page in hand, and the file's mark never runs ahead.
PushTypeOK ==
    /\ offered \in [Rows -> Nat] /\ sent \in [Rows -> Nat] /\ page \in [Rows -> Nat]
    /\ horizon \in Nat /\ mark \in Nat /\ diskMark \in Nat /\ promised \in Nat
    /\ reread \in {"none", "owed", "catching"}
    /\ stage \in Stages
    /\ fam \in Family
    /\ through \in [Family -> Nat]
    /\ after \in [pos : Nat, id : Nat]
    /\ pages \in Nat /\ cap \in Nat
    /\ whole \in BOOLEAN
    /\ diskMark <= mark /\ IsSettled(mark) /\ IsSettled(after.pos)
    /\ \A f \in Family : IsSettled(through[f])
    /\ IF stage \in {"reading", "sending"}
       THEN /\ cap \in 1 .. horizon /\ mark < cap /\ after.pos < cap
            /\ \A f \in Family : through[f] < cap
       ELSE cap = 0
    /\ stage \in {"read", "marked"} => fam = Families
    /\ stage # "sending" => page = NoPage
    /\ \A r \in Rows : page[r] # 0 => page[r] < cap /\ FamilyOf[r] = fam

(***************************************************************************)
(* Safety.                                                                 *)
(***************************************************************************)

\* The promise of the push mark: what is offered at or below it has been sent,
\* and since the re-read began.  Rows land while families are read one after
\* another under a cap for each page, pages are cut inside runs of equal
\* positions, transfers stop anywhere, and the process dies between the begin
\* of a re-read and the next save.
NothingLeftBehind ==
    \A r \in Rows : offered[r] \in 1 .. mark => sent[r] = offered[r]

\* A re-read ends only when all that was settled when it began, and is still as
\* it was, has been sent again, in however many turns (endFullReread: "when a
\* turn's legs finished: the pull reached the member's head and so did the
\* push").
RereadIsWhole ==
    [][reread = "catching" /\ reread' = "none" =>
          \A r \in Rows :
              offered[r] # 0 /\ offered[r] < promised => sent[r] = offered[r]]_pushVars

(***************************************************************************)
(* Liveness.                                                               *)
(***************************************************************************)

\* Whatever is settled comes to lie below the mark, re-reads and all: page bounds
\* and runs of equal positions only delay it, and with NothingLeftBehind every
\* row that stays as it is has been sent (watermark.ts: not to advance when a
\* transfer stopped "livelocks").
MarkCatchesUp == \A p \in 1 .. MaxPosition : p < horizon ~> p <= mark

\* A re-read that is asked for ends: a turn that stops at its page bound moves
\* the mark, so the next one has less to send.
RereadEnds == reread = "owed" ~> reread = "none"
=============================================================================
