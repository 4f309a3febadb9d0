--------------------------- MODULE PositionStream ---------------------------
(***************************************************************************)
(* The position stream of ONE space of ONE instance                        *)
(* (server/src/util/position-clock.ts, sync/record-position-stream.ts,     *)
(* util/horizon-holds.ts): the clock that hands out positions, the holds   *)
(* that stop every reader below a position whose write has not ended, and  *)
(* the settled cap every page is read below.                               *)
(*                                                                         *)
(* A position is a natural number of the stream's unit (microseconds).     *)
(* Position 0 stands for "none": a row that does not exist, a writer with  *)
(* no open hold.  Positions 1 .. BandFloor are the legacy band: positions  *)
(* carried from an older build, which several rows may share.              *)
(***************************************************************************)
EXTENDS Naturals

CONSTANTS
    Rows,           \* documents of the space: records and brain tombstones
    Writers,        \* concurrent callers of withLandingStamp / inHeldTransaction
    BandFloor,      \* MAX_SYNC_SEQ: the top of the legacy band
    MaxBlock,       \* BOUND: rows one write stamps at once
    MaxPosition,    \* BOUND: the highest position the clock hands out
    MaxStepBacks,   \* BOUND: times the wall clock is set back; 0 = monotone
    MaxCrashes      \* BOUND: times the process dies

ASSUME BandAssumption  == BandFloor \in Nat
ASSUME BlockAssumption == MaxBlock \in Nat \ {0}
ASSUME BoundAssumption == MaxPosition \in Nat /\ BandFloor < MaxPosition
ASSUME FaultAssumption == MaxStepBacks \in Nat /\ MaxCrashes \in Nat
ASSUME NonEmptyAssumption == Rows # {} /\ Writers # {}

VARIABLES
    wall,       \* the machine's clock, in the stream's unit
    up,         \* the process is running
    seeded,     \* clockOf has resolved: the clock was read from the store
    last,       \* Clock.last: the highest position handed out by this process
    rowPos,     \* the store: the position of each visible row, 0 = no row
    phase,      \* where each writer stands
    hold,       \* the hold of each writer's block, 0 = none
    floor,      \* the floor each writer's transaction holds, 0 = none
    pending,    \* positions each writer stamped and the store does not show yet
    removing,   \* rows each writer's transaction deletes when it commits
    ownMark,    \* lastPosServed / lastPosPushed: marks of our own stream
    savedMark,  \* the same marks as the configuration file has them
    capServed,  \* history: the highest settled cap any reader was handed
    stepBacks,  \* history: times the wall clock was set back
    crashes     \* history: times the process died

clockVars  == <<wall, stepBacks>>
writerVars == <<phase, hold, floor, pending, removing>>
markVars   == <<ownMark, savedMark>>
lifeVars   == <<up, crashes>>
streamVars == <<wall, up, seeded, last, rowPos, phase, hold, floor, pending,
                removing, ownMark, savedMark, capServed, stepBacks, crashes>>

Max2(a, b) == IF a >= b THEN a ELSE b
Min2(a, b) == IF a <= b THEN a ELSE b

Phases   == {"idle", "write", "txn", "statement", "committed"}
NoStamps == [r \in Rows |-> 0]

-----------------------------------------------------------------------------
(***************************************************************************)
(* The clock and the holds.                                                *)
(***************************************************************************)

\* w's hold is released (heldWhile's finally).  The variant forgets to.
NotReleased(w) == hold
Released(w) == [hold EXCEPT ![w] = 0]

\* What comes next: the wall clock, or one past the last handed out.
NextPosition == Max2(wall, last + 1)

\* A microsecond stream refuses to stamp while the clock reads inside the band.
ClockUsable == wall > BandFloor

\* Every floor of the space that is held and not yet released.  The variant
\* has transactions take no floor.
BlockHoldsOnly == {hold[w] : w \in Writers} \ {0}
OpenHolds == ({hold[w] : w \in Writers} \cup {floor[w] : w \in Writers}) \ {0}

\* c is the settled cap: the lowest open hold, or with none open the next
\* position, computed and not stored.  The variant reads the clock alone.
ClockCap(c) == c = NextPosition
SettledCap(c) ==
    IF OpenHolds = {}
    THEN c = NextPosition
    ELSE c \in OpenHolds /\ \A h \in OpenHolds : c <= h

Caps == {NextPosition} \cup OpenHolds

\* The positions a block of n hands to n rows: consecutive, one to each.
Blocks(first, n) ==
    {f \in [Rows -> {0} \cup (first .. first + n - 1)] :
        /\ \A p \in first .. first + n - 1 : \E r \in Rows : f[r] = p
        /\ \A r, s \in Rows : f[r] = f[s] /\ f[r] # 0 => r = s}

\* What a block of n leaves as the last position handed out.  The variant
\* counts one position for the whole block.
BlockStart(first, n) == first
BlockEnd(first, n) == first + n - 1

\* Take a block for w: stamp and hold in one tick.
TakeBlock(w, n) ==
    /\ BlockEnd(NextPosition, n) <= MaxPosition
    /\ last' = BlockEnd(NextPosition, n)
    /\ hold' = [hold EXCEPT ![w] = NextPosition]
    /\ \E f \in Blocks(NextPosition, n) :
          pending' = [pending EXCEPT ![w] =
                        [r \in Rows |-> IF f[r] # 0 THEN f[r] ELSE @[r]]]

\* What a transaction's floor leaves as the last position handed out.  The
\* variant registers nothing.
FloorNotRegistered(fl) == last
FloorRegistered(fl) == Max2(last, fl - 1)

-----------------------------------------------------------------------------
(***************************************************************************)
(* The wall clock, the process and the seed.                               *)
(***************************************************************************)

WallTick ==
    /\ wall <= MaxPosition
    /\ wall' = wall + 1
    /\ UNCHANGED <<lifeVars, seeded, last, rowPos, writerVars, markVars,
                   capServed, stepBacks>>

\* An administrator, NTP or a resumed machine sets the clock back.
WallStepBack ==
    /\ stepBacks < MaxStepBacks
    /\ \E t \in 0 .. MaxPosition : t < wall /\ wall' = t
    /\ stepBacks' = stepBacks + 1
    /\ UNCHANGED <<lifeVars, seeded, last, rowPos, writerVars, markVars,
                   capServed>>

\* top is the highest position stored or recorded in our own marks.  The variant
\* reads the marks alone.
MarksTop(top) == top = ownMark
SeedTop(top) ==
    /\ ownMark <= top
    /\ \A r \in Rows : rowPos[r] <= top

\* The first caller reads the seed; a read that fails is not remembered.
Seed ==
    /\ up
    /\ ~seeded
    /\ seeded' = TRUE
    /\ \E top \in {ownMark} \cup {rowPos[r] : r \in Rows} :
          SeedTop(top) /\ last' = top
    /\ UNCHANGED <<clockVars, lifeVars, rowPos, writerVars, markVars, capServed>>

\* The process dies: clock, holds and unsaved marks are gone; what an operation
\* in flight was to write has either landed before this step or never lands.
Crash ==
    /\ up
    /\ crashes < MaxCrashes
    /\ crashes' = crashes + 1
    /\ up' = FALSE
    /\ seeded' = FALSE
    /\ last' = 0
    /\ phase' = [w \in Writers |-> "idle"]
    /\ hold' = [w \in Writers |-> 0]
    /\ floor' = [w \in Writers |-> 0]
    /\ pending' = [w \in Writers |-> NoStamps]
    /\ removing' = [w \in Writers |-> {}]
    /\ ownMark' = savedMark
    /\ UNCHANGED <<clockVars, rowPos, savedMark, capServed>>

\* A start takes longer than the clock ran ahead of the wall clock (a block of
\* n rows runs n microseconds ahead), unless the wall clock was set back.
Restart ==
    /\ ~up
    /\ wall >= capServed \/ stepBacks > 0
    /\ up' = TRUE
    /\ UNCHANGED <<clockVars, crashes, seeded, last, rowPos, writerVars,
                   markVars, capServed>>

-----------------------------------------------------------------------------
(***************************************************************************)
(* A plain write: withLandingStamp outside a session.                      *)
(***************************************************************************)

StampWrite(w, n) ==
    /\ seeded
    /\ ClockUsable
    /\ phase[w] = "idle"
    /\ TakeBlock(w, n)
    /\ phase' = [phase EXCEPT ![w] = "write"]
    /\ UNCHANGED <<clockVars, lifeVars, seeded, rowPos, floor, removing,
                   markVars, capServed>>

\* The store applies one document of the write (an unordered bulk).
LandRow(w, r) ==
    /\ phase[w] = "write"
    /\ pending[w][r] # 0
    /\ rowPos' = [rowPos EXCEPT ![r] = pending[w][r]]
    /\ pending' = [pending EXCEPT ![w][r] = 0]
    /\ UNCHANGED <<clockVars, lifeVars, seeded, last, phase, hold, floor,
                   removing, markVars, capServed>>

\* The write ends, whichever way: done, refused, or ended by the write bound
\* once the server operation is gone.  What has not landed never will.
EndWrite(w) ==
    /\ phase[w] = "write"
    /\ phase' = [phase EXCEPT ![w] = "idle"]
    /\ hold' = Released(w)
    /\ pending' = [pending EXCEPT ![w] = NoStamps]
    /\ UNCHANGED <<clockVars, lifeVars, seeded, last, rowPos, floor, removing,
                   markVars, capServed>>

-----------------------------------------------------------------------------
(***************************************************************************)
(* A transaction: inHeldTransaction around inBoundedTransaction.           *)
(***************************************************************************)

\* The floor is held before the session starts, and registered as handed out.
BeginTxn(w) ==
    /\ seeded
    /\ ClockUsable
    /\ phase[w] = "idle"
    /\ NextPosition <= MaxPosition
    /\ floor' = [floor EXCEPT ![w] = NextPosition]
    /\ last' = FloorRegistered(NextPosition)
    /\ phase' = [phase EXCEPT ![w] = "txn"]
    /\ UNCHANGED <<clockVars, lifeVars, seeded, rowPos, hold, pending,
                   removing, markVars, capServed>>

\* A statement inside the session deletes a row.
RemoveRow(w, r) ==
    /\ phase[w] = "txn"
    /\ rowPos[r] # 0
    /\ removing' = [removing EXCEPT ![w] = @ \cup {r}]
    /\ pending' = [pending EXCEPT ![w][r] = 0]
    /\ UNCHANGED <<clockVars, lifeVars, seeded, last, rowPos, phase, hold,
                   floor, markVars, capServed>>

\* A stamped statement inside the session: its own hold is open while it runs.
StampStatement(w, n) ==
    /\ phase[w] = "txn"
    /\ ClockUsable
    /\ TakeBlock(w, n)
    /\ phase' = [phase EXCEPT ![w] = "statement"]
    /\ UNCHANGED <<clockVars, lifeVars, seeded, rowPos, floor, removing,
                   markVars, capServed>>

\* The statement returns: its own hold is released, its rows are not visible.
EndStatement(w) ==
    /\ phase[w] = "statement"
    /\ phase' = [phase EXCEPT ![w] = "txn"]
    /\ hold' = Released(w)
    /\ UNCHANGED <<clockVars, lifeVars, seeded, last, rowPos, floor, pending,
                   removing, markVars, capServed>>

\* The server commits: every row of the transaction appears at once.  The
\* commit's answer may still be lost, so the floor stays held.
CommitTxn(w) ==
    /\ phase[w] = "txn"
    /\ phase' = [phase EXCEPT ![w] = "committed"]
    /\ rowPos' = [r \in Rows |->
                    IF pending[w][r] # 0 THEN pending[w][r]
                    ELSE IF r \in removing[w] THEN 0 ELSE rowPos[r]]
    /\ pending' = [pending EXCEPT ![w] = NoStamps]
    /\ removing' = [removing EXCEPT ![w] = {}]
    /\ UNCHANGED <<clockVars, lifeVars, seeded, last, hold, floor, markVars,
                   capServed>>

\* A transient failure aborts and runs the body again from the top, under the
\* floor taken before the first attempt.
RetryTxn(w) ==
    /\ phase[w] \in {"txn", "statement"}
    /\ phase' = [phase EXCEPT ![w] = "txn"]
    /\ hold' = Released(w)
    /\ pending' = [pending EXCEPT ![w] = NoStamps]
    /\ removing' = [removing EXCEPT ![w] = {}]
    /\ UNCHANGED <<clockVars, lifeVars, seeded, last, rowPos, floor, markVars,
                   capServed>>

\* The transaction ends: committed, aborted, or sealed at the write bound.
EndTxn(w) ==
    /\ phase[w] \in {"txn", "statement", "committed"}
    /\ phase' = [phase EXCEPT ![w] = "idle"]
    /\ hold' = Released(w)
    /\ floor' = [floor EXCEPT ![w] = 0]
    /\ pending' = [pending EXCEPT ![w] = NoStamps]
    /\ removing' = [removing EXCEPT ![w] = {}]
    /\ UNCHANGED <<clockVars, lifeVars, seeded, last, rowPos, markVars,
                   capServed>>

-----------------------------------------------------------------------------
(***************************************************************************)
(* Readers and marks.                                                      *)
(***************************************************************************)

\* A reader is handed cap c.
HandCap(c) == SettledCap(c) /\ capServed' = Max2(capServed, c)

ReadCap ==
    /\ seeded
    /\ \E c \in Caps : HandCap(c)
    /\ UNCHANGED <<clockVars, lifeVars, seeded, last, rowPos, writerVars,
                   markVars>>

\* The value a mark of our own stream is recorded at: cut at cap c, and folded
\* into the mark that is there, which never moves back.  The variant takes the
\* peer's number as it was sent.
UncutMark(value, c) == Max2(ownMark, value)
OwnPositionMark(value, c) == Max2(ownMark, Min2(value, c))

\* A peer names a position of our stream: any number it likes.
RecordMark ==
    /\ seeded
    /\ \E value \in 1 .. MaxPosition + 2, c \in Caps :
          HandCap(c) /\ ownMark' = OwnPositionMark(value, c)
    /\ UNCHANGED <<clockVars, lifeVars, seeded, last, rowPos, writerVars,
                   savedMark>>

\* The coalesced save of the configuration reaches the disk.
SaveMark ==
    /\ up
    /\ savedMark' = ownMark
    /\ UNCHANGED <<clockVars, lifeVars, seeded, last, rowPos, writerVars,
                   ownMark, capServed>>

-----------------------------------------------------------------------------
Init ==
    /\ wall \in {BandFloor, BandFloor + 1}
    /\ up = TRUE
    /\ seeded = FALSE
    /\ last = 0
    /\ rowPos \in [Rows -> 0 .. BandFloor]
    /\ phase = [w \in Writers |-> "idle"]
    /\ hold = [w \in Writers |-> 0]
    /\ floor = [w \in Writers |-> 0]
    /\ pending = [w \in Writers |-> NoStamps]
    /\ removing = [w \in Writers |-> {}]
    /\ ownMark = 0
    /\ savedMark = 0
    /\ capServed = 0
    /\ stepBacks = 0
    /\ crashes = 0

WriterStep(w) ==
    \/ \E n \in 1 .. MaxBlock : StampWrite(w, n) \/ StampStatement(w, n)
    \/ \E r \in Rows : LandRow(w, r) \/ RemoveRow(w, r)
    \/ EndWrite(w)
    \/ BeginTxn(w)
    \/ EndStatement(w)
    \/ CommitTxn(w)
    \/ RetryTxn(w)
    \/ EndTxn(w)

\* Every step of the stream but a crash and what a puller's request does.
StreamStep ==
    \/ WallTick \/ WallStepBack
    \/ Seed \/ Restart
    \/ SaveMark
    \/ \E w \in Writers : WriterStep(w)

Next == StreamStep \/ Crash \/ ReadCap \/ RecordMark

Spec == Init /\ [][Next]_streamVars

(***************************************************************************)
(* Fairness: time passes, a started process seeds its clock, and every     *)
(* write and transaction ends (the write bound ends those that hang).      *)
(***************************************************************************)
Fairness ==
    /\ WF_streamVars(WallTick)
    /\ WF_streamVars(Seed)
    /\ WF_streamVars(Restart)
    /\ \A w \in Writers : WF_streamVars(EndWrite(w)) /\ WF_streamVars(EndTxn(w))

FairSpec == Spec /\ Fairness

-----------------------------------------------------------------------------
(***************************************************************************)
(* Type and shape.                                                         *)
(***************************************************************************)

\* The shape of the state: an idle writer holds nothing, a write holds its
\* block, a transaction holds its floor from its start to its end, and only a
\* seeded process has writers at work (heldWhile releases in a finally).
TypeOK ==
    /\ wall \in 0 .. MaxPosition + 1
    /\ up \in BOOLEAN /\ seeded \in BOOLEAN
    /\ last \in Nat
    /\ rowPos \in [Rows -> Nat]
    /\ phase \in [Writers -> Phases]
    /\ hold \in [Writers -> Nat]
    /\ floor \in [Writers -> Nat]
    /\ pending \in [Writers -> [Rows -> Nat]]
    /\ removing \in [Writers -> SUBSET Rows]
    /\ ownMark \in Nat /\ savedMark \in Nat /\ capServed \in Nat
    /\ stepBacks \in Nat /\ crashes \in Nat
    /\ seeded => up
    /\ \A w \in Writers :
         /\ phase[w] # "idle" => seeded
         /\ hold[w] # 0 <=> phase[w] \in {"write", "statement"}
         /\ floor[w] # 0 <=> phase[w] \in {"txn", "statement", "committed"}
         /\ phase[w] \in {"idle", "committed"} => pending[w] = NoStamps

-----------------------------------------------------------------------------
(***************************************************************************)
(* Safety.                                                                 *)
(***************************************************************************)

\* No two rows share a position of the clock band, whether it is stored or
\* stamped and on its way: a block advances `last` past its whole length, the
\* seed starts above what is stored, and a wall clock set back changes nothing.
StampsAreDistinct ==
    /\ \A r, s \in Rows :
          rowPos[r] > BandFloor /\ rowPos[r] = rowPos[s] => r = s
    /\ \A w \in Writers : \A r, s \in Rows :
          pending[w][r] # 0 => pending[w][r] # rowPos[s]
    /\ \A v, w \in Writers : \A r, s \in Rows :
          pending[v][r] # 0 /\ pending[v][r] = pending[w][s] => v = w /\ r = s

\* Every position that is stamped and not yet visible sits at or above a hold
\* of its own writer that is still open: the block's, or inside a session the
\* transaction's floor once the statement has released the block's.
UnlandedIsHeld ==
    \A w \in Writers : \A r \in Rows :
        pending[w][r] # 0 =>
            \/ hold[w] # 0 /\ hold[w] <= pending[w][r]
            \/ floor[w] # 0 /\ floor[w] <= pending[w][r]

\* A mark of our own stream is never above a cap this instance computed: a
\* number a peer sends cannot drive the seed of the clock (ownPositionMark).
OwnMarkIsCapped == ownMark <= capServed /\ savedMark <= capServed

\* Any stamp taken later is at or above every cap that was handed out, the
\* claim settledPositionCap's comment makes (position-clock.ts:262).
StampsStayAboveCaps ==
    \A w \in Writers : \A r \in Rows :
        pending[w][r] # 0 => pending[w][r] >= capServed

(***************************************************************************)
(* The abstract stream: a cap that was handed out is settled for good.     *)
(***************************************************************************)
Settled == INSTANCE SettledStream WITH horizon <- capServed

\* Readers can page by position: the stream implements the abstract one, in
\* which no row ever appears below a cap a reader was handed.
NothingLandsBelowACap == Settled!Spec

(***************************************************************************)
(* Liveness.                                                               *)
(***************************************************************************)

\* p is below a cap a reader could be handed now.
Readable(p) == seeded /\ \E c \in Caps : SettledCap(c) /\ p < c

\* A row that landed is not held back for ever: however holds overlap, the cap
\* passes it, or it is written again (every hold ends inside the write bound).
EveryRowBecomesReadable ==
    \A r \in Rows : \A p \in 1 .. MaxPosition :
        rowPos[r] = p ~> (rowPos[r] # p \/ Readable(p))
=============================================================================
