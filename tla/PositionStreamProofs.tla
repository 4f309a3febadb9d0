------------------------ MODULE PositionStreamProofs ------------------------
(***************************************************************************)
(* Theorems about the position stream, for every number of rows and        *)
(* writers, every block size, every legacy band and any number of crashes. *)
(* Those that rest on a clock that is never set back say so.               *)
(***************************************************************************)
EXTENDS PositionStream, TLAPS

-----------------------------------------------------------------------------
(***************************************************************************)
(* What the clock's operators return.                                      *)
(***************************************************************************)

\* The next position is a position, at or above the wall clock and above every
\* position handed out (PositionStream.next).
LEMMA NextPositionBounds ==
    ASSUME TypeOK
    PROVE  /\ NextPosition \in Nat \ {0}
           /\ wall <= NextPosition
           /\ last + 1 <= NextPosition
           /\ NextPosition \in {wall, last + 1}
  BY DEF TypeOK, NextPosition, Max2

\* A block hands each of its rows a position of its own, none below its first.
LEMMA BlockFunctions ==
    ASSUME NEW first \in Nat \ {0}, NEW n \in Nat \ {0}, NEW f \in Blocks(first, n)
    PROVE  /\ f \in [Rows -> Nat]
           /\ \A r \in Rows : f[r] # 0 => first <= f[r] /\ f[r] <= first + n - 1
           /\ \A r, s \in Rows : f[r] = f[s] /\ f[r] # 0 => r = s
  BY DEF Blocks

\* What taking a block does: the clock moves past the whole block, the block's
\* hold is its first position, and each row of the writer is either stamped
\* inside the block or left as it was (withPositionHeld).
LEMMA TakeBlockEffect ==
    ASSUME TypeOK, NEW w \in Writers, NEW n \in 1 .. MaxBlock, TakeBlock(w, n)
    PROVE  /\ last' \in Nat
           /\ last < last'
           /\ NextPosition <= last'
           /\ hold' = [hold EXCEPT ![w] = NextPosition]
           /\ pending' \in [Writers -> [Rows -> Nat]]
           /\ \A v \in Writers \ {w} : pending'[v] = pending[v]
           /\ \A r \in Rows :
                 \/ pending'[w][r] = pending[w][r]
                 \/ NextPosition <= pending'[w][r] /\ pending'[w][r] <= last'
           /\ \A r, s \in Rows :
                 /\ NextPosition <= pending'[w][r]
                 /\ pending'[w][r] = pending'[w][s]
                 => r = s \/ pending'[w][r] = pending[w][r]
                          \/ pending'[w][s] = pending[w][s]
  <1>1. NextPosition \in Nat \ {0} /\ last + 1 <= NextPosition
    BY NextPositionBounds
  <1>2. n \in Nat \ {0}
    BY BlockAssumption
  <1>3. PICK f \in Blocks(NextPosition, n) :
          pending' = [pending EXCEPT ![w] =
                        [r \in Rows |-> IF f[r] # 0 THEN f[r] ELSE @[r]]]
    BY DEF TakeBlock
  <1>4. /\ f \in [Rows -> Nat]
        /\ \A r \in Rows : f[r] # 0 => /\ NextPosition <= f[r]
                                       /\ f[r] <= NextPosition + n - 1
        /\ \A r, s \in Rows : f[r] = f[s] /\ f[r] # 0 => r = s
    BY <1>1, <1>2, <1>3, BlockFunctions
  <1>5. pending \in [Writers -> [Rows -> Nat]] /\ last \in Nat
    BY DEF TypeOK
  <1>6. /\ last' = NextPosition + n - 1
        /\ hold' = [hold EXCEPT ![w] = NextPosition]
    BY DEF TakeBlock, BlockEnd
  <1>7. pending'[w] = [r \in Rows |-> IF f[r] # 0 THEN f[r] ELSE pending[w][r]]
    BY <1>3, <1>5
  <1>8. /\ \A v \in Writers \ {w} : pending'[v] = pending[v]
        /\ pending' \in [Writers -> [Rows -> Nat]]
    <2>1. [r \in Rows |-> IF f[r] # 0 THEN f[r] ELSE pending[w][r]] \in [Rows -> Nat]
      BY <1>4, <1>5
    <2>2. QED
      BY <1>3, <1>5, <2>1
  <1>9. \A r \in Rows : pending'[w][r] = IF f[r] # 0 THEN f[r] ELSE pending[w][r]
    BY <1>7
  <1>10. last' \in Nat /\ last < last' /\ NextPosition <= last'
    BY <1>1, <1>2, <1>5, <1>6
  <1>11. \A r \in Rows :
            \/ pending'[w][r] = pending[w][r]
            \/ NextPosition <= pending'[w][r] /\ pending'[w][r] <= last'
    BY <1>4, <1>6, <1>9
  <1>12. \A r, s \in Rows :
            /\ NextPosition <= pending'[w][r]
            /\ pending'[w][r] = pending'[w][s]
            => r = s \/ pending'[w][r] = pending[w][r]
                     \/ pending'[w][s] = pending[w][s]
    BY <1>4, <1>9
  <1>13. QED
    BY <1>6, <1>8, <1>10, <1>11, <1>12

\* The lowest of two numbers and the highest, for the marks.
LEMMA MaxMinBounds ==
    ASSUME NEW a \in Nat, NEW b \in Nat
    PROVE  /\ Max2(a, b) \in Nat /\ a <= Max2(a, b) /\ b <= Max2(a, b)
           /\ Max2(a, b) \in {a, b}
           /\ Min2(a, b) \in Nat /\ Min2(a, b) <= a /\ Min2(a, b) <= b
  BY DEF Max2, Min2

\* Every cap is a number, at most the next position or an open hold.
LEMMA CapsAreNumbers ==
    ASSUME TypeOK
    PROVE  Caps \subseteq Nat
  BY NextPositionBounds DEF TypeOK, Caps, OpenHolds

-----------------------------------------------------------------------------
(***************************************************************************)
(* Type and shape.                                                         *)
(***************************************************************************)

\* The writers of a process that has just started, or died.
LEMMA NoWriterAtWork ==
    ASSUME phase = [w \in Writers |-> "idle"],
           hold = [w \in Writers |-> 0],
           floor = [w \in Writers |-> 0],
           pending = [w \in Writers |-> NoStamps],
           removing = [w \in Writers |-> {}]
    PROVE  /\ phase \in [Writers -> Phases]
           /\ hold \in [Writers -> Nat] /\ floor \in [Writers -> Nat]
           /\ pending \in [Writers -> [Rows -> Nat]]
           /\ removing \in [Writers -> SUBSET Rows]
           /\ \A w \in Writers : /\ phase[w] = "idle" /\ hold[w] = 0 /\ floor[w] = 0
                                 /\ pending[w] = NoStamps
  <1>1. NoStamps \in [Rows -> Nat]
    BY DEF NoStamps
  <1>2. QED
    BY <1>1 DEF Phases

\* A process that starts has no hold, no floor and no stamp under way.
LEMMA InitIsTyped == Init => TypeOK
  <1> SUFFICES ASSUME Init PROVE TypeOK
    OBVIOUS
  <1>1. /\ wall \in 0 .. MaxPosition + 1
        /\ rowPos \in [Rows -> Nat]
    BY BandAssumption, BoundAssumption DEF Init
  <1>2. QED
    BY <1>1, NoWriterAtWork DEF Init, TypeOK

\* The steps of the machine, of the process and of the configuration's save.
LEMMA LifeStepsAreTyped ==
    ASSUME TypeOK, WallTick \/ WallStepBack \/ Seed \/ Restart \/ SaveMark \/ Crash
    PROVE  TypeOK'
  <1> USE BoundAssumption DEF TypeOK, clockVars, lifeVars, writerVars, markVars
  <1>1. CASE WallTick
    BY <1>1 DEF WallTick
  <1>2. CASE WallStepBack
    BY <1>2, FaultAssumption DEF WallStepBack
  <1>3. CASE Seed
    BY <1>3 DEF Seed
  <1>4. CASE Restart
    BY <1>4 DEF Restart
  <1>5. CASE SaveMark
    BY <1>5 DEF SaveMark
  <1>6. CASE Crash
    <2>1. (phase \in [Writers -> Phases]
            /\ hold \in [Writers -> Nat] /\ floor \in [Writers -> Nat]
            /\ pending \in [Writers -> [Rows -> Nat]]
            /\ removing \in [Writers -> SUBSET Rows]
            /\ \A w \in Writers : /\ phase[w] = "idle" /\ hold[w] = 0 /\ floor[w] = 0
                                  /\ pending[w] = NoStamps)'
      <3>1. NoStamps \in [Rows -> Nat]
        BY DEF NoStamps
      <3>2. QED
        BY <1>6, <3>1 DEF Crash, Phases
    <2>2. /\ wall' \in 0 .. MaxPosition + 1 /\ last' \in Nat
          /\ rowPos' \in [Rows -> Nat]
          /\ ownMark' \in Nat /\ savedMark' \in Nat /\ capServed' \in Nat
          /\ stepBacks' \in Nat /\ crashes' \in Nat
      <3>1. /\ last' = 0
            /\ crashes' = crashes + 1 /\ ownMark' = savedMark
            /\ UNCHANGED <<wall, stepBacks, rowPos, savedMark, capServed>>
        BY <1>6 DEF Crash
      <3>2. QED
        BY <3>1
    <2>3. (\A w \in Writers :
            /\ phase[w] # "idle" => seeded
            /\ hold[w] # 0 <=> phase[w] \in {"write", "statement"}
            /\ floor[w] # 0 <=> phase[w] \in {"txn", "statement", "committed"}
            /\ phase[w] \in {"idle", "committed"} => pending[w] = NoStamps)'
      BY <2>1
    <2>4. up' \in BOOLEAN /\ seeded' \in BOOLEAN /\ ~seeded'
      BY <1>6 DEF Crash
    <2>5. QED
      BY <2>1, <2>2, <2>3, <2>4
  <1>7. QED
    BY <1>1, <1>2, <1>3, <1>4, <1>5, <1>6

\* The steps of a writer.
LEMMA WriterStepsAreTyped ==
    ASSUME TypeOK, NEW w \in Writers, WriterStep(w)
    PROVE  TypeOK'
  <1> USE DEF TypeOK, Phases, clockVars, lifeVars, markVars
  <1>1. ASSUME NEW n \in 1 .. MaxBlock, StampWrite(w, n)
        PROVE  TypeOK'
    <2>1. TakeBlock(w, n) /\ phase[w] = "idle"
      BY <1>1 DEF StampWrite
    <2>2. NextPosition \in Nat \ {0}
      BY NextPositionBounds
    <2>3. /\ last' \in Nat
          /\ hold' = [hold EXCEPT ![w] = NextPosition]
          /\ pending' \in [Writers -> [Rows -> Nat]]
          /\ \A v \in Writers \ {w} : pending'[v] = pending[v]
      BY <2>1, TakeBlockEffect
    <2>4. QED
      BY <1>1, <2>1, <2>2, <2>3 DEF StampWrite, NoStamps
  <1>2. ASSUME NEW n \in 1 .. MaxBlock, StampStatement(w, n)
        PROVE  TypeOK'
    <2>1. TakeBlock(w, n) /\ phase[w] = "txn"
      BY <1>2 DEF StampStatement
    <2>2. NextPosition \in Nat \ {0}
      BY NextPositionBounds
    <2>3. /\ last' \in Nat
          /\ hold' = [hold EXCEPT ![w] = NextPosition]
          /\ pending' \in [Writers -> [Rows -> Nat]]
          /\ \A v \in Writers \ {w} : pending'[v] = pending[v]
      BY <2>1, TakeBlockEffect
    <2>4. QED
      BY <1>2, <2>1, <2>2, <2>3 DEF StampStatement, NoStamps
  <1>3. ASSUME NEW r \in Rows, LandRow(w, r)
        PROVE  TypeOK'
    BY <1>3 DEF LandRow, NoStamps
  <1>4. ASSUME NEW r \in Rows, RemoveRow(w, r)
        PROVE  TypeOK'
    BY <1>4 DEF RemoveRow, NoStamps
  <1>5. CASE EndWrite(w)
    BY <1>5 DEF EndWrite, Released, NoStamps
  <1>6. CASE BeginTxn(w)
    <2>1. NextPosition \in Nat \ {0}
      BY NextPositionBounds
    <2>2. Max2(last, NextPosition - 1) \in Nat
      <3>1. NextPosition - 1 \in Nat
        BY <2>1
      <3>2. QED
        BY <3>1, MaxMinBounds
    <2>3. QED
      BY <1>6, <2>1, <2>2 DEF BeginTxn, FloorRegistered
  <1>7. CASE EndStatement(w)
    BY <1>7 DEF EndStatement, Released
  <1>8. CASE CommitTxn(w)
    BY <1>8 DEF CommitTxn, NoStamps
  <1>9. CASE RetryTxn(w)
    BY <1>9 DEF RetryTxn, Released, NoStamps
  <1>10. CASE EndTxn(w)
    BY <1>10 DEF EndTxn, Released, NoStamps
  <1>11. QED
    BY <1>1, <1>2, <1>3, <1>4, <1>5, <1>6, <1>7, <1>8, <1>9, <1>10 DEF WriterStep

\* A reader takes a cap; a peer names a position of our stream.
LEMMA ReaderStepsAreTyped ==
    ASSUME TypeOK, ReadCap \/ RecordMark
    PROVE  TypeOK'
  <1> USE DEF TypeOK, clockVars, lifeVars, writerVars, markVars
  <1>1. ASSUME NEW c \in Caps, HandCap(c)
        PROVE  capServed' \in Nat
    BY <1>1, CapsAreNumbers, MaxMinBounds DEF HandCap
  <1>2. CASE ReadCap
    BY <1>1, <1>2 DEF ReadCap
  <1>3. CASE RecordMark
    <2>1. PICK value \in 1 .. MaxPosition + 2, c \in Caps :
            HandCap(c) /\ ownMark' = OwnPositionMark(value, c)
      BY <1>3 DEF RecordMark
    <2>2. value \in Nat /\ c \in Nat
      BY <2>1, BoundAssumption, CapsAreNumbers
    <2>3. ownMark' \in Nat
      BY <2>1, <2>2, MaxMinBounds DEF OwnPositionMark
    <2>4. QED
      BY <1>1, <1>3, <2>1, <2>3 DEF RecordMark
  <1>4. QED
    BY <1>2, <1>3

\* Every step keeps the shape: the writers' phases and their holds move together
\* (heldWhile opens and releases in one try/finally).
LEMMA NextKeepsType == TypeOK /\ [Next]_streamVars => TypeOK'
  <1> SUFFICES ASSUME TypeOK, [Next]_streamVars
               PROVE  TypeOK'
    OBVIOUS
  <1>1. CASE StreamStep
    BY <1>1, LifeStepsAreTyped, WriterStepsAreTyped DEF StreamStep
  <1>2. CASE Crash \/ ReadCap \/ RecordMark
    BY <1>2, LifeStepsAreTyped, ReaderStepsAreTyped
  <1>3. CASE UNCHANGED streamVars
    BY <1>3 DEF streamVars, TypeOK
  <1>4. QED
    BY <1>1, <1>2, <1>3 DEF Next

\* The state keeps its shape: an idle writer holds nothing, a write holds its
\* block, a transaction its floor from start to end, and only a seeded process
\* has writers at work.
THEOREM TypeCorrect == Spec => []TypeOK
  BY InitIsTyped, NextKeepsType, PTL DEF Spec

-----------------------------------------------------------------------------
(***************************************************************************)
(* Every stamp on its way is held.  The hold of a block covers its own     *)
(* stamps; what a session stamped stays covered, once the statement's own  *)
(* hold is released, only because the floor was registered as handed out   *)
(* and every later stamp is at or above it.                                *)
(***************************************************************************)

\* Holds and floors are positions the clock has passed.
HoldsAreHandedOut ==
    \A w \in Writers : hold[w] <= last /\ floor[w] <= last + 1

\* A write's stamps are at or above its block's hold, a session's at or above
\* its transaction's floor.
StampsAreFloored ==
    \A w \in Writers : \A r \in Rows :
        pending[w][r] # 0 =>
            /\ phase[w] = "write" => hold[w] <= pending[w][r]
            /\ phase[w] \in {"txn", "statement"} => floor[w] <= pending[w][r]

HeldInv == TypeOK /\ HoldsAreHandedOut /\ StampsAreFloored

\* Nothing is stamped at the start, so every stamp is held.
LEMMA InitIsHeld == Init => HeldInv
  <1> SUFFICES ASSUME Init PROVE HeldInv
    OBVIOUS
  <1>1. TypeOK
    BY InitIsTyped
  <1>2. HoldsAreHandedOut
    BY DEF Init, HoldsAreHandedOut
  <1>3. StampsAreFloored
    BY DEF Init, NoStamps, StampsAreFloored
  <1>4. QED
    BY <1>1, <1>2, <1>3 DEF HeldInv

\* Taking a block keeps both, whatever the writer stamped before.
LEMMA StampKeepsHeld ==
    ASSUME HeldInv, TypeOK', NEW w \in Writers, NEW n \in 1 .. MaxBlock,
           StampWrite(w, n) \/ StampStatement(w, n)
    PROVE  HeldInv'
  <1>1. /\ TakeBlock(w, n)
        /\ \/ phase[w] = "idle" /\ phase' = [phase EXCEPT ![w] = "write"]
           \/ phase[w] = "txn" /\ phase' = [phase EXCEPT ![w] = "statement"]
        /\ UNCHANGED floor
    BY DEF StampWrite, StampStatement
  <1>2. TypeOK
    BY DEF HeldInv
  <1>3. NextPosition \in Nat \ {0} /\ last + 1 <= NextPosition
    BY <1>2, NextPositionBounds
  <1>4. /\ last' \in Nat /\ last < last' /\ NextPosition <= last'
        /\ hold' = [hold EXCEPT ![w] = NextPosition]
        /\ \A v \in Writers \ {w} : pending'[v] = pending[v]
        /\ \A r \in Rows :
              \/ pending'[w][r] = pending[w][r]
              \/ NextPosition <= pending'[w][r] /\ pending'[w][r] <= last'
    BY <1>1, <1>2, TakeBlockEffect
  <1>5. HoldsAreHandedOut'
    BY <1>1, <1>2, <1>3, <1>4 DEF HeldInv, HoldsAreHandedOut, TypeOK
  <1>6. ASSUME NEW v \in Writers, NEW r \in Rows, pending'[v][r] # 0
        PROVE  /\ phase'[v] = "write" => hold'[v] <= pending'[v][r]
               /\ phase'[v] \in {"txn", "statement"} => floor'[v] <= pending'[v][r]
    <2>1. CASE v # w
      BY <1>1, <1>2, <1>4, <1>6, <2>1 DEF HeldInv, StampsAreFloored, TypeOK
    <2>2. CASE v = w /\ phase[w] = "idle"
      <3>1. pending[w][r] = 0
        BY <1>2, <2>2 DEF TypeOK, NoStamps
      <3>2. NextPosition <= pending'[w][r] /\ hold'[w] = NextPosition
        BY <1>2, <1>4, <1>6, <2>2, <3>1 DEF TypeOK
      <3>3. phase'[w] = "write"
        BY <1>1, <1>2, <2>2 DEF TypeOK
      <3>4. QED
        BY <2>2, <3>2, <3>3
    <2>3. CASE v = w /\ phase[w] = "txn"
      <3>1. floor[w] <= last + 1 /\ floor[w] \in Nat /\ last \in Nat
        BY <1>2 DEF HeldInv, HoldsAreHandedOut, TypeOK
      <3>2. floor[w] <= pending'[w][r]
        <4>1. CASE pending'[w][r] = pending[w][r]
          BY <1>6, <2>3, <4>1 DEF HeldInv, StampsAreFloored
        <4>2. CASE NextPosition <= pending'[w][r]
          <5>1. pending'[w][r] \in Nat
            BY DEF TypeOK
          <5>2. QED
            BY <1>3, <3>1, <4>2, <5>1
        <4>3. QED
          BY <1>4, <4>1, <4>2
      <3>3. phase'[w] = "statement"
        BY <1>1, <1>2, <2>3 DEF TypeOK
      <3>4. QED
        BY <1>1, <2>3, <3>2, <3>3
    <2>4. QED
      BY <1>1, <2>1, <2>2, <2>3
  <1>7. StampsAreFloored'
    BY <1>6 DEF StampsAreFloored
  <1>8. QED
    BY <1>5, <1>7 DEF HeldInv

\* Every step keeps each stamp above a hold of its writer, and the own marks
\* below a cap that was handed out.
LEMMA NextKeepsHeld == HeldInv /\ [Next]_streamVars => HeldInv'
  <1> SUFFICES ASSUME HeldInv, [Next]_streamVars
               PROVE  HeldInv'
    OBVIOUS
  <1>1. TypeOK /\ TypeOK'
    BY NextKeepsType DEF HeldInv
  <1>2. ASSUME UNCHANGED <<last, phase, hold, floor, pending>>
        PROVE  HeldInv'
    BY <1>1, <1>2 DEF HeldInv, HoldsAreHandedOut, StampsAreFloored
  <1>3. CASE WallTick \/ WallStepBack \/ Restart \/ SaveMark \/ ReadCap \/ RecordMark
             \/ UNCHANGED streamVars
    BY <1>2, <1>3 DEF WallTick, WallStepBack, Restart, SaveMark, ReadCap, RecordMark,
                      streamVars, writerVars
  <1>4. CASE Seed
    <2>1. \A w \in Writers : phase[w] = "idle" /\ hold[w] = 0 /\ floor[w] = 0
      BY <1>1, <1>4 DEF Seed, TypeOK, Phases
    <2>2. UNCHANGED <<phase, hold, floor, pending>> /\ last' \in Nat
      BY <1>1, <1>4 DEF Seed, writerVars, TypeOK
    <2>3. QED
      BY <1>1, <2>1, <2>2 DEF HeldInv, HoldsAreHandedOut, StampsAreFloored
  <1>5. CASE Crash
    BY <1>1, <1>5 DEF Crash, NoStamps, HeldInv, HoldsAreHandedOut, StampsAreFloored
  <1>6. ASSUME NEW w \in Writers, WriterStep(w)
        PROVE  HeldInv'
    <2> USE <1>1 DEF HeldInv, HoldsAreHandedOut, StampsAreFloored
    <2>1. ASSUME NEW n \in 1 .. MaxBlock, StampWrite(w, n) \/ StampStatement(w, n)
          PROVE  HeldInv'
      BY <2>1, StampKeepsHeld
    <2>2. ASSUME NEW r \in Rows, LandRow(w, r)
          PROVE  HeldInv'
      BY <2>2 DEF LandRow, TypeOK
    <2>3. ASSUME NEW r \in Rows, RemoveRow(w, r)
          PROVE  HeldInv'
      BY <2>3 DEF RemoveRow, TypeOK
    <2>4. CASE EndWrite(w)
      BY <2>4 DEF EndWrite, Released, NoStamps, TypeOK
    <2>5. CASE BeginTxn(w)
      <3>1. NextPosition \in Nat \ {0} /\ last + 1 <= NextPosition /\ last \in Nat
        BY NextPositionBounds DEF TypeOK
      <3>2. /\ last' = Max2(last, NextPosition - 1)
            /\ floor' = [floor EXCEPT ![w] = NextPosition]
            /\ phase' = [phase EXCEPT ![w] = "txn"]
            /\ UNCHANGED <<hold, pending>>
            /\ phase[w] = "idle"
        BY <2>5 DEF BeginTxn, FloorRegistered
      <3>3. last' \in Nat /\ last <= last' /\ NextPosition <= last' + 1
        BY <3>1, <3>2 DEF Max2
      <3>4. \A r \in Rows : pending[w][r] = 0
        BY <3>2 DEF TypeOK, NoStamps
      <3>5. QED
        BY <3>1, <3>2, <3>3, <3>4 DEF TypeOK
    <2>6. CASE EndStatement(w)
      BY <2>6 DEF EndStatement, Released, TypeOK
    <2>7. CASE CommitTxn(w)
      BY <2>7 DEF CommitTxn, NoStamps, TypeOK
    <2>8. CASE RetryTxn(w)
      BY <2>8 DEF RetryTxn, Released, NoStamps, TypeOK
    <2>9. CASE EndTxn(w)
      BY <2>9 DEF EndTxn, Released, NoStamps, TypeOK
    <2>10. QED
      BY <1>6, <2>1, <2>2, <2>3, <2>4, <2>5, <2>6, <2>7, <2>8, <2>9 DEF WriterStep
  <1>7. QED
    BY <1>3, <1>4, <1>5, <1>6 DEF Next, StreamStep

\* The holds and the own marks' caps, in every reachable state.
LEMMA HeldInvariant == Spec => []HeldInv
  BY InitIsHeld, NextKeepsHeld, PTL DEF Spec

\* A writer with a stamp on its way is in a write, whose block is held, or in a
\* transaction, whose floor is.
LEMMA HeldInvIsHeld == HeldInv => UnlandedIsHeld
  <1> SUFFICES ASSUME HeldInv, NEW w \in Writers, NEW r \in Rows, pending[w][r] # 0
               PROVE  \/ hold[w] # 0 /\ hold[w] <= pending[w][r]
                      \/ floor[w] # 0 /\ floor[w] <= pending[w][r]
    BY DEF UnlandedIsHeld
  <1>1. phase[w] \in {"write", "txn", "statement"}
    BY DEF HeldInv, TypeOK, Phases, NoStamps
  <1>2. QED
    BY <1>1 DEF HeldInv, TypeOK, StampsAreFloored

\* Every stamped position the store does not show yet is at or above an open
\* hold of its own writer, with the wall clock set back any number of times.
THEOREM StampsAreHeld == Spec => []UnlandedIsHeld
  BY HeldInvariant, HeldInvIsHeld, PTL

-----------------------------------------------------------------------------
(***************************************************************************)
(* Marks of our own stream.                                                *)
(***************************************************************************)

\* A mark kept of our own stream, in memory or saved, never passes a cap this
\* instance computed, whatever number a peer sends.
THEOREM OwnMarksAreCapped == Spec => []OwnMarkIsCapped
  <1>1. Init => OwnMarkIsCapped
    BY DEF Init, OwnMarkIsCapped
  <1>2. TypeOK /\ OwnMarkIsCapped /\ [Next]_streamVars => OwnMarkIsCapped'
    <2> SUFFICES ASSUME TypeOK, OwnMarkIsCapped, [Next]_streamVars
                 PROVE  OwnMarkIsCapped'
      OBVIOUS
    <2>1. ownMark \in Nat /\ savedMark \in Nat /\ capServed \in Nat
      BY DEF TypeOK
    <2>2. ASSUME UNCHANGED <<ownMark, savedMark, capServed>>
          PROVE  OwnMarkIsCapped'
      BY <2>2 DEF OwnMarkIsCapped
    <2>3. CASE StreamStep
      <3>1. CASE SaveMark
        BY <3>1 DEF SaveMark, OwnMarkIsCapped
      <3>2. CASE WallTick \/ WallStepBack \/ Seed \/ Restart
        BY <2>2, <3>2 DEF WallTick, WallStepBack, Seed, Restart, markVars
      <3>3. ASSUME NEW w \in Writers, WriterStep(w)
            PROVE  OwnMarkIsCapped'
        BY <2>2, <3>3 DEF WriterStep, StampWrite, StampStatement, LandRow, RemoveRow,
             EndWrite, BeginTxn, EndStatement, CommitTxn, RetryTxn, EndTxn, markVars
      <3>4. QED
        BY <2>3, <3>1, <3>2, <3>3 DEF StreamStep
    <2>4. CASE Crash
      BY <2>4 DEF Crash, OwnMarkIsCapped
    <2>5. ASSUME NEW c \in Caps, HandCap(c)
          PROVE  c \in Nat /\ capServed' \in Nat /\ capServed <= capServed' /\ c <= capServed'
      BY <2>1, <2>5, CapsAreNumbers, MaxMinBounds DEF HandCap
    <2>6. CASE ReadCap
      BY <2>1, <2>5, <2>6 DEF ReadCap, markVars, OwnMarkIsCapped
    <2>7. CASE RecordMark
      <3>1. PICK value \in 1 .. MaxPosition + 2, c \in Caps :
              HandCap(c) /\ ownMark' = OwnPositionMark(value, c)
        BY <2>7 DEF RecordMark
      <3>2. value \in Nat /\ c \in Nat /\ c <= capServed'
              /\ capServed <= capServed' /\ capServed' \in Nat
        BY <2>5, <3>1, BoundAssumption
      <3>3. Min2(value, c) \in Nat /\ Min2(value, c) <= c
        BY <3>2, MaxMinBounds
      <3>4. ownMark' \in {ownMark, Min2(value, c)}
        BY <2>1, <3>1, <3>3, MaxMinBounds DEF OwnPositionMark
      <3>5. UNCHANGED savedMark
        BY <2>7 DEF RecordMark
      <3>6. QED
        BY <2>1, <3>2, <3>3, <3>4, <3>5 DEF OwnMarkIsCapped
    <2>8. CASE UNCHANGED streamVars
      BY <2>2, <2>8 DEF streamVars
    <2>9. QED
      BY <2>3, <2>4, <2>6, <2>7, <2>8 DEF Next
  <1>3. QED
    BY <1>1, <1>2, TypeCorrect, PTL DEF Spec

-----------------------------------------------------------------------------
(***************************************************************************)
(* Positions are distinct.  What is stored or on its way is at or below    *)
(* the last position handed out, so a new block is above all of it; that   *)
(* has to survive a restart, through the seed.                             *)
(***************************************************************************)

StoredIsHandedOut ==
    seeded => \A r \in Rows : /\ rowPos[r] <= last
                              /\ \A w \in Writers : pending[w][r] <= last

DistinctInv == TypeOK /\ StoredIsHandedOut /\ StampsAreDistinct

\* What is stored at the start lies in the legacy band, where positions repeat.
LEMMA InitIsDistinct == Init => DistinctInv
  <1> SUFFICES ASSUME Init PROVE DistinctInv
    OBVIOUS
  <1>1. TypeOK
    BY InitIsTyped
  <1>2. \A r \in Rows : rowPos[r] \in 0 .. BandFloor /\ ~(rowPos[r] > BandFloor)
    BY BandAssumption DEF Init
  <1>3. \A w \in Writers : \A r \in Rows : pending[w][r] = 0
    BY DEF Init, NoStamps
  <1>4. QED
    BY <1>1, <1>2, <1>3 DEF DistinctInv, Init, StoredIsHandedOut, StampsAreDistinct

\* A block is above everything stored and stamped, and its positions differ.
LEMMA StampKeepsDistinct ==
    ASSUME DistinctInv, TypeOK', NEW w \in Writers, NEW n \in 1 .. MaxBlock,
           StampWrite(w, n) \/ StampStatement(w, n)
    PROVE  DistinctInv'
  <1>1. TakeBlock(w, n) /\ UNCHANGED <<rowPos, seeded>> /\ seeded
    BY DEF StampWrite, StampStatement, DistinctInv, TypeOK
  <1>2. TypeOK /\ StampsAreDistinct
    BY DEF DistinctInv
  <1>3. /\ NextPosition \in Nat /\ last + 1 <= NextPosition
        /\ last \in Nat /\ last' \in Nat /\ last < last' /\ NextPosition <= last'
        /\ \A v \in Writers \ {w} : pending'[v] = pending[v]
    BY <1>1, <1>2, NextPositionBounds, TakeBlockEffect DEF TypeOK
  <1>4. \A r \in Rows :
          \/ pending'[w][r] = pending[w][r]
          \/ NextPosition <= pending'[w][r] /\ pending'[w][r] <= last'
    BY <1>1, <1>2, TakeBlockEffect
  <1>5. \A r, s \in Rows :
            /\ NextPosition <= pending'[w][r]
            /\ pending'[w][r] = pending'[w][s]
            => r = s \/ pending'[w][r] = pending[w][r]
                     \/ pending'[w][s] = pending[w][s]
    BY <1>1, <1>2, TakeBlockEffect
  <1>6. /\ \A r \in Rows : rowPos[r] \in Nat /\ rowPos[r] <= last
        /\ \A v \in Writers : \A r \in Rows :
              /\ pending[v][r] \in Nat /\ pending[v][r] <= last
              /\ pending'[v][r] \in Nat
    BY <1>1 DEF DistinctInv, StoredIsHandedOut, TypeOK
  <1>7. \A v \in Writers : \A r \in Rows :
          \/ pending'[v][r] = pending[v][r]
          \/ v = w /\ last < pending'[v][r] /\ pending'[v][r] <= last'
    BY <1>3, <1>4, <1>6
  <1>8. StoredIsHandedOut'
    BY <1>1, <1>3, <1>6, <1>7 DEF StoredIsHandedOut
  <1>9. ASSUME NEW v \in Writers, NEW r \in Rows, NEW s \in Rows, pending'[v][r] # 0
        PROVE  pending'[v][r] # rowPos'[s]
    BY <1>1, <1>2, <1>3, <1>6, <1>7, <1>9 DEF StampsAreDistinct
  <1>10. ASSUME NEW u \in Writers, NEW v \in Writers, NEW r \in Rows, NEW s \in Rows,
                pending'[u][r] # 0, pending'[u][r] = pending'[v][s]
         PROVE  u = v /\ r = s
    <2>1. CASE pending'[u][r] = pending[u][r] /\ pending'[v][s] = pending[v][s]
      <3>1. pending[u][r] # 0 /\ pending[u][r] = pending[v][s]
        BY <1>10, <2>1
      <3>2. QED
        BY <1>2, <3>1 DEF StampsAreDistinct
    <2>2. CASE last < pending'[u][r]
      <3>1. u = w /\ v = w
        BY <1>3, <1>6, <1>7, <1>10, <2>2
      <3>2. pending'[w][r] # pending[w][r] /\ pending'[w][s] # pending[w][s]
        BY <1>3, <1>6, <1>10, <2>2, <3>1
      <3>3. NextPosition <= pending'[w][r]
        BY <1>4, <3>2
      <3>4. QED
        BY <1>5, <1>10, <3>1, <3>2, <3>3
    <2>3. CASE ~(last < pending'[u][r])
      BY <1>3, <1>6, <1>7, <1>10, <2>1, <2>3
    <2>4. QED
      BY <2>2, <2>3
  <1>11. StampsAreDistinct'
    BY <1>1, <1>2, <1>9, <1>10 DEF StampsAreDistinct
  <1>12. QED
    BY <1>8, <1>11 DEF DistinctInv

\* A commit shows a whole transaction at once.
LEMMA CommitKeepsDistinct ==
    ASSUME DistinctInv, TypeOK', NEW w \in Writers, CommitTxn(w)
    PROVE  DistinctInv'
  <1>1. /\ \A r \in Rows : rowPos'[r] \in {pending[w][r], 0, rowPos[r]}
        /\ \A r \in Rows : pending[w][r] # 0 => rowPos'[r] = pending[w][r]
        /\ \A v \in Writers : \A r \in Rows :
              pending'[v][r] = IF v = w THEN 0 ELSE pending[v][r]
        /\ UNCHANGED <<last, seeded>>
    BY DEF CommitTxn, NoStamps, DistinctInv, TypeOK
  <1>2. StampsAreDistinct /\ StoredIsHandedOut /\ last \in Nat
    BY DEF DistinctInv, TypeOK
  <1>3. StoredIsHandedOut'
    BY <1>1, <1>2 DEF StoredIsHandedOut
  <1>4. \A r, s \in Rows : rowPos'[r] > BandFloor /\ rowPos'[r] = rowPos'[s] => r = s
    <2> SUFFICES ASSUME NEW r \in Rows, NEW s \in Rows,
                        rowPos'[r] > BandFloor, rowPos'[r] = rowPos'[s]
                 PROVE  r = s
      OBVIOUS
    <2>1. rowPos'[r] # 0
      BY BandAssumption
    <2>2. /\ rowPos'[r] \in {pending[w][r], rowPos[r]}
          /\ rowPos'[s] \in {pending[w][s], rowPos[s]}
      BY <1>1, <2>1
    <2>3. QED
      BY <1>2, <2>1, <2>2 DEF StampsAreDistinct
  <1>5. \A v \in Writers : \A r, s \in Rows :
          pending'[v][r] # 0 => pending'[v][r] # rowPos'[s]
    BY <1>1, <1>2 DEF StampsAreDistinct
  <1>6. \A u, v \in Writers : \A r, s \in Rows :
          pending'[u][r] # 0 /\ pending'[u][r] = pending'[v][s] => u = v /\ r = s
    BY <1>1, <1>2 DEF StampsAreDistinct
  <1>7. QED
    BY <1>3, <1>4, <1>5, <1>6 DEF DistinctInv, StampsAreDistinct

\* Every step keeps positions of the clock band apart: stamps come from above
\* all there is, and landing only moves them from a writer to the store.
LEMMA NextKeepsDistinct == DistinctInv /\ [Next]_streamVars => DistinctInv'
  <1> SUFFICES ASSUME DistinctInv, [Next]_streamVars
               PROVE  DistinctInv'
    OBVIOUS
  <1>1. TypeOK /\ TypeOK'
    BY NextKeepsType DEF DistinctInv
  <1>2. StampsAreDistinct /\ StoredIsHandedOut
    BY DEF DistinctInv
  \* Most steps move no row and only drop stamps.
  <1>3. ASSUME last <= last', seeded' => seeded, UNCHANGED rowPos,
               \A v \in Writers : \A r \in Rows : pending'[v][r] \in {0, pending[v][r]}
        PROVE  DistinctInv'
    <2>1. StoredIsHandedOut'
      <3>1. ASSUME seeded', NEW r \in Rows
            PROVE  rowPos'[r] <= last'
        <4>1. rowPos'[r] = rowPos[r] /\ rowPos[r] <= last /\ last <= last'
          BY <1>2, <1>3, <3>1 DEF StoredIsHandedOut
        <4>2. QED
          BY <1>1, <4>1 DEF TypeOK
      <3>2. ASSUME seeded', NEW r \in Rows, NEW v \in Writers
            PROVE  pending'[v][r] <= last'
        <4>1. /\ pending'[v][r] \in {0, pending[v][r]}
              /\ pending[v][r] <= last /\ last <= last'
          BY <1>2, <1>3, <3>2 DEF StoredIsHandedOut
        <4>2. pending[v][r] \in Nat /\ last \in Nat /\ last' \in Nat
          BY <1>1 DEF TypeOK
        <4>3. QED
          BY <4>1, <4>2
      <3>3. QED
        BY <3>1, <3>2 DEF StoredIsHandedOut
    <2>2. StampsAreDistinct'
      BY <1>2, <1>3 DEF StampsAreDistinct
    <2>3. QED
      BY <1>1, <2>1, <2>2 DEF DistinctInv
  <1>4. CASE WallTick \/ WallStepBack \/ Restart \/ SaveMark \/ ReadCap \/ RecordMark
             \/ UNCHANGED streamVars
    <2>1. UNCHANGED <<last, seeded, rowPos, pending>>
      BY <1>4 DEF WallTick, WallStepBack, Restart, SaveMark, ReadCap, RecordMark,
                  streamVars, writerVars
    <2>2. QED
      BY <1>1, <1>3, <2>1 DEF TypeOK
  <1>5. CASE Seed
    <2>1. PICK top \in {ownMark} \cup {rowPos[r] : r \in Rows} :
            SeedTop(top) /\ last' = top
      BY <1>5 DEF Seed
    <2>2. UNCHANGED <<rowPos, pending>>
      BY <1>5 DEF Seed, writerVars
    <2>3. \A w \in Writers : \A r \in Rows : pending[w][r] = 0
      BY <1>1, <1>5 DEF Seed, TypeOK, NoStamps
    <2>4. StoredIsHandedOut'
      BY <1>1, <2>1, <2>2, <2>3 DEF SeedTop, StoredIsHandedOut, TypeOK
    <2>5. QED
      BY <1>1, <1>2, <2>2, <2>4 DEF DistinctInv, StampsAreDistinct
  <1>6. CASE Crash
    <2>1. ~seeded' /\ UNCHANGED rowPos
            /\ \A w \in Writers : \A r \in Rows : pending'[w][r] = 0
      BY <1>6 DEF Crash, NoStamps
    <2>2. QED
      BY <1>1, <1>2, <2>1 DEF DistinctInv, StoredIsHandedOut, StampsAreDistinct
  <1>7. ASSUME NEW w \in Writers, WriterStep(w)
        PROVE  DistinctInv'
    <2>1. ASSUME NEW n \in 1 .. MaxBlock, StampWrite(w, n) \/ StampStatement(w, n)
          PROVE  DistinctInv'
      BY <1>1, <2>1, StampKeepsDistinct
    <2>2. ASSUME NEW r \in Rows, LandRow(w, r)
          PROVE  DistinctInv'
      <3>1. /\ pending[w][r] # 0
            /\ \A s \in Rows : rowPos'[s] = IF s = r THEN pending[w][r] ELSE rowPos[s]
            /\ \A v \in Writers : \A s \in Rows :
                 pending'[v][s] = IF v = w /\ s = r THEN 0 ELSE pending[v][s]
            /\ UNCHANGED <<last, seeded>>
        BY <1>1, <2>2 DEF LandRow, TypeOK
      <3>2. StoredIsHandedOut'
        <4>1. last \in Nat
          BY <1>1 DEF TypeOK
        <4>2. ASSUME seeded
              PROVE  \A s \in Rows : /\ rowPos'[s] <= last
                                     /\ \A v \in Writers : pending'[v][s] <= last
          BY <1>2, <3>1, <4>1, <4>2 DEF StoredIsHandedOut
        <4>3. QED
          BY <3>1, <4>2 DEF StoredIsHandedOut
      <3>3. StampsAreDistinct'
        BY <1>2, <3>1 DEF StampsAreDistinct
      <3>4. QED
        BY <1>1, <3>2, <3>3 DEF DistinctInv
    <2>3. CASE CommitTxn(w)
      BY <1>1, <2>3, CommitKeepsDistinct
    <2>4. ASSUME NEW r \in Rows, RemoveRow(w, r)
          PROVE  DistinctInv'
      BY <1>1, <1>3, <2>4 DEF RemoveRow, TypeOK
    <2>5. CASE BeginTxn(w)
      <3>1. last <= last'
        <4>1. NextPosition \in Nat \ {0} /\ last \in Nat
          BY <1>1, NextPositionBounds DEF TypeOK
        <4>2. QED
          BY <2>5, <4>1 DEF BeginTxn, FloorRegistered, Max2
      <3>2. UNCHANGED <<rowPos, pending, seeded>>
        BY <2>5 DEF BeginTxn
      <3>3. QED
        BY <1>3, <3>1, <3>2
    <2>6. CASE EndWrite(w) \/ EndStatement(w) \/ RetryTxn(w) \/ EndTxn(w)
      <3>1. UNCHANGED <<last, seeded, rowPos>>
        BY <2>6 DEF EndWrite, EndStatement, RetryTxn, EndTxn
      <3>2. \A v \in Writers : \A r \in Rows : pending'[v][r] \in {0, pending[v][r]}
        BY <1>1, <2>6 DEF EndWrite, EndStatement, RetryTxn, EndTxn, NoStamps, TypeOK
      <3>3. QED
        BY <1>1, <1>3, <3>1, <3>2 DEF TypeOK
    <2>7. QED
      BY <1>7, <2>1, <2>2, <2>3, <2>4, <2>5, <2>6 DEF WriterStep
  <1>8. QED
    BY <1>4, <1>5, <1>6, <1>7 DEF Next, StreamStep

\* No two rows ever share a position of the clock band, across crashes and with
\* the wall clock set back.
THEOREM PositionsAreDistinct == Spec => []StampsAreDistinct
  <1>1. DistinctInv => StampsAreDistinct
    BY DEF DistinctInv
  <1>2. QED
    BY <1>1, InitIsDistinct, NextKeepsDistinct, PTL DEF Spec

-----------------------------------------------------------------------------
(***************************************************************************)
(* Caps, on a wall clock that is never set back.  A cap is computed and    *)
(* not stored, so nothing in the clock remembers it: what keeps later      *)
(* stamps above it is that the wall clock only rises, and, across a crash, *)
(* that a start lasts longer than the clock's lead.                        *)
(***************************************************************************)

\* No open hold is below a cap that was handed out.
CapsAreBelowHolds ==
    \A w \in Writers : /\ hold[w] # 0 => capServed <= hold[w]
                       /\ floor[w] # 0 => capServed <= floor[w]

\* Nor is the next position of a seeded clock, nor the wall clock that a clock
\* about to be seeded starts from.
CapIsBelowNext ==
    /\ seeded => capServed <= NextPosition
    /\ up /\ ~seeded => capServed <= wall

CapInv == HeldInv /\ stepBacks = 0 /\ CapsAreBelowHolds /\ CapIsBelowNext

\* No cap has been handed out at the start.
LEMMA InitIsCapped == Init => CapInv
  <1> SUFFICES ASSUME Init PROVE CapInv
    OBVIOUS
  <1>1. HeldInv
    BY InitIsHeld
  <1>2. capServed = 0 /\ stepBacks = 0 /\ wall \in Nat
    BY BandAssumption DEF Init
  <1>3. \A w \in Writers : hold[w] = 0 /\ floor[w] = 0
    BY DEF Init
  <1>4. CapIsBelowNext
    BY <1>2 DEF Init, CapIsBelowNext
  <1>5. QED
    BY <1>1, <1>2, <1>3, <1>4 DEF CapInv, CapsAreBelowHolds

\* A settled cap is at or below every open hold and the next position.
LEMMA CapIsLowest ==
    ASSUME HeldInv, NEW c \in Caps, SettledCap(c)
    PROVE  /\ c \in Nat /\ c <= NextPosition
           /\ \A w \in Writers : /\ hold[w] # 0 => c <= hold[w]
                                 /\ floor[w] # 0 => c <= floor[w]
  <1>1. /\ TypeOK /\ HoldsAreHandedOut
        /\ c \in Nat
        /\ NextPosition \in Nat /\ last + 1 <= NextPosition
    BY CapsAreNumbers, NextPositionBounds DEF HeldInv
  <1>2. \A w \in Writers : /\ hold[w] \in Nat /\ floor[w] \in Nat
                           /\ hold[w] <= NextPosition /\ floor[w] <= NextPosition
    BY <1>1 DEF HoldsAreHandedOut, TypeOK
  <1>3. \A w \in Writers : /\ hold[w] # 0 => hold[w] \in OpenHolds
                           /\ floor[w] # 0 => floor[w] \in OpenHolds
    BY DEF OpenHolds
  <1>4. CASE OpenHolds = {}
    <2>1. c = NextPosition
      BY <1>4 DEF SettledCap
    <2>2. \A w \in Writers : hold[w] = 0 /\ floor[w] = 0
      BY <1>3, <1>4
    <2>3. c <= NextPosition
      BY <1>1, <2>1
    <2>4. QED
      BY <1>1, <1>2, <2>2, <2>3
  <1>5. CASE OpenHolds # {}
    <2>1. c \in OpenHolds /\ \A h \in OpenHolds : c <= h
      BY <1>5 DEF SettledCap
    <2>2. c <= NextPosition
      BY <1>2, <2>1 DEF OpenHolds
    <2>3. \A w \in Writers : /\ hold[w] # 0 => c <= hold[w]
                             /\ floor[w] # 0 => c <= floor[w]
      BY <1>1, <1>2, <1>3, <2>1
    <2>4. QED
      BY <1>1, <1>2, <2>2, <2>3
  <1>6. QED
    BY <1>4, <1>5

\* Max2 over the successor of its second argument rises with both.
LEMMA NextOfRises ==
    ASSUME NEW a \in Nat, NEW b \in Nat, NEW c \in Nat, NEW d \in Nat, a <= c, b <= d
    PROVE  /\ Max2(a, b + 1) \in Nat /\ Max2(c, d + 1) \in Nat
           /\ Max2(a, b + 1) <= Max2(c, d + 1)
  BY DEF Max2

\* What is at or below the wall clock is at or below what comes next.
LEMMA NextOfBounds ==
    ASSUME NEW a \in Nat, NEW b \in Nat, NEW c \in Nat, c <= a
    PROVE  c <= Max2(a, b + 1)
  BY DEF Max2

\* A clock that moves no way but up moves its next position no way but up.
LEMMA NextPositionRises ==
    ASSUME TypeOK, TypeOK', wall <= wall', last <= last'
    PROVE  NextPosition \in Nat /\ NextPosition' \in Nat /\ NextPosition <= NextPosition'
  <1>1. wall \in Nat /\ wall' \in Nat /\ last \in Nat /\ last' \in Nat
    BY BoundAssumption DEF TypeOK
  <1>2. QED
    BY <1>1, NextOfRises DEF NextPosition

\* A step that leaves the caps alone, moves the clock no way but up, and opens no
\* hold but at the next position of a seeded clock, keeps the invariant.
LEMMA ForwardStepKeepsCaps ==
    ASSUME CapInv, HeldInv', UNCHANGED <<capServed, stepBacks, seeded, up>>,
           wall <= wall', last <= last',
           \A w \in Writers :
              /\ \/ hold'[w] \in {0, hold[w]}
                 \/ capServed <= NextPosition /\ hold'[w] = NextPosition
              /\ \/ floor'[w] \in {0, floor[w]}
                 \/ capServed <= NextPosition /\ floor'[w] = NextPosition
    PROVE  CapInv'
  <1>1. TypeOK /\ TypeOK' /\ CapsAreBelowHolds /\ CapIsBelowNext
    BY DEF CapInv, HeldInv
  <1>2. capServed \in Nat /\ wall \in Nat /\ wall' \in Nat
    BY <1>1, BoundAssumption DEF TypeOK
  <1>3. CapsAreBelowHolds'
    BY <1>1 DEF CapsAreBelowHolds
  <1>4. NextPosition \in Nat /\ NextPosition' \in Nat /\ NextPosition <= NextPosition'
    BY <1>1, NextPositionRises
  <1>5. capServed <= NextPosition => capServed' <= NextPosition'
    BY <1>2, <1>4
  <1>6. capServed <= wall => capServed' <= wall'
    BY <1>2
  <1>7. CapIsBelowNext'
    BY <1>1, <1>5, <1>6 DEF CapIsBelowNext
  <1>8. QED
    BY <1>3, <1>7 DEF CapInv

\* What a reader's step does to the caps: it hands out a settled one.
LEMMA ReaderStepKeepsCaps ==
    ASSUME CapInv, HeldInv', ReadCap \/ RecordMark
    PROVE  CapInv'
  <1>1. PICK c \in Caps : SettledCap(c) /\ capServed' = Max2(capServed, c)
    BY DEF ReadCap, RecordMark, HandCap
  <1>2. seeded /\ UNCHANGED <<wall, stepBacks, seeded, up, last, hold, floor>>
    BY DEF ReadCap, RecordMark, clockVars, lifeVars, writerVars
  <1>3. c \in Nat /\ c <= NextPosition
          /\ \A w \in Writers : /\ hold[w] # 0 => c <= hold[w]
                                /\ floor[w] # 0 => c <= floor[w]
    BY <1>1, CapIsLowest DEF CapInv
  <1>4. capServed \in Nat
    BY DEF CapInv, HeldInv, TypeOK
  <1>5. capServed' \in {capServed, c}
    BY <1>1, <1>3, <1>4, MaxMinBounds
  <1>6. CapsAreBelowHolds'
    BY <1>2, <1>3, <1>5 DEF CapInv, CapsAreBelowHolds
  <1>7. NextPosition' = NextPosition
    BY <1>2 DEF NextPosition
  <1>8. CapIsBelowNext'
    BY <1>2, <1>3, <1>5, <1>7 DEF CapInv, CapIsBelowNext
  <1>9. QED
    BY <1>2, <1>6, <1>8 DEF CapInv

\* What a writer's step does to the clock and the holds: one opens at the next
\* position, or some are released.
LEMMA WriterMovesHolds ==
    ASSUME TypeOK, TypeOK', NEW w \in Writers, WriterStep(w)
    PROVE  \/ last <= last' /\ UNCHANGED floor /\ seeded
              /\ hold' = [hold EXCEPT ![w] = NextPosition]
           \/ last <= last' /\ UNCHANGED hold /\ seeded
              /\ floor' = [floor EXCEPT ![w] = NextPosition]
           \/ /\ UNCHANGED last
              /\ hold' \in {hold, [hold EXCEPT ![w] = 0]}
              /\ floor' \in {floor, [floor EXCEPT ![w] = 0]}
  <1>1. ASSUME NEW n \in 1 .. MaxBlock, StampWrite(w, n) \/ StampStatement(w, n)
        PROVE  /\ last <= last' /\ UNCHANGED floor /\ seeded
               /\ hold' = [hold EXCEPT ![w] = NextPosition]
    <2>1. TakeBlock(w, n) /\ UNCHANGED floor /\ seeded
      BY <1>1 DEF StampWrite, StampStatement, TypeOK
    <2>2. last < last' /\ last \in Nat /\ last' \in Nat
            /\ hold' = [hold EXCEPT ![w] = NextPosition]
      BY <2>1, TakeBlockEffect DEF TypeOK
    <2>3. QED
      BY <2>1, <2>2
  <1>2. CASE BeginTxn(w)
    <2>1. NextPosition \in Nat \ {0} /\ last \in Nat
      BY NextPositionBounds DEF TypeOK
    <2>2. last <= last'
      BY <1>2, <2>1 DEF BeginTxn, FloorRegistered, Max2
    <2>3. QED
      BY <1>2, <2>2 DEF BeginTxn
  <1>3. ASSUME NEW r \in Rows, LandRow(w, r) \/ RemoveRow(w, r)
        PROVE  UNCHANGED <<last, hold, floor>>
    BY <1>3 DEF LandRow, RemoveRow
  <1>4. CASE EndWrite(w) \/ EndStatement(w) \/ CommitTxn(w) \/ RetryTxn(w) \/ EndTxn(w)
    BY <1>4 DEF EndWrite, EndStatement, CommitTxn, RetryTxn, EndTxn, Released
  <1>5. QED
    BY <1>1, <1>2, <1>3, <1>4 DEF WriterStep

\* A writer's step opens a hold only at the next position, which no cap exceeds,
\* so it keeps every cap below every hold.
LEMMA WriterStepKeepsCaps ==
    ASSUME CapInv, HeldInv', NEW w \in Writers, WriterStep(w)
    PROVE  CapInv'
  <1>1. TypeOK /\ TypeOK'
    BY DEF CapInv, HeldInv
  <1>2. UNCHANGED <<capServed, stepBacks, wall, seeded, up>>
    BY DEF WriterStep, StampWrite, StampStatement, LandRow, RemoveRow, EndWrite, BeginTxn,
           EndStatement, CommitTxn, RetryTxn, EndTxn, clockVars, lifeVars
  <1>3. \/ last <= last' /\ UNCHANGED floor /\ seeded
           /\ hold' = [hold EXCEPT ![w] = NextPosition]
        \/ last <= last' /\ UNCHANGED hold /\ seeded
           /\ floor' = [floor EXCEPT ![w] = NextPosition]
        \/ /\ UNCHANGED last
           /\ hold' \in {hold, [hold EXCEPT ![w] = 0]}
           /\ floor' \in {floor, [floor EXCEPT ![w] = 0]}
    BY <1>1, WriterMovesHolds
  <1>4. last <= last' /\ wall <= wall'
    BY <1>1, <1>2, <1>3 DEF TypeOK
  <1>5. \A v \in Writers :
          /\ \/ hold'[v] \in {0, hold[v]}
             \/ capServed <= NextPosition /\ hold'[v] = NextPosition
          /\ \/ floor'[v] \in {0, floor[v]}
             \/ capServed <= NextPosition /\ floor'[v] = NextPosition
    <2>1. seeded => capServed <= NextPosition
      BY DEF CapInv, CapIsBelowNext
    <2>2. QED
      BY <1>1, <1>3, <2>1 DEF TypeOK
  <1>6. QED
    BY <1>2, <1>4, <1>5, ForwardStepKeepsCaps

\* Every step but a set back of the wall clock keeps the caps below the holds.
LEMMA NextKeepsCaps == CapInv /\ [Next]_streamVars /\ ~WallStepBack => CapInv'
  <1> SUFFICES ASSUME CapInv, [Next]_streamVars, ~WallStepBack
               PROVE  CapInv'
    OBVIOUS
  <1>1. HeldInv /\ HeldInv' /\ TypeOK /\ TypeOK'
    BY NextKeepsHeld DEF CapInv, HeldInv
  <1>2. CASE WallTick
    BY <1>1, <1>2, ForwardStepKeepsCaps DEF WallTick, lifeVars, writerVars, TypeOK
  <1>3. CASE SaveMark \/ UNCHANGED streamVars
    BY <1>1, <1>3, ForwardStepKeepsCaps
       DEF SaveMark, streamVars, clockVars, lifeVars, writerVars, TypeOK
  <1>4. CASE Seed
    <2>1. /\ up /\ ~seeded /\ last' \in Nat
          /\ UNCHANGED <<wall, stepBacks, up, hold, floor, capServed>>
      BY <1>1, <1>4 DEF Seed, clockVars, lifeVars, writerVars, TypeOK
    <2>2. capServed <= wall /\ capServed \in Nat /\ wall \in Nat
      BY <1>1, <2>1 DEF CapInv, CapIsBelowNext, TypeOK
    <2>3. capServed' <= NextPosition'
      <3>1. last' \in Nat /\ wall' = wall /\ capServed' = capServed
        BY <2>1
      <3>2. capServed' <= Max2(wall', last' + 1)
        BY <2>2, <3>1, NextOfBounds
      <3>3. QED
        BY <3>2 DEF NextPosition
    <2>4. seeded'
      BY <1>4 DEF Seed
    <2>5. QED
      BY <1>1, <2>1, <2>3, <2>4 DEF CapInv, CapsAreBelowHolds, CapIsBelowNext
  <1>5. CASE Restart
    <2>1. wall >= capServed /\ ~seeded
      BY <1>1, <1>5 DEF Restart, CapInv, TypeOK
    <2>2. UNCHANGED <<wall, stepBacks, seeded, hold, floor, capServed>>
      BY <1>5 DEF Restart, clockVars, writerVars
    <2>3. wall \in Nat /\ capServed \in Nat
      BY <1>1 DEF TypeOK
    <2>4. QED
      BY <1>1, <2>1, <2>2, <2>3 DEF CapInv, CapsAreBelowHolds, CapIsBelowNext
  <1>6. CASE Crash
    <2>1. ~up' /\ ~seeded' /\ UNCHANGED stepBacks
            /\ \A w \in Writers : hold'[w] = 0 /\ floor'[w] = 0
      BY <1>6 DEF Crash, clockVars
    <2>2. QED
      BY <1>1, <2>1 DEF CapInv, CapsAreBelowHolds, CapIsBelowNext
  <1>7. CASE ReadCap \/ RecordMark
    BY <1>1, <1>7, ReaderStepKeepsCaps
  <1>8. ASSUME NEW w \in Writers, WriterStep(w)
        PROVE  CapInv'
    BY <1>1, <1>8, WriterStepKeepsCaps
  <1>9. QED
    BY <1>2, <1>3, <1>4, <1>5, <1>6, <1>7, <1>8 DEF Next, StreamStep

\* A stamp is above its hold, and a hold above every cap.
LEMMA CapInvImpliesStampsAbove == CapInv => StampsStayAboveCaps
  <1> SUFFICES ASSUME CapInv, NEW w \in Writers, NEW r \in Rows, pending[w][r] # 0
               PROVE  pending[w][r] >= capServed
    BY DEF StampsStayAboveCaps
  <1>1. TypeOK /\ StampsAreFloored /\ CapsAreBelowHolds
    BY DEF CapInv, HeldInv
  <1>2. phase[w] \in {"write", "txn", "statement"}
    BY <1>1 DEF TypeOK, Phases, NoStamps
  <1>3. /\ pending[w][r] \in Nat /\ capServed \in Nat
        /\ hold[w] \in Nat /\ floor[w] \in Nat
    BY <1>1 DEF TypeOK
  <1>4. CASE phase[w] = "write"
    BY <1>1, <1>3, <1>4 DEF TypeOK, StampsAreFloored, CapsAreBelowHolds
  <1>5. CASE phase[w] \in {"txn", "statement"}
    BY <1>1, <1>3, <1>5 DEF TypeOK, StampsAreFloored, CapsAreBelowHolds
  <1>6. QED
    BY <1>2, <1>4, <1>5

\* The caps stay below every hold, in every reachable state of a wall clock that
\* is never set back.
LEMMA CapInvariant ==
    ASSUME MaxStepBacks = 0
    PROVE  Spec => []CapInv
  <1>1. CapInv /\ [Next]_streamVars => CapInv'
    BY NextKeepsCaps DEF CapInv, WallStepBack
  <1>2. QED
    BY <1>1, InitIsCapped, PTL DEF Spec

\* On a monotone clock every stamp is at or above every cap handed out before
\* it landed: what settledPositionCap's comment says.
THEOREM LaterStampsStayAboveCaps ==
    ASSUME MaxStepBacks = 0
    PROVE  Spec => []StampsStayAboveCaps
  BY CapInvariant, CapInvImpliesStampsAbove, PTL

-----------------------------------------------------------------------------
(***************************************************************************)
(* The stream implements the settled stream.                               *)
(***************************************************************************)

\* Every step publishes rows at or above the highest cap handed out, or hands
\* out a cap, or changes nothing a reader can see.
LEMMA StepIsSettled == CapInv /\ [Next]_streamVars => [Settled!Next]_(Settled!vars)
  <1> SUFFICES ASSUME CapInv, [Next]_streamVars
               PROVE  [Settled!Next]_(Settled!vars)
    OBVIOUS
  <1>1. TypeOK /\ TypeOK' /\ StampsStayAboveCaps
    BY NextKeepsType, CapInvImpliesStampsAbove DEF CapInv, HeldInv
  <1>2. capServed \in Nat /\ rowPos' \in [Rows -> Nat] /\ rowPos \in [Rows -> Nat]
    BY <1>1 DEF TypeOK
  <1>3. CASE UNCHANGED <<rowPos, capServed>>
    BY <1>3 DEF Settled!vars
  <1>4. CASE WallTick \/ WallStepBack \/ Seed \/ Restart \/ SaveMark \/ Crash
             \/ UNCHANGED streamVars
    BY <1>3, <1>4 DEF WallTick, WallStepBack, Seed, Restart, SaveMark, Crash, streamVars
  <1>5. CASE ReadCap \/ RecordMark
    <2>1. PICK c \in Caps : capServed' = Max2(capServed, c)
      BY <1>5 DEF ReadCap, RecordMark, HandCap
    <2>2. capServed' \in Nat /\ capServed <= capServed'
      BY <1>1, <1>2, <2>1, CapsAreNumbers, MaxMinBounds
    <2>3. UNCHANGED rowPos
      BY <1>5 DEF ReadCap, RecordMark
    <2>4. QED
      BY <2>2, <2>3 DEF Settled!Next, Settled!Settle
  <1>6. ASSUME NEW w \in Writers, WriterStep(w)
        PROVE  [Settled!Next]_(Settled!vars)
    <2>1. ASSUME NEW r \in Rows, LandRow(w, r)
          PROVE  Settled!Publish
      <3>1. /\ pending[w][r] # 0 /\ UNCHANGED capServed
            /\ rowPos' = [rowPos EXCEPT ![r] = pending[w][r]]
        BY <2>1 DEF LandRow
      <3>2. capServed <= pending[w][r]
        BY <1>1, <3>1 DEF StampsStayAboveCaps, TypeOK
      <3>3. QED
        BY <1>2, <3>1, <3>2 DEF Settled!Publish
    <2>2. ASSUME CommitTxn(w)
          PROVE  Settled!Publish
      <3>1. /\ UNCHANGED capServed
            /\ \A r \in Rows : \/ rowPos'[r] \in {rowPos[r], 0}
                               \/ pending[w][r] # 0 /\ rowPos'[r] = pending[w][r]
        BY <2>2 DEF CommitTxn
      <3>2. \A r \in Rows : pending[w][r] # 0 => capServed <= pending[w][r]
        BY <1>1 DEF StampsStayAboveCaps, TypeOK
      <3>3. QED
        BY <1>2, <3>1, <3>2 DEF Settled!Publish
    <2>3. CASE ~(\E r \in Rows : LandRow(w, r)) /\ ~CommitTxn(w)
      BY <1>3, <1>6, <2>3 DEF WriterStep, StampWrite, StampStatement, RemoveRow, EndWrite,
           BeginTxn, EndStatement, RetryTxn, EndTxn
    <2>4. QED
      BY <2>1, <2>2, <2>3 DEF Settled!Next
  <1>7. QED
    BY <1>4, <1>5, <1>6 DEF Next, StreamStep

\* No row of the store's is below a horizon that nobody was told of.
LEMMA StreamInitIsSettled == Init => Settled!Init
  <1>1. ASSUME NEW f \in [Rows -> 0 .. BandFloor]
        PROVE  f \in [Rows -> Nat]
    BY BandAssumption
  <1>2. QED
    BY <1>1 DEF Init, Settled!Init

\* A reader that pages below the caps it is handed misses nothing: no row ever
\* appears below a cap that was handed out.
THEOREM StreamIsSettled ==
    ASSUME MaxStepBacks = 0
    PROVE  Spec => NothingLandsBelowACap
  BY StreamInitIsSettled, StepIsSettled, CapInvariant, PTL
     DEF Spec, Settled!Spec, NothingLandsBelowACap
=============================================================================
