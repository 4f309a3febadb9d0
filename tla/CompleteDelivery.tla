-------------------------- MODULE CompleteDelivery --------------------------
(***************************************************************************)
(* What one number per member and space promises (sync/watermark.ts):      *)
(* every row of the source at or below the mark has been delivered, as it  *)
(* stands.  The source may change its rows at will above the mark; the     *)
(* sink may take any row at any time; the mark may move to any place that  *)
(* keeps the promise, backwards too.                                       *)
(***************************************************************************)
EXTENDS Naturals

CONSTANT Rows

VARIABLES
    rowPos,     \* the source: the position of each row, 0 = no row
    got,        \* the sink: the position of the version it took of each row
    mark        \* complete through this position

vars == <<rowPos, got, mark>>

\* The promise of mark m.
Complete(m) ==
    \A r \in Rows : rowPos[r] # 0 /\ rowPos[r] <= m => got[r] = rowPos[r]

Init ==
    /\ rowPos \in [Rows -> Nat]
    /\ got \in [Rows -> Nat]
    /\ mark \in Nat
    /\ Complete(mark)

\* The source writes and removes rows, never to a place the mark covers.
Change ==
    /\ rowPos' \in [Rows -> Nat]
    /\ \A r \in Rows : rowPos'[r] \in {rowPos[r], 0} \/ mark < rowPos'[r]
    /\ UNCHANGED <<got, mark>>

\* Rows are delivered; none the mark covers is undone.
Deliver ==
    /\ got' \in [Rows -> Nat]
    /\ \A r \in Rows :
          rowPos[r] # 0 /\ rowPos[r] <= mark => got'[r] = rowPos[r]
    /\ UNCHANGED <<rowPos, mark>>

\* The mark moves to where the promise holds.
MoveMark ==
    /\ mark' \in Nat
    /\ Complete(mark')
    /\ UNCHANGED <<rowPos, got>>

Next == Change \/ Deliver \/ MoveMark

Spec == Init /\ [][Next]_vars
=============================================================================
