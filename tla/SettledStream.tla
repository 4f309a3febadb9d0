---------------------------- MODULE SettledStream ----------------------------
(***************************************************************************)
(* What a reader that pages by position needs of a stream, and nothing of  *)
(* how it is kept: a horizon that only rises, and rows that only ever      *)
(* appear at or above it.  A reader that has read everything below the     *)
(* horizon need never look there again.                                    *)
(***************************************************************************)
EXTENDS Naturals

CONSTANT Rows

VARIABLES
    rowPos,     \* the position of each visible row, 0 = no row
    horizon     \* everything strictly below it is settled

vars == <<rowPos, horizon>>

Init ==
    /\ rowPos \in [Rows -> Nat]
    /\ horizon = 0

\* Rows appear, move or go: none of them to a place below the horizon.
Publish ==
    /\ rowPos' \in [Rows -> Nat]
    /\ \A r \in Rows :
          rowPos'[r] \in {rowPos[r], 0} \/ horizon <= rowPos'[r]
    /\ UNCHANGED horizon

\* A reader is told how far the stream is settled.
Settle ==
    /\ horizon' \in Nat
    /\ horizon <= horizon'
    /\ UNCHANGED rowPos

Next == Publish \/ Settle

Spec == Init /\ [][Next]_vars
=============================================================================
