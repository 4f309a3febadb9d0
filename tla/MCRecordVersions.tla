-------------------------- MODULE MCRecordVersions --------------------------
(***************************************************************************)
(* RecordVersions on a pair of members: each pulls from the other, and the *)
(* author pushes as well.                                                  *)
(***************************************************************************)
EXTENDS RecordVersions

CONSTANTS a, b

TwoPulls == {<<a, b>>, <<b, a>>}
OnePush  == {<<a, b>>}
=============================================================================
