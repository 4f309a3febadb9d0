--------------------------- MODULE MCPositionPush ---------------------------
(***************************************************************************)
(* PositionPush on small instances: rows are their own ids, and the odd    *)
(* ones are tombstones.                                                    *)
(***************************************************************************)
EXTENDS PositionPush

OddRowsAreTombstones == [r \in Rows |-> IF r % 2 = 1 THEN 1 ELSE 2]
=============================================================================
