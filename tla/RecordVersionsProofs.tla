------------------------ MODULE RecordVersionsProofs ------------------------
(***************************************************************************)
(* Theorems about RecordVersions, for any members, channels and bodies and *)
(* any number of edits, removals and failures: its type, that a copy only  *)
(* rises, and that a text a tie displaces is kept.                         *)
(***************************************************************************)
EXTENDS RecordVersions, TLAPS

-----------------------------------------------------------------------------
(***************************************************************************)
(* The inductive invariant, in parts.                                      *)
(***************************************************************************)
Copies == {r \in [seq : Nat, body : Nat, here : BOOLEAN] :
             r.seq > 0 => r.body \in Bodies}
Tombs == [seq : Nat, issuer : Nodes, here : BOOLEAN]
Edits == [read : Nat, stamp : Nat, body : Nat]

RowStages == {"plan", "write", "clean", "keep", "displace", "swap"}
Stages == {"idle", "tombs", "judge", "store", "bury", "cascade", "rows", "forks"}
             \cup RowStages
Turns == [at : Stages, todo : SUBSET Items, doc : Copies \cup Tombs, held : Copies,
          below : Nat, then : {"forks", "displace"}]

Typed ==
    /\ row \in [Nodes -> Copies]
    /\ tomb \in [Nodes -> Tombs]
    /\ forks \in [Nodes -> SUBSET (Nat \X Bodies)]
    /\ counter \in [Nodes -> Nat]
    /\ edit \in [Nodes -> Edits]
    /\ owed \in [Channels -> SUBSET Items]
    /\ turn \in [Channels -> Turns]

\* An edit under way is stamped above the version it read.
EditIsAbove(n) ==
    edit[n] # NoEdit => edit[n].stamp > edit[n].read /\ edit[n].body \in Bodies

\* The document of a turn is what its stage takes it for.
DocFits(t) ==
    /\ t.at \in RowStages => t.doc \in Copies /\ t.doc.seq > 0
    /\ t.at \in {"judge", "store"} => t.doc \in Tombs
    /\ t.at = "write" => t.then = "forks"

\* The copy to be displaced has the version that comes, and the higher body.
Displaces(t) ==
    t.at \in {"displace", "swap"} \/ (t.at = "clean" /\ t.then = "displace")
        => t.held.seq = t.doc.seq /\ t.doc.body < t.held.body

Fits(t) == t \in Turns /\ DocFits(t) /\ Displaces(t)

Inv ==
    /\ Typed
    /\ \A n \in Nodes : EditIsAbove(n)
    /\ \A c \in Channels : Fits(turn[c])

\* What a step may do to a member's copy.
Rises(n) ==
    Stored(n) /\ Stored(n)' =>
        \/ row'[n].seq > row[n].seq
        \/ row'[n].seq = row[n].seq /\ row'[n].body <= row[n].body

-----------------------------------------------------------------------------
(***************************************************************************)
(* What the operators return.                                              *)
(***************************************************************************)
LEMMA ChannelEnds ==
  ASSUME NEW c \in Channels
  PROVE  From(c) \in Nodes /\ To(c) \in Nodes
  BY ChannelAssumption DEF Channels, From, To

LEMMA NoneTypes ==
  /\ NoRow \in Copies /\ NoTomb \in Tombs /\ NoEdit \in Edits
  /\ Idle \in Turns /\ Idle.at = "idle" /\ Fits(Idle)
  BY AuthorAssumption
     DEF NoRow, Copies, NoTomb, Tombs, NoEdit, Edits, Idle, Turns, Stages, RowStages,
         Fits, DocFits, Displaces

\* The counter only goes up, and a version is above the copy it replaces
\* (allocateBounded).
LEMMA VersionIsAbove ==
  ASSUME Typed, NEW n \in Nodes
  PROVE  /\ NextVersion(n) \in Nat /\ NextVersion(n) > row[n].seq
         /\ NextCounter(n) \in Nat
  BY DEF Typed, Copies, Tombs, NextVersion, NextCounter, Larger

LEMMA CountedType ==
  ASSUME Typed, NEW n \in Nodes, Counted(n)
  PROVE  counter' \in [Nodes -> Nat]
  BY VersionIsAbove DEF Counted, Typed

LEMMA StampType ==
  ASSUME Inv, NEW n \in Nodes, NEW b \in Bodies, StampEdit(n, b)
  PROVE  /\ edit' \in [Nodes -> Edits] /\ counter' \in [Nodes -> Nat]
         /\ \A x \in Nodes : EditIsAbove(x)'
<1>1. edit' = [edit EXCEPT ![n] = [read |-> row[n].seq, stamp |-> NextVersion(n), body |-> b]]
  BY DEF StampEdit
<1>2. /\ NextVersion(n) \in Nat /\ NextVersion(n) > row[n].seq
      /\ row[n].seq \in Nat /\ b \in Nat /\ edit \in [Nodes -> Edits]
  BY VersionIsAbove, BodiesAssumption DEF Inv, Typed, Copies
<1>3. counter' \in [Nodes -> Nat]
  BY CountedType DEF StampEdit, Inv
<1> QED
  BY <1>1, <1>2, <1>3 DEF Edits, EditIsAbove, Inv

LEMMA LandedType ==
  ASSUME Typed, NEW n, NEW item \in Items, Landed(n, item)
  PROVE  owed' \in [Channels -> SUBSET Items]
  BY DEF Landed, Typed

LEMMA AddsForkType ==
  ASSUME Typed, NEW n \in Nodes, NEW copy \in Copies, copy.seq > 0, AddsFork(n, copy)
  PROVE  /\ forks' \in [Nodes -> SUBSET (Nat \X Bodies)]
         /\ counter' \in [Nodes -> Nat] /\ owed' \in [Channels -> SUBSET Items]
<1>1. <<copy.seq, copy.body>> \in Nat \X Bodies
  BY DEF Copies
<1>2. forks' \in [Nodes -> SUBSET (Nat \X Bodies)]
  BY <1>1 DEF AddsFork, Typed
<1>3. counter' \in [Nodes -> Nat] /\ owed' \in [Channels -> SUBSET Items]
  BY CountedType, LandedType DEF AddsFork, Typed, Items
<1> QED
  BY <1>2, <1>3

LEMMA LandsType ==
  ASSUME Typed, NEW c \in Channels, turn[c].doc \in Copies, Lands(c)
  PROVE  /\ row' \in [Nodes -> Copies] /\ owed' \in [Channels -> SUBSET Items]
         /\ row' = [row EXCEPT ![To(c)] = [turn[c].doc EXCEPT !.here = FALSE]]
         /\ row'[To(c)].seq = turn[c].doc.seq /\ row'[To(c)].body = turn[c].doc.body
<1>1. /\ row' = [row EXCEPT ![To(c)] = [turn[c].doc EXCEPT !.here = FALSE]]
      /\ Landed(To(c), "row")
  BY DEF Lands
<1>2. /\ [turn[c].doc EXCEPT !.here = FALSE] \in Copies
      /\ [turn[c].doc EXCEPT !.here = FALSE].seq = turn[c].doc.seq
      /\ [turn[c].doc EXCEPT !.here = FALSE].body = turn[c].doc.body
  BY DEF Copies
<1>3. owed' \in [Channels -> SUBSET Items]
  BY <1>1, LandedType DEF Items
<1> QED
  BY <1>1, <1>2, <1>3, ChannelEnds DEF Typed

\* A turn that goes on fits, and the other turns are as they were.
LEMMA TurnGoesOn ==
  ASSUME Inv, NEW c \in Channels, NEW t, Fits(t), turn' = [turn EXCEPT ![c] = t]
  PROVE  turn' \in [Channels -> Turns] /\ \A d \in Channels : Fits(turn'[d])
  BY DEF Inv, Typed, Fits

LEMMA MovesOn ==
  ASSUME Inv, NEW c \in Channels, NEW stage, Moves(c, stage),
         Fits([turn[c] EXCEPT !.at = stage])
  PROVE  turn' \in [Channels -> Turns] /\ \A d \in Channels : Fits(turn'[d])
<1>1. turn' = [turn EXCEPT ![c] = [turn[c] EXCEPT !.at = stage]]
  BY DEF Moves
<1> QED
  BY <1>1, TurnGoesOn

\* A turn that starts carries what it took, and no document yet.
LEMMA StartedFits ==
  ASSUME NEW todo \in SUBSET Items
  PROVE  Fits([Idle EXCEPT !.at = "tombs", !.todo = todo])
<1> DEFINE next == [Idle EXCEPT !.at = "tombs", !.todo = todo]
<1>1. "tombs" \in Stages
  BY DEF Stages
<1>2. next \in Turns /\ next.at = "tombs"
  BY <1>1, NoneTypes DEF Turns
<1>3. Fits(next)
  <2> HIDE DEF next
  <2> QED
    BY <1>2 DEF Fits, DocFits, Displaces, RowStages
<1> QED
  BY <1>3

\* To these stages a turn goes with what it has.
LEMMA PlainStageFits ==
  ASSUME Inv, NEW c \in Channels,
         NEW stage \in {"idle", "tombs", "bury", "cascade", "rows", "forks"}
  PROVE  Fits([turn[c] EXCEPT !.at = stage])
<1> DEFINE next == [turn[c] EXCEPT !.at = stage]
<1>1. turn[c] \in Turns
  BY DEF Inv, Typed
<1>2. stage \in Stages /\ stage \notin RowStages \cup {"judge", "store"}
  BY DEF Stages, RowStages
<1>3. next \in Turns /\ next.at = stage
  BY <1>1, <1>2 DEF Turns
<1>4. Fits(next)
  <2> HIDE DEF next
  <2> QED
    BY <1>2, <1>3 DEF Fits, DocFits, Displaces, RowStages
<1> QED
  BY <1>4

\* A step that leaves copies and edits alone.
LEMMA CopiesStay ==
  ASSUME Inv, row' = row, edit' = edit, counter' \in [Nodes -> Nat],
         tomb' \in [Nodes -> Tombs], forks' \in [Nodes -> SUBSET (Nat \X Bodies)],
         owed' \in [Channels -> SUBSET Items], turn' \in [Channels -> Turns],
         \A d \in Channels : Fits(turn'[d])
  PROVE  Inv' /\ \A n \in Nodes : Rises(n)
<1>1. \A n \in Nodes : row[n].seq \in Nat /\ row[n].body \in Nat
  BY DEF Inv, Typed, Copies
<1>2. \A n \in Nodes : Rises(n)
  BY <1>1 DEF Rises
<1>3. \A d \in Channels : Fits(turn[d])'
  BY DEF Fits, DocFits, Displaces
<1>4. \A n \in Nodes : EditIsAbove(n)'
  BY DEF Inv, EditIsAbove
<1> QED
  BY <1>2, <1>3, <1>4 DEF Inv, Typed

-----------------------------------------------------------------------------
(***************************************************************************)
(* What is done at home.                                                   *)
(***************************************************************************)
LEMMA HomeStep ==
  ASSUME Inv, NEW n \in Nodes,
         (\E b \in Bodies : EditRecord(n, b)) \/ LandEdit(n) \/ RetryEdit(n) \/ DeleteRecord(n)
  PROVE  Inv' /\ \A x \in Nodes : Rises(x)
<1> USE DEF Inv, Typed
<1>0. \A x \in Nodes : row[x].seq \in Nat /\ row[x].body \in Nat
  BY DEF Copies
<1>1. ASSUME UNCHANGED <<row, tomb, forks, turn, owed>>,
             edit' \in [Nodes -> Edits], counter' \in [Nodes -> Nat],
             \A x \in Nodes : EditIsAbove(x)'
      PROVE  Inv' /\ \A x \in Nodes : Rises(x)
  <2>1. \A x \in Nodes : Rises(x)
    BY <1>0, <1>1 DEF Rises
  <2>2. \A c \in Channels : Fits(turn[c])'
    BY <1>1 DEF Fits, DocFits, Displaces
  <2> QED
    BY <1>1, <2>1, <2>2
<1>2. ASSUME NEW b \in Bodies, EditRecord(n, b)
      PROVE  Inv' /\ \A x \in Nodes : Rises(x)
  <2>1. StampEdit(n, b) /\ UNCHANGED <<row, tomb, forks, turn, owed>>
    BY <1>2 DEF EditRecord
  <2> QED
    BY <1>1, <2>1, StampType
<1>3. CASE RetryEdit(n)
  <2>1. UNCHANGED <<row, tomb, forks, turn, owed>> /\ edit[n] # NoEdit
    BY <1>3 DEF RetryEdit
  <2>2. CASE StampEdit(n, edit[n].body)
    <3>1. edit[n].body \in Bodies
      BY <2>1 DEF EditIsAbove
    <3> QED
      BY <1>1, <2>1, <2>2, <3>1, StampType
  <2>3. CASE edit' = [edit EXCEPT ![n] = NoEdit] /\ UNCHANGED counter
    <3>1. edit' \in [Nodes -> Edits] /\ \A x \in Nodes : EditIsAbove(x)'
      BY <2>3, NoneTypes DEF EditIsAbove
    <3> QED
      BY <1>1, <2>1, <2>3, <3>1
  <2> QED
    BY <1>3, <2>2, <2>3 DEF RetryEdit
<1>4. CASE LandEdit(n)
  <2> DEFINE copy == [seq |-> edit[n].stamp, body |-> edit[n].body, here |-> TRUE]
  <2>1. /\ row' = [row EXCEPT ![n] = copy] /\ edit' = [edit EXCEPT ![n] = NoEdit]
        /\ edit[n] # NoEdit /\ row[n].seq = edit[n].read /\ Landed(n, "row")
        /\ UNCHANGED <<tomb, forks, counter, turn>>
    BY <1>4 DEF LandEdit, AtReadVersion
  <2>2. edit[n].stamp > row[n].seq /\ edit[n].body \in Bodies /\ edit[n] \in Edits
    BY <2>1 DEF EditIsAbove
  <2>3. copy \in Copies /\ copy.seq = edit[n].stamp
    BY <2>2 DEF Copies, Edits
  <2> HIDE DEF copy
  <2>4. row' \in [Nodes -> Copies] /\ \A x \in Nodes : Rises(x)
    BY <1>0, <2>1, <2>2, <2>3 DEF Rises
  <2>5. edit' \in [Nodes -> Edits] /\ \A x \in Nodes : EditIsAbove(x)'
    BY <2>1, NoneTypes DEF EditIsAbove
  <2>6. owed' \in [Channels -> SUBSET Items]
    BY <2>1, LandedType DEF Items
  <2>7. \A c \in Channels : Fits(turn[c])'
    BY <2>1 DEF Fits, DocFits, Displaces
  <2> QED
    BY <2>1, <2>4, <2>5, <2>6, <2>7
<1>5. CASE DeleteRecord(n)
  <2>1. /\ row' = [row EXCEPT ![n] = NoRow] /\ forks' = [forks EXCEPT ![n] = {}]
        /\ tomb' = [tomb EXCEPT ![n] = [seq |-> NextVersion(n), issuer |-> n, here |-> TRUE]]
        /\ Counted(n) /\ Landed(n, "tomb") /\ UNCHANGED <<edit, turn>>
    BY <1>5 DEF DeleteRecord, ForksGo
  <2>2. row' \in [Nodes -> Copies] /\ \A x \in Nodes : Rises(x)
    BY <1>0, <2>1, NoneTypes DEF Rises, Stored, NoRow
  <2>3. tomb' \in [Nodes -> Tombs] /\ forks' \in [Nodes -> SUBSET (Nat \X Bodies)]
    BY <2>1, VersionIsAbove DEF Tombs
  <2>4. counter' \in [Nodes -> Nat] /\ owed' \in [Channels -> SUBSET Items]
    BY <2>1, CountedType, LandedType DEF Items
  <2>5. /\ \A c \in Channels : Fits(turn[c])'
        /\ \A x \in Nodes : EditIsAbove(x)'
    BY <2>1 DEF Fits, DocFits, Displaces, EditIsAbove
  <2> QED
    BY <2>1, <2>2, <2>3, <2>4, <2>5
<1> QED
  BY <1>2, <1>3, <1>4, <1>5

-----------------------------------------------------------------------------
(***************************************************************************)
(* The deletions of a turn, and its ends.                                  *)
(***************************************************************************)
LEMMA DeletionStep ==
  ASSUME Inv, NEW c \in Channels,
         \/ StartTurn(c) \/ ReadTomb(c) \/ JudgeTomb(c) \/ StoreTomb(c) \/ BuryRow(c)
         \/ Cascade(c) \/ TakeForks(c) \/ TurnFails(c)
  PROVE  Inv' /\ \A x \in Nodes : Rises(x)
<1>0. /\ Typed /\ turn[c] \in Turns /\ Fits(turn[c])
      /\ From(c) \in Nodes /\ To(c) \in Nodes
  BY ChannelEnds DEF Inv, Typed
<1>1. CASE StartTurn(c)
  <2> DEFINE next == [Idle EXCEPT !.at = "tombs", !.todo = owed[c]]
  <2>1. Fits(next)
    BY <1>0, StartedFits DEF Typed
  <2>2. turn' = [turn EXCEPT ![c] = next] /\ owed' = [owed EXCEPT ![c] = {}]
        /\ UNCHANGED <<row, tomb, forks, counter, edit>>
    BY <1>1 DEF StartTurn, local
  <2> HIDE DEF next
  <2>3. owed' \in [Channels -> SUBSET Items]
    BY <1>0, <2>2 DEF Typed
  <2> QED
    BY <1>0, <2>1, <2>2, <2>3, TurnGoesOn, CopiesStay DEF Typed
<1>2. CASE ReadTomb(c)
  <2>1. UNCHANGED <<row, tomb, forks, counter, edit, owed>>
    BY <1>2 DEF ReadTomb, local
  <2>2. CASE Moves(c, "rows")
    BY <1>0, <2>1, <2>2, MovesOn, PlainStageFits, CopiesStay DEF Typed
  <2>3. CASE turn' = [turn EXCEPT ![c].at = "judge", ![c].doc = tomb[From(c)]]
    <3> DEFINE next == [turn[c] EXCEPT !.at = "judge", !.doc = tomb[From(c)]]
    <3>1. Fits(next)
      BY <1>0 DEF Typed, Fits, DocFits, Displaces, Turns, Stages, RowStages
    <3>2. turn' = [turn EXCEPT ![c] = next]
      BY <1>0, <2>3 DEF Typed
    <3> HIDE DEF next
    <3> QED
      BY <1>0, <2>1, <3>1, <3>2, TurnGoesOn, CopiesStay DEF Typed
  <2> QED
    BY <1>2, <2>2, <2>3 DEF ReadTomb
<1>3. CASE JudgeTomb(c)
  <2>1. UNCHANGED <<row, tomb, forks, counter, edit, owed>> /\ turn[c].at = "judge"
    BY <1>3 DEF JudgeTomb, local
  <2>2. PICK stage \in {"rows", "cascade", "store", "bury"} :
          turn' = [turn EXCEPT ![c].at = stage, ![c].held = row[To(c)]]
    <3> DEFINE s == IF Stored(To(c)) /\ ~IsIssuers(c, turn[c].doc) THEN "rows"
                    ELSE IF Stored(To(c)) /\ HeldAbove(To(c), turn[c].doc) THEN "cascade"
                    ELSE IF tomb[To(c)].seq < turn[c].doc.seq THEN "store"
                    ELSE IF Stored(To(c)) THEN "bury"
                    ELSE "cascade"
    <3>1. turn' = [turn EXCEPT ![c].at = s, ![c].held = row[To(c)]]
      BY <1>3 DEF JudgeTomb
    <3>2. s \in {"rows", "cascade", "store", "bury"}
      OBVIOUS
    <3> HIDE DEF s
    <3> QED
      BY <3>1, <3>2
  <2> DEFINE next == [turn[c] EXCEPT !.at = stage, !.held = row[To(c)]]
  <2>3. Fits(next)
    BY <1>0, <2>1 DEF Typed, Fits, DocFits, Displaces, Turns, Stages, RowStages
  <2>4. turn' = [turn EXCEPT ![c] = next]
    BY <1>0, <2>2 DEF Typed
  <2> HIDE DEF next
  <2> QED
    BY <1>0, <2>1, <2>3, <2>4, TurnGoesOn, CopiesStay DEF Typed
<1>4. CASE StoreTomb(c)
  <2> DEFINE doc == turn[c].doc
  <2>1. UNCHANGED <<row, forks, counter, edit>> /\ doc \in Tombs
    BY <1>0, <1>4 DEF StoreTomb, Fits, DocFits
  <2>2. tomb' \in [Nodes -> Tombs]
    <3>1. \/ tomb' = tomb
          \/ tomb' = [tomb EXCEPT ![To(c)] = [seq |-> doc.seq, issuer |-> doc.issuer, here |-> FALSE]]
          \/ tomb' = [tomb EXCEPT ![To(c)] = [@ EXCEPT !.seq = doc.seq]]
      BY <1>4 DEF StoreTomb
    <3>2. tomb[To(c)] \in Tombs /\ tomb \in [Nodes -> Tombs]
      BY <1>0 DEF Typed
    <3>3. [seq |-> doc.seq, issuer |-> doc.issuer, here |-> FALSE] \in Tombs
      BY <2>1 DEF Tombs
    <3>4. [tomb[To(c)] EXCEPT !.seq = doc.seq] \in Tombs
      BY <2>1, <3>2 DEF Tombs
    <3> HIDE DEF doc
    <3> QED
      BY <1>0, <3>1, <3>2, <3>3, <3>4
  <2>3. owed' \in [Channels -> SUBSET Items]
    BY <1>0, <1>4, LandedType DEF StoreTomb, Typed, Items
  <2>4. Moves(c, "bury") \/ Moves(c, "cascade")
    BY <1>4 DEF StoreTomb
  <2> HIDE DEF doc
  <2> QED
    BY <1>0, <2>1, <2>2, <2>3, <2>4, MovesOn, PlainStageFits, CopiesStay DEF Typed
<1>5. CASE BuryRow(c)
  <2>1. /\ row' = [row EXCEPT ![To(c)] = NoRow] /\ Moves(c, "cascade")
        /\ UNCHANGED <<tomb, forks, counter, edit, owed>>
    BY <1>5 DEF BuryRow
  <2>2. \A x \in Nodes : row[x].seq \in Nat /\ row[x].body \in Nat
    BY <1>0 DEF Typed, Copies
  <2>3. row' \in [Nodes -> Copies] /\ \A x \in Nodes : Rises(x)
    BY <1>0, <2>1, <2>2, NoneTypes DEF Typed, Rises, Stored, NoRow
  <2>4. turn' \in [Channels -> Turns] /\ \A d \in Channels : Fits(turn'[d])
    BY <2>1, MovesOn, PlainStageFits
  <2>5. /\ \A d \in Channels : Fits(turn[d])'
        /\ \A x \in Nodes : EditIsAbove(x)'
    BY <2>1, <2>4 DEF Fits, DocFits, Displaces, EditIsAbove, Inv
  <2> QED
    BY <1>0, <2>1, <2>3, <2>4, <2>5 DEF Inv, Typed
<1>6. CASE Cascade(c)
  <2>1. /\ Moves(c, "rows") /\ UNCHANGED <<row, tomb, counter, edit, owed>>
        /\ forks' = forks \/ forks' = [forks EXCEPT ![To(c)] = {}]
    BY <1>6 DEF Cascade, ForksGo
  <2>2. forks' \in [Nodes -> SUBSET (Nat \X Bodies)]
    BY <1>0, <2>1 DEF Typed
  <2> QED
    BY <1>0, <2>1, <2>2, MovesOn, PlainStageFits, CopiesStay DEF Typed
<1>7. CASE TakeForks(c)
  <2>1. /\ turn' = [turn EXCEPT ![c] = Idle] /\ UNCHANGED <<row, tomb, counter, edit>>
        /\ owed' = owed \/ Landed(To(c), "forks")
    BY <1>7 DEF TakeForks
  <2>2. PICK come \in SUBSET forks[From(c)] : forks' = [forks EXCEPT ![To(c)] = @ \cup come]
    BY <1>7 DEF TakeForks
  <2>3. forks' \in [Nodes -> SUBSET (Nat \X Bodies)]
    BY <1>0, <2>2 DEF Typed
  <2>4. owed' \in [Channels -> SUBSET Items]
    BY <1>0, <2>1, LandedType DEF Typed, Items
  <2> QED
    BY <1>0, <2>1, <2>3, <2>4, NoneTypes, TurnGoesOn, CopiesStay DEF Typed
<1>8. CASE TurnFails(c)
  <2>1. /\ turn' = [turn EXCEPT ![c] = Idle] /\ UNCHANGED <<row, tomb, forks, counter, edit>>
        /\ owed' = [owed EXCEPT ![c] = @ \cup turn[c].todo]
    BY <1>8 DEF TurnFails, local
  <2>2. owed' \in [Channels -> SUBSET Items]
    BY <1>0, <2>1 DEF Typed, Turns
  <2> QED
    BY <1>0, <2>1, <2>2, NoneTypes, TurnGoesOn, CopiesStay DEF Typed
<1> QED
  BY <1>1, <1>2, <1>3, <1>4, <1>5, <1>6, <1>7, <1>8

-----------------------------------------------------------------------------
(***************************************************************************)
(* The row of a turn.                                                      *)
(***************************************************************************)

\* A plain stage of the row's, or the stage of a tie of this held copy.
LEMMA RowStageFits ==
  ASSUME Inv, NEW c \in Channels, turn[c].at \in RowStages, NEW held \in Copies,
         NEW stage \in Stages \ {"judge", "store"}, NEW then \in {"forks", "displace"},
         NEW below \in Nat,
         stage = "write" => then = "forks",
         stage \in {"displace", "swap"} \/ (stage = "clean" /\ then = "displace")
             => held.seq = turn[c].doc.seq /\ turn[c].doc.body < held.body
  PROVE  Fits([turn[c] EXCEPT !.at = stage, !.then = then, !.held = held, !.below = below])
<1> DEFINE next == [turn[c] EXCEPT !.at = stage, !.then = then, !.held = held, !.below = below]
<1>1. turn[c] \in Turns /\ turn[c].doc \in Copies /\ turn[c].doc.seq > 0
  BY DEF Inv, Typed, Fits, DocFits
<1>2. /\ next \in Turns /\ next.at = stage /\ next.doc = turn[c].doc
      /\ next.then = then /\ next.held = held
  BY <1>1 DEF Turns
<1>3. Fits(next)
  <2> HIDE DEF next
  <2>1. DocFits(next)
    BY <1>1, <1>2 DEF DocFits
  <2>2. Displaces(next)
    BY <1>2 DEF Displaces
  <2> QED
    BY <1>2, <2>1, <2>2 DEF Fits
<1> QED
  BY <1>3

\* A row that lands keeps the rest of the state in its types.
LEMMA LandingStep ==
  ASSUME Inv, NEW c \in Channels, turn[c].doc \in Copies, Lands(c), Rises(To(c)),
         UNCHANGED <<tomb, forks, counter, edit>>,
         turn' \in [Channels -> Turns], \A d \in Channels : Fits(turn'[d])
  PROVE  Inv' /\ \A x \in Nodes : Rises(x)
<1>1. /\ row' \in [Nodes -> Copies] /\ owed' \in [Channels -> SUBSET Items]
      /\ \A x \in Nodes : x # To(c) => row'[x] = row[x]
  BY LandsType, ChannelEnds DEF Inv, Typed
<1>2. \A x \in Nodes : row[x].seq \in Nat /\ row[x].body \in Nat
  BY DEF Inv, Typed, Copies
<1>3. \A x \in Nodes : Rises(x)
  BY <1>1, <1>2 DEF Rises
<1>4. /\ \A d \in Channels : Fits(turn[d])'
      /\ \A x \in Nodes : EditIsAbove(x)'
  BY DEF Fits, DocFits, Displaces, EditIsAbove, Inv
<1> QED
  BY <1>1, <1>3, <1>4 DEF Inv, Typed

LEMMA RowStep ==
  ASSUME Inv, NEW c \in Channels,
         \/ ReadRow(c) \/ PlanRow(c) \/ WriteRow(c) \/ CleanTomb(c)
         \/ KeepArriving(c) \/ KeepDisplaced(c) \/ SwapRow(c)
  PROVE  Inv' /\ \A x \in Nodes : Rises(x)
<1> DEFINE doc == turn[c].doc
           n == To(c)
<1>0. /\ Typed /\ turn[c] \in Turns /\ Fits(turn[c])
      /\ From(c) \in Nodes /\ n \in Nodes
      /\ row[n] \in Copies /\ row[From(c)] \in Copies /\ turn \in [Channels -> Turns]
  BY ChannelEnds DEF Inv, Typed
<1>1. ASSUME turn[c].at \in RowStages
      PROVE  doc \in Copies /\ doc.seq \in Nat /\ doc.seq > 0 /\ doc.body \in Nat
  BY <1>0, <1>1 DEF Fits, DocFits, Copies
<1>2. CASE ReadRow(c)
  <2>1. PICK stage \in {"plan", "forks"}, copy \in Copies :
          /\ turn' = [turn EXCEPT ![c].at = stage, ![c].doc = copy, ![c].held = NoRow]
          /\ stage = "plan" => copy.seq > 0
    <3> DEFINE r == row[From(c)]
               s == IF "row" \in turn[c].todo /\ r.seq > 0 /\ Offered(c, r)
                    THEN "plan" ELSE "forks"
               d == IF r.seq > 0 THEN r ELSE NoRow
    <3>1. turn' = [turn EXCEPT ![c].at = s, ![c].doc = d, ![c].held = NoRow]
      BY <1>2 DEF ReadRow
    <3>2. s \in {"plan", "forks"} /\ d \in Copies /\ (s = "plan" => d.seq > 0)
      BY <1>0, NoneTypes
    <3> HIDE DEF s, d
    <3> QED
      BY <3>1, <3>2
  <2> DEFINE next == [turn[c] EXCEPT !.at = stage, !.doc = copy, !.held = NoRow]
  <2>2. Fits(next)
    <3>1. stage \in Stages /\ stage \in {"plan", "forks"} /\ NoRow \in Copies
      BY <2>1, NoneTypes DEF Stages, RowStages
    <3>2. next \in Turns /\ next.at = stage /\ next.doc = copy
      BY <1>0, <2>1, <3>1 DEF Turns
    <3> HIDE DEF next
    <3> QED
      BY <2>1, <3>1, <3>2 DEF Fits, DocFits, Displaces, RowStages
  <2>3. turn' = [turn EXCEPT ![c] = next]
    BY <1>0, <2>1
  <2>4. UNCHANGED <<row, tomb, forks, counter, edit, owed>>
    BY <1>2 DEF ReadRow, local
  <2> HIDE DEF next
  <2> QED
    BY <1>0, <2>2, <2>3, <2>4, TurnGoesOn, CopiesStay DEF Typed
<1>3. CASE PlanRow(c)
  <2> DEFINE stale == IF Governs(c) THEN tomb[n].seq ELSE 0
             stage == IF stale >= doc.seq THEN "forks"
                      ELSE IF Diverges(doc, row[n]) THEN TieStage(doc, row[n])
                      ELSE IF Newer(doc, row[n]) THEN "write"
                      ELSE "clean"
             at == IF stage = ForkFirst THEN "clean" ELSE stage
             then == IF stage = ForkFirst THEN stage ELSE "forks"
             below == IF stale = 0 THEN 0
                      ELSE IF Newer(doc, row[n]) THEN doc.seq
                      ELSE row[n].seq
             next == [turn[c] EXCEPT !.at = at, !.then = then, !.held = row[n], !.below = below]
  <2>1. /\ turn[c].at = "plan"
        /\ turn' = [turn EXCEPT ![c].at = at, ![c].then = then, ![c].held = row[n],
                                ![c].below = below]
        /\ UNCHANGED <<row, tomb, forks, counter, edit, owed>>
    BY <1>3 DEF PlanRow, local
  <2>2. turn[c].at \in RowStages
    BY <2>1 DEF RowStages
  <2>3. row[n].seq \in Nat /\ row[n].body \in Nat /\ stale \in Nat /\ below \in Nat
    <3>1. row[n].seq \in Nat /\ row[n].body \in Nat
      BY <1>0 DEF Copies
    <3>2. tomb[n].seq \in Nat
      BY <1>0 DEF Typed, Tombs
    <3>3. doc.seq \in Nat
      BY <1>1, <2>2
    <3> QED
      BY <3>1, <3>2, <3>3
  <2>4. /\ stage \in {"forks", "displace", "keep", "write", "clean"}
        /\ stage = "displace" => row[n].seq = doc.seq /\ doc.body < row[n].body
    BY DEF TieStage, ForkFirst, ArrivingWinsTie, Diverges
  <2> HIDE DEF stage, below, stale
  <2>5. /\ at \in Stages \ {"judge", "store"} /\ then \in {"forks", "displace"}
        /\ at = "write" => then = "forks"
        /\ at \notin {"displace", "swap"}
        /\ then = "displace" => row[n].seq = doc.seq /\ doc.body < row[n].body
    BY <2>4 DEF ForkFirst, Stages, RowStages
  <2> HIDE DEF at, then
  <2>6. Fits(next)
    BY <1>0, <2>2, <2>3, <2>5, RowStageFits
  <2>7. turn' = [turn EXCEPT ![c] = next]
    BY <1>0, <2>1
  <2> HIDE DEF next
  <2> QED
    BY <1>0, <2>1, <2>6, <2>7, TurnGoesOn, CopiesStay DEF Typed
<1>4. CASE CleanTomb(c)
  <2>1. /\ turn[c].at = "clean" /\ Moves(c, turn[c].then)
        /\ UNCHANGED <<row, forks, counter, edit, owed>>
        /\ tomb' = tomb \/ tomb' = [tomb EXCEPT ![n] = NoTomb]
    BY <1>4 DEF CleanTomb
  <2>2. Fits([turn[c] EXCEPT !.at = turn[c].then])
    BY <1>0, <2>1 DEF Fits, DocFits, Displaces, Turns, Stages, RowStages
  <2>3. tomb' \in [Nodes -> Tombs]
    BY <1>0, <2>1, NoneTypes DEF Typed
  <2> QED
    BY <1>0, <2>1, <2>2, <2>3, MovesOn, CopiesStay DEF Typed
<1>5. CASE KeepArriving(c)
  <2>1. /\ turn[c].at = "keep" /\ AddsFork(n, doc) /\ Moves(c, "forks")
        /\ UNCHANGED <<row, tomb, edit>>
    BY <1>5 DEF KeepArriving
  <2>2. doc \in Copies /\ doc.seq > 0
    BY <1>1, <2>1 DEF RowStages
  <2>3. /\ forks' \in [Nodes -> SUBSET (Nat \X Bodies)]
        /\ counter' \in [Nodes -> Nat] /\ owed' \in [Channels -> SUBSET Items]
    BY <1>0, <2>1, <2>2, AddsForkType
  <2> QED
    BY <1>0, <2>1, <2>3, MovesOn, PlainStageFits, CopiesStay DEF Typed
<1>6. CASE KeepDisplaced(c)
  <2> DEFINE held == turn[c].held
  <2>1. /\ turn[c].at = "displace" /\ AddsFork(n, held) /\ Moves(c, "swap")
        /\ UNCHANGED <<row, tomb, edit>>
    BY <1>6 DEF KeepDisplaced
  <2>2. held \in Copies /\ held.seq > 0
    BY <1>0, <1>1, <2>1 DEF RowStages, Fits, Displaces, Turns
  <2>3. /\ forks' \in [Nodes -> SUBSET (Nat \X Bodies)]
        /\ counter' \in [Nodes -> Nat] /\ owed' \in [Channels -> SUBSET Items]
    BY <1>0, <2>1, <2>2, AddsForkType
  <2>4. Fits([turn[c] EXCEPT !.at = "swap"])
    BY <1>0, <2>1 DEF Fits, DocFits, Displaces, Turns, Stages, RowStages
  <2> QED
    BY <1>0, <2>1, <2>3, <2>4, MovesOn, CopiesStay DEF Typed
<1>7. CASE WriteRow(c)
  <2>1. turn[c].at = "write" /\ turn[c].then = "forks" /\ UNCHANGED <<tomb, forks, counter, edit>>
    BY <1>0, <1>7 DEF WriteRow, Fits, DocFits
  <2>2. /\ doc \in Copies /\ doc.seq \in Nat /\ doc.seq > 0 /\ doc.body \in Nat
        /\ turn[c].at \in RowStages
    BY <1>1, <2>1 DEF RowStages
  <2>3. CASE SeqGuard(n, doc)
    <3>1. Lands(c) /\ Moves(c, "clean")
      BY <1>7, <2>3 DEF WriteRow
    <3>2. Rises(n)
      BY <1>0, <2>2, <2>3, <3>1, LandsType DEF SeqGuard, Rises, Copies
    <3>3. Fits([turn[c] EXCEPT !.at = "clean"])
      BY <1>0, <2>1, <2>2 DEF Fits, DocFits, Displaces, Turns, Stages, RowStages
    <3> QED
      BY <2>1, <2>2, <3>1, <3>2, <3>3, MovesOn, LandingStep
  <2>4. CASE ~SeqGuard(n, doc)
    <3> DEFINE stage == IF Diverges(doc, row[n]) THEN TieStage(doc, row[n])
                        ELSE IF row[n].seq = doc.seq THEN "clean"
                        ELSE "forks"
               next == [turn[c] EXCEPT !.at = stage, !.held = row[n]]
    <3>1. /\ turn' = [turn EXCEPT ![c].at = stage, ![c].held = row[n]]
          /\ UNCHANGED <<row, owed>>
      BY <1>7, <2>4 DEF WriteRow
    <3>2. /\ stage \in {"displace", "keep", "clean", "forks"}
          /\ stage = "displace" => row[n].seq = doc.seq /\ doc.body < row[n].body
      BY DEF TieStage, ForkFirst, ArrivingWinsTie, Diverges
    <3> HIDE DEF stage
    <3>3. Fits(next)
      BY <1>0, <2>1, <2>2, <3>2 DEF Fits, DocFits, Displaces, Turns, Stages, RowStages
    <3>4. turn' = [turn EXCEPT ![c] = next]
      BY <1>0, <3>1
    <3> HIDE DEF next
    <3> QED
      BY <1>0, <2>1, <3>1, <3>3, <3>4, TurnGoesOn, CopiesStay DEF Typed
  <2> QED
    BY <2>3, <2>4
<1>8. CASE SwapRow(c)
  <2>1. turn[c].at = "swap" /\ UNCHANGED <<tomb, forks, counter, edit>>
    BY <1>8 DEF SwapRow
  <2>2. /\ doc \in Copies /\ doc.seq \in Nat /\ doc.seq > 0 /\ doc.body \in Nat
        /\ turn[c].held.seq = doc.seq /\ doc.body < turn[c].held.body
    BY <1>0, <1>1, <2>1 DEF RowStages, Fits, Displaces
  <2>3. CASE Lands(c) /\ Moves(c, "forks") /\
             (~Stored(n) \/ (row[n].seq = turn[c].held.seq /\ row[n].body = turn[c].held.body))
    <3>1. row'[n].seq = doc.seq /\ row'[n].body = doc.body
      BY <1>0, <2>2, <2>3, LandsType
    <3>2. Rises(n)
      BY <1>0, <2>2, <2>3, <3>1 DEF Rises, Copies
    <3> QED
      BY <2>1, <2>2, <2>3, <3>2, MovesOn, PlainStageFits, LandingStep
  <2>4. CASE (Moves(c, "forks") \/ Moves(c, "keep")) /\ UNCHANGED <<row, owed>>
    <3>1. Fits([turn[c] EXCEPT !.at = "keep"])
      BY <1>0, <2>1, <2>2 DEF Fits, DocFits, Displaces, Turns, Stages, RowStages
    <3> QED
      BY <1>0, <2>1, <2>4, <3>1, MovesOn, PlainStageFits, CopiesStay DEF Typed
  <2> QED
    BY <1>8, <2>3, <2>4 DEF SwapRow
<1> QED
  BY <1>2, <1>3, <1>4, <1>5, <1>6, <1>7, <1>8

-----------------------------------------------------------------------------
(***************************************************************************)
(* The theorems.                                                           *)
(***************************************************************************)
LEMMA InitHolds == Init => Inv
<1> SUFFICES ASSUME Init PROVE Inv
  OBVIOUS
<1>1. [seq |-> 1, body |-> First, here |-> TRUE] \in Copies
  BY BodiesAssumption DEF Copies
<1>2. Typed
  BY <1>1, NoneTypes DEF Init, Typed, Items
<1> QED
  BY <1>2, NoneTypes DEF Init, Inv, EditIsAbove

LEMMA InvStep ==
  ASSUME Inv, [Next]_vars
  PROVE  Inv' /\ \A n \in Nodes : Rises(n)
<1>1. CASE UNCHANGED vars
  BY <1>1, CopiesStay DEF vars, local, Inv, Typed, Fits, DocFits, Displaces
<1>2. CASE Next
  BY <1>2, HomeStep, DeletionStep, RowStep DEF Next, TurnStep
<1> QED
  BY <1>1, <1>2

\* The parts are kept by every step together (every store call of an exchange).
THEOREM VersionsInductive == Spec => []Inv
<1>1. Inv /\ [Next]_vars => Inv'
  BY InvStep
<1> QED
  BY InitHolds, <1>1, PTL DEF Spec

\* Copies, tombstones, forks and turns keep their types, and a copy that a turn
\* displaces is of the version that comes (planArrivals).
THEOREM VersionTypesCorrect == Spec => []VersionsTypeOK
<1>1. Inv => VersionsTypeOK
  BY DEF Inv, Typed, VersionsTypeOK, Copies, Tombs, Turns, Fits, DocFits, Displaces,
         RowStages, Stored
<1> QED
  BY VersionsInductive, <1>1, PTL

\* With any number of members, exchanges, edits and failures, a member's copy
\* never goes back (seqGuard, equalSeqSwapGuard, writeAtReadVersion).
THEOREM MemberCopiesOnlyRise == Spec => CopiesOnlyRise
<1>1. Inv /\ [Next]_vars =>
        [\A n \in Nodes : Stored(n) /\ Stored(n)' =>
            \/ row'[n].seq > row[n].seq
            \/ row'[n].seq = row[n].seq /\ row'[n].body <= row[n].body]_vars
  BY InvStep DEF Rises
<1> QED
  BY VersionsInductive, <1>1, PTL DEF Spec, CopiesOnlyRise

-----------------------------------------------------------------------------
(***************************************************************************)
(* A displaced text is kept (landSwaps): from the fork's write to the swap *)
(* the copy that goes is a fork, or a removal took the forks meanwhile.    *)
(***************************************************************************)
Kept(c) ==
    turn[c].at = "swap" =>
        \/ <<turn[c].held.seq, turn[c].held.body>> \in forks[To(c)]
        \/ c \in crossed

KeptInv == Inv /\ \A c \in Channels : Kept(c)

\* A turn that is not left at its swap, and forks that stay or go with the record.
LEMMA OthersAreKept ==
  ASSUME KeptInv, NEW c \in Channels, turn'[c].at # "swap",
         \A d \in Channels \ {c} : turn'[d] = turn[d],
         \/ crossed \ {c} \subseteq crossed' /\ \A x \in Nodes : forks[x] \subseteq forks'[x]
         \/ ForksGo(To(c))
  PROVE  \A d \in Channels : Kept(d)'
<1> SUFFICES ASSUME NEW d \in Channels, turn'[d].at = "swap"
             PROVE  \/ <<turn'[d].held.seq, turn'[d].held.body>> \in forks'[To(d)]
                    \/ d \in crossed'
  BY DEF Kept, To
<1>1. /\ d # c /\ turn'[d] = turn[d] /\ To(d) \in Nodes /\ To(c) \in Nodes
      /\ Kept(d) /\ forks \in [Nodes -> SUBSET (Nat \X Bodies)]
  BY ChannelEnds DEF KeptInv, Inv, Typed
<1>2. CASE crossed \ {c} \subseteq crossed' /\ \A x \in Nodes : forks[x] \subseteq forks'[x]
  BY <1>1, <1>2 DEF Kept
<1>3. CASE ForksGo(To(c))
  BY <1>1, <1>3 DEF Kept, ForksGo
<1> QED
  BY <1>2, <1>3

LEMMA KeptAtHome ==
  ASSUME KeptInv, NEW n \in Nodes,
         (\E b \in Bodies : EditRecord(n, b)) \/ LandEdit(n) \/ RetryEdit(n) \/ DeleteRecord(n)
  PROVE  \A d \in Channels : Kept(d)'
<1>1. CASE DeleteRecord(n)
  <2>1. ForksGo(n) /\ turn' = turn
    BY <1>1 DEF DeleteRecord
  <2> QED
    BY <2>1, ChannelEnds DEF KeptInv, Inv, Typed, Kept, ForksGo, To
<1>2. CASE (\E b \in Bodies : EditRecord(n, b)) \/ LandEdit(n) \/ RetryEdit(n)
  <2>1. forks' = forks /\ turn' = turn /\ crossed' = crossed
    BY <1>2 DEF EditRecord, LandEdit, RetryEdit, history
  <2> QED
    BY <2>1 DEF KeptInv, Kept, To
<1> QED
  BY <1>1, <1>2

LEMMA KeptInTurns ==
  ASSUME KeptInv, NEW c \in Channels, StartTurn(c) \/ TurnStep(c) \/ TurnFails(c)
  PROVE  \A d \in Channels : Kept(d)'
<1>0. /\ turn \in [Channels -> Turns] /\ turn[c] \in Turns
      /\ forks \in [Nodes -> SUBSET (Nat \X Bodies)] /\ To(c) \in Nodes
  BY ChannelEnds DEF KeptInv, Inv, Typed
<1>1. ASSUME forks' = forks, crossed' = crossed, NEW t, turn' = [turn EXCEPT ![c] = t],
             t.at # "swap"
      PROVE  \A d \in Channels : Kept(d)'
  BY <1>0, <1>1, OthersAreKept
<1>2. ASSUME forks' = forks, crossed' = crossed, NEW stage, Moves(c, stage), stage # "swap"
      PROVE  \A d \in Channels : Kept(d)'
  <2>1. /\ turn' = [turn EXCEPT ![c] = [turn[c] EXCEPT !.at = stage]]
        /\ [turn[c] EXCEPT !.at = stage].at # "swap"
    BY <1>0, <1>2 DEF Moves, Turns
  <2> QED
    BY <1>0, <1>2, <2>1, OthersAreKept
<1>3. CASE StartTurn(c)
  BY <1>0, <1>3, OthersAreKept DEF StartTurn, Idle, local, history
<1>4. CASE ReadTomb(c) \/ JudgeTomb(c) \/ StoreTomb(c) \/ BuryRow(c)
  <2>1. forks' = forks /\ crossed' = crossed
    BY <1>4 DEF ReadTomb, JudgeTomb, StoreTomb, BuryRow, local, history
  <2>2. turn'[c].at # "swap" /\ \A d \in Channels \ {c} : turn'[d] = turn[d]
    BY <1>0, <1>4 DEF ReadTomb, JudgeTomb, StoreTomb, BuryRow, Moves, Turns
  <2> QED
    BY <2>1, <2>2, OthersAreKept
<1>5. CASE Cascade(c)
  <2>1. turn'[c].at # "swap" /\ \A d \in Channels \ {c} : turn'[d] = turn[d]
    BY <1>0, <1>5 DEF Cascade, Moves, Turns
  <2> QED
    BY <1>5, <2>1, OthersAreKept DEF Cascade
<1>6. CASE ReadRow(c) \/ PlanRow(c) \/ WriteRow(c)
  <2>1. forks' = forks /\ crossed' = crossed
    BY <1>6 DEF ReadRow, PlanRow, WriteRow, local, history
  <2>2. \A d \in Channels \ {c} : turn'[d] = turn[d]
    BY <1>0, <1>6 DEF ReadRow, PlanRow, WriteRow, Moves
  <2>3. CASE ReadRow(c)
    BY <1>0, <2>1, <2>2, <2>3, OthersAreKept DEF ReadRow, Turns
  <2>4. CASE PlanRow(c)
    <3>1. turn'[c].at # "swap"
      BY <1>0, <2>4 DEF PlanRow, Turns, TieStage, ForkFirst
    <3> QED
      BY <2>1, <2>2, <3>1, OthersAreKept
  <2>5. CASE WriteRow(c)
    <3>1. turn'[c].at # "swap"
      BY <1>0, <2>5 DEF WriteRow, Moves, Turns, TieStage, ForkFirst
    <3> QED
      BY <2>1, <2>2, <3>1, OthersAreKept
  <2> QED
    BY <1>6, <2>3, <2>4, <2>5
<1>7. CASE CleanTomb(c)
  <2>1. forks' = forks /\ crossed' = crossed /\ Moves(c, turn[c].then)
    BY <1>7 DEF CleanTomb, history
  <2>2. turn[c].then # "swap"
    BY <1>0 DEF Turns
  <2> QED
    BY <1>2, <2>1, <2>2
<1>8. CASE KeepArriving(c)
  <2>1. /\ crossed' = crossed /\ Moves(c, "forks")
        /\ \A x \in Nodes : forks[x] \subseteq forks'[x]
    BY <1>0, <1>8 DEF KeepArriving, AddsFork, history
  <2>2. turn'[c].at # "swap" /\ \A d \in Channels \ {c} : turn'[d] = turn[d]
    BY <1>0, <2>1 DEF Moves, Turns
  <2> QED
    BY <2>1, <2>2, OthersAreKept
<1>9. CASE KeepDisplaced(c)
  <2>1. /\ crossed' = crossed /\ Moves(c, "swap")
        /\ forks' = [forks EXCEPT ![To(c)] =
                        @ \cup {<<turn[c].held.seq, turn[c].held.body>>}]
    BY <1>9 DEF KeepDisplaced, AddsFork, history
  <2>2. /\ turn'[c].held = turn[c].held
        /\ \A d \in Channels \ {c} : turn'[d] = turn[d]
    BY <1>0, <2>1 DEF Moves, Turns
  <2>3. /\ <<turn[c].held.seq, turn[c].held.body>> \in forks'[To(c)]
        /\ \A x \in Nodes : forks[x] \subseteq forks'[x]
    BY <1>0, <2>1
  <2> QED
    BY <2>1, <2>2, <2>3, ChannelEnds DEF KeptInv, Kept, To
<1>10. CASE SwapRow(c)
  <2>1. /\ forks' = forks /\ crossed' = crossed \ {c}
        /\ Moves(c, "forks") \/ Moves(c, "keep")
    BY <1>10 DEF SwapRow
  <2>2. turn'[c].at # "swap" /\ \A d \in Channels \ {c} : turn'[d] = turn[d]
    BY <1>0, <2>1 DEF Moves, Turns
  <2> QED
    BY <2>1, <2>2, OthersAreKept
<1>11. CASE TakeForks(c)
  <2>1. /\ turn' = [turn EXCEPT ![c] = Idle] /\ crossed' = crossed
        /\ \A x \in Nodes : forks[x] \subseteq forks'[x]
    BY <1>0, <1>11 DEF TakeForks, history
  <2> QED
    BY <1>0, <2>1, OthersAreKept DEF Idle
<1>12. CASE TurnFails(c)
  BY <1>0, <1>12, OthersAreKept DEF TurnFails, Idle, local
<1> QED
  BY <1>3, <1>4, <1>5, <1>6, <1>7, <1>8, <1>9, <1>10, <1>11, <1>12 DEF TurnStep

\* Only a swap puts another body where one of the same version is, and only
\* over the copy it names (seqGuard, equalSeqSwapGuard, writeFilterFor).
LEMMA OnlySwapsDisplace ==
  ASSUME Inv, Next, NEW n \in Nodes, Stored(n), Stored(n)',
         row'[n].seq = row[n].seq, row'[n].body # row[n].body
  PROVE  \E c \in Channels :
            /\ To(c) = n /\ turn[c].at = "swap" /\ turn'[c].at # "swap"
            /\ row[n].seq = turn[c].held.seq /\ row[n].body = turn[c].held.body
<1>0. /\ row \in [Nodes -> Copies] /\ turn \in [Channels -> Turns]
      /\ row[n].seq \in Nat /\ row[n].seq > 0 /\ row'[n].seq > 0
      /\ row'[n] # row[n]
  BY DEF Inv, Typed, Copies, Stored
<1>1. ASSUME NEW m \in Nodes, LandEdit(m)
      PROVE  FALSE
  <2>1. /\ row' = [row EXCEPT ![m] = [seq |-> edit[m].stamp, body |-> edit[m].body,
                                      here |-> TRUE]]
        /\ edit[m] # NoEdit /\ row[m].seq = edit[m].read
    BY <1>1 DEF LandEdit, AtReadVersion
  <2>2. edit[m].stamp > edit[m].read
    BY <2>1 DEF Inv, EditIsAbove
  <2>3. m = n /\ row'[n].seq = edit[n].stamp
    BY <1>0, <2>1
  <2>4. edit[n].stamp \in Nat /\ edit[n].read \in Nat
    BY DEF Inv, Typed, Edits
  <2> QED
    BY <1>0, <2>1, <2>2, <2>3, <2>4
<1>2. ASSUME NEW m \in Nodes, DeleteRecord(m)
      PROVE  FALSE
  <2>1. row' = [row EXCEPT ![m] = NoRow]
    BY <1>2 DEF DeleteRecord
  <2> QED
    BY <1>0, <2>1 DEF NoRow
<1>3. ASSUME NEW c \in Channels, BuryRow(c)
      PROVE  FALSE
  <2>1. row' = [row EXCEPT ![To(c)] = NoRow]
    BY <1>3 DEF BuryRow
  <2> QED
    BY <1>0, <2>1 DEF NoRow
<1>4. ASSUME NEW c \in Channels, WriteRow(c)
      PROVE  FALSE
  <2>1. SeqGuard(To(c), turn[c].doc) /\ Lands(c)
    BY <1>0, <1>4 DEF WriteRow
  <2>2. turn[c].doc \in Copies
    BY <1>4 DEF WriteRow, Inv, Fits, DocFits, RowStages
  <2>3. row'[To(c)].seq > row[To(c)].seq /\ To(c) = n
    BY <1>0, <2>1, <2>2, LandsType, ChannelEnds DEF SeqGuard, Inv
  <2> QED
    BY <1>0, <2>3
<1>5. ASSUME NEW c \in Channels, SwapRow(c)
      PROVE  /\ To(c) = n /\ turn[c].at = "swap" /\ turn'[c].at # "swap"
             /\ row[n].seq = turn[c].held.seq /\ row[n].body = turn[c].held.body
  <2>1. /\ turn[c].at = "swap" /\ Lands(c) /\ Moves(c, "forks")
        /\ \/ ~Stored(To(c))
           \/ row[To(c)].seq = turn[c].held.seq /\ row[To(c)].body = turn[c].held.body
    BY <1>0, <1>5 DEF SwapRow
  <2>2. To(c) = n
    BY <1>0, <2>1 DEF Lands
  <2>3. turn'[c].at = "forks"
    BY <1>0, <2>1 DEF Moves, Turns
  <2> QED
    BY <2>1, <2>2, <2>3
<1>6. ASSUME NEW m \in Nodes, (\E b \in Bodies : EditRecord(m, b)) \/ RetryEdit(m)
      PROVE  FALSE
  BY <1>0, <1>6 DEF EditRecord, RetryEdit
<1>7. ASSUME NEW c \in Channels,
             \/ StartTurn(c) \/ ReadTomb(c) \/ JudgeTomb(c) \/ StoreTomb(c) \/ Cascade(c)
             \/ ReadRow(c) \/ PlanRow(c) \/ CleanTomb(c) \/ KeepArriving(c)
             \/ KeepDisplaced(c) \/ TakeForks(c) \/ TurnFails(c)
      PROVE  FALSE
  <2>1. CASE StartTurn(c) \/ ReadTomb(c) \/ JudgeTomb(c) \/ ReadRow(c) \/ PlanRow(c)
    BY <1>0, <2>1 DEF StartTurn, ReadTomb, JudgeTomb, ReadRow, PlanRow, local
  <2>2. CASE StoreTomb(c) \/ Cascade(c) \/ CleanTomb(c) \/ TurnFails(c)
    BY <1>0, <2>2 DEF StoreTomb, Cascade, CleanTomb, TurnFails, local
  <2>3. CASE KeepArriving(c) \/ KeepDisplaced(c) \/ TakeForks(c)
    BY <1>0, <2>3 DEF KeepArriving, KeepDisplaced, TakeForks
  <2> QED
    BY <1>7, <2>1, <2>2, <2>3
<1> QED
  BY <1>1, <1>2, <1>3, <1>4, <1>5, <1>6, <1>7 DEF Next, TurnStep

\* With any number of members, exchanges, edits, removals and failures, a copy
\* that loses a tie is a fork before it is displaced, but where a removal took
\* the forks in between (acceptArrivingPage, landSwaps).
THEOREM DisplacedTextsAreKept == Spec => DisplacedTextIsKept
<1>1. Init => KeptInv
  BY InitHolds DEF Init, KeptInv, Kept, Idle
<1>2. KeptInv /\ [Next]_vars => KeptInv'
  <2> SUFFICES ASSUME KeptInv, [Next]_vars PROVE KeptInv'
    OBVIOUS
  <2>1. Inv'
    BY InvStep DEF KeptInv
  <2>2. CASE UNCHANGED vars
    BY <2>1, <2>2 DEF KeptInv, Kept, To, vars
  <2>3. CASE Next
    BY <2>1, <2>3, KeptAtHome, KeptInTurns DEF Next, KeptInv
  <2> QED
    BY <2>2, <2>3
<1>3. KeptInv /\ [Next]_vars =>
        [\A n \in Nodes :
            Stored(n) /\ Stored(n)' /\ row'[n].seq = row[n].seq
            /\ row'[n].body # row[n].body
              => \/ <<row[n].seq, row[n].body>> \in forks[n]
                 \/ \E c \in crossed : To(c) = n /\ turn'[c].at # "swap"]_vars
  <2> SUFFICES ASSUME KeptInv, Next, NEW n \in Nodes, Stored(n), Stored(n)',
                      row'[n].seq = row[n].seq, row'[n].body # row[n].body
               PROVE  \/ <<row[n].seq, row[n].body>> \in forks[n]
                      \/ \E c \in crossed : To(c) = n /\ turn'[c].at # "swap"
    OBVIOUS
  <2>1. PICK c \in Channels :
            /\ To(c) = n /\ turn[c].at = "swap" /\ turn'[c].at # "swap"
            /\ row[n].seq = turn[c].held.seq /\ row[n].body = turn[c].held.body
    BY OnlySwapsDisplace DEF KeptInv
  <2> QED
    BY <2>1 DEF KeptInv, Kept
<1> QED
  BY <1>1, <1>2, <1>3, PTL DEF Spec, DisplacedTextIsKept
=============================================================================
