--------------------------- MODULE RecordVersions ---------------------------
(***************************************************************************)
(* One record of a forking family on the members of a mesh network: local  *)
(* edits (brain/write-at-read-version.ts), the author's deletion           *)
(* (brain/record-removal.ts), and the exchanges that carry rows, deletions *)
(* and forks (sync/accept-page.ts, upsert-plan.ts, arrivals.ts,            *)
(* tombstone-apply.ts).                                                    *)
(*                                                                         *)
(* A body stands for its hash, so bodies are numbers and the lower one     *)
(* wins a tie.  A fork is the version and the body its id derives from.    *)
(* An exchange is a turn over one channel: deletions, then the row, then   *)
(* the forks, under one mark; what the source landed since that mark is    *)
(* owed (PositionPull shows that the marks mean this), and a turn that     *)
(* fails leaves its mark, so that everything it took is owed again.        *)
(***************************************************************************)
EXTENDS Integers, FiniteSets

CONSTANTS
    Nodes,        \* members
    Author,       \* the member that created the record
    Bodies,       \* what the record may say
    First,        \* what it says when it is created
    Pulls,        \* <<from, to>>: `to' pulls from `from'
    Pushes,       \* <<from, to>>: `from' pushes to `to'
    MaxActs,      \* BOUND: local edits and deletions
    MaxFailures   \* BOUND: turns that fail half-way

Pull == "pull"
Push == "push"
Channels == {<<c[1], c[2], Pull>> : c \in Pulls}
                \cup {<<c[1], c[2], Push>> : c \in Pushes}
From(c) == c[1]
To(c)   == c[2]

ASSUME AuthorAssumption == Author \in Nodes
ASSUME BodiesAssumption == Bodies \subseteq Nat /\ First \in Bodies
ASSUME ChannelAssumption ==
    Pulls \cup Pushes \subseteq {c \in Nodes \X Nodes : c[1] # c[2]}
ASSUME BoundAssumption == MaxActs \in Nat /\ MaxFailures \in Nat

VARIABLES
    row,      \* each member's copy: version 0 when it holds none
    tomb,     \* each member's tombstone of the record: version 0 for none
    forks,    \* each member's forks of the record
    counter,  \* each member's version counter of the space
    edit,     \* the local edit under way: the version it read, its stamp
    turn,     \* each channel's turn
    owed,     \* what each channel's source landed since the channel's mark
    acts, failures,
    shadowed, \* history: members where a row landed under a tombstone
    crossed   \* history: turns about to swap whose fork a removal took

local   == <<row, tomb, forks, counter, edit>>
history == <<shadowed, crossed>>
vars    == <<row, tomb, forks, counter, edit, turn, owed, acts, failures,
             shadowed, crossed>>

NoRow  == [seq |-> 0, body |-> 0, here |-> FALSE]
NoTomb == [seq |-> 0, issuer |-> Author, here |-> FALSE]
NoEdit == [read |-> 0, stamp |-> 0, body |-> 0]
Idle   == [at |-> "idle", todo |-> {}, doc |-> NoRow, held |-> NoRow,
           below |-> 0, then |-> "forks"]

Items == {"tomb", "row", "forks"}

Init ==
    /\ row = [n \in Nodes |->
                IF n = Author THEN [seq |-> 1, body |-> First, here |-> TRUE]
                ELSE NoRow]
    /\ tomb = [n \in Nodes |-> NoTomb]
    /\ forks = [n \in Nodes |-> {}]
    /\ counter = [n \in Nodes |-> IF n = Author THEN 1 ELSE 0]
    /\ edit = [n \in Nodes |-> NoEdit]
    /\ turn = [c \in Channels |-> Idle]
    /\ owed = [c \in Channels |-> IF From(c) = Author THEN {"row"} ELSE {}]
    /\ acts = 0
    /\ failures = 0
    /\ shadowed = {}
    /\ crossed = {}

Stored(n)  == row[n].seq > 0
Deleted(n) == tomb[n].seq > 0

Larger(a, b) == IF a > b THEN a ELSE b

\* Something landed at n: it takes a position there, above every mark.
Landed(n, item) ==
    owed' = [c \in Channels |->
                IF From(c) = n THEN owed[c] \cup {item} ELSE owed[c]]

-----------------------------------------------------------------------------
(***************************************************************************)
(* Versions (util/version-stamp.ts) and what is done at home.              *)
(***************************************************************************)

\* The counter raised by one, and above the version held; the stamp is above
\* the tombstone held as well.
NextCounter(n) == Larger(counter[n], row[n].seq) + 1
NextVersion(n) == Larger(NextCounter(n), tomb[n].seq + 1)
Counted(n) == counter' = [counter EXCEPT ![n] = NextCounter(n)]

StampEdit(n, b) ==
    /\ edit' = [edit EXCEPT ![n] = [read |-> row[n].seq,
                                    stamp |-> NextVersion(n), body |-> b]]
    /\ Counted(n)

EditRecord(n, b) ==
    /\ acts < MaxActs
    /\ edit[n] = NoEdit
    /\ Stored(n) /\ b # row[n].body
    /\ StampEdit(n, b)
    /\ acts' = acts + 1
    /\ UNCHANGED <<row, tomb, forks, turn, owed, failures, history>>

\* The write's filter names the version the stamp read.
AtReadVersion(n) == Stored(n) /\ row[n].seq = edit[n].read

LandEdit(n) ==
    /\ edit[n] # NoEdit /\ AtReadVersion(n)
    /\ row' = [row EXCEPT ![n] = [seq |-> edit[n].stamp,
                                  body |-> edit[n].body, here |-> TRUE]]
    /\ edit' = [edit EXCEPT ![n] = NoEdit]
    /\ Landed(n, "row")
    /\ UNCHANGED <<tomb, forks, counter, turn, acts, failures, history>>

\* The filter missed: the edit is stamped again while it has attempts left
\* and the record is there, and refused otherwise.
RetryEdit(n) ==
    /\ edit[n] # NoEdit /\ ~AtReadVersion(n)
    /\ \/ Stored(n) /\ StampEdit(n, edit[n].body)
       \/ edit' = [edit EXCEPT ![n] = NoEdit] /\ UNCHANGED counter
    /\ UNCHANGED <<row, tomb, forks, turn, owed, acts, failures, history>>

\* The forks of a record go with it, those of a tie not yet swapped as well.
ForksGo(n) ==
    /\ forks' = [forks EXCEPT ![n] = {}]
    /\ crossed' = crossed \cup
                     {c \in Channels : To(c) = n /\ turn[c].at = "swap"}

\* One transaction: the row and its forks go, the tombstone is written.
DeleteRecord(n) ==
    /\ acts < MaxActs
    /\ Stored(n)
    /\ row' = [row EXCEPT ![n] = NoRow]
    /\ ForksGo(n)
    /\ tomb' = [tomb EXCEPT ![n] = [seq |-> NextVersion(n), issuer |-> n,
                                    here |-> TRUE]]
    /\ Counted(n)
    /\ Landed(n, "tomb")
    /\ acts' = acts + 1
    /\ UNCHANGED <<edit, turn, failures, shadowed>>

-----------------------------------------------------------------------------
(***************************************************************************)
(* A turn, and the deletions it carries.                                   *)
(***************************************************************************)
Moves(c, stage) == turn' = [turn EXCEPT ![c].at = stage]

\* A push offers what this member wrote or issued; a pull serves everything.
Offered(c, doc) == c[3] = Pull \/ doc.here

\* Of the member that runs the turn: it pulls from a peer, then pushes to it.
Runs(c) == IF c[3] = Pull THEN To(c) ELSE From(c)
InExchange(c) == {d \in Channels : /\ {From(d), To(d)} = {From(c), To(c)}
                                  /\ Runs(d) = Runs(c)}

StartTurn(c) ==
    /\ \A d \in InExchange(c) : turn[d].at = "idle"
    /\ owed[c] # {}
    /\ turn' = [turn EXCEPT ![c] = [Idle EXCEPT !.at = "tombs",
                                                !.todo = owed[c]]]
    /\ owed' = [owed EXCEPT ![c] = {}]
    /\ UNCHANGED <<local, acts, failures, history>>

ReadTomb(c) ==
    LET t == tomb[From(c)]
    IN  /\ turn[c].at = "tombs"
        /\ IF "tomb" \in turn[c].todo /\ t.seq > 0 /\ Offered(c, t)
           THEN turn' = [turn EXCEPT ![c].at = "judge", ![c].doc = t]
           ELSE Moves(c, "rows")
        /\ UNCHANGED <<local, owed, acts, failures, history>>

\* authorises, on a mesh: nothing is held, or the issuer wrote the record and
\* delivers its deletion itself.
IsIssuers(c, t) == t.issuer = Author /\ From(c) = t.issuer
\* A tombstone held above the one that came stands for it; at the same
\* version the delete may still be owed.  The variant takes it as done.
HeldAtOrAbove(n, t) == tomb[n].seq >= t.seq
HeldAbove(n, t) == tomb[n].seq > t.seq

JudgeTomb(c) ==
    LET t == turn[c].doc
        n == To(c)
        stage == IF Stored(n) /\ ~IsIssuers(c, t) THEN "rows"
                 ELSE IF Stored(n) /\ HeldAbove(n, t) THEN "cascade"
                 ELSE IF tomb[n].seq < t.seq THEN "store"
                 ELSE IF Stored(n) THEN "bury"
                 ELSE "cascade"
    IN  /\ turn[c].at = "judge"
        /\ turn' = [turn EXCEPT ![c].at = stage, ![c].held = row[n]]
        /\ UNCHANGED <<local, owed, acts, failures, history>>

\* The guarded upsert; it names the issuer anew only when that is proven.
StoreTomb(c) ==
    LET t == turn[c].doc
        n == To(c)
        proven == turn[c].held.seq > 0
    IN  /\ turn[c].at = "store"
        /\ IF tomb[n].seq < t.seq
           THEN /\ tomb' = [tomb EXCEPT ![n] =
                       IF proven \/ ~Deleted(n)
                       THEN [seq |-> t.seq, issuer |-> t.issuer,
                             here |-> FALSE]
                       ELSE [@ EXCEPT !.seq = t.seq]]
                /\ Landed(n, "tomb")
           ELSE UNCHANGED <<tomb, owed>>
        /\ Moves(c, IF proven THEN "bury" ELSE "cascade")
        /\ UNCHANGED <<row, forks, counter, edit, acts, failures, history>>

\* The delete is bound by the author and by no version.
BuryRow(c) ==
    /\ turn[c].at = "bury"
    /\ row' = [row EXCEPT ![To(c)] = NoRow]
    /\ Moves(c, "cascade")
    /\ UNCHANGED <<tomb, forks, counter, edit, owed, acts, failures, history>>

\* Forks of a record that is gone go with it.
Cascade(c) ==
    /\ turn[c].at = "cascade"
    /\ IF Stored(To(c)) THEN UNCHANGED <<forks, crossed>> ELSE ForksGo(To(c))
    /\ Moves(c, "rows")
    /\ UNCHANGED <<row, tomb, counter, edit, owed, acts, failures, shadowed>>

-----------------------------------------------------------------------------
(***************************************************************************)
(* The row a turn carries: planned against what is read, written under a   *)
(* guard.                                                                  *)
(***************************************************************************)
ReadRow(c) ==
    LET r == row[From(c)]
    IN  /\ turn[c].at = "rows"
        /\ turn' = [turn EXCEPT
                ![c].at = IF "row" \in turn[c].todo /\ r.seq > 0
                             /\ Offered(c, r)
                          THEN "plan" ELSE "forks",
                ![c].doc = IF r.seq > 0 THEN r ELSE NoRow,
                ![c].held = NoRow]
        /\ UNCHANGED <<local, owed, acts, failures, history>>

\* tombSeqFor: the tombstone held governs the row, unless the row's author
\* delivers it and somebody else issued the tombstone.
Governs(c) ==
    /\ Deleted(To(c))
    /\ tomb[To(c)].issuer = Author \/ From(c) # Author

Newer(doc, held) == doc.seq > held.seq
\* Another body at the same version.  The variant compares the bodies alone.
Unlike(doc, held) == held.seq > 0 /\ doc.body # held.body
Diverges(doc, held) == doc.seq = held.seq /\ doc.body # held.body

\* The lower body is the parent, at every member.  The variant lets the one
\* that comes stand aside.
StoredWinsTie(doc, held) == FALSE
ArrivingWinsTie(doc, held) == doc.body < held.body

\* The stored copy is kept as a fork before it is displaced.  The variant
\* displaces it first.
SwapFirst == "swap"
ForkFirst == "displace"

TieStage(doc, held) ==
    IF ArrivingWinsTie(doc, held) THEN ForkFirst ELSE "keep"

\* A tombstone a copy superseded is cleaned away once that copy is written,
\* and at once when it is stored already; a copy that comes and loses its tie
\* cleans nothing.
PlanRow(c) ==
    LET doc == turn[c].doc
        n == To(c)
        stale == IF Governs(c) THEN tomb[n].seq ELSE 0
        stage == IF stale >= doc.seq THEN "forks"
                 ELSE IF Diverges(doc, row[n]) THEN TieStage(doc, row[n])
                 ELSE IF Newer(doc, row[n]) THEN "write"
                 ELSE "clean"
    IN  /\ turn[c].at = "plan"
        /\ turn' = [turn EXCEPT
               ![c].at = IF stage = ForkFirst THEN "clean" ELSE stage,
               ![c].then = IF stage = ForkFirst THEN stage ELSE "forks",
               ![c].held = row[n],
               ![c].below = IF stale = 0 THEN 0
                            ELSE IF Newer(doc, row[n]) THEN doc.seq
                            ELSE row[n].seq]
        /\ UNCHANGED <<local, owed, acts, failures, history>>

\* The row lands as it came.
Lands(c) ==
    LET doc == turn[c].doc
        n == To(c)
    IN  /\ row' = [row EXCEPT ![n] = [doc EXCEPT !.here = FALSE]]
        /\ Landed(n, "row")
        /\ shadowed' = IF Governs(c) /\ tomb[n].seq >= doc.seq
                       THEN shadowed \cup {n} ELSE shadowed

\* seqGuard: the stored copy is below it, or there is none.  The variant
\* writes by the id.
ByIdAlone(n, doc) == TRUE
SeqGuard(n, doc) == row[n].seq < doc.seq

\* The guard refuses: what is stored is read back.  Another body at the same
\* version is planned again, and anything else stands.
WriteRow(c) ==
    LET doc == turn[c].doc
        n == To(c)
    IN  /\ turn[c].at = "write"
        /\ IF SeqGuard(n, doc)
           THEN Lands(c) /\ Moves(c, "clean")
           ELSE /\ turn' = [turn EXCEPT
                      ![c].at = IF Diverges(doc, row[n])
                                THEN TieStage(doc, row[n])
                                ELSE IF row[n].seq = doc.seq THEN "clean"
                                ELSE "forks",
                      ![c].held = row[n]]
                /\ UNCHANGED <<row, owed, shadowed>>
        /\ UNCHANGED <<tomb, forks, counter, edit, acts, failures, crossed>>

\* A tombstone the row superseded goes, unless a higher one was written.
CleanTomb(c) ==
    LET n == To(c)
    IN  /\ turn[c].at = "clean"
        /\ tomb' = IF tomb[n].seq < turn[c].below
                   THEN [tomb EXCEPT ![n] = NoTomb] ELSE tomb
        /\ Moves(c, turn[c].then)
        /\ UNCHANGED <<row, forks, counter, edit, owed, acts, failures,
                       history>>

\* A fork is a write of this member's: it moves the counter.
AddsFork(n, copy) ==
    /\ forks' = [forks EXCEPT ![n] = @ \cup {<<copy.seq, copy.body>>}]
    /\ IF <<copy.seq, copy.body>> \in forks[n]
       THEN UNCHANGED <<counter, owed>>
       ELSE Counted(n) /\ Landed(n, "forks")

\* The copy that comes loses the tie: it is kept as a fork.
KeepArriving(c) ==
    /\ turn[c].at = "keep"
    /\ AddsFork(To(c), turn[c].doc)
    /\ Moves(c, "forks")
    /\ UNCHANGED <<row, tomb, edit, acts, failures, history>>

KeepDisplaced(c) ==
    /\ turn[c].at = "displace"
    /\ AddsFork(To(c), turn[c].held)
    /\ Moves(c, "swap")
    /\ UNCHANGED <<row, tomb, edit, acts, failures, history>>

\* equalSeqSwapGuard names the copy the plan saw.  A row that is gone is
\* written by the upsert; anything else but a newer copy, or the very copy
\* that came, makes the copy that came a fork.
SwapRow(c) ==
    LET doc == turn[c].doc
        n == To(c)
        asSeen == row[n].seq = turn[c].held.seq
                  /\ row[n].body = turn[c].held.body
        isIt == row[n].seq = doc.seq /\ row[n].body = doc.body
    IN  /\ turn[c].at = "swap"
        /\ IF asSeen \/ ~Stored(n)
           THEN Lands(c) /\ Moves(c, "forks")
           ELSE /\ Moves(c, IF row[n].seq > doc.seq \/ isIt
                            THEN "forks" ELSE "keep")
                /\ UNCHANGED <<row, owed, shadowed>>
        /\ crossed' = crossed \ {c}
        /\ UNCHANGED <<tomb, forks, counter, edit, acts, failures>>

-----------------------------------------------------------------------------
(***************************************************************************)
(* Forks are rows of their own, under ids that prove what they say; a fork *)
(* of a record that is deleted and not held is refused.                    *)
(***************************************************************************)
TakeForks(c) ==
    LET n == To(c)
        come == IF "forks" \in turn[c].todo /\ (Stored(n) \/ ~Deleted(n))
                THEN forks[From(c)] \ forks[n] ELSE {}
    IN  /\ turn[c].at = "forks"
        /\ forks' = [forks EXCEPT ![n] = @ \cup come]
        /\ IF come = {} THEN UNCHANGED owed ELSE Landed(n, "forks")
        /\ turn' = [turn EXCEPT ![c] = Idle]
        /\ UNCHANGED <<row, tomb, counter, edit, acts, failures, history>>

\* A turn that stops leaves its mark where it was.
TurnFails(c) ==
    /\ turn[c].at # "idle"
    /\ failures < MaxFailures
    /\ failures' = failures + 1
    /\ turn' = [turn EXCEPT ![c] = Idle]
    /\ owed' = [owed EXCEPT ![c] = @ \cup turn[c].todo]
    /\ crossed' = crossed \ {c}
    /\ UNCHANGED <<local, acts, shadowed>>

TurnStep(c) ==
    \/ ReadTomb(c) \/ JudgeTomb(c) \/ StoreTomb(c) \/ BuryRow(c)
    \/ Cascade(c) \/ ReadRow(c) \/ PlanRow(c) \/ WriteRow(c)
    \/ KeepArriving(c) \/ KeepDisplaced(c) \/ SwapRow(c) \/ CleanTomb(c)
    \/ TakeForks(c)

Next ==
    \/ \E n \in Nodes :
        \/ \E b \in Bodies : EditRecord(n, b)
        \/ LandEdit(n) \/ RetryEdit(n) \/ DeleteRecord(n)
    \/ \E c \in Channels : StartTurn(c) \/ TurnStep(c) \/ TurnFails(c)

Spec == Init /\ [][Next]_vars

\* Every cycle exchanges with every member again, and a store call ends.
Fairness ==
    /\ \A c \in Channels : WF_vars(StartTurn(c)) /\ WF_vars(TurnStep(c))
    /\ \A n \in Nodes : WF_vars(LandEdit(n) \/ RetryEdit(n))

FairSpec == Spec /\ Fairness

-----------------------------------------------------------------------------
\* Types; a copy a turn displaces is stored, at the version that comes.
VersionsTypeOK ==
    /\ \A n \in Nodes :
        /\ row[n].seq \in Nat /\ row[n].here \in BOOLEAN
        /\ Stored(n) => row[n].body \in Bodies
        /\ tomb[n].seq \in Nat /\ tomb[n].issuer \in Nodes
        /\ forks[n] \subseteq Nat \X Bodies
        /\ counter[n] \in Nat
    /\ \A c \in Channels :
        /\ owed[c] \cup turn[c].todo \subseteq Items
        /\ turn[c].at \in {"displace", "swap"} =>
              turn[c].held.seq = turn[c].doc.seq /\ turn[c].doc.seq > 0

\* A member's copy never goes back to a lower version, and at one version it
\* only goes down the order of bodies: no late write of an exchange or of an
\* edit covers what it has not seen.
CopiesOnlyRise ==
    [][\A n \in Nodes : Stored(n) /\ Stored(n)' =>
          \/ row'[n].seq > row[n].seq
          \/ row'[n].seq = row[n].seq /\ row'[n].body <= row[n].body]_vars

\* A copy that is displaced by another body at its own version is held as a
\* fork by then, whatever fails in between, unless a removal took the forks
\* of the record between the fork's write and the swap.
DisplacedTextIsKept ==
    [][\A n \in Nodes :
          Stored(n) /\ Stored(n)' /\ row'[n].seq = row[n].seq
          /\ row'[n].body # row[n].body
            => \/ <<row[n].seq, row[n].body>> \in forks[n]
               \/ \E c \in crossed : To(c) = n /\ turn'[c].at # "swap"]_vars

\* Once edits and failures cease, the members that hold the record hold the
\* same version and the same body.  A copy under a tombstone does not count:
\* one that an exchange already carried lands again where a member removed
\* the record for itself, and a later version need not follow it.
Holds(n) == Stored(n) /\ tomb[n].seq < row[n].seq
Agreed == \A m, n \in Nodes :
    Holds(m) /\ Holds(n) =>
        row[m].seq = row[n].seq /\ row[m].body = row[n].body
HoldersAgree == <>[]Agreed

\* A member that holds the author's tombstone at or above its copy ends
\* without one of them, but where the copy landed under it.
RemovalTakesEffect ==
    <>[](\A n \in Nodes \ shadowed :
            Stored(n) /\ tomb[n].issuer = Author => tomb[n].seq < row[n].seq)

\* An arriving copy at or below the tombstone that governs it does not land.
NothingLandsUnderATombstone == shadowed = {}
=============================================================================
