-------------------------- MODULE ConfigFileProofs --------------------------
(***************************************************************************)
(* Theorems about ConfigFile, for any number of allocations, of saves and  *)
(* of faults: its type, that a durable save stays on the disk, and that no *)
(* version repeats an earlier one while a loss of the counter can be told. *)
(***************************************************************************)
EXTENDS ConfigFile, TLAPS

-----------------------------------------------------------------------------
(***************************************************************************)
(* The inductive invariant, in parts.                                      *)
(***************************************************************************)
Marks == {NoMark} \cup 0..MarkLimit
Contents == [setting : 0..MaxSettings, edit : 0..MaxEdits]
Files == [setting : 0..MaxSettings, edit : 0..MaxEdits, mark : Marks]
Flushing == [at : {"idle", "writing"}, gen : Nat, snap : Files]
Allocs == [at : {"idle", "raise", "raised", "update", "updated", "raiseAgain",
                 "updateAgain", "stamp"},
           to : Marks, seen : Int, before : Nat, above : Nat]

\* The types, each variable's whole shape among them.
Typed ==
    /\ config \in Contents /\ file \in Files /\ mark \in Marks
    /\ written \in Nat /\ flushed \in 0..written
    /\ flush \in Flushing /\ flush.gen <= written
    /\ counter \in Nat /\ used \in Nat /\ seen \in Int
    /\ alloc \in [Writers -> Allocs]

\* What is in memory is what the last durable save wrote; and so is a snapshot
\* that no durable save has overtaken.
SavedInv ==
    /\ config.setting = file.setting
    /\ flush.at = "writing" /\ ~Stale => flush.snap.setting = file.setting

-----------------------------------------------------------------------------
(***************************************************************************)
(* What the operators return.                                              *)
(***************************************************************************)
LEMMA MarkTypes ==
  /\ NoMark \in Marks /\ NoMark = -1
  /\ \A m, n \in Marks : Larger(m, n) \in Marks
  /\ \A c \in Nat : Following(c) \in Marks
  /\ \A c \in Nat, m \in Marks : Larger(c, m) \in Nat
  /\ \A c, d \in Int : Larger(c, d) \in {c, d}
  BY StepAssumption DEF Marks, NoMark, Larger, Smaller, Following

LEMMA StartTypes ==
  /\ NoFlush \in Flushing /\ NoFlush.at = "idle" /\ NoFlush.gen = 0
  /\ NoAlloc \in Allocs
  BY MarkTypes, BoundsAssumption
     DEF NoFlush, Flushing, Files, NoAlloc, Allocs, NotSeen

\* askForSave: the mark rises or stays, and a save is asked for if it rises.
LEMMA RaiseTypes ==
  ASSUME NEW m \in Marks, mark \in Marks, written \in Nat, RaiseMark(m)
  PROVE  mark' \in Marks /\ written' \in Nat /\ written <= written'
  BY DEF RaiseMark, SaveConfigSoon

-----------------------------------------------------------------------------
(***************************************************************************)
(* The steps of the two saves and of the watcher.                          *)
(***************************************************************************)
Inv == Typed /\ SavedInv

\* A durable save overtakes the flush under way (saveConfig, mutateConfig).
LEMMA DurableStep ==
  ASSUME Inv, SaveConfig \/ MutateConfig
  PROVE  Inv' /\ file'.setting = file.setting + 1
<1> USE DEF Inv, Typed
<1>1. /\ config'.setting = file.setting + 1 /\ file'.setting = config'.setting
      /\ config' \in Contents /\ file' \in Files /\ mark' \in Marks
  <2>1. CASE SaveConfig
    BY <2>1, BoundsAssumption
       DEF SaveConfig, Saved, Renamed, SavedInv, Contents, Files
  <2>2. CASE MutateConfig
    <3>1. mark' \in Marks
      BY <2>2, MarkTypes DEF MutateConfig, MarkOverFile, Files
    <3>2. config' = [setting |-> file.setting + 1, edit |-> file.edit]
      BY <2>2 DEF MutateConfig
    <3>3. file' = [setting |-> config'.setting, edit |-> config'.edit, mark |-> mark']
      BY <2>2 DEF MutateConfig, Renamed
    <3>4. config.setting < MaxSettings /\ config.setting = file.setting
      BY <2>2 DEF MutateConfig, SavedInv
    <3> QED
      BY <3>1, <3>2, <3>3, <3>4, BoundsAssumption DEF Contents, Files
  <2> QED
    BY <2>1, <2>2
<1>2. /\ written' = written + 1 /\ flushed' = written + 1
      /\ UNCHANGED <<flush, counter, used, seen, alloc>>
  BY DEF SaveConfig, MutateConfig, Saved, Renamed, versions
<1>3. Typed'
  BY <1>1, <1>2 DEF Flushing
<1>4. flush.at = "writing" => Stale'
  BY <1>2 DEF Stale, Flushing
<1> QED
  BY <1>1, <1>2, <1>3, <1>4 DEF SavedInv

\* A coalesced save writes what memory holds, or nothing (writeConfigAsync).
LEMMA FlushStep ==
  ASSUME Inv, Flushes \/ FlushFails
  PROVE  Inv' /\ file'.setting = file.setting
<1> USE DEF Inv, Typed
<1>1. CASE RunScheduled
  BY <1>1 DEF RunScheduled, versions, SavedInv, Stale
<1>2. CASE StartFlush
  <2> DEFINE next == [at |-> "writing", gen |-> written,
                      snap |-> [setting |-> config.setting,
                                edit |-> config.edit, mark |-> mark]]
  <2>1. next \in Flushing /\ next.gen = written /\ next.snap.setting = config.setting
    BY DEF Flushing, Files, Contents
  <2>2. flush' \in {NoFlush, next}
    BY <1>2 DEF StartFlush
  <2>3. UNCHANGED <<config, mark, file, written, flushed,
                    counter, used, seen, alloc>>
    BY <1>2 DEF StartFlush, versions
  <2> HIDE DEF next
  <2> QED
    BY <2>1, <2>2, <2>3, StartTypes DEF SavedInv
<1>3. CASE EndFlush
  <2>1. /\ flush.at = "writing" /\ flush' = NoFlush
        /\ UNCHANGED <<config, mark, written, counter, used, seen, alloc>>
    BY <1>3 DEF EndFlush, versions
  <2>2. CASE Stale
    <3>1. UNCHANGED <<file, flushed>>
      BY <1>3, <2>2 DEF EndFlush
    <3> QED
      BY <2>1, <3>1, StartTypes DEF SavedInv
  <2>3. CASE ~Stale
    <3>1. /\ file' = [setting |-> flush.snap.setting, edit |-> flush.snap.edit,
                      mark |-> flush.snap.mark]
          /\ flushed' = flush.gen
      BY <1>3, <2>3 DEF EndFlush, Renamed, SnapshotGen
    <3>2. file' \in Files /\ file'.setting = file.setting
      BY <2>1, <2>3, <3>1 DEF SavedInv, Flushing, Files
    <3>3. flushed' \in 0..written
      BY <3>1 DEF Flushing
    <3> QED
      BY <2>1, <3>1, <3>2, <3>3, StartTypes DEF SavedInv
  <2> QED
    BY <2>2, <2>3
<1>4. CASE FlushFails
  BY <1>4, StartTypes DEF FlushFails, versions, SavedInv
<1> QED
  BY <1>1, <1>2, <1>3, <1>4 DEF Flushes

\* A reload takes the durable changes as they are on the disk (reloadConfig).
LEMMA WatchStep ==
  ASSUME Inv, OperatorEdits \/ Watches
  PROVE  Inv' /\ file'.setting = file.setting
<1> USE DEF Inv, Typed
<1>1. CASE OperatorEdits
  BY <1>1, BoundsAssumption DEF OperatorEdits, versions, SavedInv, Stale, Files
<1>2. CASE Poll
  BY <1>2 DEF Poll, versions, SavedInv, Stale
<1>3. CASE ReloadConfig
  <2>1. /\ config' = [setting |-> file.setting, edit |-> file.edit]
        /\ mark' = MarkOverFile
        /\ UNCHANGED <<file, written, flushed, flush, counter, used, seen, alloc>>
    BY <1>3 DEF ReloadConfig, versions
  <2>2. mark' \in Marks /\ config' \in Contents
    BY <2>1, MarkTypes DEF MarkOverFile, Files, Contents
  <2> QED
    BY <2>1, <2>2 DEF SavedInv, Stale
<1>4. CASE EndReload
  BY <1>4 DEF EndReload, versions, SavedInv, Stale
<1> QED
  BY <1>1, <1>2, <1>3, <1>4 DEF Watches

-----------------------------------------------------------------------------
(***************************************************************************)
(* The steps of an allocation, and the faults.                             *)
(***************************************************************************)

\* An allocation touches no file and overtakes no flush (allocateBounded).
LEMMA AllocateStep ==
  ASSUME Inv, NEW w \in Writers, Allocate(w)
  PROVE  Inv' /\ file'.setting = file.setting
<1> USE DEF Inv, Typed
<1>1. alloc[w] \in Allocs
  OBVIOUS
<1>2. CASE Ask(w)
  <2>1. [NoAlloc EXCEPT !.at = IF started \/ mark = NoMark THEN "update" ELSE "raise",
                        !.to = mark, !.seen = seen, !.above = used] \in Allocs
    BY StartTypes DEF Allocs
  <2> QED
    BY <1>2, <2>1 DEF Ask, loader, SavedInv, Stale
<1>3. CASE RaiseFirst(w) \/ RaiseAgain(w)
  <2>1. counter' \in Nat
    BY <1>1, <1>3, MarkTypes DEF RaiseFirst, RaiseAgain, Allocs
  <2>2. alloc' \in [Writers -> Allocs]
    BY <1>1, <1>3 DEF RaiseFirst, RaiseAgain, Allocs
  <2> QED
    BY <1>3, <2>1, <2>2 DEF RaiseFirst, RaiseAgain, loader, SavedInv, Stale
<1>4. CASE RaisedFirst(w)
  BY <1>1, <1>4 DEF RaisedFirst, Sends, Allocs, loader, SavedInv, Stale
<1>5. CASE Update(w)
  BY <1>1, <1>5 DEF Update, Allocs, loader, SavedInv, Stale
<1>6. CASE FindBack(w)
  BY <1>1, <1>6 DEF FindBack, Allocs, loader, SavedInv, Stale
<1>7. CASE Stamp(w)
  <2> DEFINE version == alloc[w].before + 1
  <2>1. version \in Nat
    BY <1>1 DEF Allocs
  <2>2. mark' \in Marks /\ written' \in Nat /\ written <= written'
    <3>1. Following(version) \in Marks
      BY <2>1, MarkTypes
    <3> QED
      BY <1>7, <3>1, RaiseTypes DEF Stamp
  <2>3. /\ seen' = Larger(seen, version) /\ used' = Larger(used, version)
        /\ alloc' = [alloc EXCEPT ![w] = NoAlloc]
        /\ UNCHANGED <<config, file, flushed, flush, counter>>
    BY <1>7 DEF Stamp
  <2>4. seen' \in Int /\ used' \in Nat /\ alloc' \in [Writers -> Allocs]
    BY <2>1, <2>3, MarkTypes, StartTypes
  <2>5. Typed'
    BY <2>2, <2>3, <2>4 DEF Flushing
  <2> QED
    BY <2>3, <2>5 DEF SavedInv, Stale
<1> QED
  BY <1>2, <1>3, <1>4, <1>5, <1>6, <1>7 DEF Allocate

\* A restart takes the file as it is; a lost database is no file (loadConfig).
LEMMA FaultStep ==
  ASSUME Inv, LoseDatabase \/ Restart
  PROVE  Inv' /\ file'.setting = file.setting
<1> USE DEF Inv, Typed
<1>1. CASE LoseDatabase
  BY <1>1 DEF LoseDatabase, loader, SavedInv, Stale, NotSeen
<1>2. CASE Restart
  <2> DEFINE seed == IF counter > 0 THEN Following(counter) ELSE NoMark
  <2>1. seed \in Marks
    BY MarkTypes
  <2>2. /\ mark' = Larger(file.mark, seed) /\ written' \in {0, 1} /\ flushed' = 0
        /\ config' = [setting |-> file.setting, edit |-> file.edit]
        /\ flush' = NoFlush /\ seen' = NotSeen
        /\ alloc' = [x \in Writers |-> NoAlloc]
        /\ UNCHANGED <<file, counter, used>>
    BY <1>2 DEF Restart
  <2>3. mark' \in Marks /\ config' \in Contents
    BY <2>1, <2>2, MarkTypes DEF Files, Contents
  <2> HIDE DEF seed
  <2> QED
    BY <2>2, <2>3, StartTypes DEF SavedInv, NotSeen
<1> QED
  BY <1>1, <1>2

-----------------------------------------------------------------------------
(***************************************************************************)
(* The theorems.                                                           *)
(***************************************************************************)
LEMMA InitHolds == Init => Inv
  BY MarkTypes, StartTypes, BoundsAssumption
     DEF Init, Inv, Typed, SavedInv, Contents, Files, NotSeen

LEMMA InvStep ==
  ASSUME Inv, [Next]_vars
  PROVE  Inv' /\ file'.setting >= file.setting
<1>1. file.setting \in Nat
  BY DEF Inv, Typed, Files
<1>2. CASE UNCHANGED vars
  BY <1>1, <1>2 DEF vars, loader, versions, Inv, Typed, SavedInv, Stale
<1>3. CASE Next
  BY <1>1, <1>3, DurableStep, FlushStep, WatchStep, AllocateStep, FaultStep DEF Next
<1> QED
  BY <1>2, <1>3

\* The parts are kept by every step together (every save and reload).
THEOREM ConfigInductive == Spec => []Inv
<1>1. Inv /\ [Next]_vars => Inv'
  BY InvStep
<1> QED
  BY InitHolds, <1>1, PTL DEF Spec

\* Configuration, file, mark, generations and counter keep their types, and no
\* generation on the disk was never written (saveConfigSoon, writeConfigAsync).
THEOREM ConfigTypeCorrect == Spec => []ConfigTypeOK
<1>1. Inv => ConfigTypeOK
  BY DEF Inv, Typed, ConfigTypeOK, Contents, Files, Flushing, Marks
<1> QED
  BY ConfigInductive, <1>1, PTL

\* With any number of saves, reloads, failed flushes and restarts, what a durable
\* save wrote stays on the disk (saveConfig, mutateConfig, writeConfigAsync).
THEOREM SavesStay == Spec => DurableSavesStay
<1>1. Inv /\ [Next]_vars => [file'.setting >= file.setting]_vars
  BY InvStep
<1> QED
  BY ConfigInductive, <1>1, PTL DEF Spec, DurableSavesStay

-----------------------------------------------------------------------------
(***************************************************************************)
(* No version repeats an earlier one. The counter may be lost at any time; *)
(* what tells its loss is what this process saw of it, and what puts it    *)
(* right is the mark.  While a loss can be told, every allocation rests on *)
(* something that is not below what was handed out when it began.          *)
(***************************************************************************)

\* No loss but one that can be told, and no version past the mark's own limit.
Guarded == ~exposed /\ used <= MarkLimit

\* The mark has reached every version handed out; what this process saw last is
\* the highest of them; and a counter that was raised and not looked at since is
\* not below them.
MarkCovers == used = 0 \/ used <= mark
SeenIsTop == seen = NotSeen \/ seen = used
RaisedCovers == started /\ seen = NotSeen => used <= counter

\* Where a stands, what it rests on is not below what was handed out when it
\* began: the mark it raises the counter to, the counter that was raised and
\* cannot be lost unseen, the counter it saw, or the value it was answered.  top
\* is the highest version handed out, last what this process saw of the counter.
RestsOn(a, top, last, count) ==
    /\ a.above <= top
    /\ last = NotSeen => a.above = top
    /\ a.seen # NotSeen => a.above <= a.seen
    /\ a.at \in {"raise", "raiseAgain"} => a.above <= a.to
    /\ a.at \in {"raised", "updateAgain"} => a.above <= count
    /\ a.at = "update" /\ a.seen = NotSeen => a.above <= count
    /\ a.at = "updated" /\ a.seen = NotSeen => a.above <= a.before
    /\ a.at = "stamp" => a.above <= a.before

VersionInv ==
    Guarded =>
        /\ ~reused /\ MarkCovers /\ SeenIsTop /\ RaisedCovers
        /\ \A w \in Writers : alloc[w].at # "idle" => RestsOn(alloc[w], used, seen, counter)

\* The numbers the invariant compares.
LEMMA VersionTypes ==
  ASSUME Inv
  PROVE  /\ used \in Nat /\ counter \in Nat /\ seen \in Int /\ mark \in Int
         /\ mark = NoMark \/ mark \in Nat
         /\ NoMark = -1 /\ NotSeen = -1 /\ MarkLimit \in Nat
         /\ \A w \in Writers : /\ alloc[w].before \in Nat /\ alloc[w].above \in Nat
                               /\ alloc[w].seen \in Int /\ alloc[w].to \in Int
<1>1. mark \in Marks /\ \A w \in Writers : alloc[w] \in Allocs
  BY DEF Inv, Typed
<1>2. \A m \in Marks : m \in Int /\ (m = NoMark \/ m \in Nat)
  BY StepAssumption DEF Marks, NoMark
<1>3. \A w \in Writers : /\ alloc[w].before \in Nat /\ alloc[w].above \in Nat
                         /\ alloc[w].seen \in Int /\ alloc[w].to \in Int
  BY <1>1, <1>2 DEF Allocs
<1> QED
  BY <1>1, <1>2, <1>3, StepAssumption DEF Inv, Typed, NoMark, NotSeen

\* A process without a mark has handed out nothing.
LEMMA NoMarkNoVersion ==
  ASSUME Inv, Guarded, VersionInv, mark = NoMark
  PROVE  used = 0
BY VersionTypes DEF VersionInv, MarkCovers

\* Idle allocations rest on nothing.
LEMMA NoAllocIsIdle == NoAlloc.at = "idle"
  BY DEF NoAlloc

\* A step that leaves the counter and the allocations alone, and lowers no mark:
\* every save, flush, edit and reload (mergeVersionMarks only raises).
LEMMA MarkStepKeepsVersions ==
  ASSUME Inv, Inv', VersionInv, mark <= mark',
         UNCHANGED <<counter, seen, started, alloc, used, reused, exposed>>
  PROVE  VersionInv'
<1>1. mark \in Int /\ mark' \in Int /\ used \in Nat
  <2>1. mark \in Marks /\ mark' \in Marks
    BY DEF Inv, Typed
  <2> QED
    BY <2>1, VersionTypes, StepAssumption DEF Marks, NoMark
<1>2. MarkCovers => MarkCovers'
  BY <1>1 DEF MarkCovers
<1> QED
  BY <1>2 DEF VersionInv, Guarded, SeenIsTop, RaisedCovers, RestsOn

LEMMA SavesKeepVersions ==
  ASSUME Inv, Inv', VersionInv,
         \/ SaveConfig \/ MutateConfig \/ OperatorEdits \/ Flushes \/ FlushFails
         \/ Watches \/ UNCHANGED vars
  PROVE  VersionInv'
<1>1. UNCHANGED <<counter, seen, started, alloc, used, reused, exposed>>
  BY DEF SaveConfig, MutateConfig, OperatorEdits, Flushes, RunScheduled, StartFlush,
     EndFlush, FlushFails, Watches, Poll, ReloadConfig, EndReload, vars, versions
<1>2. mark' \in {mark, MarkOverFile}
  BY DEF SaveConfig, MutateConfig, OperatorEdits, Flushes, RunScheduled, StartFlush,
     EndFlush, FlushFails, Watches, Poll, ReloadConfig, EndReload, vars
<1>3. mark <= mark'
  <2>1. mark \in Int /\ file.mark \in Int
    BY VersionTypes, StepAssumption DEF Inv, Typed, Files, Marks, NoMark
  <2> QED
    BY <1>2, <2>1 DEF MarkOverFile, Larger
<1> QED
  BY <1>1, <1>3, MarkStepKeepsVersions

\* What an allocation rests on stays while the counter does not fall and no
\* version is handed out.
LEMMA StillRestsOn ==
  ASSUME NEW a \in Allocs, NEW top, NEW last, NEW c \in Nat, NEW d \in Nat, c <= d,
         RestsOn(a, top, last, c)
  PROVE  RestsOn(a, top, last, d)
<1>1. a.above \in Nat
  BY DEF Allocs
<1> QED
  BY <1>1 DEF RestsOn

\* An allocation moves on, and what it rests on then is shown.
LEMMA MoveKeepsVersions ==
  ASSUME Inv, VersionInv, NEW w \in Writers, counter' \in Nat, counter <= counter',
         UNCHANGED <<mark, seen, used, reused, exposed>>,
         \A v \in Writers : v # w => alloc'[v] = alloc[v],
         Guarded => /\ RestsOn(alloc'[w], used, seen, counter')
                    /\ started' /\ seen = NotSeen => used <= counter'
  PROVE  VersionInv'
<1> SUFFICES ASSUME Guarded
             PROVE  /\ (~reused /\ MarkCovers /\ SeenIsTop /\ RaisedCovers)'
                    /\ \A v \in Writers :
                          alloc'[v].at # "idle" => RestsOn(alloc'[v], used, seen, counter')
  BY DEF VersionInv, Guarded
<1>1. (~reused /\ MarkCovers /\ SeenIsTop /\ RaisedCovers)'
  BY DEF VersionInv, MarkCovers, SeenIsTop, RaisedCovers
<1>2. ASSUME NEW v \in Writers, v # w, alloc'[v].at # "idle"
      PROVE  RestsOn(alloc'[v], used, seen, counter')
  <2>1. alloc[v] \in Allocs /\ alloc'[v] = alloc[v] /\ counter \in Nat
        /\ RestsOn(alloc[v], used, seen, counter)
    BY <1>2 DEF Inv, Typed, VersionInv
  <2> QED
    BY <2>1, StillRestsOn
<1> QED
  BY <1>1, <1>2

\* What an allocation at work rests on, and the numbers it is made of.
LEMMA AtWork ==
  ASSUME Inv, VersionInv, Guarded, NEW w \in Writers, alloc[w].at # "idle"
  PROVE  /\ RestsOn(alloc[w], used, seen, counter)
         /\ alloc[w] \in Allocs
         /\ MarkCovers /\ SeenIsTop /\ RaisedCovers
BY DEF VersionInv, Inv, Typed

\* An allocation begins at the counter a process has raised, or with the raise
\* (allocateBounded, raiseCounterToMark).
LEMMA AskKeepsVersions ==
  ASSUME Inv, VersionInv, NEW w \in Writers, Ask(w)
  PROVE  VersionInv'
<1> DEFINE asks == [NoAlloc EXCEPT !.at = IF started \/ mark = NoMark THEN "update" ELSE "raise",
                                   !.to = mark, !.seen = seen, !.above = used]
<1>1. /\ alloc' = [alloc EXCEPT ![w] = asks]
      /\ started' = (started \/ mark = NoMark)
      /\ UNCHANGED <<mark, counter, seen, used, reused, exposed>>
  BY DEF Ask
<1> HIDE DEF asks
<1>2. /\ asks.at = (IF started \/ mark = NoMark THEN "update" ELSE "raise")
      /\ asks.to = mark /\ asks.seen = seen /\ asks.above = used
  BY DEF NoAlloc, asks
<1>3. alloc'[w] = asks /\ \A v \in Writers : v # w => alloc'[v] = alloc[v]
  BY <1>1 DEF Inv, Typed
<1>4. ASSUME Guarded
      PROVE  /\ RestsOn(asks, used, seen, counter)
             /\ started' /\ seen = NotSeen => used <= counter
  <2>1. /\ SeenIsTop /\ RaisedCovers /\ MarkCovers
        /\ mark = NoMark => used = 0
    BY <1>4, NoMarkNoVersion DEF VersionInv
  <2>2. used <= mark \/ mark = NoMark
    BY <2>1, VersionTypes DEF MarkCovers
  <2>3. seen = NotSeen /\ (started \/ mark = NoMark) => used <= counter
    <3>1. started /\ seen = NotSeen => used <= counter
      BY <2>1 DEF RaisedCovers
    <3>2. mark = NoMark => used <= counter
      BY <2>1, VersionTypes
    <3> QED
      BY <3>1, <3>2
  <2>4. /\ asks.at = "update" => started \/ mark = NoMark
        /\ asks.at = "raise" => mark # NoMark
        /\ asks.at \in {"update", "raise"}
    BY <1>2
  <2>5. seen # NotSeen => used <= seen
    BY <2>1, VersionTypes DEF SeenIsTop
  <2>6. used <= used
    BY VersionTypes
  <2>7. RestsOn(asks, used, seen, counter)
    BY <1>2, <2>2, <2>3, <2>4, <2>5, <2>6 DEF RestsOn
  <2>8. started' => started \/ mark = NoMark
    BY <1>1
  <2> QED
    BY <2>3, <2>7, <2>8
<1>5. UNCHANGED <<mark, counter, seen, used, reused, exposed>>
  BY <1>1
<1> QED
  BY <1>3, <1>4, <1>5, VersionTypes, MoveKeepsVersions

\* The counter reaches the mark (raiseCounterToMark), before the first stamp and
\* where it was found to have gone back.
LEMMA RaiseKeepsVersions ==
  ASSUME Inv, VersionInv, NEW w \in Writers, RaiseFirst(w) \/ RaiseAgain(w)
  PROVE  VersionInv'
<1>1. /\ alloc[w].at \in {"raise", "raiseAgain"}
      /\ counter' = Larger(counter, alloc[w].to)
      /\ UNCHANGED <<mark, seen, started, used, reused, exposed>>
  BY DEF RaiseFirst, RaiseAgain
<1>2. /\ counter' \in Nat /\ counter <= counter' /\ alloc[w].to <= counter'
      /\ counter \in Nat /\ alloc[w].above \in Nat /\ alloc[w].to \in Int /\ used \in Nat
  BY <1>1, VersionTypes DEF Larger
<1>3. /\ alloc'[w] = [alloc[w] EXCEPT !.at = IF alloc[w].at = "raise" THEN "raised"
                                             ELSE "updateAgain"]
      /\ \A v \in Writers : v # w => alloc'[v] = alloc[v]
  BY DEF RaiseFirst, RaiseAgain, Inv, Typed
<1>4. ASSUME Guarded
      PROVE  /\ RestsOn(alloc'[w], used, seen, counter')
             /\ started' /\ seen = NotSeen => used <= counter'
  <2>1. RestsOn(alloc[w], used, seen, counter) /\ alloc[w] \in Allocs /\ RaisedCovers
    BY <1>1, <1>4, AtWork
  <2>2. /\ alloc'[w].at \in {"raised", "updateAgain"}
        /\ alloc'[w].above = alloc[w].above /\ alloc'[w].seen = alloc[w].seen
    BY <1>1, <1>3, <2>1 DEF Allocs
  <2>3. alloc[w].above <= counter'
    BY <1>1, <1>2, <2>1 DEF RestsOn
  <2>4. RestsOn(alloc'[w], used, seen, counter')
    BY <2>1, <2>2, <2>3 DEF RestsOn
  <2> QED
    BY <1>1, <1>2, <2>1, <2>4 DEF RaisedCovers
<1> QED
  BY <1>1, <1>2, <1>3, <1>4, MoveKeepsVersions

\* The raise was answered: this process has checked its first stamp.
LEMMA RaisedKeepsVersions ==
  ASSUME Inv, VersionInv, NEW w \in Writers, RaisedFirst(w)
  PROVE  VersionInv'
<1>1. /\ alloc[w].at = "raised"
      /\ alloc' = [alloc EXCEPT ![w].at = "update", ![w].seen = seen]
  BY DEF RaisedFirst, Sends
<1>2. \A v \in Writers : v # w => alloc'[v] = alloc[v]
  BY <1>1 DEF Inv, Typed
<1>3. ASSUME Guarded
      PROVE  /\ RestsOn(alloc'[w], used, seen, counter)
             /\ seen = NotSeen => used <= counter
  <2>1. /\ RestsOn(alloc[w], used, seen, counter) /\ alloc[w] \in Allocs /\ SeenIsTop
    BY <1>1, <1>3, AtWork
  <2>2. /\ alloc'[w].at = "update" /\ alloc'[w].seen = seen
        /\ alloc'[w].above = alloc[w].above
    BY <1>1, <2>1 DEF Inv, Typed, Allocs
  <2>3. alloc[w].above <= counter /\ alloc[w].above <= used
        /\ (seen = NotSeen => alloc[w].above = used)
    BY <1>1, <2>1 DEF RestsOn
  <2>4. seen # NotSeen => alloc[w].above <= seen
    BY <2>1, <2>3 DEF SeenIsTop
  <2> QED
    BY <2>2, <2>3, <2>4 DEF RestsOn
<1>4. UNCHANGED <<mark, counter, seen, used, reused, exposed>>
  BY DEF RaisedFirst
<1> QED
  BY <1>2, <1>3, <1>4, VersionTypes, MoveKeepsVersions

\* The one update answers what the counter was.
LEMMA UpdateKeepsVersions ==
  ASSUME Inv, VersionInv, NEW w \in Writers, Update(w)
  PROVE  VersionInv'
<1>1. /\ alloc[w].at \in {"update", "updateAgain"}
      /\ alloc' = [alloc EXCEPT ![w].before = counter,
                      ![w].at = IF @ = "update" THEN "updated" ELSE "stamp"]
  BY DEF Update
<1>2. \A v \in Writers : v # w => alloc'[v] = alloc[v]
  BY <1>1 DEF Inv, Typed
<1>3. /\ UNCHANGED <<mark, seen, started, used, reused, exposed>>
      /\ counter' \in Nat /\ counter <= counter'
      /\ counter \in Nat /\ used \in Nat /\ alloc[w].above \in Nat
  BY VersionTypes DEF Update
<1>4. ASSUME Guarded
      PROVE  /\ RestsOn(alloc'[w], used, seen, counter')
             /\ started' /\ seen = NotSeen => used <= counter'
  <2>1. RestsOn(alloc[w], used, seen, counter) /\ alloc[w] \in Allocs /\ RaisedCovers
    BY <1>1, <1>4, AtWork
  <2>2. /\ alloc'[w].at = (IF alloc[w].at = "update" THEN "updated" ELSE "stamp")
        /\ alloc'[w].above = alloc[w].above /\ alloc'[w].seen = alloc[w].seen
        /\ alloc'[w].before = counter
    BY <1>1, <2>1 DEF Inv, Typed, Allocs
  <2>3. RestsOn(alloc'[w], used, seen, counter')
    BY <1>1, <2>1, <2>2 DEF RestsOn
  <2> QED
    BY <1>3, <2>1, <2>3 DEF RaisedCovers
<1> QED
  BY <1>2, <1>3, <1>4, MoveKeepsVersions

\* The answer is below what this process saw: the counter is raised again, to a
\* mark that has reached every version (the database was put back).
LEMMA FindBackKeepsVersions ==
  ASSUME Inv, VersionInv, NEW w \in Writers, FindBack(w)
  PROVE  VersionInv'
<1>1. /\ alloc[w].at = "updated" /\ mark # NoMark
      /\ alloc' = [alloc EXCEPT ![w].at = "raiseAgain", ![w].to = mark]
  BY DEF FindBack, WentBack
<1>2. \A v \in Writers : v # w => alloc'[v] = alloc[v]
  BY <1>1 DEF Inv, Typed
<1>3. UNCHANGED <<mark, counter, seen, started, used, reused, exposed>>
  BY DEF FindBack
<1>4. ASSUME Guarded
      PROVE  /\ RestsOn(alloc'[w], used, seen, counter)
             /\ started' /\ seen = NotSeen => used <= counter
  <2>1. /\ RestsOn(alloc[w], used, seen, counter) /\ alloc[w] \in Allocs
        /\ MarkCovers /\ RaisedCovers
    BY <1>1, <1>4, AtWork
  <2>2. /\ alloc'[w].at = "raiseAgain" /\ alloc'[w].seen = alloc[w].seen
        /\ alloc'[w].above = alloc[w].above /\ alloc'[w].to = mark
    BY <1>1, <2>1 DEF Inv, Typed, Allocs
  <2>3. alloc[w].above <= mark
    <3>1. alloc[w].above <= used
      BY <2>1 DEF RestsOn
    <3>2. used <= mark
      BY <1>1, <2>1, VersionTypes DEF MarkCovers
    <3> QED
      BY <3>1, <3>2, VersionTypes
  <2> QED
    BY <1>3, <2>1, <2>2, <2>3 DEF RestsOn, RaisedCovers
<1> QED
  BY <1>2, <1>3, <1>4, VersionTypes, MoveKeepsVersions

\* What is handed out is above every version handed out before the allocation
\* began: the value it was answered is not below what it rests on.
LEMMA StampIsAbove ==
  ASSUME Inv, VersionInv, Guarded, NEW w \in Writers, Stamp(w)
  PROVE  alloc[w].above <= alloc[w].before
<1>1. alloc[w].at \in {"updated", "stamp"}
  BY DEF Stamp
<1>2. /\ RestsOn(alloc[w], used, seen, counter)
      /\ mark = NoMark => used = 0
  BY <1>1, AtWork, NoMarkNoVersion
<1>3. /\ alloc[w].before \in Nat /\ alloc[w].above \in Nat /\ alloc[w].seen \in Int
      /\ used \in Nat
  BY VersionTypes
<1>4. CASE alloc[w].at = "stamp"
  BY <1>2, <1>4 DEF RestsOn
<1>5. CASE alloc[w].at = "updated" /\ mark = NoMark
  BY <1>2, <1>3, <1>5 DEF RestsOn
<1>6. CASE alloc[w].at = "updated" /\ mark # NoMark
  <2>1. ~(alloc[w].before < alloc[w].seen)
    BY <1>6 DEF Stamp, WentBack
  <2> QED
    BY <1>2, <1>3, <1>6, <2>1 DEF RestsOn
<1> QED
  BY <1>1, <1>4, <1>5, <1>6

\* The mark follows the version handed out (followCounter).
LEMMA StampRaisesMark ==
  ASSUME Inv, NEW w \in Writers, Stamp(w), alloc[w].before + 1 <= MarkLimit
  PROVE  mark <= mark' /\ alloc[w].before + 1 <= mark'
<1> DEFINE version == alloc[w].before + 1
<1>1. version \in Nat /\ mark \in Int /\ MarkLimit \in Nat /\ Step \in Nat
      /\ (mark = NoMark \/ mark \in Nat) /\ NoMark = -1
  BY VersionTypes, StepAssumption
<1>2. IF Reached(version) THEN RaiseMark(Following(version)) ELSE mark' = mark
  BY DEF Stamp
<1>3. Following(version) \in Nat /\ version <= Following(version)
  BY <1>1 DEF Following, Smaller
<1> HIDE DEF version
<1>4. CASE Reached(version)
  <2>1. mark' = IF Following(version) > mark THEN Following(version) ELSE mark
    BY <1>2, <1>4 DEF RaiseMark
  <2> QED
    BY <1>1, <1>3, <2>1 DEF version
<1>5. CASE ~Reached(version)
  <2>1. mark' = mark /\ version < mark
    BY <1>1, <1>2, <1>5 DEF Reached
  <2> QED
    BY <1>1, <2>1 DEF version
<1> QED
  BY <1>4, <1>5

LEMMA StampKeepsVersions ==
  ASSUME Inv, VersionInv, NEW w \in Writers, Stamp(w)
  PROVE  VersionInv'
<1> DEFINE version == alloc[w].before + 1
<1>1. /\ seen' = Larger(seen, version) /\ used' = Larger(used, version)
      /\ reused' = (reused \/ version <= alloc[w].above)
      /\ UNCHANGED <<counter, started, exposed>>
  BY DEF Stamp
<1>2. /\ alloc'[w] = NoAlloc
      /\ \A v \in Writers : v # w => alloc'[v] = alloc[v]
  BY DEF Stamp, Inv, Typed
<1>3. /\ version \in Nat /\ version > 0 /\ seen \in Int /\ used \in Nat /\ MarkLimit \in Nat
      /\ mark \in Int /\ alloc[w].above \in Nat /\ alloc[w].before \in Nat
      /\ NotSeen = -1
  BY VersionTypes
<1> SUFFICES ASSUME Guarded'
             PROVE  /\ ~reused' /\ MarkCovers' /\ SeenIsTop' /\ RaisedCovers'
                    /\ \A v \in Writers : alloc'[v].at # "idle"
                                          => RestsOn(alloc'[v], used', seen', counter')
  BY DEF VersionInv
<1>4. /\ Guarded /\ version <= used' /\ used <= used' /\ version <= MarkLimit
      /\ version <= seen' /\ seen' \in Int /\ used' \in Nat
  BY <1>1, <1>3 DEF Guarded, Larger
<1>5. /\ ~reused /\ MarkCovers /\ SeenIsTop
      /\ RestsOn(alloc[w], used, seen, counter)
  <2>1. alloc[w].at # "idle"
    BY DEF Stamp
  <2> QED
    BY <1>4, <2>1 DEF VersionInv
<1>6. alloc[w].above < version
  <2>1. alloc[w].above <= alloc[w].before
    BY <1>4, StampIsAbove
  <2> QED
    BY <1>3, <2>1
<1>7. ~reused'
  <2>1. ~(version <= alloc[w].above)
    BY <1>3, <1>6
  <2>2. reused' = (reused \/ version <= alloc[w].above) /\ ~reused
    BY <1>1, <1>5
  <2> HIDE DEF version
  <2> QED
    BY <2>1, <2>2
<1>8. MarkCovers'
  <2>1. mark <= mark' /\ version <= mark'
    BY <1>4, StampRaisesMark
  <2>2. mark' \in Int
    <3>1. mark' \in Marks
      BY AllocateStep DEF Allocate, Inv, Typed
    <3> QED
      BY <3>1, StepAssumption DEF Marks, NoMark
  <2>3. used' \in {used, version}
    BY <1>1 DEF Larger
  <2> QED
    BY <1>3, <1>5, <2>1, <2>2, <2>3 DEF MarkCovers
<1>9. seen' = used'
  <2>1. CASE seen = NotSeen
    <3>1. alloc[w].above = used
      BY <1>5, <2>1 DEF RestsOn
    <3> QED
      BY <1>1, <1>3, <1>6, <2>1, <3>1 DEF Larger
  <2>2. CASE seen = used
    BY <1>1, <2>2
  <2> QED
    BY <1>5, <2>1, <2>2 DEF SeenIsTop
<1>10. seen' # NotSeen
  BY <1>3, <1>4
<1>11. ASSUME NEW v \in Writers, alloc'[v].at # "idle"
       PROVE  RestsOn(alloc'[v], used', seen', counter')
  <2>1. alloc'[v] = alloc[v] /\ alloc[v] \in Allocs /\ RestsOn(alloc[v], used, seen, counter)
    BY <1>2, <1>4, <1>11, NoAllocIsIdle DEF VersionInv, Inv, Typed
  <2>2. alloc[v].above <= used' /\ counter' = counter
    <3>1. alloc[v].above <= used /\ alloc[v].above \in Nat
      BY <2>1, VersionTypes DEF RestsOn
    <3> QED
      BY <1>1, <1>3, <1>4, <3>1
  <2> QED
    BY <1>10, <2>1, <2>2 DEF RestsOn
<1> QED
  BY <1>7, <1>8, <1>9, <1>10, <1>11 DEF SeenIsTop, RaisedCovers

\* A lost counter costs nothing where nothing was handed out, or where it can be
\* told; the end of a restore has the first stamp checked again.
LEMMA LossKeepsVersions ==
  ASSUME Inv, VersionInv, LoseDatabase
  PROVE  VersionInv'
<1>1. /\ counter' = 0 /\ UNCHANGED <<mark, alloc, used, reused>>
      /\ exposed' = (exposed \/ Residual)
      /\ \/ UNCHANGED <<seen, started>>
         \/ /\ \A w \in Writers : alloc[w] = NoAlloc
            /\ seen' = NotSeen /\ started' = FALSE
  BY DEF LoseDatabase, loader
<1> SUFFICES ASSUME Guarded'
             PROVE  /\ ~reused' /\ MarkCovers' /\ SeenIsTop' /\ RaisedCovers'
                    /\ \A w \in Writers : alloc[w].at # "idle"
                                          => RestsOn(alloc[w], used, seen', 0)
  BY <1>1 DEF VersionInv
<1>2. Guarded /\ ~Residual
  BY <1>1 DEF Guarded
<1>3. /\ ~reused /\ MarkCovers /\ SeenIsTop /\ RaisedCovers
      /\ \A w \in Writers : alloc[w].at # "idle" => RestsOn(alloc[w], used, seen, counter)
      /\ mark = NoMark => used = 0
  BY <1>2, NoMarkNoVersion DEF VersionInv
<1>4. ~reused' /\ MarkCovers' /\ SeenIsTop'
  BY <1>1, <1>3 DEF MarkCovers, SeenIsTop
<1>5. CASE mark = NoMark
  <2>1. used = 0
    BY <1>3, <1>5
  <2>2. RaisedCovers'
    BY <1>1, <2>1 DEF RaisedCovers
  <2>3. ASSUME NEW w \in Writers, alloc[w].at # "idle"
        PROVE  RestsOn(alloc[w], used, seen', 0)
    <3>1. RestsOn(alloc[w], used, seen, counter) /\ alloc[w].above \in Nat /\ seen' = seen
      BY <1>1, <1>3, <2>3, NoAllocIsIdle, VersionTypes
    <3>2. alloc[w].above = 0
      BY <2>1, <3>1 DEF RestsOn
    <3> QED
      BY <3>1, <3>2 DEF RestsOn
  <2> QED
    BY <1>4, <2>2, <2>3
<1>6. CASE mark # NoMark
  <2>1. /\ ~(started /\ seen = NotSeen)
        /\ \A w \in Writers : ~Blind(w)
    BY <1>2, <1>6 DEF Residual
  <2>2. RaisedCovers'
    BY <1>1, <2>1 DEF RaisedCovers
  <2>3. ASSUME NEW w \in Writers, alloc[w].at # "idle"
        PROVE  RestsOn(alloc[w], used, seen', 0)
    <3>1. RestsOn(alloc[w], used, seen, counter) /\ seen' = seen /\ ~Blind(w)
      BY <1>1, <1>3, <2>1, <2>3, NoAllocIsIdle
    <3> QED
      BY <3>1 DEF RestsOn, Blind
  <2> QED
    BY <1>4, <2>2, <2>3
<1> QED
  BY <1>5, <1>6

\* A start forgets what this process saw, and takes the mark from the file or
\* from the counter: a mark that was not saved is the loss the code accepts.
LEMMA RestartKeepsVersions ==
  ASSUME Inv, VersionInv, Restart
  PROVE  VersionInv'
<1>1. /\ exposed' = (exposed \/ mark' < used) /\ UNCHANGED <<counter, used, reused>>
      /\ seen' = NotSeen /\ started' = FALSE
      /\ alloc' = [w \in Writers |-> NoAlloc]
  BY DEF Restart
<1> SUFFICES ASSUME Guarded'
             PROVE  /\ ~reused' /\ MarkCovers' /\ SeenIsTop' /\ RaisedCovers'
                    /\ \A w \in Writers : alloc'[w].at = "idle"
  BY DEF VersionInv
<1>2. Guarded /\ ~(mark' < used)
  BY <1>1 DEF Guarded
<1>3. mark' \in Int /\ used \in Nat
  <2>1. mark' \in Marks
    BY FaultStep DEF Inv, Typed
  <2> QED
    BY <2>1, VersionTypes, StepAssumption DEF Marks, NoMark
<1>4. MarkCovers'
  BY <1>1, <1>2, <1>3 DEF MarkCovers
<1> QED
  BY <1>1, <1>2, <1>4, NoAllocIsIdle DEF VersionInv, SeenIsTop, RaisedCovers

LEMMA NextKeepsVersions ==
  ASSUME Inv, VersionInv, [Next]_vars
  PROVE  VersionInv'
<1>1. Inv'
  BY InvStep
<1>2. ASSUME NEW w \in Writers, Allocate(w)
      PROVE  VersionInv'
  BY <1>2, AskKeepsVersions, RaiseKeepsVersions, RaisedKeepsVersions, UpdateKeepsVersions,
     FindBackKeepsVersions, StampKeepsVersions DEF Allocate
<1> QED
  BY <1>1, <1>2, SavesKeepVersions, LossKeepsVersions, RestartKeepsVersions DEF Next

LEMMA InitIsFresh == Init => VersionInv
  BY DEF Init, VersionInv, MarkCovers, SeenIsTop, RaisedCovers, NoAlloc

\* While versions stay within the limit marks are kept to (MARK_LIMIT), each is
\* above every one that was handed out before its allocation began: with
\* any number of allocations at once, however often the database is lost or put
\* back under them, flushes fail and the process restarts, unless a crash lost a
\* mark not saved yet or a loss fell where nothing of the counter had been seen.
THEOREM VersionsAreFresh == Spec => [](used <= MarkLimit => NoVersionIsReused)
<1>1. Inv /\ VersionInv /\ [Next]_vars => VersionInv'
  BY NextKeepsVersions
<1>2. VersionInv => (used <= MarkLimit => NoVersionIsReused)
  BY DEF VersionInv, Guarded, NoVersionIsReused
<1> QED
  BY ConfigInductive, InitIsFresh, <1>1, <1>2, PTL DEF Spec
=============================================================================
