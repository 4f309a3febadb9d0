----------------------------- MODULE ConfigFile -----------------------------
(***************************************************************************)
(* config.json and what is kept in it: the durable and the coalesced save, *)
(* the watcher that reloads what an operator writes (config/loader.ts),    *)
(* and the version mark of one space that rides on the saves               *)
(* (util/version-mark.ts, util/version-stamp.ts).                          *)
(*                                                                         *)
(* The configuration is two fields: `setting' counts the durable changes   *)
(* this instance made, `edit' the changes the operator made.  The mark is  *)
(* laid over it whenever it is read or written.  Every write of the file   *)
(* gives it a signature it never had: all the code asks of a signature is  *)
(* whether it is the file's still.                                         *)
(***************************************************************************)
EXTENDS Integers, FiniteSets

CONSTANTS
    Writers,        \* allocations that may run at the same time
    Step,           \* VERSION_MARK_STEP
    MarkLimit,      \* MARK_LIMIT
    MaxSettings,    \* BOUND: durable changes
    MaxEdits,       \* BOUND: edits of the operator's
    MaxStamps,      \* BOUND: versions handed out
    MaxFaults       \* BOUND: crashes, losses of the database, failed flushes

ASSUME StepAssumption == Step \in Nat \ {0} /\ MarkLimit \in Nat
ASSUME BoundsAssumption ==
    {MaxSettings, MaxEdits, MaxStamps, MaxFaults} \subseteq Nat

VARIABLES
    config,      \* the configuration in memory: setting, edit
    mark,        \* the space's version mark in memory, NoMark for none
    file,        \* config.json: setting, edit, mark
    known,       \* _lastKnown is the file as it is
    sampled,     \* the watcher's last poll saw the file as it is
    written, flushed,      \* _writeGeneration, _flushedGeneration
    scheduled,   \* _flushScheduled
    waiting,     \* flushes at the flush lock
    flush,       \* the flush that holds it
    asked,       \* reloads at the reload lock
    reloading,   \* one holds it, past its reloadConfig
    counter,     \* ythril_counters, in the database
    seen,        \* the highest counter this process saw
    started,     \* a first stamp was checked
    alloc,       \* each allocation: its step, what it read
    used,        \* history: the highest version handed out
    reused,      \* history: a version was not above those handed out before
    exposed,     \* history: a residual loss, see Residual
    unsaved,     \* history: the last save was a flush that failed
    faults

loader   == <<config, file, known, sampled, written, flushed, scheduled,
              waiting, flush, asked, reloading, unsaved>>
versions == <<counter, seen, started, alloc, used, reused, exposed>>
vars     == <<loader, mark, versions, faults>>

NoMark == -1
NotSeen == -1
NoFlush == [at |-> "idle", gen |-> 0, snap |-> [setting |-> 0, edit |-> 0,
                                                mark |-> NoMark]]
NoAlloc == [at |-> "idle", to |-> NoMark, seen |-> NotSeen, before |-> 0,
            above |-> 0]

Larger(a, b) == IF a > b THEN a ELSE b
Smaller(a, b) == IF a < b THEN a ELSE b

\* A new instance: a configuration on the disk, loaded and watched.
Init ==
    /\ config = [setting |-> 0, edit |-> 0]
    /\ mark = NoMark
    /\ file = [setting |-> 0, edit |-> 0, mark |-> NoMark]
    /\ known = TRUE /\ sampled = TRUE
    /\ written = 0 /\ flushed = 0
    /\ scheduled = FALSE /\ waiting = 0 /\ flush = NoFlush
    /\ asked = 0 /\ reloading = FALSE
    /\ counter = 0 /\ seen = NotSeen /\ started = FALSE
    /\ alloc = [w \in Writers |-> NoAlloc]
    /\ used = 0 /\ reused = FALSE /\ exposed = FALSE /\ unsaved = FALSE /\ faults = 0

-----------------------------------------------------------------------------
(***************************************************************************)
(* The two saves.                                                          *)
(***************************************************************************)
\* The file is replaced by a rename, and its new signature is ours.
Renamed(c, m) ==
    /\ file' = [setting |-> c.setting, edit |-> c.edit, mark |-> m]
    /\ known' = TRUE /\ sampled' = FALSE

\* saveConfig: the change is on the disk when the call returns.
Saved(c) ==
    /\ config' = c
    /\ Renamed(c, mark)
    /\ written' = written + 1 /\ flushed' = written + 1
    /\ unsaved' = FALSE

\* A request handler changes what it holds and saves it.
SaveConfig ==
    /\ config.setting < MaxSettings
    /\ Saved([config EXCEPT !.setting = @ + 1])
    /\ UNCHANGED <<mark, scheduled, waiting, flush, asked, reloading,
                   versions, faults>>

\* The mark laid over what is read: a file only raises it.
MarkOverFile == Larger(mark, file.mark)

\* mutateConfig: the file is read again first.
MutateConfig ==
    /\ config.setting < MaxSettings
    /\ mark' = MarkOverFile
    /\ config' = [setting |-> file.setting + 1, edit |-> file.edit]
    /\ Renamed(config', mark')
    /\ written' = written + 1 /\ flushed' = written + 1
    /\ unsaved' = FALSE
    /\ UNCHANGED <<scheduled, waiting, flush, asked, reloading, versions,
                   faults>>

\* saveConfigSoon, for a caller that leaves the configuration as it is.
SaveConfigSoon ==
    /\ written' = written + 1
    /\ scheduled' = TRUE
    /\ unsaved' = FALSE

\* setImmediate: the flush asks for its lock.
RunScheduled ==
    /\ scheduled
    /\ scheduled' = FALSE
    /\ waiting' = waiting + 1
    /\ UNCHANGED <<config, mark, file, known, sampled, written, flushed, flush,
                   asked, reloading, unsaved, versions, faults>>

\* The generation is read with the snapshot, before the write is awaited.
StartFlush ==
    /\ waiting > 0 /\ flush = NoFlush
    /\ waiting' = waiting - 1
    /\ flush' = IF written <= flushed THEN NoFlush
                ELSE [at |-> "writing", gen |-> written,
                      snap |-> [setting |-> config.setting,
                                edit |-> config.edit, mark |-> mark]]
    /\ UNCHANGED <<config, mark, file, known, sampled, written, flushed,
                   scheduled, asked, reloading, unsaved, versions,
                   faults>>

\* A durable save landed while the snapshot was written.  The variant does
\* not ask.
NeverStale == FALSE
Stale == flushed >= flush.gen

\* What is on the disk then is the generation of the snapshot.  The variant
\* takes the one of the moment.
CurrentGen == written
SnapshotGen == flush.gen

EndFlush ==
    /\ flush.at = "writing"
    /\ IF Stale
       THEN UNCHANGED <<file, known, sampled, flushed>>
       ELSE Renamed(flush.snap, flush.snap.mark) /\ flushed' = SnapshotGen
    /\ flush' = NoFlush
    /\ UNCHANGED <<config, mark, written, scheduled, waiting, asked,
                   reloading, unsaved, versions, faults>>

\* The write of the temporary file fails; the next save writes it all.
FlushFails ==
    /\ flush.at = "writing"
    /\ faults < MaxFaults
    /\ faults' = faults + 1
    /\ flush' = NoFlush
    /\ unsaved' = TRUE
    /\ UNCHANGED <<config, mark, file, known, sampled, written, flushed,
                   scheduled, waiting, asked, reloading, versions>>

-----------------------------------------------------------------------------
(***************************************************************************)
(* The operator and the watcher.                                           *)
(***************************************************************************)
OperatorEdits ==
    /\ file.edit < MaxEdits
    /\ file' = [file EXCEPT !.edit = @ + 1]
    /\ known' = FALSE /\ sampled' = FALSE
    /\ UNCHANGED <<config, mark, written, flushed, scheduled,
                   waiting, flush, asked, reloading, unsaved, versions, faults>>

\* configChangeVerdict: a poll that saw a change looks at the file as it is.
Poll ==
    /\ ~sampled
    /\ sampled' = TRUE
    /\ IF ~known /\ written <= flushed
       THEN known' = TRUE /\ asked' = asked + 1
       ELSE UNCHANGED <<known, asked>>
    /\ UNCHANGED <<config, mark, file, written, flushed, scheduled, waiting,
                   flush, reloading, unsaved, versions, faults>>

\* reloadConfig: the first step of a reload, which goes on to the spaces.
ReloadConfig ==
    /\ asked > 0 /\ ~reloading
    /\ asked' = asked - 1
    /\ reloading' = TRUE
    /\ mark' = MarkOverFile
    /\ config' = [setting |-> file.setting, edit |-> file.edit]
    /\ known' = TRUE
    /\ UNCHANGED <<file, sampled, written, flushed, scheduled, waiting, flush,
                   unsaved, versions, faults>>

\* The reload applied: the file as it is now is taken to be the one it read.
EndReload ==
    /\ reloading
    /\ reloading' = FALSE
    /\ known' = TRUE
    /\ UNCHANGED <<config, mark, file, sampled, written, flushed, scheduled,
                   waiting, flush, asked, unsaved, versions, faults>>

-----------------------------------------------------------------------------
(***************************************************************************)
(* The version mark and the counter it follows.  An allocation is a row of *)
(* store calls; what it reads of this process it reads between them.       *)
(***************************************************************************)
\* followCounter: the counter has reached the mark
Reached(c) == mark = NoMark \/ c >= mark

\* The mark of a counter stays a step below the cap of versions.  The variant
\* does not look at the limit.
Above(c) == c + Step
Following(c) == Smaller(c + Step, MarkLimit)

\* askForSave, when it is a rise.
RaiseMark(m) ==
    IF m > mark
    THEN /\ mark' = m
         /\ SaveConfigSoon
    ELSE UNCHANGED <<mark, written, scheduled, unsaved>>

Sends(w, step) ==
    alloc' = [alloc EXCEPT ![w].at = step, ![w].seen = seen]

Ask(w) ==
    /\ alloc[w] = NoAlloc
    /\ used < MaxStamps
    /\ alloc' = [alloc EXCEPT ![w] =
            [NoAlloc EXCEPT !.at = IF started \/ mark = NoMark
                                   THEN "update" ELSE "raise",
                            !.to = mark, !.seen = seen, !.above = used]]
    /\ started' = (started \/ mark = NoMark)
    /\ UNCHANGED <<loader, mark, counter, seen, used, reused, exposed, faults>>

\* raiseCounterToMark before the first stamp, and its answer.
RaiseFirst(w) ==
    /\ alloc[w].at = "raise"
    /\ counter' = Larger(counter, alloc[w].to)
    /\ alloc' = [alloc EXCEPT ![w].at = "raised"]
    /\ UNCHANGED <<loader, mark, seen, started, used, reused, exposed, faults>>

RaisedFirst(w) ==
    /\ alloc[w].at = "raised"
    /\ started' = TRUE
    /\ Sends(w, "update")
    /\ UNCHANGED <<loader, mark, counter, seen, used, reused, exposed, faults>>

\* The one update: it leaves the counter one higher and answers what it was.
Update(w) ==
    /\ alloc[w].at \in {"update", "updateAgain"}
    /\ counter' = counter + 1
    /\ alloc' = [alloc EXCEPT ![w].before = counter,
                    ![w].at = IF @ = "update" THEN "updated" ELSE "stamp"]
    /\ UNCHANGED <<loader, mark, seen, started, used, reused, exposed, faults>>

\* The counter is below what this process saw of it.  The variant does not
\* look.
NeverBack(w) == FALSE
WentBack(w) == alloc[w].before < alloc[w].seen /\ mark # NoMark

FindBack(w) ==
    /\ alloc[w].at = "updated" /\ WentBack(w)
    /\ alloc' = [alloc EXCEPT ![w].at = "raiseAgain", ![w].to = mark]
    /\ UNCHANGED <<loader, mark, counter, seen, started, used, reused, exposed,
                   faults>>

RaiseAgain(w) ==
    /\ alloc[w].at = "raiseAgain"
    /\ counter' = Larger(counter, alloc[w].to)
    /\ alloc' = [alloc EXCEPT ![w].at = "updateAgain"]
    /\ UNCHANGED <<loader, mark, seen, started, used, reused, exposed, faults>>

Stamp(w) ==
    LET version == alloc[w].before + 1
    IN  /\ \/ alloc[w].at = "updated" /\ ~WentBack(w)
           \/ alloc[w].at = "stamp"
        /\ seen' = Larger(seen, version)
        /\ IF Reached(version) THEN RaiseMark(Following(version))
           ELSE UNCHANGED <<mark, written, scheduled, unsaved>>
        /\ used' = Larger(used, version)
        /\ reused' = (reused \/ version <= alloc[w].above)
        /\ alloc' = [alloc EXCEPT ![w] = NoAlloc]
        /\ UNCHANGED <<config, file, known, sampled, flushed, waiting, flush,
                       asked, reloading, counter, started, exposed,
                       faults>>

\* A raise to the mark that is relied on with nothing to tell its loss by:
\* nothing of the counter was seen since, or it is not looked at again.
Blind(w) ==
    \/ alloc[w].at \in {"raised", "updateAgain"}
    \/ alloc[w].at = "update" /\ alloc[w].seen = NotSeen

Residual ==
    /\ mark # NoMark
    /\ (started /\ seen = NotSeen) \/ (\E w \in Writers : Blind(w))

\* The database is emptied or put back.  The end of a restore says so; it
\* holds the instance in maintenance, so nothing is stamped meanwhile.
LoseDatabase ==
    /\ faults < MaxFaults
    /\ faults' = faults + 1
    /\ counter > 0
    /\ counter' = 0
    /\ \/ UNCHANGED <<seen, started>>
       \/ /\ \A w \in Writers : alloc[w] = NoAlloc
          /\ seen' = NotSeen /\ started' = FALSE
    /\ exposed' = (exposed \/ Residual)
    /\ UNCHANGED <<loader, mark, alloc, used, reused>>

\* The process dies and starts again: loadConfig, seedVersionMarks and
\* startConfigWatcher.
Restart ==
    LET seed == IF counter > 0 THEN Following(counter) ELSE NoMark
    IN  /\ faults < MaxFaults
        /\ faults' = faults + 1
        /\ config' = [setting |-> file.setting, edit |-> file.edit]
        /\ mark' = Larger(file.mark, seed)
        /\ exposed' = (exposed \/ mark' < used)
        /\ scheduled' = (seed > file.mark)
        /\ written' = IF seed > file.mark THEN 1 ELSE 0
        /\ flushed' = 0
        /\ known' = TRUE /\ sampled' = TRUE
        /\ waiting' = 0 /\ flush' = NoFlush
        /\ asked' = 0 /\ reloading' = FALSE /\ unsaved' = FALSE
        /\ seen' = NotSeen /\ started' = FALSE
        /\ alloc' = [w \in Writers |-> NoAlloc]
        /\ UNCHANGED <<file, counter, used, reused>>

-----------------------------------------------------------------------------
Allocate(w) ==
    \/ Ask(w) \/ RaiseFirst(w) \/ RaisedFirst(w) \/ Update(w)
    \/ FindBack(w) \/ RaiseAgain(w) \/ Stamp(w)

Flushes == RunScheduled \/ StartFlush \/ EndFlush
Watches == Poll \/ ReloadConfig \/ EndReload

Next ==
    \/ SaveConfig \/ MutateConfig \/ OperatorEdits
    \/ Flushes \/ FlushFails \/ Watches
    \/ \E w \in Writers : Allocate(w)
    \/ LoseDatabase \/ Restart

Spec == Init /\ [][Next]_vars

\* The event loop and the poll go on; each pending callback runs.
Fairness ==
    /\ WF_vars(RunScheduled) /\ WF_vars(StartFlush) /\ WF_vars(EndFlush)
    /\ WF_vars(Poll) /\ WF_vars(ReloadConfig) /\ WF_vars(EndReload)

FairSpec == Spec /\ Fairness

-----------------------------------------------------------------------------
\* Types; a flush is under a generation that was written, the disk holds no
\* generation that was not.
ConfigTypeOK ==
    /\ config.setting \in 0..MaxSettings /\ config.edit \in 0..MaxEdits
    /\ file.setting \in 0..MaxSettings /\ file.edit \in 0..MaxEdits
    /\ mark \in {NoMark} \cup 0..MarkLimit
    /\ file.mark \in {NoMark} \cup 0..MarkLimit
    /\ flushed \in 0..written /\ flush.gen \in 0..written
    /\ counter \in Nat /\ used \in Nat

\* What a durable save wrote stays on the disk: no coalesced save, reload or
\* restart puts an older state over it.
DurableSavesStay == [][file'.setting >= file.setting]_vars

\* A version is above every one that was handed out before its allocation began,
\* unless the counter was lost in one of the ways exposed records.
NoVersionIsReused == reused => exposed

\* What was saved reaches the disk, by the flush or by the save after it,
\* unless the last save was a flush that failed.
SavesReachTheDisk ==
    <>[]( \/ unsaved
          \/ file.mark = mark /\ file.setting = config.setting )

\* What the operator writes takes effect.
EditsTakeEffect == <>[](config.edit = file.edit)
=============================================================================
