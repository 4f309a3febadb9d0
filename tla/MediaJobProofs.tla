--------------------------- MODULE MediaJobProofs ---------------------------
(***************************************************************************)
(* Theorems about MediaJob, for any slots, doors, contents and bounds: its *)
(* type, and its three safety invariants.                                  *)
(***************************************************************************)
EXTENDS MediaJob, TLAPS

-----------------------------------------------------------------------------
(***************************************************************************)
(* The inductive invariant, in parts.                                      *)
(***************************************************************************)

\* Whoever works on bytes knows them.
HashesAreKnown ==
    /\ job.status # "none" => job.sha \in Contents
    /\ \A r \in Runs : run[r].at # "idle" => run[r].sha \in Contents
    /\ \A r \in Runs :
         run[r].at \in {"opened", "marked", "cleared", "written", "present"}
             => run[r].of \in Contents
    /\ \A u \in Doors : upload[u].at # "idle" => upload[u].sha \in Contents

\* The job a run holds is the one it claimed: a job gets other contents only
\* by a write that takes its token away.
HolderKnowsTheJob ==
    \A r \in Runs : run[r].at # "idle" /\ Holds(r) => run[r].sha = job.sha

\* Once the run that holds the job has cleared, nothing else is there.
HolderHasCleared ==
    \A r \in Runs :
        run[r].at \in {"cleared", "written", "present"} /\ Holds(r) =>
            \A d \in derived : d.stamp = run[r].sha

Typed == MediaTypeOK /\ HashesAreKnown

RowsInv == HolderKnowsTheJob /\ HolderHasCleared /\ OneContentsRows

\* The half of a removal or of a clean reconcile that follows its cancel.
AfterCancel ==
    \/ removal.at \in {"artefacts", "retire"}
    \/ /\ "swallowed" \notin amiss
       /\ \E r \in Runs : run[r].at \in {"artefacts", "retire"}

BeforeRetire ==
    \/ removal.at = "retire"
    \/ "swallowed" \notin amiss /\ \E r \in Runs : run[r].at = "retire"

\* No run can hold the job there: it is gone, or written anew and waiting.
NobodyHolds ==
    job.status = "none" \/ (job.status = "pending" /\ job.waits)

OrphanInv ==
    /\ AfterCancel => NobodyHolds
    /\ BeforeRetire => derived = {}
    /\ NoOrphanRows

\* A retry's row write finds the job as its job write left it.
RetriedJobWaits ==
    retry = "row" /\ amiss = {} => job.status = "pending" /\ job.waits

\* RowAwaitsItsJob, followed through the second write of the bulk retry.
AwaitedThroughBulk ==
    /\ row.status \in {"pending", "processing"}
    /\ amiss = {}
    /\ \A u \in Doors : upload[u].at # "reset"
    /\ removal.at \notin {"artefacts", "retire"}
    /\ \A r \in Runs : run[r].at \notin {"artefacts", "retire"}
    => \/ job.status \in {"pending", "processing"}
       \/ bulk = "jobs" /\ job.status = "failed"

AwaitInv == RetriedJobWaits /\ AwaitedThroughBulk

-----------------------------------------------------------------------------
(***************************************************************************)
(* What the operators on a job return.                                     *)
(***************************************************************************)
LEMMA WholeNewRunType ==
  ASSUME NEW j \in JobType
  PROVE  /\ WholeNewRun(j, TRUE) \in JobType
         /\ WholeNewRun(j, TRUE).status = "pending"
         /\ WholeNewRun(j, TRUE).token = None
         /\ WholeNewRun(j, TRUE).sha = j.sha
         /\ WholeNewRun(j, TRUE).waits
         /\ WholeNewRun(j, FALSE) \in JobType
         /\ WholeNewRun(j, FALSE).status = "pending"
         /\ WholeNewRun(j, FALSE).token = None
         /\ WholeNewRun(j, FALSE).sha = j.sha
<1>1. 0 \in Nat /\ 0 \in 0 .. MaxDeferrals
  BY AttemptsAssumption
<1>2. /\ WholeNewRun(j, TRUE) \in JobType
      /\ WholeNewRun(j, FALSE) \in JobType
  BY <1>1 DEF WholeNewRun, JobType, JobStatuses
<1>3. WholeNewRun(j, TRUE).waits
  BY Zenon DEF WholeNewRun, JobType
<1>4. ASSUME NEW w \in BOOLEAN
      PROVE  /\ WholeNewRun(j, w).status = "pending"
             /\ WholeNewRun(j, w).token = None
             /\ WholeNewRun(j, w).sha = j.sha
  BY DEF WholeNewRun, JobType
<1> QED
  BY <1>2, <1>3, <1>4

LEMMA CountType ==
  ASSUME NEW j \in JobType
  PROVE  /\ j.attempts \in Nat /\ j.attempts + 1 \in Nat
         /\ j.deferrals \in 0 .. MaxDeferrals
<1>1. j.attempts \in Nat /\ j.deferrals \in 0 .. MaxDeferrals
  BY DEF JobType
<1> QED
  BY <1>1

LEMMA RecoveredType ==
  ASSUME NEW j \in JobType
  PROVE  /\ Recovered(j) \in JobType
         /\ Recovered(j).status = "pending"
         /\ Recovered(j).token = None
         /\ Recovered(j).sha = j.sha
<1> DEFINE n == j.attempts + 1
<1>1. n \in Nat
  BY CountType
<1>2. Recovered(j) = [j EXCEPT !.status = "pending", !.token = None,
                               !.attempts = n, !.waits = FALSE]
  BY DEF Recovered
<1> HIDE DEF n
<1>3. Recovered(j) \in JobType
  <2>1. "pending" \in JobStatuses
    BY DEF JobStatuses
  <2> QED
    BY <1>1, <1>2, <2>1 DEF JobType
<1>4. /\ Recovered(j).status = "pending"
      /\ Recovered(j).token = None
      /\ Recovered(j).sha = j.sha
  BY <1>2 DEF JobType
<1> QED
  BY <1>3, <1>4

\* An ended job: endJob changes the status and takes the deferral's marks.
LEMMA EndedType ==
  ASSUME NEW j \in JobType, NEW status \in JobStatuses
  PROVE  LET e == [j EXCEPT !.status = status, !.deferrals = 0] IN
         e \in JobType /\ e.status = status /\ e.sha = j.sha
<1>1. 0 \in 0 .. MaxDeferrals
  BY AttemptsAssumption
<1> QED
  BY <1>1 DEF JobType

\* A failed attempt waits again, or it was the last (failJob).
LEMMA FailedType ==
  ASSUME job \in JobType, NEW r \in Runs, Fail(r)
  PROVE  /\ job' \in JobType /\ job'.sha = job.sha
         /\ \/ job'.status = "pending" /\ row' = row
            \/ job'.status = "failed" /\ row' = Marked("failed")
<1>1. CASE job' = [job EXCEPT !.status = "pending", !.waits = TRUE] /\ row' = row
  <2>1. "pending" \in JobStatuses
    BY DEF JobStatuses
  <2> QED
    BY <1>1, <2>1 DEF JobType
<1>2. CASE job' = [job EXCEPT !.status = "failed", !.deferrals = 0] /\ row' = Marked("failed")
  <2>1. "failed" \in JobStatuses
    BY DEF JobStatuses
  <2> QED
    BY <1>2, <2>1, EndedType
<1> QED
  BY <1>1, <1>2 DEF Fail, EndJob

LEMMA NoneTypes ==
  /\ NoRow \in [status : RowStatuses, sha : Bytes]
  /\ NoJob \in JobType
  /\ NoRun \in RunType
  /\ NoDoor \in DoorType
  BY AttemptsAssumption
     DEF NoRow, NoJob, NoRun, NoDoor, JobType, RunType, DoorType, Bytes,
         RowStatuses, JobStatuses, RunStages, DoorStages

LEMMA DoorSteps ==
  ASSUME upload \in [Doors -> DoorType], NEW u \in Doors,
         NEW stage \in DoorStages, DoorShuts(u) \/ DoorMoves(u, stage)
  PROVE  /\ upload' \in [Doors -> DoorType]
         /\ upload'[u].at = "idle" \/ upload'[u].sha = upload[u].sha
         /\ upload'[u].at \in {"idle", stage}
         /\ \A v \in Doors \ {u} : upload'[v] = upload[v]
<1>1. CASE DoorShuts(u)
  <2>1. upload' = [upload EXCEPT ![u] = NoDoor] /\ NoDoor \in DoorType
    BY <1>1, NoneTypes DEF DoorShuts
  <2>2. NoDoor.at = "idle"
    BY DEF NoDoor
  <2> QED
    BY <2>1, <2>2
<1>2. CASE DoorMoves(u, stage)
  <2>1. upload' = [upload EXCEPT ![u] = [upload[u] EXCEPT !.at = stage]]
    BY <1>2 DEF DoorMoves
  <2>2. /\ [upload[u] EXCEPT !.at = stage] \in DoorType
        /\ [upload[u] EXCEPT !.at = stage].at = stage
        /\ [upload[u] EXCEPT !.at = stage].sha = upload[u].sha
    BY DEF DoorType
  <2> QED
    BY <2>1, <2>2
<1> QED
  BY <1>1, <1>2

\* The hashes stay known when a run or a door goes on with what it has.
LEMMA RunKeepsHashes ==
  ASSUME HashesAreKnown, NEW r \in Runs, upload' = upload,
         \A q \in Runs \ {r} : run'[q] = run[q],
         \/ run'[r].at = "idle"
         \/ /\ run[r].at # "idle" /\ run'[r].sha = run[r].sha
            /\ run'[r].at \notin {"opened", "marked", "cleared", "written", "present"},
         job' = job \/ job'.status = "none" \/ job'.sha \in Contents
  PROVE  HashesAreKnown'
<1> USE DEF HashesAreKnown
<1>1. \A q \in Runs : run'[q].at # "idle" => run'[q].sha \in Contents
  OBVIOUS
<1>2. \A q \in Runs :
        run'[q].at \in {"opened", "marked", "cleared", "written", "present"}
        => run'[q].of \in Contents
  OBVIOUS
<1>3. job'.status # "none" => job'.sha \in Contents
  OBVIOUS
<1> QED
  BY <1>1, <1>2, <1>3

LEMMA DoorKeepsHashes ==
  ASSUME HashesAreKnown, NEW u \in Doors, run' = run,
         \A v \in Doors \ {u} : upload'[v] = upload[v],
         \/ upload'[u].at = "idle"
         \/ upload[u].at # "idle" /\ upload'[u].sha = upload[u].sha,
         job' = job \/ job'.sha \in Contents
  PROVE  HashesAreKnown'
<1>1. \A v \in Doors : upload[v].at # "idle" => upload[v].sha \in Contents
  BY DEF HashesAreKnown
<1>2. upload'[u].at # "idle" => upload'[u].sha \in Contents
  BY <1>1
<1>3. \A v \in Doors : upload'[v].at # "idle" => upload'[v].sha \in Contents
  BY <1>1, <1>2
<1>4. job.status # "none" => job.sha \in Contents
  BY DEF HashesAreKnown
<1>5. job'.status # "none" => job'.sha \in Contents
  BY <1>4, Zenon
<1> QED
  BY <1>3, <1>5 DEF HashesAreKnown

-----------------------------------------------------------------------------
(***************************************************************************)
(* The type, with the hashes that are known.                               *)
(***************************************************************************)
LEMMA TypedStep == Typed /\ [Next]_vars => Typed'
<1> SUFFICES ASSUME Typed, [Next]_vars PROVE Typed'
  OBVIOUS
<1> USE NoneAssumption, AttemptsAssumption, BoundAssumption
<1> USE DEF Typed, MediaTypeOK, HashesAreKnown, Bytes, JobType, RunType,
        DoorType, RunStages, DoorStages,
        RowStatuses, JobStatuses, Reconciling, Working, doors
<1>1. ASSUME NEW r \in Runs, Claim(r)
       PROVE  Typed'
  <2> DEFINE n == job.attempts + 1
  <2>1. n \in Nat
    BY CountType
  <2>4. job' = [job EXCEPT !.status = "processing", !.token = r,
                           !.attempts = n]
    BY <1>1 DEF Claim
  <2> HIDE DEF n
  <2>2. /\ job' \in JobType
        /\ job'.status = "processing" /\ job'.token = r /\ job'.sha = job.sha
    BY <2>1, <2>4
  <2>3. /\ run' \in [Runs -> RunType]
        /\ run'[r].at = "claimed" /\ run'[r].sha = job.sha
        /\ \A q \in Runs \ {r} : run'[q] = run[q]
    BY <1>1 DEF Claim
  <2> QED
    BY <1>1, <2>2, <2>3 DEF Claim
<1>2. ASSUME NEW r \in Runs, Open(r)
       PROVE  Typed'
  <2> DEFINE stage == IF disk = None THEN "gone" ELSE "opened"
             opened == [at |-> stage, sha |-> run[r].sha, of |-> disk]
  <2>1. stage \in {"gone", "opened"} /\ (stage = "opened" => disk # None)
    OBVIOUS
  <2>2. run' = [run EXCEPT ![r] = opened]
    BY <1>2 DEF Open
  <2> HIDE DEF stage
  <2>3. opened \in RunType
    BY <2>1
  <2>4. opened.at = stage /\ opened.of = disk /\ opened.sha = run[r].sha
    OBVIOUS
  <2> HIDE DEF opened
  <2>5. /\ run' \in [Runs -> RunType]
        /\ run'[r] = opened
        /\ \A q \in Runs \ {r} : run'[q] = run[q]
    BY <2>2, <2>3
  <2> QED
    BY <1>2, <2>1, <2>4, <2>5 DEF Open
<1>3. ASSUME NEW r \in Runs, Mark(r)
       PROVE  Typed'
  BY <1>3 DEF Mark, Marked, MovesTo, Holds
<1>4. ASSUME NEW r \in Runs, Clear(r)
       PROVE  Typed'
  BY <1>4 DEF Clear, OfOtherBytes, MovesTo, Holds
<1>5. ASSUME NEW r \in Runs, Write(r)
       PROVE  Typed'
  BY <1>5 DEF Write, MovesTo, Holds, ParentIsLive
<1>6. ASSUME NEW r \in Runs, CheckBytes(r)
       PROVE  Typed'
  BY <1>6 DEF CheckBytes, MovesTo
<1>7. ASSUME NEW r \in Runs, Complete(r)
       PROVE  Typed'
  <2>1. /\ job' = [job EXCEPT !.status = "complete", !.deferrals = 0]
        /\ row' = Marked("complete")
    BY <1>7 DEF Complete, EndJob
  <2>2. job' \in JobType /\ job'.status = "complete" /\ job'.sha = job.sha
    BY <2>1, EndedType
  <2> QED
    BY <1>7, <2>1, <2>2 DEF Complete, Marked, Ends, NoRun, Holds
<1>8. ASSUME NEW r \in Runs, Abandon(r)
       PROVE  Typed'
  BY <1>8 DEF Abandon, Ends, NoRun, Holds, Working
<1>9. ASSUME NEW r \in Runs, Fail(r)
       PROVE  Typed'
  <2>1. /\ job' \in JobType
        /\ job'.status \in {"pending", "failed"} /\ job'.sha = job.sha
    BY <1>9, FailedType
  <2>2. row' \in [status : RowStatuses, sha : Bytes]
    BY <1>9 DEF Fail, EndJob, Marked
  <2>3. /\ run' \in [Runs -> RunType]
        /\ run'[r].at = "idle"
        /\ \A q \in Runs \ {r} : run'[q] = run[q]
    BY <1>9 DEF Fail, Ends, NoRun
  <2>4. /\ UNCHANGED <<disk, derived, doors, acts, faults, amiss>>
        /\ job.status = "processing"
    BY <1>9 DEF Fail, Holds
  <2> HIDE DEF JobType, RunType, DoorType, Bytes, RowStatuses, HashesAreKnown
  <2>5. HashesAreKnown'
    <3>1. job'.sha \in Contents
      BY <2>1, <2>4 DEF HashesAreKnown
    <3> QED
      BY <2>3, <2>4, <3>1, RunKeepsHashes
  <2>6. MediaTypeOK'
    BY <2>1, <2>2, <2>3, <2>4
  <2> QED
    BY <2>5, <2>6
<1>10. ASSUME NEW r \in Runs, EndIsRefused(r)
       PROVE  Typed'
  BY <1>10 DEF EndIsRefused, Ends, NoRun, Working
<1>11. ASSUME NEW r \in Runs, AssertHolds(r)
       PROVE  Typed'
  BY <1>11 DEF AssertHolds, MovesTo, Holds
<1>12. ASSUME NEW r \in Runs, ReconcileCancel(r)
       PROVE  Typed'
  <2>1. job' \in JobType /\ (job' = job \/ job'.status = "none")
    <3>1. job' = job \/ job' = NoJob
      BY <1>12 DEF ReconcileCancel, JobIsCancelled
    <3>2. NoJob.status = "none"
      BY DEF NoJob
    <3> QED
      BY <3>1, <3>2, NoneTypes
  <2>2. /\ faults' \in 0 .. MaxFaults
        /\ amiss' \subseteq {"swallowed", "crossed", "cut", "overtaken"}
    <3>1. faults' = faults \/ (faults < MaxFaults /\ faults' = faults + 1)
      BY <1>12 DEF ReconcileCancel, Swallowed
    <3>2. amiss' \in {amiss, amiss \cup {"swallowed"}, amiss \cup {"crossed"}}
      BY <1>12 DEF ReconcileCancel, JobIsCancelled, Swallowed
    <3> QED
      BY <3>1, <3>2
  <2>3. /\ run' \in [Runs -> RunType]
        /\ run[r].at = "cancel"
        /\ run'[r].at = "artefacts" /\ run'[r].sha = run[r].sha
        /\ \A q \in Runs \ {r} : run'[q] = run[q]
    BY <1>12 DEF ReconcileCancel, MovesTo
  <2>4. UNCHANGED <<disk, row, derived, upload, removal, retry, bulk, acts>>
    BY <1>12 DEF ReconcileCancel
  <2> HIDE DEF JobType, RunType, DoorType, Bytes, RowStatuses, HashesAreKnown
  <2>6. HashesAreKnown'
    BY <2>1, <2>3, <2>4, RunKeepsHashes
  <2>5. MediaTypeOK'
    BY <2>1, <2>2, <2>3, <2>4
  <2> QED
    BY <2>5, <2>6
<1>13. ASSUME NEW r \in Runs, ReconcileArtefacts(r)
       PROVE  Typed'
  BY <1>13 DEF ReconcileArtefacts, Swallowed, MovesTo
<1>14. ASSUME NEW r \in Runs, ReconcileRetire(r)
       PROVE  Typed'
  <2>1. row' \in [status : RowStatuses, sha : Bytes]
    <3>1. row' = row \/ row' = NoRow
      BY <1>14 DEF ReconcileRetire
    <3> QED
      BY <3>1, NoneTypes
  <2>2. /\ faults' \in 0 .. MaxFaults
        /\ amiss' \subseteq {"swallowed", "crossed", "cut", "overtaken"}
    <3>1. faults' = faults \/ (faults < MaxFaults /\ faults' = faults + 1)
      BY <1>14 DEF ReconcileRetire, Swallowed
    <3>2. amiss' \in {amiss, amiss \cup {"swallowed"}, amiss \cup {"crossed"}}
      BY <1>14 DEF ReconcileRetire, JobIsCancelled, Swallowed
    <3> QED
      BY <3>1, <3>2
  <2>3. /\ run' \in [Runs -> RunType]
        /\ run'[r].at = "idle"
        /\ \A q \in Runs \ {r} : run'[q] = run[q]
    BY <1>14 DEF ReconcileRetire, Ends, NoRun
  <2>4. UNCHANGED <<disk, job, derived, doors, acts>>
    BY <1>14 DEF ReconcileRetire
  <2> HIDE DEF JobType, RunType, DoorType, Bytes, RowStatuses, HashesAreKnown
  <2>5. HashesAreKnown'
    BY <2>3, <2>4, RunKeepsHashes
  <2>6. MediaTypeOK'
    BY <2>1, <2>2, <2>3, <2>4
  <2> QED
    BY <2>5, <2>6
<1>15. ASSUME NEW r \in Runs, Release(r)
       PROVE  Typed'
  <2>1. /\ job' \in JobType
        /\ job'.status = "pending" /\ job'.sha = job.sha
    BY <1>15 DEF Release
  <2> QED
    BY <1>15, <2>1 DEF Release, Holds
<1>16. ASSUME NEW u \in Doors, NEW c \in Contents, WriteBytes(u, c)
       PROVE  Typed'
  BY <1>16 DEF WriteBytes, AnAct
<1>17. ASSUME NEW u \in Doors, ReadPrior(u)
       PROVE  Typed'
  <2> DEFINE door == [at |-> "row", sha |-> upload[u].sha,
                      settled |-> Settled(u)]
  <2>1. upload[u].sha \in Bytes
    OBVIOUS
  <2>2. door \in DoorType
    BY <2>1, Zenon DEF Settled
  <2>3. door.sha = upload[u].sha
    OBVIOUS
  <2>4. upload' = [upload EXCEPT ![u] = door]
    BY <1>17 DEF ReadPrior
  <2> HIDE DEF door
  <2>5. /\ upload' \in [Doors -> DoorType]
        /\ upload'[u].sha = upload[u].sha
        /\ \A v \in Doors \ {u} : upload'[v] = upload[v]
    BY <2>2, <2>3, <2>4
  <2> QED
    BY <1>17, <2>5 DEF ReadPrior
<1>18. ASSUME NEW u \in Doors, WriteRow(u)
       PROVE  Typed'
  <2>1. /\ upload' \in [Doors -> DoorType]
        /\ upload'[u].at = "idle" \/ upload'[u].sha = upload[u].sha
        /\ \A v \in Doors \ {u} : upload'[v] = upload[v]
    <3>1. DoorShuts(u) \/ DoorMoves(u, "dispatch")
      BY <1>18 DEF WriteRow
    <3> QED
      BY <3>1, DoorSteps
  <2>2. row' \in [status : RowStatuses, sha : Bytes]
    BY <1>18 DEF WriteRow
  <2>3. /\ UNCHANGED <<disk, job, derived, run, removal, retry, bulk, acts, faults, amiss>>
        /\ upload[u].at # "idle"
    BY <1>18 DEF WriteRow
  <2> HIDE DEF JobType, RunType, DoorType, Bytes, RowStatuses, HashesAreKnown
  <2>4. HashesAreKnown'
    BY <2>1, <2>3, DoorKeepsHashes
  <2>5. MediaTypeOK'
    BY <2>1, <2>2, <2>3
  <2> QED
    BY <2>4, <2>5
<1>19. ASSUME NEW u \in Doors, ReadJob(u)
       PROVE  Typed'
  <2>1. /\ upload' \in [Doors -> DoorType]
        /\ upload'[u].at = "idle" \/ upload'[u].sha = upload[u].sha
        /\ \A v \in Doors \ {u} : upload'[v] = upload[v]
    <3>1. DoorShuts(u) \/ DoorMoves(u, "pending")
      BY <1>19 DEF ReadJob
    <3> QED
      BY <3>1, DoorSteps
  <2>2. UNCHANGED <<disk, row, job, derived, run, removal, retry, bulk, acts,
                    faults, amiss>>
    BY <1>19 DEF ReadJob
  <2>3. upload[u].at # "idle"
    BY <1>19 DEF ReadJob
  <2> HIDE DEF JobType, RunType, DoorType, Bytes, RowStatuses, HashesAreKnown
  <2>4. HashesAreKnown'
    BY <2>1, <2>2, <2>3, DoorKeepsHashes
  <2>5. MediaTypeOK'
    BY <2>1, <2>2
  <2> QED
    BY <2>4, <2>5
<1>20. ASSUME NEW u \in Doors, MarkPending(u)
       PROVE  Typed'
  <2>1. /\ upload' \in [Doors -> DoorType]
        /\ upload'[u].at = "idle" \/ upload'[u].sha = upload[u].sha
        /\ \A v \in Doors \ {u} : upload'[v] = upload[v]
    <3>1. DoorMoves(u, "reset")
      BY <1>20 DEF MarkPending
    <3> QED
      BY <3>1, DoorSteps
  <2>2. row' \in [status : RowStatuses, sha : Bytes]
    BY <1>20 DEF MarkPending, Marked
  <2>3. /\ UNCHANGED <<disk, job, derived, run, removal, retry, bulk, acts, faults, amiss>>
        /\ upload[u].at # "idle"
    BY <1>20 DEF MarkPending
  <2> HIDE DEF JobType, RunType, DoorType, Bytes, RowStatuses, HashesAreKnown
  <2>4. HashesAreKnown'
    BY <2>1, <2>3, DoorKeepsHashes
  <2>5. MediaTypeOK'
    BY <2>1, <2>2, <2>3
  <2> QED
    BY <2>4, <2>5
<1>21. ASSUME NEW u \in Doors, ResetJob(u)
       PROVE  Typed'
  <2> DEFINE named == [job EXCEPT !.sha = upload[u].sha]
  <2>1. named \in JobType /\ named.sha = upload[u].sha
    OBVIOUS
  <2>2. /\ job' \in JobType
        /\ job'.status = "pending" /\ job'.sha = upload[u].sha
    BY <1>21, <2>1, WholeNewRunType DEF ResetJob, SettleWait
  <2>3. /\ upload' \in [Doors -> DoorType]
        /\ upload'[u].at = "idle"
        /\ \A v \in Doors \ {u} : upload'[v] = upload[v]
    BY <1>21, NoneTypes DEF ResetJob, DoorShuts, NoDoor
  <2>4. UNCHANGED <<disk, row, derived, run, removal, retry, bulk, acts, faults, amiss>>
    BY <1>21 DEF ResetJob
  <2>5. upload[u].sha \in Contents
    BY <1>21 DEF ResetJob
  <2> HIDE DEF JobType, RunType, DoorType, Bytes, RowStatuses, HashesAreKnown
  <2>6. HashesAreKnown'
    BY <2>2, <2>3, <2>4, <2>5, DoorKeepsHashes
  <2>7. MediaTypeOK'
    BY <2>2, <2>3, <2>4
  <2> QED
    BY <2>6, <2>7
<1>22. ASSUME NEW u \in Doors, RecordFails(u)
       PROVE  Typed'
  BY <1>22 DEF RecordFails, DoorShuts, NoDoor
<1>23. ASSUME NEW u \in Doors, DispatchFails(u)
       PROVE  Typed'
  <2>1. /\ upload' \in [Doors -> DoorType]
        /\ upload'[u].at = "idle"
        /\ \A v \in Doors \ {u} : upload'[v] = upload[v]
    BY <1>23, NoneTypes DEF DispatchFails, DoorShuts, NoDoor
  <2>2. row' \in [status : RowStatuses, sha : Bytes]
    BY <1>23 DEF DispatchFails, Marked
  <2>3. /\ UNCHANGED <<disk, job, derived, run, removal, retry, bulk, acts>>
        /\ faults' \in 0 .. MaxFaults
        /\ amiss' \subseteq {"swallowed", "crossed", "cut", "overtaken"}
    BY <1>23 DEF DispatchFails
  <2> HIDE DEF JobType, RunType, DoorType, Bytes, RowStatuses, HashesAreKnown
  <2>4. HashesAreKnown'
    BY <2>1, <2>3, DoorKeepsHashes
  <2>5. MediaTypeOK'
    BY <2>1, <2>2, <2>3
  <2> QED
    BY <2>4, <2>5
<1>24. CASE WaitElapses
  <2>1. /\ job' \in JobType
        /\ job'.status = "pending" /\ job'.sha = job.sha
    BY <1>24 DEF WaitElapses
  <2> QED
    BY <1>24, <2>1 DEF WaitElapses
<1>25. CASE RecoverDead
  <2>1. /\ job' \in JobType
        /\ job'.status = "pending" /\ job'.sha = job.sha
    BY <1>25, RecoveredType DEF RecoverDead
  <2> QED
    BY <1>25, <2>1 DEF RecoverDead, Stalled
<1>26. CASE RecoverSlow
  <2>1. /\ job' \in JobType
        /\ job'.status = "pending" /\ job'.sha = job.sha
    BY <1>26, RecoveredType DEF RecoverSlow
  <2> QED
    BY <1>26, <2>1 DEF RecoverSlow, Stalled
<1>27. CASE Remove
  BY <1>27 DEF Remove, AnAct
<1>28. CASE Unlink
  BY <1>28 DEF Unlink
<1>29. CASE CancelJob
  BY <1>29 DEF CancelJob, JobIsCancelled, NoJob
<1>30. CASE RemoveArtefacts
  BY <1>30 DEF RemoveArtefacts
<1>31. CASE RetireRow
  BY <1>31 DEF RetireRow, NoRow, NoRemoval
<1>32. CASE RemovalFails
  BY <1>32 DEF RemovalFails, NoRemoval, CutShort
<1>33. CASE RetryJob
  <2>1. /\ job' \in JobType
        /\ job'.status = "pending" /\ job'.sha = job.sha
    BY <1>33, WholeNewRunType DEF RetryJob, SettleWait
  <2> QED
    BY <1>33, <2>1 DEF RetryJob, AnAct
<1>34. CASE RetryRow
  BY <1>34 DEF RetryRow, Marked
<1>35. CASE BulkRead
  BY <1>35 DEF BulkRead, AnAct
<1>36. CASE BulkRows
  BY <1>36 DEF BulkRows, Marked
<1>37. CASE BulkJobs
  <2>1. CASE job.status = "failed"
    <3>1. job' \in JobType /\ job'.status = "pending" /\ job'.sha = job.sha
      BY <1>37, <2>1, WholeNewRunType DEF BulkJobs
    <3>2. /\ bulk' = "idle"
          /\ UNCHANGED <<disk, row, derived, run, upload, removal, retry, acts,
                         faults, amiss>>
      BY <1>37 DEF BulkJobs
    <3>3. HashesAreKnown'
      BY <2>1, <3>1, <3>2
    <3> HIDE DEF JobType, RunType, DoorType, Bytes, RowStatuses, HashesAreKnown
    <3>4. MediaTypeOK'
      BY <3>1, <3>2
    <3> QED
      BY <3>3, <3>4
  <2>2. CASE job.status # "failed"
    BY <1>37, <2>2 DEF BulkJobs
  <2> QED
    BY <2>1, <2>2
<1>38. CASE Crash
  BY <1>38 DEF Crash, NoRun, NoDoor, NoRemoval, CutShort
<1>39. CASE UNCHANGED vars
  BY <1>39 DEF vars
<1>40. ASSUME NEW r \in Runs, KeepCaption(r)
       PROVE  Typed'
  BY <1>40 DEF KeepCaption, MovesTo, Holds
<1>41. ASSUME NEW r \in Runs, DeferJob(r)
       PROVE  Typed'
  <2> DEFINE n == IF job.attempts = 0 THEN 0 ELSE job.attempts - 1
             d == job.deferrals + 1
  <2>3. n \in Nat /\ d \in 0 .. MaxDeferrals
    BY <1>41, CountType DEF DeferJob
  <2>4. job' = [job EXCEPT !.status = "pending", !.token = None,
                           !.attempts = n, !.waits = TRUE, !.deferrals = d]
    BY <1>41 DEF DeferJob
  <2> HIDE DEF n, d
  <2>1. /\ job' \in JobType
        /\ job'.status = "pending" /\ job'.sha = job.sha
    BY <2>3, <2>4
  <2>2. /\ run' \in [Runs -> RunType]
        /\ run'[r].at = "idle"
        /\ \A q \in Runs \ {r} : run'[q] = run[q]
    BY <1>41 DEF DeferJob, Ends, NoRun
  <2> QED
    BY <1>41, <2>1, <2>2 DEF DeferJob, Holds
<1> QED
  BY <1>1, <1>2, <1>3, <1>4, <1>5, <1>6, <1>7, <1>8, <1>9, <1>10, <1>11,
     <1>12, <1>13, <1>14, <1>15, <1>16, <1>17, <1>18, <1>19, <1>20, <1>21,
     <1>22, <1>23, <1>24, <1>25, <1>26, <1>27, <1>28, <1>29, <1>30, <1>31,
     <1>32, <1>33, <1>34, <1>35, <1>36, <1>37, <1>38, <1>39, <1>40, <1>41
     DEF Next, RunGoesOn, UploadGoesOn,
     RemovalGoesOn, RetryGoesOn, BulkGoesOn

-----------------------------------------------------------------------------
(***************************************************************************)
(* The derived rows.  Most steps leave job, runs and derived rows alone,   *)
(* or take the claim from whoever holds it.                                *)
(***************************************************************************)
LEMMA RowsKept ==
  ASSUME RowsInv, UNCHANGED <<job, run, derived>>
  PROVE  RowsInv'
  BY DEF RowsInv, HolderKnowsTheJob, HolderHasCleared, OneContentsRows, Holds

LEMMA ClaimTaken ==
  ASSUME job'.status \notin {"processing", "complete"}
  PROVE  RowsInv'
  BY DEF RowsInv, HolderKnowsTheJob, HolderHasCleared, OneContentsRows, Holds

\* A run that only moves, and not past its clearing, or that ends.
LEMMA RunMoved ==
  ASSUME RowsInv, NEW r \in Runs, UNCHANGED job,
         derived' \subseteq derived,
         \A q \in Runs \ {r} : run'[q] = run[q],
         run'[r].at # "idle" => /\ run[r].at # "idle"
                                /\ run'[r].sha = run[r].sha,
         run'[r].at \in {"cleared", "written", "present"} =>
             run[r].at \in {"cleared", "written", "present"}
  PROVE  RowsInv'
  BY DEF RowsInv, HolderKnowsTheJob, HolderHasCleared, OneContentsRows, Holds

LEMMA RowsStep == Typed /\ RowsInv /\ [Next]_vars => RowsInv'
<1> SUFFICES ASSUME Typed, RowsInv, [Next]_vars PROVE RowsInv'
  OBVIOUS
<1> USE NoneAssumption DEF Typed, MediaTypeOK
<1>1. ASSUME NEW r \in Runs, Claim(r)
       PROVE  RowsInv'
  <2>1. /\ job'.status = "processing" /\ job'.token = r /\ job'.sha = job.sha
        /\ run'[r].at = "claimed" /\ run'[r].sha = job.sha
    BY <1>1 DEF Claim, JobType
  <2>2. \A q \in Runs \ {r} : run'[q] = run[q]
    BY <1>1 DEF Claim
  <2> QED
    BY <2>1, <2>2
       DEF RowsInv, HolderKnowsTheJob, HolderHasCleared, OneContentsRows,
           Holds
<1>2. ASSUME NEW r \in Runs, Open(r)
       PROVE  RowsInv'
  <2>1. /\ \A q \in Runs \ {r} : run'[q] = run[q]
        /\ run[r].at = "claimed" /\ run'[r].sha = run[r].sha
        /\ run'[r].at \in {"gone", "opened"}
    BY <1>2 DEF Open, RunType, Reconciling
  <2> QED
    BY <1>2, <2>1, RunMoved DEF Open
<1>3. ASSUME NEW r \in Runs, Mark(r)
       PROVE  RowsInv'
  <2>1. /\ \A q \in Runs \ {r} : run'[q] = run[q]
        /\ run[r].at = "opened" /\ run'[r].sha = run[r].sha
        /\ run'[r].at = "marked"
    BY <1>3 DEF Mark, RunType, MovesTo
  <2> QED
    BY <1>3, <2>1, RunMoved DEF Mark
<1>4. ASSUME NEW r \in Runs, Clear(r)
       PROVE  RowsInv'
  <2>1. /\ \A q \in Runs \ {r} : run'[q] = run[q]
        /\ run[r].at = "marked" /\ run'[r].sha = run[r].sha
    BY <1>4 DEF Clear, RunType, MovesTo
  <2>2. derived' \subseteq derived /\ UNCHANGED job
    BY <1>4 DEF Clear
  <2>3. \A d \in derived' : d.stamp = run[r].sha
    BY <1>4 DEF Clear, OfOtherBytes
  <2> QED
    BY <2>1, <2>2, <2>3
       DEF RowsInv, HolderKnowsTheJob, HolderHasCleared, OneContentsRows,
           Holds
<1>5. ASSUME NEW r \in Runs, Write(r)
       PROVE  RowsInv'
  <2>1. /\ \A q \in Runs \ {r} : run'[q] = run[q]
        /\ run[r].at = "cleared" /\ run'[r].sha = run[r].sha
    BY <1>5 DEF Write, RunType, MovesTo
  <2>2. \A d \in derived' : d \in derived \/ d.stamp = run[r].sha
    BY <1>5 DEF Write
  <2>3. Holds(r) /\ UNCHANGED job
    BY <1>5 DEF Write
  <2>4. \A d \in derived : d.stamp = run[r].sha
    BY <2>1, <2>3 DEF RowsInv, HolderHasCleared
  <2> QED
    BY <2>1, <2>2, <2>3, <2>4
       DEF RowsInv, HolderKnowsTheJob, HolderHasCleared, OneContentsRows,
           Holds
<1>6. ASSUME NEW r \in Runs, CheckBytes(r)
       PROVE  RowsInv'
  <2>1. /\ \A q \in Runs \ {r} : run'[q] = run[q]
        /\ run[r].at = "written" /\ run'[r].sha = run[r].sha
        /\ run'[r].at \in {"gone", "present"}
    BY <1>6 DEF CheckBytes, RunType, MovesTo
  <2> QED
    BY <1>6, <2>1, RunMoved DEF CheckBytes
<1>7. ASSUME NEW r \in Runs, Complete(r)
       PROVE  RowsInv'
  <2>1. job'.status = "complete" /\ job'.sha = job.sha /\ derived' = derived
    BY <1>7 DEF Complete, EndJob, JobType
  <2>2. \A d \in derived : d.stamp = job.sha
    BY <1>7 DEF Complete, RowsInv, HolderHasCleared, HolderKnowsTheJob
  <2> QED
    BY <2>1, <2>2
       DEF RowsInv, HolderKnowsTheJob, HolderHasCleared, OneContentsRows,
           Holds
<1>8. ASSUME NEW r \in Runs, Abandon(r)
       PROVE  RowsInv'
  <2>1. run'[r].at = "idle" /\ \A q \in Runs \ {r} : run'[q] = run[q]
    BY <1>8 DEF Abandon, Ends, NoRun
  <2> QED
    BY <1>8, <2>1, RunMoved DEF Abandon
<1>9. ASSUME NEW r \in Runs, Fail(r)
       PROVE  RowsInv'
  <2>1. job'.status \notin {"processing", "complete"}
    BY <1>9, FailedType
  <2> QED
    BY <2>1, ClaimTaken
<1>10. ASSUME NEW r \in Runs, EndIsRefused(r)
       PROVE  RowsInv'
  <2>1. run'[r].at = "idle" /\ \A q \in Runs \ {r} : run'[q] = run[q]
    BY <1>10 DEF EndIsRefused, Ends, NoRun
  <2> QED
    BY <1>10, <2>1, RunMoved DEF EndIsRefused
<1>11. ASSUME NEW r \in Runs, AssertHolds(r)
       PROVE  RowsInv'
  <2>1. /\ \A q \in Runs \ {r} : run'[q] = run[q]
        /\ run[r].at = "gone" /\ run'[r].sha = run[r].sha
        /\ run'[r].at = "cancel"
    BY <1>11 DEF AssertHolds, RunType, MovesTo
  <2> QED
    BY <1>11, <2>1, RunMoved DEF AssertHolds
<1>12. ASSUME NEW r \in Runs, ReconcileCancel(r)
       PROVE  RowsInv'
  <2>1. CASE job'.status = "none"
    BY <2>1, ClaimTaken
  <2>2. CASE UNCHANGED job
    <3>1. /\ \A q \in Runs \ {r} : run'[q] = run[q]
          /\ run[r].at = "cancel" /\ run'[r].sha = run[r].sha
          /\ run'[r].at = "artefacts"
      BY <1>12 DEF ReconcileCancel, RunType, MovesTo
    <3>2. UNCHANGED derived
      BY <1>12 DEF ReconcileCancel
    <3> QED
      BY <2>2, <3>1, <3>2, RunMoved
  <2> QED
    BY <1>12, <2>1, <2>2 DEF ReconcileCancel, JobIsCancelled, NoJob
<1>13. ASSUME NEW r \in Runs, ReconcileArtefacts(r)
       PROVE  RowsInv'
  <2>1. /\ \A q \in Runs \ {r} : run'[q] = run[q]
        /\ run[r].at = "artefacts" /\ run'[r].sha = run[r].sha
        /\ run'[r].at = "retire"
    BY <1>13 DEF ReconcileArtefacts, RunType, MovesTo
  <2>2. derived' \subseteq derived /\ UNCHANGED job
    BY <1>13 DEF ReconcileArtefacts
  <2> QED
    BY <2>1, <2>2, RunMoved
<1>14. ASSUME NEW r \in Runs, ReconcileRetire(r)
       PROVE  RowsInv'
  <2>1. run'[r].at = "idle" /\ \A q \in Runs \ {r} : run'[q] = run[q]
    BY <1>14 DEF ReconcileRetire, Ends, NoRun
  <2> QED
    BY <1>14, <2>1, RunMoved DEF ReconcileRetire
<1>15. ASSUME NEW r \in Runs, Release(r)
       PROVE  RowsInv'
  <2>1. job'.status \notin {"processing", "complete"}
    BY <1>15 DEF Release, JobType
  <2> QED
    BY <2>1, ClaimTaken
<1>16. ASSUME NEW u \in Doors, NEW c \in Contents, WriteBytes(u, c)
       PROVE  RowsInv'
  BY <1>16, RowsKept DEF WriteBytes
<1>17. ASSUME NEW u \in Doors, ReadPrior(u)
       PROVE  RowsInv'
  BY <1>17, RowsKept DEF ReadPrior
<1>18. ASSUME NEW u \in Doors, WriteRow(u)
       PROVE  RowsInv'
  BY <1>18, RowsKept DEF WriteRow
<1>19. ASSUME NEW u \in Doors, ReadJob(u)
       PROVE  RowsInv'
  BY <1>19, RowsKept DEF ReadJob
<1>20. ASSUME NEW u \in Doors, MarkPending(u)
       PROVE  RowsInv'
  BY <1>20, RowsKept DEF MarkPending
<1>21. ASSUME NEW u \in Doors, ResetJob(u)
       PROVE  RowsInv'
  <2>1. [job EXCEPT !.sha = upload[u].sha] \in JobType
    BY DEF JobType, DoorType
  <2>2. job'.status = "pending"
    BY <1>21, <2>1, WholeNewRunType DEF ResetJob, SettleWait
  <2> QED
    BY <2>2, ClaimTaken
<1>22. ASSUME NEW u \in Doors, RecordFails(u)
       PROVE  RowsInv'
  BY <1>22, RowsKept DEF RecordFails
<1>23. ASSUME NEW u \in Doors, DispatchFails(u)
       PROVE  RowsInv'
  BY <1>23, RowsKept DEF DispatchFails
<1>24. CASE WaitElapses
  <2>1. job'.status \notin {"processing", "complete"}
    BY <1>24 DEF WaitElapses, JobType
  <2> QED
    BY <2>1, ClaimTaken
<1>25. CASE RecoverDead
  <2>1. job'.status = "pending"
    BY <1>25, RecoveredType DEF RecoverDead
  <2> QED
    BY <2>1, ClaimTaken
<1>26. CASE RecoverSlow
  <2>1. job'.status = "pending"
    BY <1>26, RecoveredType DEF RecoverSlow
  <2> QED
    BY <2>1, ClaimTaken
<1>27. CASE Remove
  BY <1>27, RowsKept DEF Remove
<1>28. CASE Unlink
  BY <1>28, RowsKept DEF Unlink
<1>29. CASE CancelJob
  <2>1. job'.status \notin {"processing", "complete"}
    BY <1>29 DEF CancelJob, JobIsCancelled, NoJob
  <2> QED
    BY <2>1, ClaimTaken
<1>30. CASE RemoveArtefacts
  BY <1>30
     DEF RemoveArtefacts, RowsInv, HolderKnowsTheJob, HolderHasCleared,
         OneContentsRows, Holds
<1>31. CASE RetireRow
  BY <1>31, RowsKept DEF RetireRow
<1>32. CASE RemovalFails
  BY <1>32, RowsKept DEF RemovalFails
<1>33. CASE RetryJob
  <2>1. job'.status = "pending"
    BY <1>33, WholeNewRunType DEF RetryJob, SettleWait
  <2> QED
    BY <2>1, ClaimTaken
<1>34. CASE RetryRow
  BY <1>34, RowsKept DEF RetryRow
<1>35. CASE BulkRead
  BY <1>35, RowsKept DEF BulkRead
<1>36. CASE BulkRows
  BY <1>36, RowsKept DEF BulkRows
<1>37. CASE BulkJobs
  <2>1. UNCHANGED <<run, derived>> /\ (UNCHANGED job \/ job'.status = "pending")
    BY <1>37, WholeNewRunType DEF BulkJobs
  <2> QED
    BY <2>1, RowsKept, ClaimTaken
<1>38. CASE Crash
  <2>1. \A r \in Runs : run'[r].at = "idle"
    BY <1>38 DEF Crash, NoRun
  <2> QED
    BY <1>38, <2>1
       DEF Crash, RowsInv, HolderKnowsTheJob, HolderHasCleared,
           OneContentsRows, Holds
<1>39. CASE UNCHANGED vars
  BY <1>39, RowsKept DEF vars
<1>40. ASSUME NEW r \in Runs, KeepCaption(r)
       PROVE  RowsInv'
  <2>1. /\ \A q \in Runs \ {r} : run'[q] = run[q]
        /\ run[r].at = "cleared" /\ run'[r].sha = run[r].sha
    BY <1>40 DEF KeepCaption, RunType, MovesTo
  <2> QED
    BY <1>40, <2>1, RunMoved DEF KeepCaption
<1>41. ASSUME NEW r \in Runs, DeferJob(r)
       PROVE  RowsInv'
  <2>1. job'.status \notin {"processing", "complete"}
    BY <1>41 DEF DeferJob, JobType
  <2> QED
    BY <2>1, ClaimTaken
<1> QED
  BY <1>1, <1>2, <1>3, <1>4, <1>5, <1>6, <1>7, <1>8, <1>9, <1>10, <1>11,
     <1>12, <1>13, <1>14, <1>15, <1>16, <1>17, <1>18, <1>19, <1>20, <1>21,
     <1>22, <1>23, <1>24, <1>25, <1>26, <1>27, <1>28, <1>29, <1>30, <1>31,
     <1>32, <1>33, <1>34, <1>35, <1>36, <1>37, <1>38, <1>39, <1>40, <1>41
     DEF Next,
     RunGoesOn, UploadGoesOn, RemovalGoesOn, RetryGoesOn, BulkGoesOn

-----------------------------------------------------------------------------
(***************************************************************************)
(* Removals: between its cancel and the end of a removal nobody can claim  *)
(* the job, so what is removed stays removed.                              *)
(***************************************************************************)
LEMMA OrphanStep == Typed /\ OrphanInv /\ [Next]_vars => OrphanInv'
<1> SUFFICES ASSUME Typed, OrphanInv, [Next]_vars PROVE OrphanInv'
  OBVIOUS
<1> USE NoneAssumption
<1> USE DEF Typed, MediaTypeOK, OrphanInv, AfterCancel, BeforeRetire,
        NobodyHolds, NoOrphanRows, doors
<1>1. ASSUME NEW r \in Runs, Claim(r)
       PROVE  OrphanInv'
  BY <1>1 DEF Claim
<1>2. ASSUME NEW r \in Runs, Open(r)
       PROVE  OrphanInv'
  BY <1>2 DEF Open
<1>3. ASSUME NEW r \in Runs, Mark(r)
       PROVE  OrphanInv'
  BY <1>3 DEF Mark, Marked, MovesTo, Holds
<1>4. ASSUME NEW r \in Runs, Clear(r)
       PROVE  OrphanInv'
  BY <1>4 DEF Clear, OfOtherBytes, MovesTo, Holds
<1>5. ASSUME NEW r \in Runs, Write(r)
       PROVE  OrphanInv'
  BY <1>5 DEF Write, MovesTo, Holds, ParentIsLive
<1>6. ASSUME NEW r \in Runs, CheckBytes(r)
       PROVE  OrphanInv'
  BY <1>6 DEF CheckBytes, MovesTo
<1>7. ASSUME NEW r \in Runs, Complete(r)
       PROVE  OrphanInv'
  BY <1>7 DEF Complete, EndJob, Marked, Ends, NoRun, Holds
<1>8. ASSUME NEW r \in Runs, Abandon(r)
       PROVE  OrphanInv'
  BY <1>8 DEF Abandon, Ends, NoRun, Holds
<1>9. ASSUME NEW r \in Runs, Fail(r)
       PROVE  OrphanInv'
  BY <1>9 DEF Fail, EndJob, Marked, Ends, NoRun, Holds
<1>10. ASSUME NEW r \in Runs, EndIsRefused(r)
       PROVE  OrphanInv'
  BY <1>10 DEF EndIsRefused, Ends, NoRun
<1>11. ASSUME NEW r \in Runs, AssertHolds(r)
       PROVE  OrphanInv'
  BY <1>11 DEF AssertHolds, MovesTo, Holds
<1>12. ASSUME NEW r \in Runs, ReconcileCancel(r)
       PROVE  OrphanInv'
  BY <1>12 DEF ReconcileCancel, JobIsCancelled, NoJob, Swallowed, MovesTo
<1>13. ASSUME NEW r \in Runs, ReconcileArtefacts(r)
       PROVE  OrphanInv'
  BY <1>13 DEF ReconcileArtefacts, Swallowed, MovesTo
<1>14. ASSUME NEW r \in Runs, ReconcileRetire(r)
       PROVE  OrphanInv'
  BY <1>14 DEF ReconcileRetire, Swallowed, Ends, NoRun, NoRow
<1>15. ASSUME NEW r \in Runs, Release(r)
       PROVE  OrphanInv'
  BY <1>15 DEF Release, Holds
<1>16. ASSUME NEW u \in Doors, NEW c \in Contents, WriteBytes(u, c)
       PROVE  OrphanInv'
  BY <1>16 DEF WriteBytes, AnAct
<1>17. ASSUME NEW u \in Doors, ReadPrior(u)
       PROVE  OrphanInv'
  BY <1>17 DEF ReadPrior, Settled
<1>18. ASSUME NEW u \in Doors, WriteRow(u)
       PROVE  OrphanInv'
  BY <1>18 DEF WriteRow, DoorShuts, DoorMoves, NoDoor
<1>19. ASSUME NEW u \in Doors, ReadJob(u)
       PROVE  OrphanInv'
  BY <1>19 DEF ReadJob, DoorShuts, DoorMoves, NoDoor
<1>20. ASSUME NEW u \in Doors, MarkPending(u)
       PROVE  OrphanInv'
  BY <1>20 DEF MarkPending, Marked, DoorMoves
<1>21. ASSUME NEW u \in Doors, ResetJob(u)
       PROVE  OrphanInv'
  BY <1>21 DEF ResetJob, WholeNewRun, SettleWait, DoorShuts, NoDoor
<1>22. ASSUME NEW u \in Doors, RecordFails(u)
       PROVE  OrphanInv'
  BY <1>22 DEF RecordFails, DoorShuts, NoDoor
<1>23. ASSUME NEW u \in Doors, DispatchFails(u)
       PROVE  OrphanInv'
  BY <1>23 DEF DispatchFails, Marked, DoorShuts, NoDoor
<1>24. CASE WaitElapses
  BY <1>24 DEF WaitElapses, NothingIsHalfDone, Reconciling
<1>25. CASE RecoverDead
  BY <1>25 DEF RecoverDead, Stalled, HeldByALiveRun, Recovered
<1>26. CASE RecoverSlow
  BY <1>26 DEF RecoverSlow, Stalled, HeldByALiveRun, Recovered
<1>27. CASE Remove
  BY <1>27 DEF Remove, AnAct
<1>28. CASE Unlink
  BY <1>28 DEF Unlink
<1>29. CASE CancelJob
  BY <1>29 DEF CancelJob, JobIsCancelled, NoJob
<1>30. CASE RemoveArtefacts
  BY <1>30 DEF RemoveArtefacts
<1>31. CASE RetireRow
  BY <1>31 DEF RetireRow, NoRow, NoRemoval
<1>32. CASE RemovalFails
  BY <1>32 DEF RemovalFails, NoRemoval, CutShort
<1>33. CASE RetryJob
  BY <1>33 DEF RetryJob, AnAct, WholeNewRun, SettleWait
<1>34. CASE RetryRow
  BY <1>34 DEF RetryRow, Marked
<1>35. CASE BulkRead
  BY <1>35 DEF BulkRead, AnAct
<1>36. CASE BulkRows
  BY <1>36 DEF BulkRows, Marked
<1>37. CASE BulkJobs
  BY <1>37 DEF BulkJobs, WholeNewRun
<1>38. CASE Crash
  BY <1>38 DEF Crash, NoRun, NoDoor, NoRemoval, CutShort
<1>39. CASE UNCHANGED vars
  BY <1>39 DEF vars, doors
<1>40. ASSUME NEW r \in Runs, KeepCaption(r)
       PROVE  OrphanInv'
  BY <1>40 DEF KeepCaption, MovesTo, Holds
<1>41. ASSUME NEW r \in Runs, DeferJob(r)
       PROVE  OrphanInv'
  BY <1>41 DEF DeferJob, Ends, NoRun, Holds
<1> QED
  BY <1>1, <1>2, <1>3, <1>4, <1>5, <1>6, <1>7, <1>8, <1>9, <1>10, <1>11,
     <1>12, <1>13, <1>14, <1>15, <1>16, <1>17, <1>18, <1>19, <1>20, <1>21,
     <1>22, <1>23, <1>24, <1>25, <1>26, <1>27, <1>28, <1>29, <1>30, <1>31,
     <1>32, <1>33, <1>34, <1>35, <1>36, <1>37, <1>38, <1>39, <1>40, <1>41
     DEF Next,
     RunGoesOn, UploadGoesOn, RemovalGoesOn, RetryGoesOn, BulkGoesOn

-----------------------------------------------------------------------------
(***************************************************************************)
(* A row that waits: each door writes the row and the job so that, between *)
(* doors, one never shows work the other does not hold.                    *)
(***************************************************************************)
LEMMA AwaitStep == Typed /\ AwaitInv /\ [Next]_vars => AwaitInv'
<1> SUFFICES ASSUME Typed, AwaitInv, [Next]_vars PROVE AwaitInv'
  OBVIOUS
<1> USE DEF Typed, MediaTypeOK, AwaitInv, RetriedJobWaits,
        AwaitedThroughBulk, doors
<1>1. ASSUME NEW r \in Runs, Claim(r)
       PROVE  AwaitInv'
  BY <1>1 DEF Claim
<1>2. ASSUME NEW r \in Runs, Open(r)
       PROVE  AwaitInv'
  BY <1>2 DEF Open
<1>3. ASSUME NEW r \in Runs, Mark(r)
       PROVE  AwaitInv'
  BY <1>3 DEF Mark, Marked, MovesTo, Holds
<1>4. ASSUME NEW r \in Runs, Clear(r)
       PROVE  AwaitInv'
  BY <1>4 DEF Clear, OfOtherBytes, MovesTo, Holds
<1>5. ASSUME NEW r \in Runs, Write(r)
       PROVE  AwaitInv'
  BY <1>5 DEF Write, MovesTo, Holds, ParentIsLive
<1>6. ASSUME NEW r \in Runs, CheckBytes(r)
       PROVE  AwaitInv'
  BY <1>6 DEF CheckBytes, MovesTo
<1>7. ASSUME NEW r \in Runs, Complete(r)
       PROVE  AwaitInv'
  BY <1>7 DEF Complete, EndJob, Marked, Ends, NoRun, Holds
<1>8. ASSUME NEW r \in Runs, Abandon(r)
       PROVE  AwaitInv'
  BY <1>8 DEF Abandon, Ends, NoRun, Working
<1>9. ASSUME NEW r \in Runs, Fail(r)
       PROVE  AwaitInv'
  <2>1. run[r].at \notin {"artefacts", "retire"}
    BY <1>9 DEF Fail, Working
  <2>2. /\ run'[r].at = "idle"
        /\ \A q \in Runs \ {r} : run'[q] = run[q]
    BY <1>9 DEF Fail, Ends, NoRun
  <2>3. job.status = "processing"
    BY <1>9 DEF Fail, Holds
  <2>4. \/ row' = row /\ job'.status = "pending"
        \/ row'.status \in {"absent", "failed"}
    BY <1>9, FailedType DEF Marked
  <2>5. UNCHANGED <<upload, removal, retry, bulk, amiss>>
    BY <1>9 DEF Fail
  <2>6. RetriedJobWaits'
    BY <2>3, <2>5
  <2>7. AwaitedThroughBulk'
    BY <2>1, <2>2, <2>3, <2>4, <2>5
  <2> QED
    BY <2>6, <2>7
<1>10. ASSUME NEW r \in Runs, EndIsRefused(r)
       PROVE  AwaitInv'
  BY <1>10 DEF EndIsRefused, Ends, NoRun, Working
<1>11. ASSUME NEW r \in Runs, AssertHolds(r)
       PROVE  AwaitInv'
  BY <1>11 DEF AssertHolds, MovesTo, Holds
<1>12. ASSUME NEW r \in Runs, ReconcileCancel(r)
       PROVE  AwaitInv'
  BY <1>12 DEF ReconcileCancel, JobIsCancelled, NoJob, Swallowed, MovesTo
<1>13. ASSUME NEW r \in Runs, ReconcileArtefacts(r)
       PROVE  AwaitInv'
  BY <1>13 DEF ReconcileArtefacts, Swallowed, MovesTo
<1>14. ASSUME NEW r \in Runs, ReconcileRetire(r)
       PROVE  AwaitInv'
  <2>1. /\ UNCHANGED <<job, upload, removal, retry, bulk>>
        /\ \/ row' = NoRow /\ amiss' = amiss
           \/ row' = row /\ "swallowed" \in amiss'
    BY <1>14 DEF ReconcileRetire, Swallowed
  <2>2. amiss' # {} \/ (amiss' = amiss /\ row'.status = "absent")
    BY <2>1 DEF NoRow
  <2> QED
    BY <2>1, <2>2
<1>15. ASSUME NEW r \in Runs, Release(r)
       PROVE  AwaitInv'
  BY <1>15 DEF Release, Holds
<1>16. ASSUME NEW u \in Doors, NEW c \in Contents, WriteBytes(u, c)
       PROVE  AwaitInv'
  BY <1>16 DEF WriteBytes, AnAct
<1>17. ASSUME NEW u \in Doors, ReadPrior(u)
       PROVE  AwaitInv'
  BY <1>17 DEF ReadPrior, Settled
<1>18. ASSUME NEW u \in Doors, WriteRow(u)
       PROVE  AwaitInv'
  BY <1>18 DEF WriteRow, DoorShuts, DoorMoves, NoDoor
<1>19. ASSUME NEW u \in Doors, ReadJob(u)
       PROVE  AwaitInv'
  BY <1>19 DEF ReadJob, DoorShuts, DoorMoves, NoDoor
<1>20. ASSUME NEW u \in Doors, MarkPending(u)
       PROVE  AwaitInv'
  BY <1>20 DEF MarkPending, Marked, DoorMoves
<1>21. ASSUME NEW u \in Doors, ResetJob(u)
       PROVE  AwaitInv'
  BY <1>21 DEF ResetJob, WholeNewRun, SettleWait, DoorShuts, NoDoor
<1>22. ASSUME NEW u \in Doors, RecordFails(u)
       PROVE  AwaitInv'
  BY <1>22 DEF RecordFails, DoorShuts, NoDoor
<1>23. ASSUME NEW u \in Doors, DispatchFails(u)
       PROVE  AwaitInv'
  BY <1>23 DEF DispatchFails, Marked, DoorShuts, NoDoor
<1>24. CASE WaitElapses
  BY <1>24 DEF WaitElapses, NothingIsHalfDone, Reconciling
<1>25. CASE RecoverDead
  BY <1>25 DEF RecoverDead, Stalled, HeldByALiveRun, Recovered
<1>26. CASE RecoverSlow
  BY <1>26 DEF RecoverSlow, Stalled, HeldByALiveRun, Recovered
<1>27. CASE Remove
  BY <1>27 DEF Remove, AnAct
<1>28. CASE Unlink
  BY <1>28 DEF Unlink
<1>29. CASE CancelJob
  BY <1>29 DEF CancelJob, JobIsCancelled, NoJob
<1>30. CASE RemoveArtefacts
  BY <1>30 DEF RemoveArtefacts
<1>31. CASE RetireRow
  BY <1>31 DEF RetireRow, NoRow, NoRemoval
<1>32. CASE RemovalFails
  BY <1>32 DEF RemovalFails, NoRemoval, CutShort
<1>33. CASE RetryJob
  BY <1>33 DEF RetryJob, AnAct, WholeNewRun, SettleWait
<1>34. CASE RetryRow
  BY <1>34 DEF RetryRow, Marked
<1>35. CASE BulkRead
  BY <1>35 DEF BulkRead, AnAct
<1>36. CASE BulkRows
  BY <1>36 DEF BulkRows, Marked
<1>37. CASE BulkJobs
  BY <1>37 DEF BulkJobs, WholeNewRun
<1>38. CASE Crash
  BY <1>38 DEF Crash, NoRun, NoDoor, NoRemoval, CutShort
<1>39. CASE UNCHANGED vars
  BY <1>39 DEF vars, doors
<1>40. ASSUME NEW r \in Runs, KeepCaption(r)
       PROVE  AwaitInv'
  BY <1>40 DEF KeepCaption, MovesTo, Holds
<1>41. ASSUME NEW r \in Runs, DeferJob(r)
       PROVE  AwaitInv'
  <2>1. run[r].at \notin {"artefacts", "retire"}
    BY <1>41 DEF DeferJob
  <2>2. /\ run'[r].at = "idle"
        /\ \A q \in Runs \ {r} : run'[q] = run[q]
    BY <1>41 DEF DeferJob, Ends, NoRun
  <2>3. job.status = "processing" /\ job'.status = "pending" /\ row' = row
    BY <1>41 DEF DeferJob, Holds, JobType
  <2> QED
    BY <1>41, <2>1, <2>2, <2>3 DEF DeferJob
<1> QED
  BY <1>1, <1>2, <1>3, <1>4, <1>5, <1>6, <1>7, <1>8, <1>9, <1>10, <1>11,
     <1>12, <1>13, <1>14, <1>15, <1>16, <1>17, <1>18, <1>19, <1>20, <1>21,
     <1>22, <1>23, <1>24, <1>25, <1>26, <1>27, <1>28, <1>29, <1>30, <1>31,
     <1>32, <1>33, <1>34, <1>35, <1>36, <1>37, <1>38, <1>39, <1>40, <1>41
     DEF Next,
     RunGoesOn, UploadGoesOn, RemovalGoesOn, RetryGoesOn, BulkGoesOn

-----------------------------------------------------------------------------
(***************************************************************************)
(* The theorems.                                                           *)
(***************************************************************************)
LEMMA InitHolds == Init => Typed /\ RowsInv /\ OrphanInv /\ AwaitInv
<1> SUFFICES ASSUME Init PROVE Typed /\ RowsInv /\ OrphanInv /\ AwaitInv
  OBVIOUS
<1> USE DEF Init
<1>1. MediaTypeOK
  BY NoneTypes, BoundAssumption
     DEF MediaTypeOK, Bytes, NoJob, NoRemoval, RowStatuses
<1>2. HashesAreKnown
  BY DEF HashesAreKnown, NoJob, NoRun, NoDoor
<1>3. RowsInv
  BY DEF RowsInv, HolderKnowsTheJob, HolderHasCleared, OneContentsRows, NoRun
<1>4. OrphanInv
  BY DEF OrphanInv, AfterCancel, BeforeRetire, NobodyHolds, NoOrphanRows, NoJob
<1>5. AwaitInv
  BY DEF AwaitInv, RetriedJobWaits, AwaitedThroughBulk, NoRow
<1> QED
  BY <1>1, <1>2, <1>3, <1>4, <1>5 DEF Typed

\* The parts are kept by every step together (every write of the job, of the
\* row and of the derived rows).
THEOREM Inductive == Spec => [](Typed /\ RowsInv /\ OrphanInv /\ AwaitInv)
<1>1. /\ Typed /\ RowsInv /\ OrphanInv /\ AwaitInv
      /\ [Next]_vars
      => (Typed /\ RowsInv /\ OrphanInv /\ AwaitInv)'
  BY TypedStep, RowsStep, OrphanStep, AwaitStep
<1> QED
  BY InitHolds, <1>1, PTL DEF Spec

\* Every state of the file, its job, its runs and its doors is of its type,
\* and a job that is processing names the claim that holds it (claimNextJob).
THEOREM MediaTypeCorrect == Spec => []MediaTypeOK
<1>1. Typed => MediaTypeOK
  BY DEF Typed
<1> QED
  BY Inductive, <1>1, PTL

\* With any number of runs that lost their claims, and of uploads at once, a
\* job that ended well left the rows of its own hash only (writeUnderClaim,
\* clearRowsOfOtherBytes).
THEOREM RowsAreOfOneContents == Spec => []OneContentsRows
<1>1. RowsInv => OneContentsRows
  BY DEF RowsInv
<1> QED
  BY Inductive, <1>1, PTL

\* A removal and any late runs leave no derived row of a file that is gone
\* (removeFileHere, upsertDerivedFileRow).
THEOREM RemovalsLeaveNoRows == Spec => []NoOrphanRows
<1>1. OrphanInv => NoOrphanRows
  BY DEF OrphanInv
<1> QED
  BY Inductive, <1>1, PTL

\* Outside the two writes of a door, a row that shows work has a job that will
\* do it (endJob, retryJob, replaceContent).
THEOREM PendingRowsHaveJobs == Spec => []RowAwaitsItsJob
<1>1. AwaitInv => RowAwaitsItsJob
  BY DEF AwaitInv, AwaitedThroughBulk, RowAwaitsItsJob, BetweenTwoWrites
<1> QED
  BY Inductive, <1>1, PTL
=============================================================================
