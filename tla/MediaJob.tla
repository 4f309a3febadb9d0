------------------------------ MODULE MediaJob ------------------------------
(***************************************************************************)
(* One media file and the job that analyses it: the upload door            *)
(* (files/store-file.ts, dispatch.ts, media/job-queue.ts replaceContent),  *)
(* the runs of the worker (media/worker.ts) whose writes are fenced by the *)
(* claim they hold on the job (media/lease.ts), stall recovery, release    *)
(* and the two retries (media/job-queue.ts), and the removal of the file   *)
(* (files/delete-cascade.ts, remove-file-here.ts).                         *)
(*                                                                         *)
(* The file is an image, a recording or a film whose hash is known, so     *)
(* every derived row carries a stamp; contents stand for their hashes.     *)
(* A run's slot names the claim token it drew: slots do not overlap, and   *)
(* neither do tokens.                                                      *)
(***************************************************************************)
EXTENDS Naturals

CONSTANTS
    Runs,         \* slots of the worker
    Doors,        \* uploads that may be under way together
    Contents,     \* what the file may hold
    None,         \* no bytes, no token
    MaxAttempts,  \* attempts of a job (MAX_ATTEMPTS)
    MaxDeferrals, \* deferrals before the cap (DEFERRAL_CAP_MS)
    MaxActs,      \* BOUND: uploads, removals and retries
    MaxFaults     \* BOUND: crashes, failed steps, claims taken from live runs

ASSUME NoneAssumption == None \notin Runs \cup Contents
ASSUME AttemptsAssumption == MaxAttempts \in Nat \ {0} /\ MaxDeferrals \in Nat
ASSUME BoundAssumption == MaxActs \in Nat /\ MaxFaults \in Nat

VARIABLES
    disk,     \* the bytes at the path
    row,      \* the file's row: its processing state and its hash
    job,      \* the job at the path
    derived,  \* the derived rows: the hash each is stamped with, and the
              \* bytes it was really made of
    run,      \* each slot of the worker
    upload,   \* each upload
    removal,  \* the removal: where it stands, and whether it saw bytes
    retry,    \* retryJob: "row" between its two writes
    bulk,     \* retryFailedJobs: between its read and its two writes
    acts, faults,
    amiss     \* history: what happened that nothing in the code repairs

doors == <<upload, removal, retry, bulk>>
vars  == <<disk, row, job, derived, run, doors, acts, faults, amiss>>

RowStatuses == {"absent", "none", "pending", "processing", "complete",
                "failed"}
JobStatuses == {"none", "pending", "processing", "complete", "failed"}
Reconciling == {"cancel", "artefacts", "retire"}
Working     == {"claimed", "opened", "marked", "cleared", "written",
                "present"}
RunStages   == {"idle", "gone"} \cup Working \cup Reconciling
DoorStages  == {"idle", "bytes", "row", "dispatch", "pending", "reset"}

NoRow  == [status |-> "absent", sha |-> None]
NoJob  == [status |-> "none", token |-> None, attempts |-> 0, sha |-> None,
           waits |-> FALSE, deferrals |-> 0]
NoRun  == [at |-> "idle", sha |-> None, of |-> None]
NoDoor == [at |-> "idle", sha |-> None, settled |-> FALSE]
NoRemoval == [at |-> "idle", present |-> FALSE]

Init ==
    /\ disk = None
    /\ row = NoRow
    /\ job = NoJob
    /\ derived = {}
    /\ run = [r \in Runs |-> NoRun]
    /\ upload = [u \in Doors |-> NoDoor]
    /\ removal = NoRemoval
    /\ retry = "idle"
    /\ bulk = "idle"
    /\ acts = 0
    /\ faults = 0
    /\ amiss = {}

-----------------------------------------------------------------------------
(***************************************************************************)
(* The job's document, the row, and the claim.                             *)
(***************************************************************************)

\* The run holds the job: processing, and under its token.  While it does, the
\* job is as the run was handed it.  The variant forgets the token.
SomeRunHolds(r) == job.status = "processing"
Holds(r) == job.status = "processing" /\ job.token = r

\* setFileProcessingState: a row that is not there takes no mark.
Marked(status) ==
    IF row.status = "absent" THEN row ELSE [row EXCEPT !.status = status]

\* A derived row is stored only while its parent is there.
ParentIsLive == row.status # "absent"

\* A job written by an upload or by a manual retry may not be claimed for
\* REPLACE_SETTLE_MS.
ClaimableAtOnce == FALSE
SettleWait == TRUE

\* RUN_RESET, RUN_RESET_UNSET
WholeNewRun(j, wait) ==
    [j EXCEPT !.status = "pending", !.token = None, !.attempts = 0,
              !.waits = wait, !.deferrals = 0]

\* What stall recovery leaves: claimable now, and the old token gone.
TokenCleared(j) ==
    [j EXCEPT !.token = None, !.attempts = @ + 1, !.waits = FALSE]
Recovered(j) ==
    [j EXCEPT !.status = "pending", !.token = None,
              !.attempts = @ + 1, !.waits = FALSE]

\* The wait of a job outlasts what is left of a door or of a reconcile that
\* was under way when it was written: the purpose of REPLACE_SETTLE_MS, and an
\* assumption on the time a few store calls take.
NothingIsHalfDone ==
    /\ \A u \in Doors : upload[u].at = "idle"
    /\ removal.at = "idle"
    /\ retry = "idle"
    /\ bulk = "idle"
    /\ \A r \in Runs : run[r].at \notin Reconciling

WaitElapses ==
    /\ job.status = "pending" /\ job.waits
    /\ NothingIsHalfDone
    /\ job' = [job EXCEPT !.waits = FALSE]
    /\ UNCHANGED <<disk, row, derived, run, doors, acts, faults, amiss>>

-----------------------------------------------------------------------------
(***************************************************************************)
(* A run (claimNextJob, processJob).  A run that lost its claim finds out  *)
(* at its next fenced write or heartbeat, and stops.                       *)
(***************************************************************************)
MovesTo(r, stage) == run' = [run EXCEPT ![r].at = stage]
Ends(r) == run' = [run EXCEPT ![r] = NoRun]

Claim(r) ==
    /\ run[r].at = "idle"
    /\ job.status = "pending" /\ ~job.waits
    /\ job' = [job EXCEPT !.status = "processing", !.token = r,
                          !.attempts = @ + 1]
    /\ run' = [run EXCEPT ![r] = [at |-> "claimed", sha |-> job.sha,
                                  of |-> None]]
    /\ UNCHANGED <<disk, row, derived, doors, acts, faults, amiss>>

\* openPlaintextFile: the bytes that are there now.
Open(r) ==
    /\ run[r].at = "claimed"
    /\ run' = [run EXCEPT ![r] =
                  [at |-> IF disk = None THEN "gone" ELSE "opened",
                   sha |-> run[r].sha, of |-> disk]]
    /\ UNCHANGED <<disk, row, job, derived, doors, acts, faults, amiss>>

\* markFileProcessing: a mark the store refuses is not waited for.
Mark(r) ==
    /\ run[r].at = "opened"
    /\ \/ Holds(r) /\ row' = Marked("processing")
       \/ UNCHANGED row
    /\ MovesTo(r, "marked")
    /\ UNCHANGED <<disk, job, derived, doors, acts, faults, amiss>>

\* clearRowsOfOtherBytes: with nothing to clear there is no fenced write.
OfOtherBytes(r) == {d \in derived : d.stamp # run[r].sha}

Clear(r) ==
    /\ run[r].at = "marked"
    /\ OfOtherBytes(r) = {} \/ Holds(r)
    /\ derived' = derived \ OfOtherBytes(r)
    /\ MovesTo(r, "cleared")
    /\ UNCHANGED <<disk, row, job, doors, acts, faults, amiss>>

\* upsertDerivedFileRow, after the model's answer.
Write(r) ==
    /\ run[r].at = "cleared"
    /\ Holds(r)
    /\ derived' = IF ParentIsLive
                  THEN derived \cup {[stamp |-> run[r].sha, of |-> run[r].of]}
                  ELSE derived
    /\ MovesTo(r, "written")
    /\ UNCHANGED <<disk, row, job, doors, acts, faults, amiss>>

\* The run of a deferred job (facesOnly) keeps the caption that is stored, if
\* one is.
KeepCaption(r) ==
    /\ run[r].at = "cleared"
    /\ Holds(r) /\ job.deferrals > 0
    /\ derived # {}
    /\ MovesTo(r, "written")
    /\ UNCHANGED <<disk, row, job, derived, doors, acts, faults, amiss>>

\* deferJob: the face gallery cannot answer.  The job goes back behind a wait
\* with its attempt, as long as the cap counted from its first deferral lasts.
DeferJob(r) ==
    /\ run[r].at = "written"
    /\ Holds(r)
    /\ job.deferrals < MaxDeferrals
    /\ job' = [job EXCEPT !.status = "pending", !.token = None,
                          !.attempts = IF @ = 0 THEN 0 ELSE @ - 1,
                          !.waits = TRUE, !.deferrals = @ + 1]
    /\ Ends(r)
    /\ UNCHANGED <<disk, row, derived, doors, acts, faults, amiss>>

\* bytesPresent, asked after the writes.
CheckBytes(r) ==
    /\ run[r].at = "written"
    /\ MovesTo(r, IF disk = None THEN "gone" ELSE "present")
    /\ UNCHANGED <<disk, row, job, derived, doors, acts, faults, amiss>>

\* endJob: the row and the job in one transaction under the claim; a
\* deferral's marks end with the job.
EndJob(status) ==
    /\ row' = Marked(status)
    /\ job' = [job EXCEPT !.status = status, !.deferrals = 0]

Complete(r) ==
    /\ run[r].at = "present"
    /\ Holds(r)
    /\ EndJob("complete")
    /\ Ends(r)
    /\ UNCHANGED <<disk, derived, doors, acts, faults, amiss>>

\* failJob: behind a backoff while attempts are left, ended otherwise.  Stored
\* bytes that cannot be decoded, found when they are opened, end the job at
\* once; the row's mark just before is the same mark.
Fail(r) ==
    /\ run[r].at \in Working
    /\ Holds(r)
    /\ \/ /\ job.attempts < MaxAttempts
          /\ job' = [job EXCEPT !.status = "pending", !.waits = TRUE]
          /\ UNCHANGED row
       \/ /\ job.attempts >= MaxAttempts \/ run[r].at = "claimed"
          /\ EndJob("failed")
    /\ Ends(r)
    /\ UNCHANGED <<disk, derived, doors, acts, faults, amiss>>

Abandon(r) ==
    /\ run[r].at \in Working \cup {"gone"}
    /\ ~Holds(r)
    /\ Ends(r)
    /\ UNCHANGED <<disk, row, job, derived, doors, acts, faults, amiss>>

\* The store refused the end the run wanted to record: the job stays claimed.
EndIsRefused(r) ==
    /\ run[r].at \in Working \cup {"gone"}
    /\ faults < MaxFaults
    /\ faults' = faults + 1
    /\ Ends(r)
    /\ UNCHANGED <<disk, row, job, derived, doors, acts, amiss>>

-----------------------------------------------------------------------------
(***************************************************************************)
(* reconcileDeletedSource: the claim is read once, and then the job, the   *)
(* derived rows and the row go, whoever they are by then.  A step that     *)
(* fails is swallowed.                                                     *)
(***************************************************************************)
AssertHolds(r) ==
    /\ run[r].at = "gone"
    /\ Holds(r)
    /\ MovesTo(r, "cancel")
    /\ UNCHANGED <<disk, row, job, derived, doors, acts, faults, amiss>>

Swallowed ==
    /\ faults < MaxFaults
    /\ faults' = faults + 1
    /\ amiss' = amiss \cup {"swallowed"}

\* The job goes; an upload or a retry that is half-way was counting on it.
\* The variant spares a job that a run is at work on.
WaitingJobIsCancelled ==
    /\ job' = IF job.status = "processing" THEN job ELSE NoJob
    /\ amiss' = amiss
JobIsCancelled ==
    /\ job' = NoJob
    /\ amiss' = IF retry = "idle" /\ \A u \in Doors : upload[u].at = "idle"
                THEN amiss ELSE amiss \cup {"crossed"}

ReconcileCancel(r) ==
    /\ run[r].at = "cancel"
    /\ \/ JobIsCancelled /\ UNCHANGED faults
       \/ Swallowed /\ UNCHANGED job
    /\ MovesTo(r, "artefacts")
    /\ UNCHANGED <<disk, row, derived, doors, acts>>

ReconcileArtefacts(r) ==
    /\ run[r].at = "artefacts"
    /\ \/ derived' = {} /\ UNCHANGED <<faults, amiss>>
       \/ Swallowed /\ UNCHANGED derived
    /\ MovesTo(r, "retire")
    /\ UNCHANGED <<disk, row, job, doors, acts>>

ReconcileRetire(r) ==
    /\ run[r].at = "retire"
    /\ \/ row' = NoRow /\ UNCHANGED <<faults, amiss>>
       \/ Swallowed /\ UNCHANGED row
    /\ Ends(r)
    /\ UNCHANGED <<disk, job, derived, doors, acts>>

-----------------------------------------------------------------------------
(***************************************************************************)
(* Claims taken back: resetStalledJobs, releaseClaimedJob.                 *)
(***************************************************************************)

\* A run is still behind the claim, if only it beats too slowly.
HeldByALiveRun == job.token \in Runs /\ run[job.token].at # "idle"

\* stalledJobFilter.  The variant finds only jobs whose run still beats.
StalledAndBeating == job.status = "processing" /\ HeldByALiveRun
Stalled == job.status = "processing"

\* The claim of a run that died is found for as long as it takes.
RecoverDead ==
    /\ Stalled /\ ~HeldByALiveRun
    /\ job' = Recovered(job)
    /\ UNCHANGED <<disk, row, derived, run, doors, acts, faults, amiss>>

RecoverSlow ==
    /\ Stalled /\ HeldByALiveRun
    /\ faults < MaxFaults
    /\ faults' = faults + 1
    /\ job' = Recovered(job)
    /\ UNCHANGED <<disk, row, derived, run, doors, acts, amiss>>

Release(r) ==
    /\ run[r].at # "idle" /\ Holds(r)
    /\ faults < MaxFaults
    /\ faults' = faults + 1
    /\ job' = [job EXCEPT !.status = "pending", !.token = None,
                          !.waits = FALSE]
    /\ UNCHANGED <<disk, row, derived, run, doors, acts, amiss>>

-----------------------------------------------------------------------------
(***************************************************************************)
(* The upload door: the bytes, then recordAndDispatchFile, which reads the *)
(* row, writes it and dispatches to replaceContent.  No lock spans them.   *)
(***************************************************************************)
AnAct == acts < MaxActs /\ acts' = acts + 1

DoorMoves(u, stage) == upload' = [upload EXCEPT ![u].at = stage]
DoorShuts(u) == upload' = [upload EXCEPT ![u] = NoDoor]

WriteBytes(u, c) ==
    /\ upload[u].at = "idle"
    /\ AnAct
    /\ disk' = c
    /\ upload' = [upload EXCEPT ![u] = [at |-> "bytes", sha |-> c,
                                        settled |-> FALSE]]
    /\ UNCHANGED <<row, job, derived, run, removal, retry, bulk, faults,
                   amiss>>

\* settledAndIdentical, of the row as it was before this upload's.
Settled(u) ==
    /\ row.sha = upload[u].sha
    /\ row.status \in {"complete", "pending", "processing"}

ReadPrior(u) ==
    /\ upload[u].at = "bytes"
    /\ upload' = [upload EXCEPT ![u] = [at |-> "row", sha |-> upload[u].sha,
                                        settled |-> Settled(u)]]
    /\ UNCHANGED <<disk, row, job, derived, run, removal, retry, bulk, acts,
                   faults, amiss>>

\* upsertFileMeta: the row of other bytes keeps its processing state.
WriteRow(u) ==
    /\ upload[u].at = "row"
    /\ row' = [status |-> IF row.status = "absent" THEN "none" ELSE row.status,
               sha |-> upload[u].sha]
    /\ IF upload[u].settled THEN DoorShuts(u) ELSE DoorMoves(u, "dispatch")
    /\ UNCHANGED <<disk, job, derived, run, removal, retry, bulk, acts, faults,
                   amiss>>

\* replaceContent: the job that is there, the row, the job.
ReadJob(u) ==
    /\ upload[u].at = "dispatch"
    /\ IF job.status \in {"pending", "processing"} /\ job.sha = upload[u].sha
       THEN DoorShuts(u)
       ELSE DoorMoves(u, "pending")
    /\ UNCHANGED <<disk, row, job, derived, run, removal, retry, bulk, acts,
                   faults, amiss>>

MarkPending(u) ==
    /\ upload[u].at = "pending"
    /\ row' = Marked("pending")
    /\ DoorMoves(u, "reset")
    /\ UNCHANGED <<disk, job, derived, run, removal, retry, bulk, acts, faults,
                   amiss>>

ResetJob(u) ==
    /\ upload[u].at = "reset"
    /\ job' = WholeNewRun([job EXCEPT !.sha = upload[u].sha], SettleWait)
    /\ DoorShuts(u)
    /\ UNCHANGED <<disk, row, derived, run, removal, retry, bulk, acts, faults,
                   amiss>>

\* recordStoredFile's catch: bytes no row names are taken back, unless the
\* store that failed cannot be asked.
RecordFails(u) ==
    /\ upload[u].at \in {"bytes", "row"}
    /\ faults < MaxFaults
    /\ faults' = faults + 1
    /\ \/ row.status = "absent" /\ disk' = None
       \/ UNCHANGED disk
    /\ DoorShuts(u)
    /\ UNCHANGED <<row, job, derived, run, removal, retry, bulk, acts, amiss>>

\* replaceContent's catch: reportDoorFailure.
DispatchFails(u) ==
    /\ upload[u].at \in {"dispatch", "pending", "reset"}
    /\ faults < MaxFaults
    /\ faults' = faults + 1
    /\ row' = Marked("failed")
    /\ DoorShuts(u)
    /\ UNCHANGED <<disk, job, derived, run, removal, retry, bulk, acts, amiss>>

-----------------------------------------------------------------------------
(***************************************************************************)
(* The removal: deleteFileCascade, then removeFileHere, the row last.      *)
(***************************************************************************)
Remove ==
    /\ removal.at = "idle"
    /\ disk # None \/ row.status # "absent"
    /\ AnAct
    /\ removal' = [at |-> "unlink", present |-> disk # None]
    /\ UNCHANGED <<disk, row, job, derived, run, upload, retry, bulk, faults,
                   amiss>>

\* Only what was seen there is unlinked.
Unlink ==
    /\ removal.at = "unlink"
    /\ disk' = IF removal.present THEN None ELSE disk
    /\ removal' = [removal EXCEPT !.at = "cancel"]
    /\ UNCHANGED <<row, job, derived, run, upload, retry, bulk, acts, faults,
                   amiss>>

CancelJob ==
    /\ removal.at = "cancel"
    /\ JobIsCancelled
    /\ removal' = [removal EXCEPT !.at = "artefacts"]
    /\ UNCHANGED <<disk, row, derived, run, upload, retry, bulk, acts, faults>>

RemoveArtefacts ==
    /\ removal.at = "artefacts"
    /\ derived' = {}
    /\ removal' = [removal EXCEPT !.at = "retire"]
    /\ UNCHANGED <<disk, row, job, run, upload, retry, bulk, acts, faults,
                   amiss>>

RetireRow ==
    /\ removal.at = "retire"
    /\ row' = NoRow
    /\ removal' = NoRemoval
    /\ UNCHANGED <<disk, job, derived, run, upload, retry, bulk, acts, faults,
                   amiss>>

\* The row that is still there finds the delete owed.
CutShort(cut) == amiss' = IF cut THEN amiss \cup {"cut"} ELSE amiss

RemovalFails ==
    /\ removal.at # "idle"
    /\ faults < MaxFaults
    /\ faults' = faults + 1
    /\ removal' = NoRemoval
    /\ CutShort(removal.at \in {"artefacts", "retire"})
    /\ UNCHANGED <<disk, row, job, derived, run, upload, retry, bulk, acts>>

-----------------------------------------------------------------------------
(***************************************************************************)
(* The retries: retryJob, job before row; retryFailedJobs, rows first.     *)
(***************************************************************************)
RetryJob ==
    /\ retry = "idle"
    /\ job.status \notin {"none", "processing"}
    /\ AnAct
    /\ job' = WholeNewRun(job, SettleWait)
    /\ retry' = "row"
    /\ UNCHANGED <<disk, row, derived, run, upload, removal, bulk, faults,
                   amiss>>

RetryRow ==
    /\ retry = "row"
    /\ row' = Marked("pending")
    /\ retry' = "idle"
    /\ UNCHANGED <<disk, job, derived, run, upload, removal, bulk, acts,
                   faults, amiss>>

BulkRead ==
    /\ bulk = "idle"
    /\ job.status = "failed"
    /\ AnAct
    /\ bulk' = "rows"
    /\ UNCHANGED <<disk, row, job, derived, run, upload, removal, retry,
                   faults, amiss>>

\* Without asking whether the job is still a failed one.
BulkRows ==
    /\ bulk = "rows"
    /\ row' = Marked("pending")
    /\ bulk' = "jobs"
    /\ amiss' = IF job.status = "failed" THEN amiss
                ELSE amiss \cup {"overtaken"}
    /\ UNCHANGED <<disk, job, derived, run, upload, removal, retry, acts,
                   faults>>

BulkJobs ==
    /\ bulk = "jobs"
    /\ job' = IF job.status = "failed" THEN WholeNewRun(job, FALSE) ELSE job
    /\ bulk' = "idle"
    /\ UNCHANGED <<disk, row, derived, run, upload, removal, retry, acts,
                   faults, amiss>>

-----------------------------------------------------------------------------
\* The server process ends: every run and every door with it.
Crash ==
    /\ faults < MaxFaults
    /\ faults' = faults + 1
    /\ run' = [r \in Runs |-> NoRun]
    /\ upload' = [u \in Doors |-> NoDoor]
    /\ removal' = NoRemoval
    /\ retry' = "idle"
    /\ bulk' = "idle"
    /\ CutShort(\/ \E u \in Doors : upload[u].at = "reset"
                \/ bulk = "jobs"
                \/ removal.at \in {"artefacts", "retire"}
                \/ \E r \in Runs : run[r].at \in {"artefacts", "retire"})
    /\ UNCHANGED <<disk, row, job, derived, acts>>

RunGoesOn(r) ==
    \/ Open(r) \/ Mark(r) \/ Clear(r) \/ Write(r) \/ KeepCaption(r)
    \/ CheckBytes(r)
    \/ Complete(r) \/ Abandon(r)
    \/ AssertHolds(r) \/ ReconcileCancel(r) \/ ReconcileArtefacts(r)
    \/ ReconcileRetire(r)

UploadGoesOn(u) ==
    ReadPrior(u) \/ WriteRow(u) \/ ReadJob(u) \/ MarkPending(u) \/ ResetJob(u)

RemovalGoesOn == Unlink \/ CancelJob \/ RemoveArtefacts \/ RetireRow
RetryGoesOn   == RetryRow
BulkGoesOn    == BulkRows \/ BulkJobs

Next ==
    \/ WaitElapses
    \/ \E r \in Runs : \/ Claim(r) \/ RunGoesOn(r) \/ Fail(r)
                       \/ DeferJob(r) \/ EndIsRefused(r) \/ Release(r)
    \/ RecoverDead \/ RecoverSlow
    \/ \E u \in Doors : \/ \E c \in Contents : WriteBytes(u, c)
                        \/ UploadGoesOn(u) \/ RecordFails(u) \/ DispatchFails(u)
    \/ Remove \/ RemovalGoesOn \/ RemovalFails
    \/ RetryJob \/ RetryGoesOn
    \/ BulkRead \/ BulkGoesOn
    \/ Crash

Spec == Init /\ [][Next]_vars

\* The worker polls, a run and a door that started go on, the clock goes on,
\* and the stall sweep comes round.  Nobody has to write, remove or retry, and
\* nothing has to fail.
Fairness ==
    /\ WF_vars(WaitElapses)
    /\ WF_vars(RecoverDead)
    /\ WF_vars(\E r \in Runs : Claim(r))
    /\ \A r \in Runs : WF_vars(RunGoesOn(r))
    /\ \A u \in Doors : WF_vars(UploadGoesOn(u))
    /\ WF_vars(RemovalGoesOn)
    /\ WF_vars(RetryGoesOn)
    /\ WF_vars(BulkGoesOn)

FairSpec == Spec /\ Fairness

-----------------------------------------------------------------------------
(***************************************************************************)
(* What must hold.                                                         *)
(***************************************************************************)

Bytes    == Contents \cup {None}
JobType  == [status : JobStatuses, token : Runs \cup {None},
             attempts : Nat, sha : Bytes, waits : BOOLEAN,
             deferrals : 0 .. MaxDeferrals]
RunType  == [at : RunStages, sha : Bytes, of : Bytes]
DoorType == [at : DoorStages, sha : Bytes, settled : BOOLEAN]

\* The type of the state; a job that is processing names its claim.
MediaTypeOK ==
    /\ disk \in Bytes
    /\ row \in [status : RowStatuses, sha : Bytes]
    /\ job \in JobType
    /\ job.status = "processing" => job.token # None
    /\ derived \subseteq [stamp : Contents, of : Contents]
    /\ run \in [Runs -> RunType]
    /\ upload \in [Doors -> DoorType]
    /\ removal \in [at : {"idle", "unlink"} \cup Reconciling,
                    present : BOOLEAN]
    /\ retry \in {"idle", "row"}
    /\ bulk \in {"idle", "rows", "jobs"}
    /\ acts \in 0 .. MaxActs
    /\ faults \in 0 .. MaxFaults
    /\ amiss \subseteq {"swallowed", "crossed", "cut", "overtaken"}

\* A job that ended well left the rows of one hash, its own: no run that lost
\* its claim adds to them, and none of an earlier hash survive
\* (clearRowsOfOtherBytes, writeUnderClaim).
OneContentsRows ==
    job.status = "complete" => \A d \in derived : d.stamp = job.sha

\* A file that is gone left no derived row, however its removal and a late
\* run interleave (removeFileHere's order, upsertDerivedFileRow), unless a
\* reconcile swallowed a failure.
NoOrphanRows ==
    row.status = "absent" /\ "swallowed" \notin amiss => derived = {}

\* A file that shows as waiting or at work has a job that will end it (endJob,
\* REPLACE_SETTLE_MS), except between the two writes of a door, and once a
\* door was cut there, crossed by a removal, or overtaken.
BetweenTwoWrites ==
    \/ \E u \in Doors : upload[u].at = "reset"
    \/ bulk = "jobs"
    \/ removal.at \in {"artefacts", "retire"}
    \/ \E r \in Runs : run[r].at \in {"artefacts", "retire"}

RowAwaitsItsJob ==
    /\ row.status \in {"pending", "processing"}
    /\ ~BetweenTwoWrites
    /\ amiss = {}
    => job.status \in {"pending", "processing"}

\* Every job ends: a claim whose run died or was too slow is found, and
\* retries are counted (resetStalledJobs, failJob).
EveryJobEnds ==
    job.status \in {"pending", "processing"} ~>
        job.status \in {"none", "complete", "failed"}

\* derived-fields.ts says of upsertDerivedFileRow that the row carries the
\* bytes it was made from.
StampNamesItsBytes == \A d \in derived : d.stamp = d.of
=============================================================================
