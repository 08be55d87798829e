----------------------------- MODULE ProjectRun -----------------------------
(* One project and the requests that touch it: uploads, synchronous runs,     *)
(* queued runs and deletion (api/main.py), over the project row and its run   *)
(* lease (api/store.py) and the files of its workspace (packager.py).         *)
(*                                                                            *)
(* A thread is a request thread or a job worker of any API process.  Each     *)
(* database statement and each write to the workspace is a step of its own;   *)
(* what the handler read before is kept in the thread (`copy`), because       *)
(* SqlProjectStore.save writes those values back.                             *)
EXTENDS Integers

CONSTANTS Threads,
          Suffixes,         \* file types an upload may have: .csv, .xlsx
          RunLease,         \* RUN_LEASE_SECONDS, in units of Tick
          SharedObject,     \* TRUE: ProjectStore, FALSE: SqlProjectStore
          Surprises,        \* TRUE: a step after the pipeline may raise
          Deletes,          \* TRUE: the project may be deleted
          Advice,           \* has a run advisory files to write: subset of BOOLEAN
          MaxUploads,       \* bound: uploads that are stored
          MaxBacklog,       \* bound: jobs waiting at once
          MaxCrashes        \* bound: threads lost to a dying process

ASSUME ProjectRunAssumption ==
  /\ RunLease \in Nat /\ MaxUploads \in Nat \ {0}
  /\ MaxBacklog \in Nat /\ MaxCrashes \in Nat
  /\ {SharedObject, Surprises, Deletes} \cup Advice \subseteq BOOLEAN

VARIABLES exists, status, started, upload, summary,  \* the row in `projects`
          dir, file, out, zip,     \* the workspace: uploads, project/, project.zip
          pc, op, copy, got,       \* each thread
          stored, backlog, crashes, \* uploads so far, queued jobs, threads lost
          disturbed                \* history: see Disturb

row     == <<exists, status, started, upload, summary>>
space   == <<dir, file, out, zip>>
threads == <<pc, op, copy, got>>
vars    == <<row, space, threads, stored, backlog, crashes, disturbed>>

None == "none"                   \* upload_path IS NULL

\* A stored upload has a file type.
ASSUME SuffixAssumption == None \notin Suffixes

Null == -1                       \* run_started_at IS NULL

Versions == 0..MaxUploads        \* which upload a file was made from; 0: no file
Bundle   == [core : Versions, advice : Versions]
NoBundle == [core |-> 0, advice |-> 0]
Blank    == [upload |-> None, summary |-> 0]

\* Between a successful try_begin_run and the save that ends the run.
InPipeline == {"read", "package", "zip", "finish"}
Ending     == {"endok", "endfail"}
Steps      == {"idle", "claim", "open", "write", "upsave", "queue", "submit", "rmtree"}
                \cup InPipeline \cup Ending

Active(t) == pc[t] \in InPipeline

TypeOK ==
  /\ exists  \in BOOLEAN
  /\ status  \in {"created", "uploaded", "queued", "running", "completed", "failed"}
  /\ started \in {Null} \cup 0..(RunLease + 1)
  /\ upload  \in Suffixes \cup {None}
  /\ summary \in Versions
  /\ dir     \in BOOLEAN
  /\ file    \in [Suffixes -> Versions]
  /\ out     \in Bundle
  /\ zip     \in Bundle
  /\ pc      \in [Threads -> Steps]
  /\ op      \in [Threads -> {"request", "job"}]
  /\ copy    \in [Threads -> [upload : Suffixes \cup {None}, summary : Versions]]
  /\ got     \in [Threads -> Versions]
  /\ stored  \in Versions
  /\ backlog \in 0..MaxBacklog
  /\ crashes \in 0..MaxCrashes
  /\ disturbed \in BOOLEAN

\* A project just created: a row, an empty workspace, nobody working on it.
Init ==
  /\ exists = TRUE /\ status = "created" /\ started = Null
  /\ upload = None /\ summary = 0
  /\ dir = TRUE /\ file = [s \in Suffixes |-> 0] /\ out = NoBundle /\ zip = NoBundle
  /\ pc = [t \in Threads |-> "idle"] /\ op = [t \in Threads |-> "request"]
  /\ copy = [t \in Threads |-> Blank]
  /\ got = [t \in Threads |-> 0]
  /\ stored = 0 /\ backlog = 0 /\ crashes = 0 /\ disturbed = FALSE

-----------------------------------------------------------------------------
(* The row. *)

\* store.get: the thread keeps its own copy of the columns that save writes.
Get(t) == copy' = [copy EXCEPT ![t] = [upload |-> upload, summary |-> summary]]

\* store.save with status s, upload path u and summary m.  The UPDATE finds no
\* row when the project is gone.
Save(s, u, m) ==
  /\ status'  = IF exists THEN s ELSE status
  /\ upload'  = IF exists THEN u ELSE upload
  /\ summary' = IF exists THEN m ELSE summary
  /\ UNCHANGED <<exists, started>>

\* The fields a handler did not assign: the shared object of ProjectStore has
\* their present value, a copy read from SQL the value it had then.
KeptUpload(t)  == IF SharedObject THEN upload ELSE copy[t].upload
KeptSummary(t) == IF SharedObject THEN summary ELSE copy[t].summary

\* Faulty variants: the lease compared with >= instead of >; no lease at all.
ClaimableAtLease == status # "running" \/ started = Null \/ started >= RunLease
ClaimableNoLease == status # "running" \/ started = Null

\* The WHERE clause of try_begin_run: not running, or NULL, or past the lease.
Claimable == status # "running" \/ started = Null \/ started > RunLease

\* Nothing in the code keeps a save of upload or create_job from falling into a
\* run, a claim from falling between a run's save and its end_run, or a run from
\* outliving its lease.  `disturbed` remembers whether one of the three happened.
Disturb(event) == disturbed' = (disturbed \/ event)

Goto(t, step) == pc' = [pc EXCEPT ![t] = step]

\* What the thread read is not used any more.
Forget(t) == copy' = [copy EXCEPT ![t] = Blank] /\ got' = [got EXCEPT ![t] = 0]

\* The handler returns or raises: what the thread knew is gone with it.
Leave(t) ==
  /\ Goto(t, "idle")
  /\ op' = [op EXCEPT ![t] = "request"]
  /\ Forget(t)

-----------------------------------------------------------------------------
(* A run: POST /run in a request thread, or a job in a worker thread. *)

\* run(): the project is looked up and must have an upload.
RequestRun(t) ==
  /\ pc[t] = "idle" /\ exists /\ upload # None
  /\ Get(t) /\ Goto(t, "claim")
  /\ op' = [op EXCEPT ![t] = "request"]
  /\ UNCHANGED <<row, space, got, stored, backlog, crashes, disturbed>>

\* A worker takes a job; _run_project_job looks the project up again.
TakeJob(t) ==
  /\ pc[t] = "idle" /\ backlog > 0 /\ exists
  /\ backlog' = backlog - 1
  /\ Get(t) /\ Goto(t, "claim")
  /\ op' = [op EXCEPT ![t] = "job"]
  /\ UNCHANGED <<row, space, got, stored, crashes, disturbed>>

\* _run_project_job finds no project: the job fails until it is dead.
JobOfDeleted(t) ==
  /\ pc[t] = "idle" /\ backlog > 0 /\ ~exists
  /\ backlog' = backlog - 1
  /\ UNCHANGED <<row, space, threads, stored, crashes, disturbed>>

\* try_begin_run claims the row in one UPDATE.
Begin(t) ==
  /\ pc[t] = "claim" /\ exists /\ Claimable
  /\ Disturb(\E u \in Threads : pc[u] \in Ending)
  /\ status' = "running" /\ started' = 0
  /\ Goto(t, "read")
  /\ UNCHANGED <<exists, upload, summary, space, op, copy, got, stored, backlog, crashes>>

\* A job that raised goes back to the queue, or is dead after its last attempt.
JobFails(t) ==
  backlog' \in IF op[t] = "job" /\ backlog < MaxBacklog THEN {backlog, backlog + 1}
                                                         ELSE {backlog}

\* RunInProgress: 409 for a request, a failure for a job.
Refuse(t) ==
  /\ pc[t] = "claim" /\ ~(exists /\ Claimable)
  /\ JobFails(t) /\ Leave(t)
  /\ UNCHANGED <<row, space, stored, crashes, disturbed>>

\* _plaintext_upload and the stages up to the policy gate, which only read.
ReadInput(t) ==
  /\ pc[t] = "read"
  /\ copy[t].upload # None /\ file[copy[t].upload] # 0
  /\ got' = [got EXCEPT ![t] = file[copy[t].upload]]
  /\ Goto(t, "package")
  /\ UNCHANGED <<row, space, op, copy, stored, backlog, crashes, disturbed>>

\* build_project: makes the directory if it is not there, writes the files every
\* run writes, and the advisory files only when this run has any to write.
Package(t) ==
  /\ pc[t] = "package"
  /\ dir' = TRUE
  /\ \E advised \in Advice :
       out' = [core |-> got[t], advice |-> IF advised THEN got[t] ELSE out.advice]
  /\ Goto(t, "zip")
  /\ UNCHANGED <<row, file, zip, op, copy, got, stored, backlog, crashes, disturbed>>

\* zip_project: whatever is in the directory; without a workspace it raises.
Zip(t) ==
  /\ pc[t] = "zip" /\ dir
  /\ zip' = out
  /\ Goto(t, "finish")
  /\ UNCHANGED <<row, dir, file, out, op, copy, got, stored, backlog, crashes, disturbed>>

\* An exception of the pipeline: the project is saved as failed, then re-raised.
RunFails(t) ==
  /\ pc[t] \in {"read", "package", "zip"}
  /\ Save("failed", KeptUpload(t), KeptSummary(t))
  /\ Goto(t, "endfail") /\ Forget(t)
  /\ UNCHANGED <<space, op, stored, backlog, crashes, disturbed>>

\* Faulty variant: the summary of the run before is kept.
FinishOldSummary(t) ==
  /\ pc[t] = "finish"
  /\ Save("completed", KeptUpload(t), KeptSummary(t))
  /\ Goto(t, "endok") /\ Forget(t)
  /\ UNCHANGED <<space, op, stored, backlog, crashes, disturbed>>

\* The run is saved as completed with the summary of what it read.
Finish(t) ==
  /\ pc[t] = "finish"
  /\ Save("completed", KeptUpload(t), got[t])
  /\ Goto(t, "endok") /\ Forget(t)
  /\ UNCHANGED <<space, op, stored, backlog, crashes, disturbed>>

\* Scoring, costing or the save itself raises after the pipeline: these lines
\* are outside both except clauses, so nothing is saved.  A shared object may
\* have been marked completed by then.
Surprise(t) ==
  /\ Surprises /\ pc[t] = "finish"
  /\ status' \in IF SharedObject /\ exists THEN {status, "completed"} ELSE {status}
  /\ Goto(t, "endfail") /\ Forget(t)
  /\ UNCHANGED <<exists, started, upload, summary, space, op, stored, backlog, crashes, disturbed>>

\* Faulty variant: end_run is called after a run that succeeded only.
EndOnSuccess(t) ==
  /\ pc[t] \in Ending
  /\ started' = IF exists /\ pc[t] = "endok" THEN Null ELSE started
  /\ IF pc[t] = "endok" THEN UNCHANGED backlog ELSE JobFails(t)
  /\ Leave(t)
  /\ UNCHANGED <<exists, status, upload, summary, space, stored, crashes, disturbed>>

\* The finally clause: end_run clears run_started_at, whoever set it.
End(t) ==
  /\ pc[t] \in Ending
  /\ started' = IF exists THEN Null ELSE started
  /\ IF pc[t] = "endok" THEN UNCHANGED backlog ELSE JobFails(t)
  /\ Leave(t)
  /\ UNCHANGED <<exists, status, upload, summary, space, stored, crashes, disturbed>>

-----------------------------------------------------------------------------
(* The requests that write the row without claiming it. *)

\* upload(): the project is looked up, then the body is awaited.  The type
\* of the file is in copy.upload from here on, and its version in got.
BeginUpload(t) ==
  /\ pc[t] = "idle" /\ exists
  /\ \E s \in Suffixes : copy' = [copy EXCEPT ![t] = [upload |-> s, summary |-> summary]]
  /\ Goto(t, "open")
  /\ UNCHANGED <<row, space, op, got, stored, backlog, crashes, disturbed>>

\* The body is too large or cannot be encrypted: dest.unlink(), then the error.
RejectUpload(t) ==
  /\ pc[t] = "open"
  /\ file' = [file EXCEPT ![copy[t].upload] = 0]
  /\ Leave(t)
  /\ UNCHANGED <<row, dir, out, zip, stored, backlog, crashes, disturbed>>

\* write_file opens with O_TRUNC; without a workspace the open raises.
OpenUpload(t) ==
  /\ pc[t] = "open" /\ stored < MaxUploads
  /\ stored' = stored + 1
  /\ IF dir THEN /\ file' = [file EXCEPT ![copy[t].upload] = 0]
                 /\ got' = [got EXCEPT ![t] = stored + 1]
                 /\ Goto(t, "write") /\ UNCHANGED <<op, copy>>
            ELSE Leave(t) /\ UNCHANGED file
  /\ UNCHANGED <<row, dir, out, zip, backlog, crashes, disturbed>>

\* The bytes land, in a file that a deletion may have unlinked meanwhile.
WriteUpload(t) ==
  /\ pc[t] = "write"
  /\ file' = IF dir THEN [file EXCEPT ![copy[t].upload] = got[t]] ELSE file
  /\ Goto(t, "upsave")
  /\ UNCHANGED <<row, dir, out, zip, op, copy, got, stored, backlog, crashes, disturbed>>

\* The upload is saved with the rest of the project as the thread knows it.
SaveUpload(t) ==
  /\ pc[t] = "upsave"
  /\ Disturb(\E u \in Threads : Active(u))
  /\ Save("uploaded", copy[t].upload, KeptSummary(t))
  /\ Leave(t)
  /\ UNCHANGED <<space, stored, backlog, crashes>>

\* create_job: look up, save as queued, then submit.
BeginJob(t) ==
  /\ pc[t] = "idle" /\ exists /\ upload # None
  /\ Get(t) /\ Goto(t, "queue")
  /\ UNCHANGED <<row, space, op, got, stored, backlog, crashes, disturbed>>

SaveQueued(t) ==
  /\ pc[t] = "queue"
  /\ Disturb(\E u \in Threads : Active(u))
  /\ Save("queued", KeptUpload(t), KeptSummary(t))
  /\ Goto(t, "submit") /\ Forget(t)
  /\ UNCHANGED <<space, op, stored, backlog, crashes>>

SubmitJob(t) ==
  /\ pc[t] = "submit" /\ backlog < MaxBacklog
  /\ backlog' = backlog + 1
  /\ Leave(t)
  /\ UNCHANGED <<row, space, stored, crashes, disturbed>>

\* delete: the row first, then the workspace.  A row that is gone is kept as a
\* blank one.
DeleteRow(t) ==
  /\ Deletes /\ pc[t] = "idle" /\ exists
  /\ exists' = FALSE
  /\ status' = "created" /\ started' = Null /\ upload' = None /\ summary' = 0
  /\ Goto(t, "rmtree")
  /\ UNCHANGED <<space, op, copy, got, stored, backlog, crashes, disturbed>>

RemoveTree(t) ==
  /\ pc[t] = "rmtree"
  /\ dir' = FALSE /\ file' = [s \in Suffixes |-> 0] /\ out' = NoBundle /\ zip' = NoBundle
  /\ Leave(t)
  /\ UNCHANGED <<row, stored, backlog, crashes, disturbed>>

-----------------------------------------------------------------------------
\* The process of a thread dies; a job it was running may come back later.
Crash(t) ==
  /\ pc[t] # "idle" /\ crashes < MaxCrashes
  /\ crashes' = crashes + 1
  /\ IF pc[t] \in {"claim"} \cup InPipeline \cup Ending THEN JobFails(t) ELSE UNCHANGED backlog
  /\ Leave(t)
  /\ UNCHANGED <<row, space, stored, disturbed>>

\* One unit of time passes.
Tick ==
  /\ started \in 0..RunLease
  /\ started' = started + 1
  /\ Disturb(started = RunLease /\ \E t \in Threads : Active(t))
  /\ UNCHANGED <<exists, status, upload, summary, space, threads, stored, backlog, crashes>>

RunSteps(t) ==
  \/ Begin(t) \/ Refuse(t) \/ ReadInput(t) \/ Package(t) \/ Zip(t)
  \/ RunFails(t) \/ Finish(t) \/ Surprise(t) \/ End(t)

WriterSteps(t) ==
  \/ RejectUpload(t) \/ OpenUpload(t) \/ WriteUpload(t) \/ SaveUpload(t)
  \/ SaveQueued(t) \/ SubmitJob(t) \/ RemoveTree(t)

Arrivals(t) ==
  \/ RequestRun(t) \/ TakeJob(t) \/ JobOfDeleted(t)
  \/ BeginUpload(t) \/ BeginJob(t) \/ DeleteRow(t)

Next ==
  \/ \E t \in Threads : Arrivals(t) \/ RunSteps(t) \/ WriterSteps(t) \/ Crash(t)
  \/ Tick

Spec == Init /\ [][Next]_vars

\* Threads are scheduled, a pipeline ends, and time passes.  Nothing obliges a
\* client to send a request, or a worker to be free for a job.
Fairness ==
  /\ \A t \in Threads : WF_vars(RunSteps(t)) /\ WF_vars(WriterSteps(t))
  /\ WF_vars(Tick)

FairSpec == Spec /\ Fairness

-----------------------------------------------------------------------------
(* The run lease. *)

\* "One run at a time, per project, is the contract" (store.py:142): no two
\* pipelines of one project, across every instance.
OneRun == \A t, u \in Threads : Active(t) /\ Active(u) => t = u

\* The row says so: while a pipeline runs, the project reads `running` under a
\* lease that has not passed, so that every other claim is refused.
RunHoldsLease ==
  (\E t \in Threads : Active(t)) /\ exists =>
    status = "running" /\ started \in 0..RunLease

\* What try_begin_run and end_run are worth: over claims that race, failing runs,
\* deletions, crashes, take-overs of a dead run and the instant at the lease's
\* end, two pipelines never run, and the row of a run that runs is never up for
\* another claim, before the first of the three events that `disturbed` names.
LeaseIsLock == ~disturbed => OneRun /\ RunHoldsLease

\* "The project must not be left reading running" (main.py:1007): unless a
\* process died, a project reads `running` only while a run is in progress.
RunningHasRunner ==
  status = "running" /\ exists /\ crashes = 0 =>
    \E t \in Threads : pc[t] \in InPipeline \cup Ending

\* What holds instead, with steps after the pipeline that raise, runs that
\* overlap and saves that fall into them: unless a process died, a project left
\* reading `running` has a released lease, so the next request may run it.
LeftRunningIsFree ==
  status = "running" /\ exists /\ crashes = 0 =>
    \/ \E t \in Threads : pc[t] \in InPipeline \cup Ending
    \/ started = Null

\* A run does not hold its project for ever, even when its process died: the
\* project stops reading `running`, or its lease may be taken over.
RunningEndsOrIsTakeable == status = "running" ~> (status # "running" \/ Claimable)

-----------------------------------------------------------------------------
(* What the project says about itself. *)

\* The plan and the code in a completed project's bundle, the files that every
\* run writes, were made from the upload its summary describes, until something
\* disturbs the lease.  The advisory files are BundleIsOfOneRun's.
BundleMatchesSummary ==
  ~disturbed /\ status = "completed" /\ exists => summary # 0 /\ zip.core = summary

\* A run "clears the output directory" (ADR 0066): no file of a completed
\* project's bundle, the advisory ones included, is of an earlier upload.
BundleIsOfOneRun ==
  status = "completed" /\ exists => zip.advice \in {0, zip.core}
=============================================================================
