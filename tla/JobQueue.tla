------------------------------ MODULE JobQueue ------------------------------
(* The durable job queue of src/src/iactranslate/api/jobs_sqlite.py: one      *)
(* `jobs` table shared by every API process, and in each process a pool of    *)
(* worker threads that claim a due row, run the registered handler, write the *)
(* outcome back and only then publish it on the event bus.                    *)
(*                                                                            *)
(* Every column that a guard of the code reads is a variable.  Times are kept *)
(* relative to the present: `wait[j]` is visible_at - now, never below zero;  *)
(* `lease[j]` is lease_until - now, Lapsed once it has passed, Null when the  *)
(* column is NULL.  Tick lets one unit of time pass.  created_at is kept as   *)
(* the number of rows inserted before this one.                               *)
EXTENDS Integers, FiniteSets

CONSTANTS Jobs,                 \* ids of the jobs that may be submitted
          NoJob,                \* a worker between two jobs
          Procs,                \* API processes that share the database
          MaxWorkers,           \* worker threads per process
          MaxAttempts,          \* DEFAULT_MAX_ATTEMPTS
          LeaseSeconds,         \* LEASE_SECONDS, in units of Tick
          BackoffBase,          \* BACKOFF_BASE_SECONDS, in units of Tick
          HandlersWithinLease,  \* TRUE: no handler runs past its lease
          MaxCrashes,           \* bound: process crashes in a behaviour
          MaxBlips              \* bound: database errors that reach _run

Workers == Procs \X (1..MaxWorkers)

ASSUME JobQueueAssumption ==
  /\ IsFiniteSet(Jobs) /\ NoJob \notin Jobs
  /\ MaxWorkers \in Nat
  /\ MaxAttempts \in Nat \ {0}
  /\ LeaseSeconds \in Nat
  /\ HandlersWithinLease \in BOOLEAN
  /\ MaxCrashes \in Nat
  /\ MaxBlips \in Nat

ASSUME BackoffAssumption == \A n \in 0..MaxAttempts : BackoffBase ^ n \in Nat

VARIABLES status, attempts, created, wait, lease,  \* the jobs table
          proc,                 \* what each API process is doing
          thread, hold, tries,  \* each worker thread, and the row it claimed
          announced,            \* how often each terminal event of a job went out
          crashes, blips        \* faults so far

table   == <<status, attempts, created, wait, lease>>
workers == <<thread, hold, tries>>
faults  == <<crashes, blips>>
vars    == <<table, proc, workers, announced, faults>>

Null   == -2                    \* lease_until IS NULL
Lapsed == -1                    \* lease_until < now

Terminal == {"completed", "dead"}
Statuses == {"absent", "queued", "running"} \cup Terminal

\* The terminal events, JOB_COMPLETED and JOB_FAILED.  A thread named after one
\* has written its verdict and is about to publish it.
Verdicts == {"completed", "failed"}

TypeOK ==
  /\ status    \in [Jobs -> Statuses]
  /\ attempts  \in [Jobs -> Nat]
  /\ created   \in [Jobs -> Nat]
  /\ wait      \in [Jobs -> Nat]
  /\ lease     \in [Jobs -> {Null, Lapsed} \cup Nat]
  /\ proc      \in [Procs -> {"down", "built", "serving"}]
  /\ thread    \in [Workers -> {"off", "idle", "busy", "dead"} \cup Verdicts]
  /\ hold      \in [Workers -> Jobs \cup {NoJob}]
  /\ tries     \in [Workers -> Nat]
  /\ announced \in [Jobs -> [Verdicts -> Nat]]
  /\ crashes   \in 0..MaxCrashes
  /\ blips     \in 0..MaxBlips

Init ==
  /\ status    = [j \in Jobs |-> "absent"]
  /\ attempts  = [j \in Jobs |-> 0]
  /\ created   = [j \in Jobs |-> 0]
  /\ wait      = [j \in Jobs |-> 0]
  /\ lease     = [j \in Jobs |-> Null]
  /\ proc      = [p \in Procs |-> "down"]
  /\ thread    = [w \in Workers |-> "off"]
  /\ hold      = [w \in Workers |-> NoJob]
  /\ tries     = [w \in Workers |-> 0]
  /\ announced = [j \in Jobs |-> [v \in Verdicts |-> 0]]
  /\ crashes   = 0
  /\ blips     = 0

-----------------------------------------------------------------------------
(* A process comes up, goes down, and takes requests. *)

\* Faulty variants: the lease compared with <= instead of <; any row with no
\* live lease, whatever its status.
ExpiredAtDeadline(j) == status[j] = "running" /\ lease[j] <= 0
ExpiredAnyStatus(j)  == status[j] # "absent" /\ lease[j] < 0

\* reclaim_expired: a running row whose lease is NULL or past.
Expired(j) == status[j] = "running" /\ lease[j] < 0

\* Faulty variant: the constructor does not call reclaim_expired.
BootNoReclaim(p) ==
  /\ proc[p] = "down"
  /\ proc' = [proc EXCEPT ![p] = "built"]
  /\ UNCHANGED <<table, workers, announced, faults>>

\* The constructor: reclaim_expired() on the shared table.  Workers wait for
\* start(), because a worker that finds no handler fails the job.
Boot(p) ==
  /\ proc[p] = "down"
  /\ proc' = [proc EXCEPT ![p] = "built"]
  /\ status' = [j \in Jobs |-> IF Expired(j) THEN "queued" ELSE status[j]]
  /\ lease'  = [j \in Jobs |-> IF Expired(j) THEN Null ELSE lease[j]]
  /\ wait'   = [j \in Jobs |-> IF Expired(j) THEN 0 ELSE wait[j]]
  /\ UNCHANGED <<attempts, created, workers, announced, faults>>

\* register("run", ...) and start(): the handlers are bound, then the threads run.
Start(p) ==
  /\ proc[p] = "built"
  /\ proc' = [proc EXCEPT ![p] = "serving"]
  /\ thread' = [w \in Workers |-> IF w[1] = p THEN "idle" ELSE thread[w]]
  /\ UNCHANGED <<table, hold, tries, announced, faults>>

\* The process dies: its threads are daemons and nothing runs on the way out.
Crash(p) ==
  /\ proc[p] # "down"
  /\ crashes < MaxCrashes
  /\ crashes' = crashes + 1
  /\ proc' = [proc EXCEPT ![p] = "down"]
  /\ thread' = [w \in Workers |-> IF w[1] = p THEN "off" ELSE thread[w]]
  /\ hold'   = [w \in Workers |-> IF w[1] = p THEN NoJob ELSE hold[w]]
  /\ tries'  = [w \in Workers |-> IF w[1] = p THEN 0 ELSE tries[w]]
  /\ UNCHANGED <<table, announced, blips>>

\* submit: INSERT a queued row that is due at once.
Submit(j) ==
  /\ \E p \in Procs : proc[p] = "serving"
  /\ status[j] = "absent"
  /\ status'  = [status EXCEPT ![j] = "queued"]
  /\ created' = [created EXCEPT ![j] = Cardinality({k \in Jobs : status[k] # "absent"})]
  /\ UNCHANGED <<attempts, wait, lease, proc, workers, announced, faults>>

-----------------------------------------------------------------------------
(* A worker thread. *)

\* Faulty variant: the claim does not look at the status of the row.
DueAnyStatus(j) == status[j] \notin {"absent", "running"} /\ wait[j] = 0

\* claim_sql: WHERE status = 'queued' AND visible_at <= now ORDER BY created_at LIMIT 1.
Due(j)  == status[j] = "queued" /\ wait[j] = 0
Oldest(j) == Due(j) /\ \A k \in Jobs : Due(k) => created[j] <= created[k]

\* _claim: one transaction selects the oldest due row, marks it running under a
\* fresh lease and hands the worker a copy of it.
Claim(w) ==
  /\ thread[w] = "idle"
  /\ \E j \in Jobs :
       /\ Oldest(j)
       /\ status'   = [status EXCEPT ![j] = "running"]
       /\ attempts' = [attempts EXCEPT ![j] = @ + 1]
       /\ lease'    = [lease EXCEPT ![j] = LeaseSeconds]
       /\ hold'     = [hold EXCEPT ![w] = j]
       /\ tries'    = [tries EXCEPT ![w] = attempts[j] + 1]
  /\ thread' = [thread EXCEPT ![w] = "busy"]
  /\ UNCHANGED <<created, wait, proc, announced, faults>>

\* The worker is done with its row and polls again.
Release(w) ==
  /\ thread' = [thread EXCEPT ![w] = "idle"]
  /\ hold'   = [hold EXCEPT ![w] = NoJob]
  /\ tries'  = [tries EXCEPT ![w] = 0]

\* _run, the handler returned: the UPDATE names the row by id only.
Complete(w) ==
  /\ thread[w] = "busy"
  /\ status' = [status EXCEPT ![hold[w]] = "completed"]
  /\ lease'  = [lease EXCEPT ![hold[w]] = Null]
  /\ thread' = [thread EXCEPT ![w] = "completed"]
  /\ UNCHANGED <<attempts, created, wait, proc, hold, tries, announced, faults>>

\* Faulty variant: one attempt too many.
RetryOneMore(w) ==
  /\ thread[w] = "busy"
  /\ tries[w] <= MaxAttempts
  /\ status' = [status EXCEPT ![hold[w]] = "queued"]
  /\ wait'   = [wait EXCEPT ![hold[w]] = BackoffBase ^ tries[w]]
  /\ lease'  = [lease EXCEPT ![hold[w]] = Null]
  /\ Release(w)
  /\ UNCHANGED <<attempts, created, proc, announced, faults>>

\* _on_failure with attempts left in the claimed copy: back to the queue after
\* BackoffBase ^ attempts.
Retry(w) ==
  /\ thread[w] = "busy"
  /\ tries[w] < MaxAttempts
  /\ status' = [status EXCEPT ![hold[w]] = "queued"]
  /\ wait'   = [wait EXCEPT ![hold[w]] = BackoffBase ^ tries[w]]
  /\ lease'  = [lease EXCEPT ![hold[w]] = Null]
  /\ Release(w)
  /\ UNCHANGED <<attempts, created, proc, announced, faults>>

\* _on_failure on the last attempt: the UPDATE of _finish_dead.
DeadLetter(w) ==
  /\ thread[w] = "busy"
  /\ tries[w] >= MaxAttempts
  /\ status' = [status EXCEPT ![hold[w]] = "dead"]
  /\ lease'  = [lease EXCEPT ![hold[w]] = Null]
  /\ thread' = [thread EXCEPT ![w] = "failed"]
  /\ UNCHANGED <<attempts, created, wait, proc, hold, tries, announced, faults>>

\* The statement after either UPDATE: bus.publish.  A process that dies before
\* it leaves a finished row that was never announced; nothing sends it later.
Announce(w) ==
  /\ thread[w] \in Verdicts
  /\ announced' = [announced EXCEPT ![hold[w]][thread[w]] = @ + 1]
  /\ Release(w)
  /\ UNCHANGED <<table, proc, faults>>

\* The UPDATE that would end the job raises.  _worker_loop guards _claim only,
\* so the exception ends the thread and the row stays as it was.
Blip(w) ==
  /\ thread[w] = "busy"
  /\ blips < MaxBlips
  /\ blips'  = blips + 1
  /\ thread' = [thread EXCEPT ![w] = "dead"]
  /\ hold'   = [hold EXCEPT ![w] = NoJob]
  /\ tries'  = [tries EXCEPT ![w] = 0]
  /\ UNCHANGED <<table, proc, announced, crashes>>

-----------------------------------------------------------------------------

\* One unit of time passes.  With HandlersWithinLease a busy handler ends
\* before its lease does.
Tick ==
  /\ \E j \in Jobs : wait[j] > 0 \/ lease[j] >= 0
  /\ HandlersWithinLease =>
       \A w \in Workers : thread[w] = "busy" => lease[hold[w]] > 0
  /\ wait'  = [j \in Jobs |-> IF wait[j] > 0 THEN wait[j] - 1 ELSE 0]
  /\ lease' = [j \in Jobs |-> IF lease[j] >= 0 THEN lease[j] - 1 ELSE lease[j]]
  /\ UNCHANGED <<status, attempts, created, proc, workers, announced, faults>>

Next ==
  \/ \E p \in Procs : Boot(p) \/ Start(p) \/ Crash(p)
  \/ \E j \in Jobs : Submit(j)
  \/ \E w \in Workers : Claim(w) \/ Complete(w) \/ Retry(w) \/ DeadLetter(w)
                        \/ Announce(w) \/ Blip(w)
  \/ Tick

Spec == Init /\ [][Next]_vars

\* A deployment restarts its processes, threads are scheduled, handlers end
\* and time passes; nothing obliges a client to submit or a fault to happen.
Fairness ==
  /\ \A p \in Procs : WF_vars(Boot(p)) /\ WF_vars(Start(p))
  /\ \A w \in Workers : /\ WF_vars(Claim(w))
                        /\ WF_vars(Complete(w) \/ Retry(w) \/ DeadLetter(w))
                        /\ WF_vars(Announce(w))
  /\ WF_vars(Tick)

FairSpec == Spec /\ Fairness

-----------------------------------------------------------------------------
(* What the queue promises while handlers end within their lease. *)

\* A busy worker owns the row it claimed: the row is running, under a live
\* lease, on the attempt the worker was handed.  This is what makes the
\* UPDATEs of _run and _on_failure, which name the row by id only, safe.
HolderOwnsRow ==
  \A w \in Workers : thread[w] = "busy" =>
    /\ hold[w] \in Jobs
    /\ status[hold[w]] = "running"
    /\ lease[hold[w]] >= 0
    /\ tries[w] = attempts[hold[w]]

\* No two workers, of one process or of two, run or report the same job: the
\* claim is atomic and reclaim_expired never takes a row from a live worker.
OneHolder == \A v, w \in Workers : hold[v] # NoJob /\ hold[v] = hold[w] => v = w

\* _to_job: the Job a client is given has no status for dead, which reads failed.
ToJob(s) == CASE s = "absent" -> "none" [] s = "dead" -> "failed" [] OTHER -> s

\* The finished jobs whose verdict nobody heard and nobody is about to send.
Unheard ==
  {j \in Jobs : /\ ToJob(status[j]) \in Verdicts
                /\ announced[j][ToJob(status[j])] = 0
                /\ \A w \in Workers : thread[w] \in Verdicts => hold[w] # j}

\* Whoever follows the bus (the audit trail, the metrics) never hears a verdict
\* that the table does not hold and never hears one twice, over retries,
\* restarts and reclaims.  The converse fails only to a crash between the UPDATE
\* and the publish: each crash silences at most the workers of its process.
EventsMatchStatus ==
  /\ \A j \in Jobs : \A v \in Verdicts :
       announced[j][v] <= IF ToJob(status[j]) = v THEN 1 ELSE 0
  /\ Cardinality(Unheard) <= crashes * MaxWorkers

\* reclaim_expired does not compare attempts with max_attempts, so a job may be
\* tried more often than max_attempts, but only once more for each fault.
AttemptsBound == \A j \in Jobs : attempts[j] <= MaxAttempts + crashes + blips

\* A completed or dead row is never written again.
TerminalIsFinal ==
  [][\A j \in Jobs : status[j] \in Terminal => status'[j] = status[j]]_vars

\* What a client sees of each job is a behaviour of ClientJob.
Client == INSTANCE ClientJob WITH view <- [j \in Jobs |-> ToJob(status[j])]
ClientSpec == Client!Spec

-----------------------------------------------------------------------------
(* Progress. *)

\* A job whose worker is gone while its lease still runs and every process is
\* back: the lease will lapse, but no constructor is left to reclaim the row.
Stranded(j) ==
  /\ status[j] = "running" /\ lease[j] >= 0
  /\ \A w \in Workers : hold[w] # j
  /\ \A p \in Procs : proc[p] # "down"

\* Every accepted job reaches a verdict, over crashes, failing handlers and
\* database errors, unless it is stranded: a row whose lease lapses while a
\* process is still down is reclaimed when that process starts.
EveryJobEnds ==
  \A j \in Jobs : status[j] = "queued" ~> (status[j] \in Terminal \/ Stranded(j))
=============================================================================
