--------------------------- MODULE JobQueueProofs ---------------------------
(* Proofs about JobQueue, for any number of jobs, processes and workers and   *)
(* any number of crashes.                                                     *)
EXTENDS JobQueue, FiniteSetTheorems, TLAPS

\* A worker thread belongs to a process.
LEMMA WorkerProc == \A w \in Workers : w[1] \in Procs
  BY DEF Workers

\* Every column, thread and counter keeps its type: no step of the queue
\* leaves a lease, a delay or an attempt count outside what the schema holds.
THEOREM TypeCorrect == Spec => []TypeOK
<1> USE JobQueueAssumption
<1>1. Init => TypeOK
  BY DEF Init, TypeOK, Statuses, Null
<1>2. TypeOK /\ [Next]_vars => TypeOK'
  <2> SUFFICES ASSUME TypeOK, [Next]_vars PROVE TypeOK'
    OBVIOUS
  <2>1. ASSUME NEW p \in Procs, Boot(p) PROVE TypeOK'
    BY <2>1 DEF TypeOK, Boot, workers, faults, Statuses
  <2>2. ASSUME NEW p \in Procs, Start(p) PROVE TypeOK'
    BY <2>2 DEF TypeOK, Start, table, faults
  <2>3. ASSUME NEW p \in Procs, Crash(p) PROVE TypeOK'
    BY <2>3 DEF TypeOK, Crash, table
  <2>4. ASSUME NEW j \in Jobs, Submit(j) PROVE TypeOK'
    <3>1. Cardinality({k \in Jobs : status[k] # "absent"}) \in Nat
      BY FS_Subset, FS_CardinalityType
    <3> QED
      BY <2>4, <3>1 DEF TypeOK, Submit, workers, faults, Statuses
  <2>5. ASSUME NEW w \in Workers, Claim(w) PROVE TypeOK'
    BY <2>5 DEF TypeOK, Claim, faults, Statuses
  <2>6. ASSUME NEW w \in Workers, Complete(w) PROVE TypeOK'
    BY <2>6 DEF TypeOK, Complete, faults, Statuses, Terminal, Verdicts
  <2>7. ASSUME NEW w \in Workers, Retry(w) PROVE TypeOK'
    <3>1. tries[w] \in 0..MaxAttempts
      BY <2>7 DEF TypeOK, Retry
    <3>2. BackoffBase ^ tries[w] \in Nat
      BY <3>1, BackoffAssumption
    <3> DEFINE d == BackoffBase ^ tries[w]
    <3>3. d \in Nat
      BY <3>2
    <3>4. wait' = [wait EXCEPT ![hold[w]] = d]
      BY <2>7 DEF Retry
    <3>5. /\ status' = [status EXCEPT ![hold[w]] = "queued"]
          /\ lease' = [lease EXCEPT ![hold[w]] = Null]
          /\ Release(w)
          /\ UNCHANGED <<attempts, created, proc, announced, faults>>
      BY <2>7 DEF Retry
    <3> HIDE DEF d
    <3> QED
      BY <3>3, <3>4, <3>5 DEF TypeOK, Release, faults, Statuses
  <2>8. ASSUME NEW w \in Workers, DeadLetter(w) PROVE TypeOK'
    BY <2>8 DEF TypeOK, DeadLetter, faults, Statuses, Terminal, Verdicts
  <2>9. ASSUME NEW w \in Workers, Blip(w) PROVE TypeOK'
    BY <2>9 DEF TypeOK, Blip, table
  <2>10. CASE Tick
    <3>1. wait' \in [Jobs -> Nat]
      BY <2>10 DEF TypeOK, Tick
    <3>2. lease' \in [Jobs -> {Null, Lapsed} \cup Nat]
      BY <2>10 DEF TypeOK, Tick, Null, Lapsed
    <3> QED
      BY <2>10, <3>1, <3>2 DEF TypeOK, Tick, workers, faults
  <2>11. ASSUME NEW w \in Workers, Announce(w) PROVE TypeOK'
    <3>1. thread'  \in [Workers -> {"off", "idle", "busy", "dead"} \cup Verdicts]
      BY <2>11 DEF TypeOK, Announce, Release
    <3>2. hold' \in [Workers -> Jobs \cup {NoJob}] /\ tries' \in [Workers -> Nat]
      BY <2>11 DEF TypeOK, Announce, Release
    <3>3. announced' \in [Jobs -> [Verdicts -> Nat]]
      <4> DEFINE f == [announced[hold[w]] EXCEPT ![thread[w]] = @ + 1]
      <4>1. announced' = [announced EXCEPT ![hold[w]] = f]
        BY <2>11 DEF Announce
      <4>2. hold[w] \in Jobs => f \in [Verdicts -> Nat]
        BY <2>11 DEF TypeOK, Announce
      <4> HIDE DEF f
      <4> QED
        BY <4>1, <4>2 DEF TypeOK
    <3> QED
      BY <2>11, <3>1, <3>2, <3>3 DEF TypeOK, Announce, table, faults
  <2>12. CASE UNCHANGED vars
    BY <2>12 DEF TypeOK, vars, table, workers, faults
  <2> QED
    BY <2>1, <2>2, <2>3, <2>4, <2>5, <2>6, <2>7, <2>8, <2>9, <2>10, <2>11, <2>12 DEF Next
<1> QED
  BY <1>1, <1>2, PTL DEF Spec

-----------------------------------------------------------------------------
(* The ownership invariant.  HolderOwnsRow and OneHolder are inductive        *)
(* together: a claim takes a queued row, which no worker can hold; a reclaim  *)
(* takes a row with no live lease, which no busy worker can hold; and an      *)
(* UPDATE that names a row by id reaches the writer's own row.  A worker      *)
(* between its UPDATE and its publish keeps its row too, so the invariant     *)
(* also says what such a row holds and that its verdict is still unheard.     *)

\* Only a serving process has live threads, so start() interrupts none.
ThreadsServe ==
  \A w \in Workers : thread[w] \in {"idle", "busy"} \cup Verdicts => proc[w[1]] = "serving"

\* A worker holds a row while it runs or reports it; the row of a report has the
\* verdict that is reported.
ReportsAreDue ==
  \A w \in Workers :
    /\ hold[w] # NoJob => thread[w] \in {"busy"} \cup Verdicts
    /\ thread[w] \in Verdicts => /\ hold[w] \in Jobs
                                 /\ ToJob(status[hold[w]]) = thread[w]
                                 /\ announced[hold[w]][thread[w]] = 0

\* The first half of EventsMatchStatus.
HeardIsTrue ==
  \A j \in Jobs : \A v \in Verdicts :
    announced[j][v] <= IF ToJob(status[j]) = v THEN 1 ELSE 0

Ownership == /\ TypeOK /\ ThreadsServe /\ HolderOwnsRow /\ OneHolder
             /\ ReportsAreDue /\ HeardIsTrue

\* A worker that runs or reports a row belongs to a process that called start().
LEMMA ThreadsServeStep == TypeOK /\ ThreadsServe /\ [Next]_vars => ThreadsServe'
<1> SUFFICES ASSUME TypeOK, ThreadsServe, [Next]_vars PROVE ThreadsServe'
  OBVIOUS
<1> USE WorkerProc DEF ThreadsServe, Verdicts
<1>1. ASSUME NEW p \in Procs, Boot(p) \/ Start(p) \/ Crash(p) PROVE ThreadsServe'
  BY <1>1 DEF TypeOK, Boot, Start, Crash, workers
<1>2. ASSUME NEW j \in Jobs, Submit(j) PROVE ThreadsServe'
  BY <1>2 DEF Submit, workers
<1>3. ASSUME NEW w \in Workers, Claim(w) PROVE ThreadsServe'
  BY <1>3 DEF TypeOK, Claim
<1>4. ASSUME NEW w \in Workers, Complete(w) \/ Retry(w) \/ DeadLetter(w) PROVE ThreadsServe'
  BY <1>4 DEF TypeOK, Complete, Retry, DeadLetter, Release
<1>5. ASSUME NEW w \in Workers, Announce(w) \/ Blip(w) PROVE ThreadsServe'
  BY <1>5 DEF TypeOK, Announce, Release, Blip
<1>6. CASE Tick \/ UNCHANGED vars
  BY <1>6 DEF Tick, vars, workers
<1> QED
  BY <1>1, <1>2, <1>3, <1>4, <1>5, <1>6 DEF Next

\* Null and Lapsed are integers too, so leases can be compared.
LEMMA LeaseIsInt == TypeOK => \A j \in Jobs : lease[j] \in Int
<1> SUFFICES ASSUME TypeOK, NEW j \in Jobs PROVE lease[j] \in Int
  OBVIOUS
<1>1. lease[j] \in {Null, Lapsed} \cup Nat
  BY DEF TypeOK
<1> QED
  BY <1>1 DEF Null, Lapsed

\* The ownership of claimed rows, without what was heard of them.
Owned == HolderOwnsRow /\ OneHolder /\ ReportsAreDue

\* Every step keeps the ownership of claimed rows: a reclaim finds no live worker's
\* row, a claim takes a queued one, and a verdict is written by the row's holder.
LEMMA OwnershipStep ==
  ASSUME HandlersWithinLease, Ownership, TypeOK', [Next]_vars
  PROVE  HolderOwnsRow' /\ OneHolder' /\ ReportsAreDue' /\ HeardIsTrue'
<1> USE JobQueueAssumption DEF Ownership
<1> DEFINE Goal == Owned' /\ HeardIsTrue'
<1>1. ASSUME NEW p \in Procs, Boot(p) PROVE Goal
  <2>1. HolderOwnsRow'
    <3> SUFFICES ASSUME NEW w \in Workers, thread'[w] = "busy"
                 PROVE  /\ hold'[w] \in Jobs
                        /\ status'[hold'[w]] = "running" /\ lease'[hold'[w]] >= 0
                        /\ tries'[w] = attempts'[hold'[w]]
      BY DEF HolderOwnsRow
    <3>1. thread[w] = "busy" /\ hold'[w] = hold[w] /\ tries'[w] = tries[w] /\ attempts' = attempts
      BY <1>1 DEF Boot, workers
    <3>2. /\ hold[w] \in Jobs /\ status[hold[w]] = "running" /\ lease[hold[w]] >= 0
          /\ tries[w] = attempts[hold[w]]
      BY <3>1 DEF HolderOwnsRow
    <3>3. ~Expired(hold[w])
      BY <3>2, LeaseIsInt DEF Expired
    <3>4. status'[hold[w]] = status[hold[w]] /\ lease'[hold[w]] = lease[hold[w]]
      BY <1>1, <3>2, <3>3 DEF Boot
    <3> QED
      BY <3>1, <3>2, <3>4
  <2>2. OneHolder'
    BY <1>1 DEF OneHolder, Boot, workers
  <2>3. \A j \in Jobs : status'[j] = status[j] \/ (status[j] = "running" /\ status'[j] = "queued")
    BY <1>1 DEF TypeOK, Boot, Expired
  <2>4. ReportsAreDue'
    BY <1>1, <2>3 DEF ReportsAreDue, Boot, workers, ToJob, Verdicts
  <2>5. HeardIsTrue'
    BY <1>1, <2>3 DEF HeardIsTrue, Boot, ToJob, Verdicts
  <2> QED
    BY <2>1, <2>2, <2>4, <2>5 DEF Owned
<1>2. ASSUME NEW p \in Procs, Start(p) PROVE Goal
  <2>1. \A w \in Workers : w[1] = p => thread[w] \notin {"busy"} \cup Verdicts
    BY <1>2 DEF ThreadsServe, Start
  <2> QED
    BY <1>2, <2>1 DEF TypeOK, Owned, HolderOwnsRow, OneHolder, ReportsAreDue, HeardIsTrue,
                      Start, table, Verdicts
<1>3. ASSUME NEW p \in Procs, Crash(p) PROVE Goal
  BY <1>3 DEF TypeOK, Owned, HolderOwnsRow, OneHolder, ReportsAreDue, HeardIsTrue, Crash, table,
              Verdicts
<1>4. ASSUME NEW j \in Jobs, Submit(j) PROVE Goal
  <2>1. \A k \in Jobs : status'[k] = status[k] \/ (status[k] = "absent" /\ status'[k] = "queued")
    BY <1>4 DEF TypeOK, Submit
  <2>2. HolderOwnsRow' /\ OneHolder'
    BY <1>4, <2>1 DEF HolderOwnsRow, OneHolder, Submit, workers
  <2>3. ReportsAreDue'
    BY <1>4, <2>1 DEF ReportsAreDue, Submit, workers, ToJob, Verdicts
  <2>4. HeardIsTrue'
    BY <1>4, <2>1 DEF HeardIsTrue, Submit, ToJob, Verdicts
  <2> QED
    BY <2>2, <2>3, <2>4 DEF Owned
<1>5. ASSUME NEW w \in Workers, Claim(w) PROVE Goal
  <2>1. PICK j \in Jobs : /\ status[j] = "queued"
                          /\ status'   = [status EXCEPT ![j] = "running"]
                          /\ attempts' = [attempts EXCEPT ![j] = @ + 1]
                          /\ lease'    = [lease EXCEPT ![j] = LeaseSeconds]
                          /\ hold'     = [hold EXCEPT ![w] = j]
                          /\ tries'    = [tries EXCEPT ![w] = attempts[j] + 1]
    BY <1>5 DEF Claim, Oldest, Due
  <2>2. thread[w] = "idle" /\ thread' = [thread EXCEPT ![w] = "busy"] /\ announced' = announced
    BY <1>5 DEF Claim
  <2>3. \A v \in Workers : hold[v] # j
    <3> SUFFICES ASSUME NEW v \in Workers, hold[v] = j PROVE FALSE
      OBVIOUS
    <3>1. thread[v] \in {"busy"} \cup Verdicts
      BY DEF ReportsAreDue
    <3>2. CASE thread[v] = "busy"
      BY <2>1, <3>2 DEF HolderOwnsRow
    <3>3. CASE thread[v] \in Verdicts
      BY <2>1, <3>3 DEF ReportsAreDue, ToJob, Verdicts
    <3> QED
      BY <3>1, <3>2, <3>3
  <2>4. HolderOwnsRow'
    BY <2>1, <2>2, <2>3 DEF TypeOK, HolderOwnsRow
  <2>5. OneHolder'
    BY <2>1, <2>3 DEF TypeOK, OneHolder
  <2>6. ReportsAreDue'
    BY <2>1, <2>2, <2>3 DEF TypeOK, ReportsAreDue, Verdicts
  <2>7. HeardIsTrue'
    BY <2>1, <2>2 DEF TypeOK, HeardIsTrue, ToJob, Verdicts
  <2> QED
    BY <2>4, <2>5, <2>6, <2>7 DEF Owned
<1>6. ASSUME NEW w \in Workers, NEW s \in Terminal, NEW v \in Verdicts, ToJob(s) = v,
             thread[w] = "busy",
             status' = [status EXCEPT ![hold[w]] = s],
             lease'  = [lease EXCEPT ![hold[w]] = Null],
             thread' = [thread EXCEPT ![w] = v],
             UNCHANGED <<attempts, hold, tries, announced>>
      PROVE  Goal
  <2>1. hold[w] \in Jobs /\ status[hold[w]] = "running" /\ hold[w] # NoJob
    BY <1>6 DEF HolderOwnsRow
  <2>2. \A u \in Workers : u # w => hold[u] # hold[w]
    BY <2>1 DEF OneHolder
  <2>3. \A x \in Verdicts : announced[hold[w]][x] = 0
    BY <2>1 DEF TypeOK, HeardIsTrue, ToJob, Verdicts
  <2>4. HolderOwnsRow'
    BY <1>6, <2>1, <2>2 DEF TypeOK, HolderOwnsRow, Verdicts
  <2>5. OneHolder'
    BY <1>6 DEF OneHolder
  <2>6. status'[hold[w]] = s /\ \A j \in Jobs : j # hold[w] => status'[j] = status[j]
    BY <1>6, <2>1 DEF TypeOK
  <2>7. thread'[w] = v /\ \A u \in Workers : u # w => thread'[u] = thread[u]
    BY <1>6 DEF TypeOK
  <2>8. ReportsAreDue'
    BY <1>6, <2>1, <2>2, <2>3, <2>6, <2>7 DEF ReportsAreDue
  <2>9. HeardIsTrue'
    BY <1>6, <2>1, <2>3, <2>6 DEF HeardIsTrue
  <2> QED
    BY <2>4, <2>5, <2>8, <2>9 DEF Owned
<1>7. ASSUME NEW w \in Workers, Complete(w) \/ DeadLetter(w) PROVE Goal
  BY <1>6, <1>7 DEF Complete, DeadLetter, Terminal, Verdicts, ToJob
<1>8. ASSUME NEW w \in Workers, Retry(w) PROVE Goal
  <2>1. /\ thread[w] = "busy"
        /\ status' = [status EXCEPT ![hold[w]] = "queued"]
        /\ lease'  = [lease EXCEPT ![hold[w]] = Null]
        /\ Release(w)
        /\ UNCHANGED <<attempts, announced>>
    BY <1>8 DEF Retry
  <2>2. hold[w] \in Jobs /\ status[hold[w]] = "running" /\ hold[w] # NoJob
    BY <2>1 DEF HolderOwnsRow
  <2>3. \A u \in Workers : u # w => hold[u] # hold[w]
    BY <2>2 DEF OneHolder
  <2>4. HolderOwnsRow'
    BY <2>1, <2>2, <2>3 DEF TypeOK, HolderOwnsRow, Release
  <2>5. OneHolder'
    BY <2>1 DEF TypeOK, OneHolder, Release
  <2>6. ReportsAreDue'
    BY <2>1, <2>2, <2>3 DEF TypeOK, ReportsAreDue, Release, Verdicts
  <2>7. HeardIsTrue'
    BY <2>1, <2>2 DEF TypeOK, HeardIsTrue, ToJob, Verdicts
  <2> QED
    BY <2>4, <2>5, <2>6, <2>7 DEF Owned
<1>9. ASSUME NEW w \in Workers, Announce(w) PROVE Goal
  <2>1. /\ thread[w] \in Verdicts
        /\ hold[w] \in Jobs /\ ToJob(status[hold[w]]) = thread[w]
        /\ announced[hold[w]][thread[w]] = 0 /\ hold[w] # NoJob
    BY <1>9 DEF Announce, ReportsAreDue
  <2>2. \A u \in Workers : u # w => hold[u] # hold[w] \/ hold[u] = NoJob
    BY <2>1 DEF OneHolder
  <2>3. /\ announced' = [announced EXCEPT ![hold[w]][thread[w]] = @ + 1]
        /\ Release(w) /\ UNCHANGED <<status, attempts, lease>>
    BY <1>9 DEF Announce, table
  <2>4. HolderOwnsRow'
    BY <2>3 DEF TypeOK, HolderOwnsRow, Release
  <2>5. OneHolder'
    BY <2>3 DEF TypeOK, OneHolder, Release
  <2>6. \A j \in Jobs : j # hold[w] => announced'[j] = announced[j]
    BY <2>3 DEF TypeOK
  <2>7. \A x \in Verdicts :
          announced'[hold[w]][x] = IF x = thread[w] THEN 1 ELSE announced[hold[w]][x]
    BY <2>1, <2>3 DEF TypeOK
  <2>8. ReportsAreDue'
    BY <2>1, <2>2, <2>3, <2>6 DEF TypeOK, ReportsAreDue, Release, Verdicts
  <2>9. HeardIsTrue'
    BY <2>1, <2>3, <2>6, <2>7 DEF HeardIsTrue
  <2> QED
    BY <2>4, <2>5, <2>8, <2>9 DEF Owned
<1>10. ASSUME NEW w \in Workers, Blip(w) PROVE Goal
  BY <1>10 DEF TypeOK, Owned, HolderOwnsRow, OneHolder, ReportsAreDue, HeardIsTrue, Blip, table,
               Verdicts
<1>11. CASE Tick
  <2>1. HolderOwnsRow'
    BY <1>11 DEF TypeOK, HolderOwnsRow, Tick, workers, Null, Lapsed
  <2>2. OneHolder' /\ ReportsAreDue' /\ HeardIsTrue'
    BY <1>11 DEF OneHolder, ReportsAreDue, HeardIsTrue, Tick, workers
  <2> QED
    BY <2>1, <2>2 DEF Owned
<1>12. CASE UNCHANGED vars
  BY <1>12 DEF Owned, HolderOwnsRow, OneHolder, ReportsAreDue, HeardIsTrue, vars, table, workers
<1> QED
  BY <1>1, <1>2, <1>3, <1>4, <1>5, <1>7, <1>8, <1>9, <1>10, <1>11, <1>12 DEF Next, Owned

\* The invariant holds throughout, for the theorems below.
LEMMA OwnershipInvariant ==
  ASSUME HandlersWithinLease
  PROVE  Spec => []Ownership
<1>1. Init => Ownership
  <2> SUFFICES ASSUME Init PROVE Ownership
    OBVIOUS
  <2>1. TypeOK
    BY JobQueueAssumption DEF Init, TypeOK, Statuses, Null
  <2>2. HeardIsTrue
    BY DEF Init, HeardIsTrue
  <2> QED
    BY <2>1, <2>2 DEF Init, Ownership, ThreadsServe, HolderOwnsRow, OneHolder, ReportsAreDue,
                      Verdicts
<1>2. Ownership /\ TypeOK' /\ [Next]_vars => Ownership'
  BY OwnershipStep, ThreadsServeStep DEF Ownership
<1> QED
  BY <1>1, <1>2, TypeCorrect, PTL DEF Spec

\* While handlers end within their lease, every busy worker owns the row it
\* claimed, and no two workers run or report the same job.
THEOREM OwnershipHolds ==
  ASSUME HandlersWithinLease
  PROVE  Spec => [](HolderOwnsRow /\ OneHolder)
<1>1. Ownership => HolderOwnsRow /\ OneHolder
  BY DEF Ownership
<1> QED
  BY <1>1, OwnershipInvariant, PTL

-----------------------------------------------------------------------------
(* What the bus hears.  Only a crash keeps a verdict from being heard, and a  *)
(* process has MaxWorkers threads that may die between UPDATE and publish.    *)

\* The rows that the threads of a process work on are at most its threads.
LEMMA HeldByProcess ==
  ASSUME NEW p \in Procs, NEW H, H = {hold[<<p, k>>] : k \in 1..MaxWorkers}
  PROVE  IsFiniteSet(H) /\ Cardinality(H) <= MaxWorkers
<1> USE JobQueueAssumption
<1> DEFINE K == 1..MaxWorkers
           f == [k \in K |-> hold[<<p, k>>]]
<1>1. IsFiniteSet(K) /\ Cardinality(K) = MaxWorkers
  BY FS_Interval
<1>2. f \in Surjection(K, H)
  BY DEF Surjection
<1> HIDE DEF K, f
<1> QED
  BY <1>1, <1>2, FS_Surjection

\* Every step but a crash leaves no more verdicts unheard than there were: the
\* worker that wrote one is about to publish it.
LEMMA NothingNewUnheard ==
  ASSUME Ownership, [Next]_vars, crashes' = crashes
  PROVE  Unheard' \subseteq Unheard
<1> USE DEF Ownership
<1> SUFFICES ASSUME NEW j \in Jobs, j \in Unheard', j \notin Unheard PROVE FALSE
  BY DEF Unheard
<1> DEFINE Told == \E w \in Workers : thread[w] \in Verdicts /\ hold[w] = j
           ToldNext == \E w \in Workers : thread'[w] \in Verdicts /\ hold'[w] = j
<1>0. /\ ToJob(status'[j]) \in Verdicts /\ announced'[j][ToJob(status'[j])] = 0 /\ ~ToldNext
      /\ ToJob(status[j]) \in Verdicts /\ announced[j][ToJob(status[j])] = 0 => Told
  BY DEF Unheard
<1>1. ASSUME NEW p \in Procs, Boot(p) PROVE FALSE
  <2>1. status'[j] = status[j] \/ status'[j] = "queued"
    BY <1>1 DEF TypeOK, Boot
  <2> QED
    BY <1>0, <1>1, <2>1 DEF Boot, workers, ToJob, Verdicts
<1>2. ASSUME NEW p \in Procs, Start(p) PROVE FALSE
  <2>1. \A w \in Workers : w[1] = p => thread[w] \notin Verdicts
    BY <1>2 DEF ThreadsServe, Start
  <2> QED
    BY <1>0, <1>2, <2>1 DEF TypeOK, Start, table
<1>3. ASSUME NEW p \in Procs, Crash(p) PROVE FALSE
  BY <1>3 DEF TypeOK, Crash
<1>4. ASSUME NEW k \in Jobs, Submit(k) PROVE FALSE
  <2>1. status'[j] = status[j] \/ status'[j] = "queued"
    BY <1>4 DEF TypeOK, Submit
  <2> QED
    BY <1>0, <1>4, <2>1 DEF Submit, workers, ToJob, Verdicts
<1>5. ASSUME NEW w \in Workers, Claim(w) PROVE FALSE
  <2>1. status'[j] = status[j] \/ status'[j] = "running"
    BY <1>5 DEF TypeOK, Claim
  <2>2. thread[w] = "idle" /\ thread' = [thread EXCEPT ![w] = "busy"] /\ announced' = announced
        /\ \A u \in Workers : u # w => hold'[u] = hold[u]
    BY <1>5 DEF TypeOK, Claim
  <2> QED
    BY <1>0, <2>1, <2>2 DEF TypeOK, ToJob, Verdicts
<1>6. ASSUME NEW w \in Workers, Complete(w) \/ DeadLetter(w) PROVE FALSE
  <2>1. /\ thread[w] = "busy" /\ hold' = hold /\ announced' = announced
        /\ \E v \in Verdicts : thread' = [thread EXCEPT ![w] = v]
        /\ \E s \in Terminal : status' = [status EXCEPT ![hold[w]] = s]
    BY <1>6 DEF Complete, DeadLetter, Verdicts, Terminal
  <2>2. thread'[w] \in Verdicts /\ \A u \in Workers : u # w => thread'[u] = thread[u]
    BY <2>1 DEF TypeOK
  <2>3. CASE hold[w] = j
    BY <1>0, <2>1, <2>2, <2>3
  <2>4. CASE hold[w] # j
    <3>1. status'[j] = status[j]
      BY <2>1, <2>4 DEF TypeOK
    <3> QED
      BY <1>0, <2>1, <2>2, <3>1 DEF Verdicts
  <2> QED
    BY <2>3, <2>4
<1>7. ASSUME NEW w \in Workers, Retry(w) \/ Blip(w) PROVE FALSE
  <2>1. /\ thread[w] = "busy" /\ announced' = announced
        /\ thread'[w] \notin Verdicts
        /\ \A u \in Workers : u # w => thread'[u] = thread[u] /\ hold'[u] = hold[u]
    BY <1>7 DEF TypeOK, Retry, Blip, Release, Verdicts
  <2>2. status'[j] = status[j] \/ status'[j] = "queued"
    BY <1>7 DEF TypeOK, Retry, Blip, table
  <2> QED
    BY <1>0, <2>1, <2>2 DEF ToJob, Verdicts
<1>8. ASSUME NEW w \in Workers, Announce(w) PROVE FALSE
  <2>1. /\ thread[w] \in Verdicts /\ status' = status
        /\ \A u \in Workers : u # w => thread'[u] = thread[u] /\ hold'[u] = hold[u]
        /\ announced' = [announced EXCEPT ![hold[w]][thread[w]] = @ + 1]
    BY <1>8 DEF TypeOK, Announce, Release, table
  <2>2. hold[w] \in Jobs /\ ToJob(status[hold[w]]) = thread[w] /\ announced[hold[w]][thread[w]] = 0
    BY <2>1 DEF ReportsAreDue
  <2>3. CASE hold[w] = j
    <3>1. announced'[j][thread[w]] = 1
      BY <2>1, <2>2, <2>3 DEF TypeOK
    <3> QED
      BY <1>0, <2>1, <2>2, <2>3, <3>1
  <2>4. CASE hold[w] # j
    <3>1. announced'[j] = announced[j]
      BY <2>1, <2>4 DEF TypeOK
    <3> QED
      BY <1>0, <2>1, <2>4, <3>1
  <2> QED
    BY <2>3, <2>4
<1>9. CASE Tick \/ UNCHANGED vars
  BY <1>0, <1>9 DEF Tick, vars, table, workers
<1> QED
  BY <1>1, <1>2, <1>3, <1>4, <1>5, <1>6, <1>7, <1>8, <1>9 DEF Next

\* Each crash leaves at most as many verdicts unheard as a process has threads.
LEMMA SilenceStep ==
  ASSUME Ownership, Cardinality(Unheard) <= crashes * MaxWorkers, TypeOK', [Next]_vars
  PROVE  Cardinality(Unheard)' <= (crashes * MaxWorkers)'
<1> USE JobQueueAssumption
<1>1. IsFiniteSet(Unheard) /\ IsFiniteSet(Unheard')
  <2>1. Unheard \subseteq Jobs /\ Unheard' \subseteq Jobs
    BY DEF Unheard
  <2> QED
    BY <2>1, FS_Subset
<1>2. Cardinality(Unheard) \in Nat /\ Cardinality(Unheard') \in Nat /\ crashes \in Nat
  BY <1>1, FS_CardinalityType DEF Ownership, TypeOK
<1>3. CASE crashes' = crashes
  <2>1. Unheard' \subseteq Unheard
    BY <1>3, NothingNewUnheard
  <2>2. Cardinality(Unheard') <= Cardinality(Unheard)
    BY <1>1, <2>1, FS_Subset
  <2>3. Cardinality(Unheard') <= crashes * MaxWorkers
    BY <1>2, <2>2
  <2> QED
    BY <1>3, <2>3
<1>4. ASSUME NEW p \in Procs, Crash(p) PROVE Cardinality(Unheard)' <= (crashes * MaxWorkers)'
  <2> DEFINE H == {hold[<<p, k>>] : k \in 1..MaxWorkers}
  <2>1. IsFiniteSet(H) /\ Cardinality(H) <= MaxWorkers
    BY HeldByProcess
  <2>2. Unheard' \subseteq Unheard \cup H
    <3> SUFFICES ASSUME NEW j \in Unheard', j \notin Unheard PROVE j \in H
      OBVIOUS
    <3>1. status' = status /\ announced' = announced
      BY <1>4 DEF Crash, table
    <3>2. PICK w \in Workers : thread[w] \in Verdicts /\ hold[w] = j
      BY <3>1 DEF Unheard
    <3>3. w[1] = p
      <4>1. w[1] # p => thread'[w] = thread[w] /\ hold'[w] = hold[w]
        BY <1>4 DEF Crash
      <4> QED
        BY <3>2, <4>1 DEF Unheard
    <3>4. PICK k \in 1..MaxWorkers : w = <<p, k>>
      BY <3>3 DEF Workers
    <3> QED
      BY <3>2, <3>4
  <2> HIDE DEF H
  <2>3. IsFiniteSet(Unheard \cup H) /\ Cardinality(Unheard') <= Cardinality(Unheard \cup H)
    BY <1>1, <2>1, <2>2, FS_Union, FS_Subset
  <2>4. Cardinality(Unheard \cup H) <= Cardinality(Unheard) + Cardinality(H)
    <3>1. Cardinality(Unheard \cup H)
            = Cardinality(Unheard) + Cardinality(H) - Cardinality(Unheard \cap H)
      BY <1>1, <2>1, FS_Union
    <3>2. Cardinality(Unheard \cap H) \in Nat /\ Cardinality(H) \in Nat
      BY <1>1, <2>1, FS_Intersection, FS_CardinalityType
    <3> QED
      BY <1>2, <3>1, <3>2
  <2>5. Cardinality(H) \in Nat /\ Cardinality(Unheard \cup H) \in Nat
    BY <2>1, <2>3, FS_CardinalityType
  <2>6. Cardinality(Unheard') <= crashes * MaxWorkers + MaxWorkers
    BY <1>2, <2>1, <2>3, <2>4, <2>5
  <2>7. crashes' = crashes + 1
    BY <1>4 DEF Crash
  <2>8. (crashes + 1) * MaxWorkers = crashes * MaxWorkers + MaxWorkers
    BY <1>2
  <2> QED
    BY <2>6, <2>7, <2>8
<1>5. crashes' = crashes \/ \E p \in Procs : Crash(p)
  BY DEF Next, Boot, Start, Submit, Claim, Complete, Retry, DeadLetter, Announce, Blip, Tick,
         vars, faults
<1> QED
  BY <1>3, <1>4, <1>5

\* While handlers end within their lease, what the audit trail hears of a job is
\* the verdict its row holds, once; and only a crash between the UPDATE and the
\* publish keeps a verdict from it (jobs_sqlite.py:291-295, 316-323).
THEOREM VerdictsAreAnnounced ==
  ASSUME HandlersWithinLease
  PROVE  Spec => []EventsMatchStatus
<1> DEFINE Silence == Cardinality(Unheard) <= crashes * MaxWorkers
<1>1. Init => Silence
  <2> SUFFICES ASSUME Init PROVE Silence
    OBVIOUS
  <2>1. Unheard = {}
    BY DEF Init, Unheard, ToJob, Verdicts
  <2> QED
    BY <2>1, FS_EmptySet, JobQueueAssumption DEF Init
<1>2. Ownership /\ Silence /\ TypeOK' /\ [Next]_vars => Silence'
  BY SilenceStep
<1>3. Ownership /\ Silence => EventsMatchStatus
  BY DEF Ownership, HeardIsTrue, EventsMatchStatus
<1> QED
  BY <1>1, <1>2, <1>3, TypeCorrect, OwnershipInvariant, PTL DEF Spec

\* A completed or dead row is never written again: only a busy worker or a
\* reclaim changes a row that exists, and both act on running rows.
THEOREM VerdictIsFinal ==
  ASSUME HandlersWithinLease
  PROVE  Spec => TerminalIsFinal
<1> DEFINE Final == \A j \in Jobs : status[j] \in Terminal => status'[j] = status[j]
<1>1. TypeOK /\ HolderOwnsRow /\ [Next]_vars => [Final]_vars
  <2> SUFFICES ASSUME TypeOK, HolderOwnsRow, Next PROVE Final
    OBVIOUS
  <2>1. ASSUME NEW p \in Procs, Boot(p) PROVE Final
    BY <2>1 DEF TypeOK, Boot, Expired, Terminal
  <2>2. ASSUME NEW p \in Procs, Start(p) \/ Crash(p) PROVE Final
    BY <2>2 DEF Start, Crash, table
  <2>3. ASSUME NEW j \in Jobs, Submit(j) PROVE Final
    BY <2>3 DEF TypeOK, Submit, Terminal
  <2>4. ASSUME NEW w \in Workers, Claim(w) PROVE Final
    BY <2>4 DEF TypeOK, Claim, Oldest, Due, Terminal
  <2>5. ASSUME NEW w \in Workers, Complete(w) \/ Retry(w) \/ DeadLetter(w) PROVE Final
    BY <2>5 DEF TypeOK, HolderOwnsRow, Complete, Retry, DeadLetter, Terminal
  <2>6. ASSUME NEW w \in Workers, Announce(w) \/ Blip(w) PROVE Final
    BY <2>6 DEF Announce, Blip, table
  <2>7. CASE Tick
    BY <2>7 DEF Tick
  <2> QED
    BY <2>1, <2>2, <2>3, <2>4, <2>5, <2>6, <2>7 DEF Next
<1> QED
  BY <1>1, TypeCorrect, OwnershipHolds, PTL DEF Spec, TerminalIsFinal

-----------------------------------------------------------------------------
(* How often a job may be tried. *)

\* Nobody works on the job.
Unheld(j) == \A w \in Workers : thread[w] = "busy" => hold[w] # j

\* A job that waits, or that a fault left running, has an attempt in hand: the
\* failure path requeues below max_attempts only, and a fault pays for the
\* attempt that the reclaim gives back.
AttemptInHand ==
  \A j \in Jobs :
    /\ attempts[j] <= MaxAttempts + crashes + blips
    /\ status[j] \in {"absent", "queued"} \/ (status[j] = "running" /\ Unheld(j))
         => attempts[j] < MaxAttempts + crashes + blips

\* Every step keeps the count of attempts below its bound: a row comes back
\* without a failure only through a fault that was counted.
LEMMA AttemptStep ==
  ASSUME HandlersWithinLease, Ownership, AttemptInHand, TypeOK', [Next]_vars
  PROVE  AttemptInHand'
<1> USE JobQueueAssumption DEF Ownership, Unheld, AttemptInHand
<1>1. ASSUME NEW p \in Procs, Boot(p) PROVE AttemptInHand'
  <2> SUFFICES ASSUME NEW j \in Jobs, status'[j] = "running" => Unheld(j)', status'[j] # "dead",
                      status'[j] # "completed"
               PROVE  attempts'[j] < (MaxAttempts + crashes + blips)'
    BY <1>1 DEF TypeOK, Boot, workers, faults, Statuses, Terminal
  <2>1. attempts' = attempts /\ thread' = thread /\ hold' = hold /\ crashes' = crashes /\ blips' = blips
    BY <1>1 DEF Boot, workers, faults
  <2>2. CASE Expired(j)
    <3>1. status[j] = "running" /\ lease[j] < 0 /\ lease[j] \in Int
      BY <2>2, LeaseIsInt DEF Expired
    <3>2. \A w \in Workers : thread[w] = "busy" => lease[hold[w]] >= 0
      BY DEF HolderOwnsRow
    <3>3. Unheld(j)
      BY <3>1, <3>2
    <3> QED
      BY <2>1, <3>1, <3>3
  <2>3. CASE ~Expired(j)
    <3>1. status'[j] = status[j]
      BY <1>1, <2>3 DEF Boot
    <3> QED
      BY <2>1, <3>1 DEF TypeOK, Statuses, Terminal
  <2> QED
    BY <2>2, <2>3
<1>2. ASSUME NEW p \in Procs, Start(p) PROVE AttemptInHand'
  BY <1>2 DEF TypeOK, ThreadsServe, Start, table, faults
<1>3. ASSUME NEW p \in Procs, Crash(p) PROVE AttemptInHand'
  BY <1>3 DEF TypeOK, Crash, table
<1>4. ASSUME NEW j \in Jobs, Submit(j) PROVE AttemptInHand'
  BY <1>4 DEF TypeOK, Submit, workers, faults
<1>5. ASSUME NEW w \in Workers, Claim(w) PROVE AttemptInHand'
  BY <1>5 DEF TypeOK, Claim, Oldest, Due, faults
<1>6. ASSUME NEW w \in Workers, Complete(w) PROVE AttemptInHand'
  BY <1>6 DEF TypeOK, HolderOwnsRow, OneHolder, Complete, Verdicts, faults
<1>7. ASSUME NEW w \in Workers, Retry(w) PROVE AttemptInHand'
  <2>1. /\ thread[w] = "busy" /\ tries[w] < MaxAttempts
        /\ status' = [status EXCEPT ![hold[w]] = "queued"]
        /\ Release(w)
        /\ UNCHANGED <<attempts, crashes, blips>>
    BY <1>7 DEF Retry, faults
  <2> QED
    BY <2>1 DEF TypeOK, HolderOwnsRow, OneHolder, Release
<1>8. ASSUME NEW w \in Workers, DeadLetter(w) PROVE AttemptInHand'
  BY <1>8 DEF TypeOK, HolderOwnsRow, OneHolder, DeadLetter, Verdicts, faults
<1>9. ASSUME NEW w \in Workers, Announce(w) \/ Blip(w) PROVE AttemptInHand'
  BY <1>9 DEF TypeOK, Announce, Release, Blip, table, Verdicts, faults
<1>10. CASE Tick
  BY <1>10 DEF TypeOK, Tick, workers, faults
<1>11. CASE UNCHANGED vars
  BY <1>11 DEF vars, table, workers, faults
<1> QED
  BY <1>1, <1>2, <1>3, <1>4, <1>5, <1>6, <1>7, <1>8, <1>9, <1>10, <1>11 DEF Next

\* A job is tried at most max_attempts times plus once for each fault, although
\* reclaim_expired never looks at the attempt count.
THEOREM AttemptsAreBounded ==
  ASSUME HandlersWithinLease
  PROVE  Spec => []AttemptsBound
<1>1. Init => AttemptInHand
  BY JobQueueAssumption DEF Init, AttemptInHand
<1>2. Ownership /\ AttemptInHand /\ TypeOK' /\ [Next]_vars => AttemptInHand'
  BY AttemptStep
<1>3. AttemptInHand => AttemptsBound
  BY DEF AttemptInHand, AttemptsBound
<1> QED
  BY <1>1, <1>2, <1>3, TypeCorrect, OwnershipInvariant, PTL DEF Spec

-----------------------------------------------------------------------------
(* The client's view. *)

\* What a client that polls a job sees is a behaviour of ClientJob: each step
\* of the queue is a step of the client's view or leaves it alone.
THEOREM ImplementsClientJob ==
  ASSUME HandlersWithinLease
  PROVE  Spec => ClientSpec
<1> DEFINE View == [j \in Jobs |-> ToJob(status[j])]
<1>1. Init => Client!Init
  BY DEF Init, Client!Init, ToJob
<1>2. TypeOK /\ HolderOwnsRow /\ [Next]_vars => [Client!Next]_View
  <2> SUFFICES ASSUME TypeOK, HolderOwnsRow, [Next]_vars PROVE Client!Next \/ UNCHANGED View
    OBVIOUS
  <2>1. ASSUME NEW p \in Procs, Boot(p) PROVE Client!Next
    <3> DEFINE S == {j \in Jobs : Expired(j)}
    <3>1. Client!Requeue(S)
      BY <2>1 DEF TypeOK, Boot, Expired, Client!Requeue, ToJob
    <3> QED
      BY <3>1 DEF Client!Next
  <2>2. ASSUME NEW p \in Procs, Start(p) \/ Crash(p) PROVE UNCHANGED View
    BY <2>2 DEF Start, Crash, table
  <2>3. ASSUME NEW j \in Jobs, Submit(j) PROVE Client!Next
    <3>1. Client!Accept(j)
      BY <2>3 DEF TypeOK, Submit, Client!Accept, ToJob
    <3> QED
      BY <3>1 DEF Client!Next
  <2>4. ASSUME NEW w \in Workers, Claim(w) PROVE Client!Next
    <3>1. PICK j \in Jobs : Oldest(j) /\ status' = [status EXCEPT ![j] = "running"]
      BY <2>4 DEF Claim
    <3>2. Client!Run(j)
      BY <3>1 DEF TypeOK, Oldest, Due, Client!Run, ToJob
    <3> QED
      BY <3>2 DEF Client!Next
  <2>5. ASSUME NEW w \in Workers, Complete(w) PROVE Client!Next
    <3>1. hold[w] \in Jobs /\ Client!Finish(hold[w], "completed")
      BY <2>5 DEF TypeOK, HolderOwnsRow, Complete, Client!Finish, ToJob
    <3> QED
      BY <3>1 DEF Client!Next, Client!Verdicts
  <2>6. ASSUME NEW w \in Workers, Retry(w) PROVE Client!Next
    <3> DEFINE S == {hold[w]}
    <3>1. hold[w] \in Jobs /\ status[hold[w]] = "running"
      BY <2>6 DEF HolderOwnsRow, Retry
    <3>2. status' = [status EXCEPT ![hold[w]] = "queued"]
      BY <2>6 DEF Retry
    <3>3. Client!Requeue(S)
      BY <3>1, <3>2 DEF TypeOK, Client!Requeue, ToJob
    <3> QED
      BY <3>1, <3>3 DEF Client!Next
  <2>7. ASSUME NEW w \in Workers, DeadLetter(w) PROVE Client!Next
    <3>1. hold[w] \in Jobs /\ Client!Finish(hold[w], "failed")
      BY <2>7 DEF TypeOK, HolderOwnsRow, DeadLetter, Client!Finish, ToJob
    <3> QED
      BY <3>1 DEF Client!Next, Client!Verdicts
  <2>8. ASSUME NEW w \in Workers, Announce(w) \/ Blip(w) PROVE UNCHANGED View
    BY <2>8 DEF Announce, Blip, table
  <2>9. CASE Tick \/ UNCHANGED vars
    BY <2>9 DEF Tick, vars, table
  <2> QED
    BY <2>1, <2>2, <2>3, <2>4, <2>5, <2>6, <2>7, <2>8, <2>9 DEF Next
<1> QED
  BY <1>1, <1>2, TypeCorrect, OwnershipHolds, PTL DEF Spec, ClientSpec, Client!Spec
=============================================================================
