-------------------------- MODULE ProjectRunProofs --------------------------
(* Proofs about ProjectRun, for any number of threads and any lease.          *)
EXTENDS ProjectRun, TLAPS

\* Every column, file and thread keeps its type.
THEOREM TypeCorrect == Spec => []TypeOK
<1> USE ProjectRunAssumption DEF Null, Versions, Bundle
<1>1. Init => TypeOK
  <2> SUFFICES ASSUME Init PROVE TypeOK
    OBVIOUS
  <2>1. /\ exists \in BOOLEAN /\ dir \in BOOLEAN /\ disturbed \in BOOLEAN
        /\ upload \in Suffixes \cup {None} /\ pc \in [Threads -> Steps]
        /\ status \in {"created", "uploaded", "queued", "running", "completed", "failed"}
        /\ op \in [Threads -> {"request", "job"}]
    BY DEF Init, Steps
  <2>2. /\ started \in {Null} \cup 0..(RunLease + 1) /\ summary \in Versions
        /\ stored \in Versions /\ backlog \in 0..MaxBacklog /\ crashes \in 0..MaxCrashes
        /\ file \in [Suffixes -> Versions] /\ got \in [Threads -> Versions]
    BY DEF Init
  <2>3. /\ out \in Bundle /\ zip \in Bundle
        /\ copy \in [Threads -> [upload : Suffixes \cup {None}, summary : Versions]]
    BY DEF Init, NoBundle, Blank
  <2> QED
    BY <2>1, <2>2, <2>3 DEF TypeOK
<1>2. TypeOK /\ [Next]_vars => TypeOK'
  <2> SUFFICES ASSUME TypeOK, [Next]_vars PROVE TypeOK'
    OBVIOUS
  <2>a. ASSUME NEW s PROVE [file EXCEPT ![s] = 0] \in [Suffixes -> Versions]
    <3> HIDE DEF Versions
    <3>1. file \in [Suffixes -> Versions]
      BY DEF TypeOK
    <3>2. 0 \in Versions
      BY DEF Versions
    <3> QED
      BY <3>1, <3>2
  <2>b. [s \in Suffixes |-> 0] \in [Suffixes -> Versions] /\ NoBundle \in Bundle
    BY DEF NoBundle
  <2> USE DEF TypeOK, row, space, threads, Steps, InPipeline, Ending, Goto, Leave, Forget, Disturb, Blank, Save, Get,
             KeptUpload, KeptSummary, JobFails
  <2>1. ASSUME NEW t \in Threads, RequestRun(t) PROVE TypeOK'
    BY <2>1 DEF RequestRun
  <2>2. ASSUME NEW t \in Threads, TakeJob(t) PROVE TypeOK'
    BY <2>2 DEF TakeJob
  <2>3. ASSUME NEW t \in Threads, JobOfDeleted(t) PROVE TypeOK'
    BY <2>3 DEF JobOfDeleted
  <2>4. ASSUME NEW t \in Threads, Begin(t) PROVE TypeOK'
    BY <2>4 DEF Begin
  <2>5. ASSUME NEW t \in Threads, Refuse(t) PROVE TypeOK'
    BY <2>5 DEF Refuse
  <2>6. ASSUME NEW t \in Threads, ReadInput(t) PROVE TypeOK'
    BY <2>6 DEF ReadInput
  <2>7. ASSUME NEW t \in Threads, Package(t) PROVE TypeOK'
    BY <2>7 DEF Package
  <2>8. ASSUME NEW t \in Threads, Zip(t) PROVE TypeOK'
    BY <2>8 DEF Zip
  <2>9. ASSUME NEW t \in Threads, RunFails(t) PROVE TypeOK'
    BY <2>9 DEF RunFails
  <2>10. ASSUME NEW t \in Threads, Finish(t) PROVE TypeOK'
    BY <2>10 DEF Finish
  <2>11. ASSUME NEW t \in Threads, Surprise(t) PROVE TypeOK'
    BY <2>11 DEF Surprise
  <2>12. ASSUME NEW t \in Threads, End(t) PROVE TypeOK'
    BY <2>12 DEF End
  <2>13. ASSUME NEW t \in Threads, BeginUpload(t) PROVE TypeOK'
    BY <2>13 DEF BeginUpload
  <2>14. ASSUME NEW t \in Threads, RejectUpload(t) PROVE TypeOK'
    <3>1. file' \in [Suffixes -> Versions]
      BY <2>14, <2>a DEF RejectUpload
    <3> QED
      BY <2>14, <3>1 DEF RejectUpload
  <2>15. ASSUME NEW t \in Threads, OpenUpload(t) PROVE TypeOK'
    <3>1. file' \in [Suffixes -> Versions] /\ stored' \in Versions
      BY <2>15 DEF OpenUpload
    <3>2. got' \in [Threads -> Versions]
      <4>1. got' = [got EXCEPT ![t] = stored + 1] \/ got' = [got EXCEPT ![t] = 0]
        BY <2>15 DEF OpenUpload
      <4>2. stored + 1 \in Versions /\ 0 \in Versions
        BY <2>15 DEF OpenUpload
      <4> QED
        BY <4>1, <4>2
    <3>3. pc' \in [Threads -> Steps] /\ op' \in [Threads -> {"request", "job"}]
      BY <2>15 DEF OpenUpload
    <3>4. copy' \in [Threads -> [upload : Suffixes \cup {None}, summary : Versions]]
      <4>1. copy' = copy \/ copy' = [copy EXCEPT ![t] = Blank]
        BY <2>15 DEF OpenUpload
      <4>2. Blank \in [upload : Suffixes \cup {None}, summary : Versions]
        OBVIOUS
      <4> QED
        BY <4>1, <4>2
    <3>5. UNCHANGED <<row, dir, out, zip, backlog, crashes, disturbed>>
      BY <2>15 DEF OpenUpload
    <3> QED
      BY <3>1, <3>2, <3>3, <3>4, <3>5
  <2>16. ASSUME NEW t \in Threads, WriteUpload(t) PROVE TypeOK'
    BY <2>16 DEF WriteUpload
  <2>17. ASSUME NEW t \in Threads, SaveUpload(t) PROVE TypeOK'
    BY <2>17 DEF SaveUpload
  <2>18. ASSUME NEW t \in Threads, BeginJob(t) PROVE TypeOK'
    BY <2>18 DEF BeginJob
  <2>19. ASSUME NEW t \in Threads, SaveQueued(t) PROVE TypeOK'
    BY <2>19 DEF SaveQueued
  <2>20. ASSUME NEW t \in Threads, SubmitJob(t) PROVE TypeOK'
    BY <2>20 DEF SubmitJob
  <2>21. ASSUME NEW t \in Threads, DeleteRow(t) PROVE TypeOK'
    <3>1. /\ started' \in {Null} \cup 0..(RunLease + 1) /\ summary' \in Versions
          /\ upload' \in Suffixes \cup {None}
      BY <2>21 DEF DeleteRow
    <3>2. /\ exists' \in BOOLEAN /\ pc' \in [Threads -> Steps]
          /\ status' \in {"created", "uploaded", "queued", "running", "completed", "failed"}
      BY <2>21 DEF DeleteRow
    <3>3. UNCHANGED <<space, op, copy, got, stored, backlog, crashes, disturbed>>
      BY <2>21 DEF DeleteRow
    <3> QED
      BY <3>1, <3>2, <3>3
  <2>22. ASSUME NEW t \in Threads, RemoveTree(t) PROVE TypeOK'
    <3>1. file' \in [Suffixes -> Versions] /\ out' \in Bundle /\ zip' \in Bundle
      BY <2>22, <2>b DEF RemoveTree
    <3>2. dir' \in BOOLEAN
      BY <2>22 DEF RemoveTree
    <3>3. UNCHANGED <<row, stored, backlog, crashes, disturbed>> /\ Leave(t)
      BY <2>22 DEF RemoveTree
    <3> QED
      BY <3>1, <3>2, <3>3
  <2>23. ASSUME NEW t \in Threads, Crash(t) PROVE TypeOK'
    BY <2>23 DEF Crash
  <2>24. CASE Tick
    BY <2>24 DEF Tick
  <2>25. CASE UNCHANGED vars
    BY <2>25 DEF vars
  <2> QED
    BY <2>1, <2>2, <2>3, <2>4, <2>5, <2>6, <2>7, <2>8, <2>9, <2>10, <2>11, <2>12,
       <2>13, <2>14, <2>15, <2>16, <2>17, <2>18, <2>19, <2>20, <2>21, <2>22, <2>23,
       <2>24, <2>25 DEF Next, Arrivals, RunSteps, WriterSteps
<1> QED
  BY <1>1, <1>2, PTL DEF Spec

-----------------------------------------------------------------------------
(* The run lease.  Until one of the three events that `disturbed` names has   *)
(* happened, the threads between try_begin_run and end_run are at most one,   *)
(* and the row reads `running` under a live lease while that thread is in the *)
(* pipeline.                                                                  *)

InRun(t) == pc[t] \in InPipeline \cup Ending

OneInRun == \A t, u \in Threads : InRun(t) /\ InRun(u) => t = u

\* Once disturbed, always disturbed.
LEMMA DisturbedStays == [Next]_vars /\ ~disturbed' => ~disturbed
  BY DEF Next, Arrivals, RunSteps, WriterSteps, Disturb, vars, RequestRun, TakeJob, JobOfDeleted,
         Begin, Refuse, ReadInput, Package, Zip, RunFails, Finish, Surprise, End, BeginUpload,
         RejectUpload, OpenUpload, WriteUpload, SaveUpload, BeginJob, SaveQueued, SubmitJob,
         DeleteRow, RemoveTree, Crash, Tick

\* Every step that does not disturb keeps one thread between try_begin_run and
\* end_run, under its own live lease.
LEMMA LeaseStep ==
  ASSUME TypeOK, OneInRun, RunHoldsLease, [Next]_vars, ~disturbed'
  PROVE  OneInRun' /\ RunHoldsLease'
<1> USE ProjectRunAssumption
    DEF OneInRun, RunHoldsLease, InRun, Active, InPipeline, Ending, TypeOK,
        row, space, threads, Goto, Leave, Disturb, Null
<1>1. ASSUME NEW t \in Threads, RequestRun(t) \/ TakeJob(t) \/ BeginUpload(t) \/ BeginJob(t) \/ SubmitJob(t) PROVE OneInRun' /\ RunHoldsLease'
  BY <1>1 DEF RequestRun, TakeJob, BeginUpload, BeginJob, SubmitJob
<1>2. ASSUME NEW t \in Threads, JobOfDeleted(t) \/ Refuse(t) PROVE OneInRun' /\ RunHoldsLease'
  BY <1>2 DEF JobOfDeleted, Refuse
<1>3. ASSUME NEW t \in Threads, RejectUpload(t) \/ OpenUpload(t) \/ WriteUpload(t) PROVE OneInRun' /\ RunHoldsLease'
  <2>1. ~InRun(t) /\ UNCHANGED row
    BY <1>3 DEF RejectUpload, OpenUpload, WriteUpload
  <2>2. pc' \in {[pc EXCEPT ![t] = s] : s \in {"idle", "write", "upsave"}}
    BY <1>3 DEF RejectUpload, OpenUpload, WriteUpload
  <2>3. \A u \in Threads : (InRun(u)' <=> InRun(u)) /\ (Active(u)' <=> Active(u))
    BY <2>1, <2>2
  <2> QED
    BY <2>1, <2>3
<1>4. ASSUME NEW t \in Threads, Begin(t) PROVE OneInRun' /\ RunHoldsLease'
  <2>1. \A u \in Threads : pc[u] \notin Ending
    BY <1>4 DEF Begin
  <2>2. exists /\ (status # "running" \/ started = Null \/ started > RunLease)
    BY <1>4 DEF Begin, Claimable
  <2>3. \A u \in Threads : ~Active(u)
    BY <2>2
  <2>4. pc' = [pc EXCEPT ![t] = "read"] /\ status' = "running" /\ started' = 0
    BY <1>4 DEF Begin
  <2>5. \A u \in Threads : u # t => ~InRun(u)'
    BY <2>1, <2>3, <2>4
  <2> QED
    BY <2>4, <2>5
<1>5. ASSUME NEW t \in Threads, ReadInput(t) \/ Package(t) \/ Zip(t) PROVE OneInRun' /\ RunHoldsLease'
  <2>1. Active(t) /\ UNCHANGED row
    BY <1>5 DEF ReadInput, Package, Zip
  <2>2. pc' \in {[pc EXCEPT ![t] = s] : s \in {"package", "zip", "finish"}}
    BY <1>5 DEF ReadInput, Package, Zip
  <2>3. \A u \in Threads : (InRun(u)' <=> InRun(u)) /\ (Active(u)' <=> Active(u))
    BY <2>1, <2>2
  <2> QED
    BY <2>1, <2>3
<1>6. ASSUME NEW t \in Threads, RunFails(t) \/ Finish(t) \/ Surprise(t) PROVE OneInRun' /\ RunHoldsLease'
  <2>1. Active(t) /\ pc' \in {[pc EXCEPT ![t] = "endok"], [pc EXCEPT ![t] = "endfail"]}
    BY <1>6 DEF RunFails, Finish, Surprise
  <2>2. OneInRun' /\ \A u \in Threads : ~Active(u)'
    BY <2>1
  <2> QED
    BY <2>2
<1>7. ASSUME NEW t \in Threads, End(t) PROVE OneInRun' /\ RunHoldsLease'
  BY <1>7 DEF End
<1>8. ASSUME NEW t \in Threads, SaveUpload(t) \/ SaveQueued(t) PROVE OneInRun' /\ RunHoldsLease'
  <2>1. ~InRun(t) /\ \A u \in Threads : ~Active(u)
    BY <1>8 DEF SaveUpload, SaveQueued
  <2>2. pc' \in {[pc EXCEPT ![t] = "idle"], [pc EXCEPT ![t] = "submit"]}
    BY <1>8 DEF SaveUpload, SaveQueued
  <2>3. \A u \in Threads : (InRun(u)' <=> InRun(u)) /\ ~Active(u)'
    BY <2>1, <2>2
  <2> QED
    BY <2>3
<1>9. ASSUME NEW t \in Threads, DeleteRow(t) \/ RemoveTree(t) PROVE OneInRun' /\ RunHoldsLease'
  BY <1>9 DEF DeleteRow, RemoveTree
<1>10. ASSUME NEW t \in Threads, Crash(t) PROVE OneInRun' /\ RunHoldsLease'
  BY <1>10 DEF Crash
<1>11. CASE Tick
  BY <1>11 DEF Tick
<1>12. CASE UNCHANGED vars
  BY <1>12 DEF vars
<1> QED
  BY <1>1, <1>2, <1>3, <1>4, <1>5, <1>6, <1>7, <1>8, <1>9, <1>10, <1>11, <1>12
     DEF Next, Arrivals, RunSteps, WriterSteps

\* A project just created has no thread in a run.
LEMMA LeaseInit == Init => OneInRun /\ RunHoldsLease
  BY DEF Init, OneInRun, RunHoldsLease, InRun, Active, InPipeline, Ending

\* The inductive invariant of the run lease.
LEMMA LeaseInvariant == Spec => [](TypeOK /\ (~disturbed => OneInRun /\ RunHoldsLease))
<1> DEFINE Lock == ~disturbed => OneInRun /\ RunHoldsLease
<1>1. TypeOK /\ Lock /\ [Next]_vars => Lock'
  BY LeaseStep, DisturbedStays
<1>2. Init => Lock
  BY LeaseInit
<1> QED
  BY <1>1, <1>2, TypeCorrect, PTL DEF Spec

\* One pipeline at a time, and its row reads `running` under a live lease, until
\* an upload or create_job is saved during a run, a claim falls between a run's
\* save and its end_run, or a run outlives RUN_LEASE_SECONDS: these three are all
\* that can break what ADR 0066 promises, for any number of threads and crashes.
THEOREM OneRunAtATime == Spec => []LeaseIsLock
<1>1. (~disturbed => OneInRun /\ RunHoldsLease) => LeaseIsLock
  BY DEF OneInRun, OneRun, InRun, Active, LeaseIsLock
<1> QED
  BY <1>1, LeaseInvariant, PTL

-----------------------------------------------------------------------------
(* Whatever happens to the lease. *)

\* Unless a process died, a project is left reading `running` with its lease
\* released: overlapping runs, stale saves, the gap before end_run and exceptions
\* past the pipeline never leave it to wait for RUN_LEASE_SECONDS.
THEOREM NoAbandonedRunning == Spec => []LeftRunningIsFree
<1>1. Init => LeftRunningIsFree
  BY DEF Init, LeftRunningIsFree
<1>2. TypeOK /\ LeftRunningIsFree /\ [Next]_vars => LeftRunningIsFree'
  <2> SUFFICES ASSUME TypeOK, LeftRunningIsFree, [Next]_vars PROVE LeftRunningIsFree'
    OBVIOUS
  <2> USE ProjectRunAssumption
      DEF TypeOK, LeftRunningIsFree, Active, InPipeline, Ending, Goto, Leave, row, space, threads, Null
  <2>1. ASSUME NEW t \in Threads,
               RequestRun(t) \/ TakeJob(t) \/ BeginUpload(t) \/ BeginJob(t) \/ DeleteRow(t)
        PROVE  LeftRunningIsFree'
    BY <2>1 DEF RequestRun, TakeJob, BeginUpload, BeginJob, DeleteRow
  <2>2. ASSUME NEW t \in Threads, JobOfDeleted(t) PROVE LeftRunningIsFree'
    BY <2>2 DEF JobOfDeleted
  <2>3. ASSUME NEW t \in Threads, Refuse(t) \/ End(t) PROVE LeftRunningIsFree'
    BY <2>3 DEF Refuse, End
  <2>4. ASSUME NEW t \in Threads,
               RejectUpload(t) \/ OpenUpload(t) \/ WriteUpload(t) \/ SubmitJob(t) \/ RemoveTree(t)
        PROVE  LeftRunningIsFree'
    BY <2>4 DEF RejectUpload, OpenUpload, WriteUpload, SubmitJob, RemoveTree
  <2>5. ASSUME NEW t \in Threads, SaveUpload(t) \/ SaveQueued(t) \/ RunFails(t) \/ Finish(t)
        PROVE  LeftRunningIsFree'
    BY <2>5 DEF SaveUpload, SaveQueued, RunFails, Finish, Save
  <2>6. ASSUME NEW t \in Threads, Begin(t) \/ ReadInput(t) \/ Package(t) \/ Zip(t)
        PROVE  LeftRunningIsFree'
    BY <2>6 DEF Begin, ReadInput, Package, Zip
  <2>7. ASSUME NEW t \in Threads, Crash(t) PROVE LeftRunningIsFree'
    BY <2>7 DEF Crash
  <2>8. ASSUME NEW t \in Threads, Surprise(t) PROVE LeftRunningIsFree'
    BY <2>8 DEF Surprise
  <2>9. CASE Tick
    BY <2>9 DEF Tick
  <2>10. CASE UNCHANGED vars
    BY <2>10 DEF vars
  <2> QED
    BY <2>1, <2>2, <2>3, <2>4, <2>5, <2>6, <2>7, <2>8, <2>9, <2>10
       DEF Next, Arrivals, RunSteps, WriterSteps
<1> QED
  BY <1>1, <1>2, TypeCorrect, PTL DEF Spec

-----------------------------------------------------------------------------
(* The bundle.  With one run at a time, what a run packaged is still in the   *)
(* workspace when it zips it, and what it zipped when it saves its summary.   *)
(* The shared object of ProjectStore can be marked completed by a run that    *)
(* then raises, before the summary is assigned, so the theorem is about       *)
(* SqlProjectStore, or a server where no step after the pipeline raises.      *)
BundleMade ==
  \A t \in Threads :
    /\ pc[t] = "rmtree" => ~exists
    /\ pc[t] \in {"package", "zip", "finish"} => got[t] # 0
    /\ pc[t] = "zip" /\ exists => out.core = got[t]
    /\ pc[t] = "finish" /\ exists => zip.core = got[t]

Described == status = "completed" /\ exists => summary # 0 /\ zip.core = summary

\* Every step of an undisturbed project keeps the bundle and the summary together.
LEMMA BundleStep ==
  ASSUME ~(SharedObject /\ Surprises),
         TypeOK, OneInRun, RunHoldsLease, BundleMade, Described, [Next]_vars
  PROVE  BundleMade' /\ Described'
<1> DEFINE Goal == BundleMade' /\ Described'
<1> USE ProjectRunAssumption
    DEF TypeOK, BundleMade, Described, Goto, Leave, Forget, row, space, threads, Versions, Bundle
<1>1. ASSUME NEW t \in Threads,
             RequestRun(t) \/ TakeJob(t) \/ BeginUpload(t) \/ BeginJob(t) \/ Refuse(t) \/ SubmitJob(t)
      PROVE  Goal
  BY <1>1 DEF RequestRun, TakeJob, BeginUpload, BeginJob, Refuse, SubmitJob
<1>2. ASSUME NEW t \in Threads, JobOfDeleted(t) PROVE Goal
  BY <1>2 DEF JobOfDeleted
<1>3. ASSUME NEW t \in Threads, DeleteRow(t) PROVE Goal
  BY <1>3 DEF DeleteRow
<1>4. ASSUME NEW t \in Threads, RemoveTree(t) PROVE Goal
  BY <1>4 DEF RemoveTree
<1>5. ASSUME NEW t \in Threads, Begin(t) PROVE Goal
  BY <1>5 DEF Begin
<1>6. ASSUME NEW t \in Threads, ReadInput(t) PROVE Goal
  BY <1>6 DEF ReadInput
<1>7. ASSUME NEW t \in Threads, Package(t) PROVE Goal
  BY <1>7 DEF Package, OneInRun, InRun, InPipeline
<1>8. ASSUME NEW t \in Threads, Zip(t) PROVE Goal
  BY <1>8 DEF Zip, OneInRun, InRun, Active, InPipeline, RunHoldsLease
<1>9. ASSUME NEW t \in Threads, RunFails(t) \/ SaveUpload(t) \/ SaveQueued(t) PROVE Goal
  <2>1. /\ exists => status' # "completed"
        /\ UNCHANGED <<exists, space>>
        /\ pc' \in {[pc EXCEPT ![t] = s] : s \in {"endfail", "idle", "submit"}}
        /\ \A u \in Threads : u # t => got'[u] = got[u]
    BY <1>9 DEF RunFails, SaveUpload, SaveQueued, Save
  <2>2. Described'
    BY <2>1
  <2>3. \A u \in Threads : u # t => pc'[u] = pc[u]
    BY <2>1
  <2>4. pc'[t] \in {"endfail", "idle", "submit"}
    BY <2>1
  <2>5. BundleMade'
    BY <2>1, <2>3, <2>4
  <2> QED
    BY <2>2, <2>5
<1>10. ASSUME NEW t \in Threads, Finish(t) PROVE Goal
  BY <1>10 DEF Finish, Save
<1>11. ASSUME NEW t \in Threads, Surprise(t) PROVE Goal
  BY <1>11 DEF Surprise
<1>12. ASSUME NEW t \in Threads, End(t) \/ Crash(t) PROVE Goal
  BY <1>12 DEF End, Crash
<1>13. ASSUME NEW t \in Threads, RejectUpload(t) \/ OpenUpload(t) \/ WriteUpload(t) PROVE Goal
  BY <1>13 DEF RejectUpload, OpenUpload, WriteUpload
<1>14. CASE Tick
  BY <1>14 DEF Tick
<1>15. CASE UNCHANGED vars
  BY <1>15 DEF vars
<1> QED
  BY <1>1, <1>2, <1>3, <1>4, <1>5, <1>6, <1>7, <1>8, <1>9, <1>10, <1>11, <1>12, <1>13,
     <1>14, <1>15 DEF Next, Arrivals, RunSteps, WriterSteps

\* A completed project offers plan and code of the upload its summary describes,
\* however uploads, runs, failures and deletions interleave, until one of the
\* three events disturbs the lease.
THEOREM BundleIsDescribed ==
  ASSUME ~(SharedObject /\ Surprises)
  PROVE  Spec => []BundleMatchesSummary
<1> DEFINE Inv == ~disturbed => BundleMade /\ Described
<1>1. Init => Inv
  BY DEF Init, BundleMade, Described
<1>2. /\ TypeOK /\ (~disturbed => OneInRun /\ RunHoldsLease) /\ Inv /\ [Next]_vars
      => Inv'
  BY BundleStep, DisturbedStays
<1>3. Inv => BundleMatchesSummary
  BY DEF Described, BundleMatchesSummary
<1> QED
  BY <1>1, <1>2, <1>3, LeaseInvariant, PTL DEF Spec
=============================================================================
