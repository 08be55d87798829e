# iactranslate: a verification project

iactranslate reads an inventory of virtual machines (an RVTools export, a CSV, ...), plans a
migration to a cloud or on-premises target, and packages Terraform (or Bicep, CDK, ...) with
reports. It is a Python package with a command line, a FastAPI service and a web console. The
service is where the hard behaviour is: several API processes share one SQL database and one
workspace directory per project, run pipelines in request threads and in job workers, and may be
restarted at any time.

Paths below are relative to `src/src/iactranslate/` unless they start with `docs/` or `tests/`.

## 1. The system

### Components, their state and their operations

| Component | Source | State | Operations |
|---|---|---|---|
| Durable job queue | `api/jobs_sqlite.py` | table `jobs` (status, attempts, visible_at, lease_until, created_at), worker threads per process | construct (reclaims expired leases), start, submit, claim, complete, retry with backoff, dead-letter |
| In-memory job queue | `api/jobs.py` | dictionary of jobs, thread pool | submit, run, evict the oldest |
| SQL layer | `api/sql.py` | connections | `claim_sql`, dialects, pooling |
| Projects and uploads | `api/store.py`, `api/main.py` | table `projects` (status, upload_path, summary, run_started_at), one workspace directory per project | create, upload, run, queue a run, delete, evict, `try_begin_run`, `end_run` |
| Packaging | `packager.py`, `crypto.py` | `project/`, `project.zip` | write the files of a run, zip them, encrypt |
| Idempotent writes | `api/idempotency.py`, middleware of `api/main.py` | reserved keys and stored answers | reserve, replay, store, release, expire |
| Accounts, sessions, roles | `api/accounts.py`, `api/auth.py`, `api/roles.py`, `api/oidc.py` | accounts, sessions, grants with a per-process cache, one-time login states | register, log in and out, reset, delete, grant, revoke |
| Rate limiting | `api/ratelimit.py`, `api/ratelimit_redis.py` | token buckets, local or shared | take, refill, evict, fall back |
| Events, audit, metrics | `api/events.py`, `api/audit.py`, `api/metrics.py` | subscribers, bounded audit table, counters | publish, record, trim |
| Parsing and normalisation | `sources/`, `parsers/`, `normalize.py`, `models.py` | none across calls | choose a source, read rows, merge rows of one machine, make names unique |
| Planning agents | `agents/`, `sizing.py`, `landing_zone.py` | none across calls | classify, size, label, group, carve subnets, derive security rules and load balancers |
| Remote provider | `agents/providers/anthropic_provider.py`, `agents/deidentify.py` | pseudonym tables of one call | mask, ask, unmask, fall back |
| Gates | `validation/`, `policy/` | none | validate a plan, evaluate policies, refuse |
| Planning of the move | `dependencies.py`, `hybrid.py`, `waves.py`, `transfer.py`, `replatform.py` | none | dependencies and groups from a flow export, networks left behind, waves, durations |
| Money and scores | `pricing.py`, `costing.py`, `recommend.py`, `confidence.py`, `evidence.py`, `maturity.py`, `assessment/` | price cache file, circuit breakers | fetch, cache, fall back, rank, score |
| Output | `graph.py`, `targets/`, `renderers/`, `generator/`, `diff.py`, `state.py`, `identity.py`, `gitops.py`, `narrative.py`, `diagram.py`, `exec_report.py`, `pdf.py` | none | build the graph, render six kinds of code, compare snapshots |
| Around it | `cli.py`, `config.py`, `observability.py`, `web/` | none | arguments, settings, a browser client |

`PROJECT.json` lists the same parts with the modules that model them.

### How they interact

* A request thread calls the store and, for `POST /run`, the pipeline; for `POST /jobs` it saves the
  project as `queued` and submits a row to the queue. A worker thread of any process claims the row
  and calls the same `_execute_run`.
* Every process shares the database and the workspace. Within a process the in-memory
  `ProjectStore` hands the same `Project` object to every thread; `SqlProjectStore` gives each
  caller a copy and `save` writes every column of that copy back.
* Every write passes the idempotency middleware (a POST with a key) and then the rate limiter before
  its handler; both keep their tables in the process, the limiter in Redis too if it is there.
* Grants are a table of which every process has a cache that it fills once. Accounts, projects and
  grants are different stores; deleting an account crosses all of them without a transaction.
* The queue publishes `JOB_COMPLETED` and `JOB_FAILED` on the event bus, each after the UPDATE that
  decides the job; audit and metrics listen.
* The pipeline is a straight line: parse, normalise, classify, size, network, validate, policy,
  render, package, zip. Any stage may raise; nothing is retried inside it.

### What is hard about it

* **Interleaving across processes.** A claim, a save and a release are separate statements; handlers
  that do not claim the run lease also save the row.
* **Crash and restart.** Leases decide who may take over, both for jobs (`lease_until`) and for runs
  (`run_started_at`), and only some code paths look at them.
* **Stale copies.** `save` after an `await` or a pipeline writes values read before it; a worker
  decides between retry and dead letter on the row as it was claimed.
* **Partial failure.** An exception after the pipeline is outside the clauses that save `failed`; a
  database error outside the guarded part of the worker loop ends the thread.
* **Full and expiring tables.** Idempotency records, buckets, login states and cached prices are
  dropped when they are old or when there are too many, whether or not somebody still relies on them.
* **Files without a lock.** Every put of a price rewrites the whole cache file from a copy loaded
  before a network request.
* **Answers of a remote model.** It may leave machines out, repeat or invent them, and name sizes
  and images that do not exist; what the guardrails behind it catch decides what is provisioned.
* **Two views of one thing.** Policy reads machines and not balancers or ports, downtime is derived
  from balancers and not from waves, the warning about a change of OS from a key and not from the
  image; some renderers take the placement of a machine from the plan and others from the graph; groups
  that must move together and violations of the wave order come from two passes over the same calls.
  They agree only through what all of them are derived from.
* **Names.** Distinct machines may share a name, distinct names may collapse onto one label, and a
  made-up name may be the real name of another machine.

`PROJECT.json` lists these as hazards, each at its line with the properties about it.

### What makes each part correct

* Queue: a job runs in one worker at a time, has one verdict that never changes, the bus hears that
  verdict and no other, attempts are bounded, every job ends.
* Projects: one pipeline per project at a time; what a completed project says of itself is true of
  its bundle; no project is stuck in `running`.
* Naming: no machine is lost; names and labels are unique, and changed only where they have to be.
* Translation: every machine is classified and sized within the catalogue, large enough; what is
  planned passes validation; what is denied is in nothing that is rendered; a plan says which OS
  will boot; every machine is in one wave, after what it depends on.
* Idempotency and rate limit: a handler's effect happens once per key, a replay is the answer to the
  same body, nobody waits for a request that is not running, nobody exceeds the rate.
* Access: a changed password ends old sessions, a deleted account leaves nothing it owned, a revoked
  grant stays revoked.
* Pricing: a price served from the cache was quoted for that SKU and is not older than its time to
  live; an open breaker closes.
* Rendering: every machine and disk is written once, every reference resolves, all renderers put a
  machine into the same subnet, a balancer is not bypassed.
* Analyses: waves reported as safe are safe, every call to a network left behind has a route, a cloud
  that cannot take the estate does not sway the ranking, a high confidence is a measured one, a diff
  accounts for every machine.

## 2. Modules

| Module | Models | Rests on |
|---|---|---|
| `JobQueue` | the durable queue | refines `ClientJob` |
| `ClientJob` | abstract: what a client polling a job may see | |
| `ProjectRun` | one project: row, run lease, workspace, all requests and workers that touch it | |
| `Naming` | rows of an upload to machines with a unique name and label | |
| `Sizing` | demand of a machine and choice of an instance, as operators | |
| `Translate` | one translation: classify, size, network, validate, policy, waves | extends `Sizing` |
| `Access` | accounts, sessions, resets, single sign-on, projects and grants over processes | |
| `Requests` | idempotency middleware and rate limiter around a handler | |
| `Pricing` | price cache file and circuit breakers over threads | |
| `Render` | graph, and the six renderers as sequences of resources | assumes what `Naming` shows of labels |
| `Flows` | `dependencies.py` and `hybrid.py`, as operators | |
| `Ranking` | `costing.py`, `recommend.py`, `evidence.py`, `confidence.py`, as operators | |
| `Analysis` | the commands that read an estate: depends, hybrid, recommend, confidence, diff | extends `Flows`, `Ranking` |
| `MC...` (one per specification) | instances for TLC: symmetry sets, the small estates | extend the above |
| `JobQueueProofs`, `ProjectRunProofs`, `TranslateProofs`, `PricingProofs`, `RequestsProofs`, `AccessProofs`, `AnalysisProofs` | theorems | each extends its specification |
| `RenderProofs` | theorems on names, labels and the rendered files | extends `Naming` and `Render` |

Definitions whose comment starts with "Faulty variant" are not part of any specification. Each is a
plausible mistake in the code next to the definition it would replace; with it in place TLC finds
the property that `PROJECT.json` pairs with it violated.

### JobQueue

One action per statement that writes the table, because a statement is what the database makes
atomic. `status`, `attempts`, `created`, `wait`, `lease` are the columns; times are relative to the
present (`wait` is `visible_at - now`, floored at zero; `lease` is `lease_until - now`, `Lapsed`
once past, `Null` when NULL), so the state space is finite without a clock and `<` and `<=` in the
code remain distinguishable. `proc` and `thread` are the processes and their worker threads;
`hold` and `tries` are the row as the worker was handed it.

* `Boot` is the constructor with its `reclaim_expired`; `Start` is `register` and `start`; `Crash`
  loses a process with all its threads (they are daemons).
* `Submit`, `Claim` (the whole of `claim_sql`: oldest due row, one transaction), `Complete`,
  `Retry`, `DeadLetter`. `Complete` and `DeadLetter` are the UPDATE alone; the thread is then left in
  the state of its verdict, and `Announce` is the `bus.publish` that follows. A crash may fall between
  the two. `announced` counts the events of a job, so that a second one would be seen. The UPDATEs after the handler name the row by id only, and
  so do the actions: that they hit a row the worker still owns is `HolderOwnsRow`, not a guard.
* `Blip` is a database error in the UPDATE that would end a job. `_worker_loop` guards `_claim` and
  not `_run`, so the thread dies and the row stays `running`.
* `Tick` passes time. `HandlersWithinLease` is the assumption the code's comment makes on
  `LEASE_SECONDS` ("long enough"), as a constant, so that what depends on it is visible.

Left out: reads, `max_attempts` per row (one value), the handler's own effects (they are
`ProjectRun`), and the missing-handler branch of `_run`, which ends as `DeadLetter` does. A
completed or dead row stays in the table, as in the code.

### ProjectRun

`exists, status, started, upload, summary` are the row; `dir, file, out, zip` the workspace, in
which a file is the number of the upload it was made from; each thread has a program counter, the
copy of the row it read and the upload it read. A thread stands for a request thread or a job worker
of any process.

* A run: `RequestRun` or `TakeJob`, then `Begin` (the one UPDATE of `try_begin_run`) or `Refuse`,
  `ReadInput`, `Package`, `Zip`, `Finish`, `End` (the `finally` with `end_run`). `RunFails` is the
  `except` clause that saves `failed`; `Surprise` an exception in the lines after the pipeline that
  no clause covers.
* The other writers: `BeginUpload` .. `SaveUpload`, `BeginJob` .. `SubmitJob`, `DeleteRow`,
  `RemoveTree`. `Save` writes every column; what a handler did not assign is its copy's value
  (`SqlProjectStore`) or the present one (`ProjectStore`, `SharedObject = TRUE`).
* `Package` always writes the core files and writes the advisory ones only if this run has any.
* Nothing is assumed of the order of requests. `disturbed` is a history variable that no action reads:
  it becomes true when an upload or `create_job` saves its status during a run, when a run is claimed
  between another run's save and its `end_run`, or when a run outlives `RUN_LEASE_SECONDS`. The code lets
  all three happen; what the lease is worth without them, and that there is no fourth, is `LeaseIsLock`.
* `Advice` says whether a run has advisory files to write, `Surprises` whether a line after the pipeline
  may raise, `SharedObject` which store it is.

The queue is a counter here, `backlog`: a failed job may or may not come back (`JobFails`), which
covers retry, dead letter and reclaim of `JobQueue`.

### Naming

A name is a sequence of words, each with the spelling before it, so that `web-2` and `Web` and `web`
are three names, of which two have one label. Each iteration of each loop is a step, the inner
`while` loops included: `SkipRow`, `AddMachine`, `MergeRow` (normalize); `StartNames`, `KeepName`,
`Rename`, `NextName` (`_disambiguate`, in the order of `by_name`); `Reject` (the limits of
`run_pipeline`); `StartLabels`, `KeepLabel`, `SuffixLabel`, `SkipLabel`, `Done`
(`_ensure_unique_resource_names`). That makes what holds at the end of a loop an invariant, which
can be proved for every inventory.

Left out: how a cell becomes a value (`_safe_str`, numbers, dates), every field of a machine that
does not decide identity, and the sizing between the two loops, which changes no name.

### Sizing and Translate

`Translate` has one action per stage of `run_pipeline` from the plan on, and one per machine while
it is sized. What the code reads from outside is chosen where it is first read: what a name suggests
to the rules (`Guesses`), the remote model's groups and suggestions, the facts of a machine
(`Sources`), the landing zone, the policy configuration. Machines are positions of the inventory,
since `Naming` shows that their names are unique.

* `Classify`. The rule engine on real names, or a remote model, masked or not. `Answers` is what is
  left of a model's answer after the filter in `AnthropicProvider.classify` (known names, first
  mention); `Reconciled` adds the machines it left out, by rules; `Restored` is the way back from
  masked names, where two machines with one masked name become the later of them.
* `Size` is one round of `build_compute_plans`: the tier and environment of the last group that has
  the machine, the suggestion, the catalogue guardrail, the image key, the flag `os_family_changed`,
  the volume, the subnet and the group. `ImageKey` is the target's choice of a key for an OS, `Boots`
  what its template boots for a key, `KeyFamily` what the key says.
* A suggestion says who made it, the rules (also behind a failed call of the model) or the model, and a
  plan whether the model's own type was taken (`chosen_by`).
* `PlanNetwork` carves the zone (kept in `zone`) into `/24` blocks, refuses one that is too small,
  retargets the ingress rules and places load balancers. `InternalBalancers` is TRUE of the targets
  whose balancers can be internal (AWS, Azure, GCP, OCI) and FALSE of DigitalOcean, whose template says
  that every balancer is public. `Validate` and `EvaluatePolicy` stop the run or let it
  through; `Package` plans the waves.
* `Sizing` compares capacities as whole numbers: percentages and the headroom are multiplied out, so
  there is no rounding to argue about.

Left out: costs, reasons, tags and names in a plan; the availability zone of a subnet. The policies on budget, prefix and key depend on such data, so they are broken or not
by choice. The tables of groups, subnets and ports are those of the AWS target.

### Access

Accounts, sessions, reset links, projects and grants are the shared tables; `cache` and `pending`
belong to a process. A request is a thread that goes from statement to statement (`req[r].pc`), so
that every other request, and the end of the process (`Restart`), can fall between two of them. A
password is a version number: the password a session or a proof rests on is the version it was
checked against, version 0 is the random one that single sign-on sets and nobody knows.

* `Register`, `Login`, `SsoCallback` and a change of password all end in `CreateSession`, which looks
  at nothing again. `ForgotPassword` and `SendLink`, `RedeemLink`, `SetPassword`, `SignOut` are the
  statements of a reset.
* `AskAdmin` is the common prefix of granting, revoking and deleting (`_require_project` in the
  process's own cache); then the cache is written before the row, as `SqlMembership` does.
* `ListOwned` .. `EraseAccount` are `delete_account`, one store after the other.
* Requests overlap freely. Three history variables, which no action reads, say what an answer
  promised: `settled` is the password version that the last answered change of an account signed its
  sessions out at, `revoked` what a process took back, `late` what a request of an account made after
  a deletion of that account had listed its projects. `settled` is not raised while a request
  that proved an earlier password is at `create_session`, and `revoked` not while a grant of the same
  pair is about to be written: those are the overlaps the code does not survive (section 4).

Left out: password hashing and its rules, cookies, API keys, e-mail, signatures of tokens (`sound`).

### Requests

A request goes through the steps of the middleware: `Begin` (eviction, then `begin`), a check by the
shared or the local limiter, `Handle`, `Finish` (`complete` or `abandon`, by key only). Which limiter
answers is open at every request, since Redis may fail at any time; the properties hold per limiter.
Tokens are counted in units of `1/Period` so that all arithmetic is in integers. A key whose claim
was evicted or expired while its request ran is in `lost`; the code executes such a key again, and
the properties say so by leaving out exactly those keys.

### Pricing

`file` is the cache; `Torn` is what a reader finds while it is being written. A thread loads the
file, asks the breaker, fetches, tells the breaker and rewrites the file from its own copy
(`Truncate`, `Write`). Times are ages, capped where the code no longer tells them apart, so time may
pass for ever and `ParkedEnds` is a statement about infinite behaviours. What a fetch may answer is
`Outcomes`, per cloud: a cloud's price list is up or down, the GCP catalogue may break off between
pages, a rate computed from two requests may be missing.

### Render

`RenderInit` picks a target, a plan (`compute`) and an identity mode; `BuildGraph` is `build_graph`; then the
renderers of the registry run one after the other, each writing its resources one per step (`Emit`).
A resource is its identifier, the identifiers it refers to and, for a machine, its subnet, data disks
and whether it has a public address; what is still to be written is `unwritten`. A reference inside text counts, attributes do not. How names
become identifiers is a constant per way of doing it: the unique label, `terraform_safe_name`,
`_cid`, the camel-case form; the instance spells two machines alike under all but the first.

The actions and the specification carry the prefix `Render` because `RenderProofs` has `Naming` beside
it. Selections from a list are `Only`, a concatenation of lists of one or none, like the loops with an
`if` that they model; the counter of `assign_subnets` is the number of earlier machines of the tier.

Left out: attributes, tags, user data, variables and providers; targets other than AWS, Azure, GCP.

### Flows, Ranking and Analysis

An analysis starts from its inputs, reads the flow export row by row where there is one (`ReadRow`
is the loop body of `analyze_dependencies`) and ends with an answer. An address is a model value
with its `/24`; connected components are the least closed sets, which is what the search in
`_mutual_groups` ends with. Money is in cents and scores in ten-thousandths, rounded as the code
rounds; fit, affinity, cost score, weights, margin and exclusion are computed as the code does.
A sorted list (`InOrder`) has at place `k` the member with `k - 1` members before it, and a filtered one
(`Sublist`) the chosen positions in that order.

Left out: sentences of the reports, shares and percentages that only appear in them, transfer times.

## 3. Runs

| Run | Instance | Shows |
|---|---|---|
| `queue` | 2 jobs, 2 processes with 2 workers, 2 attempts, 2 crashes, 1 database error; 324,803 states | a busy worker owns its row (`HolderOwnsRow`), which is also why no job is in two workers; the bus hears no false and no second verdict, and misses one only to a crash (`EventsMatchStatus`); `AttemptsBound`; the client's view is `ClientJob` (`ClientSpec`); every job ends, but for one that no constructor will reclaim (`EveryJobEnds`) |
| `run_lease` | 2 threads, 2 uploads, a crash, deletion, exceptions after the pipeline, any order of requests; 1,334,565 states | the lease is a lock until one of three events (`LeaseIsLock`), and until then bundle and summary agree (`BundleMatchesSummary`); a project left `running` has a released lease (`LeftRunningIsFree`); a running project ends or can be taken over (`RunningEndsOrIsTakeable`) |
| `run_writers` | 3 threads | finding: two pipelines at once (`OneRun`) |
| `run_left_running` | 2 threads, exceptions after the pipeline | finding: a project reads `running` and nothing runs (`RunningHasRunner`) |
| `run_leftovers` | 1 thread, 2 uploads, runs with and without advisory files | finding: a bundle with files of an earlier upload (`BundleIsOfOneRun`) |
| `naming` | every inventory of at most 3 rows over 3 names, 2 UUIDs or none, 2 disk sizes, and blank rows | no machine lost; unique names and labels; the searches end |
| `translate` | 3 machines with 6 guesses and 2 sources, rules or a remote model with any grouping and 2 suggestions, 3 maskings, 3 zones, 4 policy configurations | who is classified (`ClassifiedUnlessMasked`); validation finds nothing (`PlanIsValid`); `SizedToDemand`; a denial covers balancers and ingress (`NothingPublicIfDenied`); waves (`WavesInOrder`, `ZeroDowntimeIsBalanced`) |
| `access` | 2 accounts, 1 project, 2 processes, 2 threads, 5 requests of several statements that may overlap | `NoSessionFromBefore`, `DeletedOwnsNothing`, `RevokedStays` |
| `requests` | 3 requests, 2 at once, 2 keys in a store of 2, 2 bodies, 2 callers in a table of 1 | `OneEffectPerKey`, `AnswerFitsBody`, `ClaimHasRequest`, `WithinRate` |
| `pricing` | 2 threads, an instance type of AWS and a line rate of GCP | `ServedIsQuoted`, `ParkedEnds` |
| `render` | every estate of 1 to 3 machines over 3 tiers and 2 environments, 3 clouds, with and without identities | `EstateIsWhole`, `RefsResolve`, `PlacementsAgree`, `OneWayIn` |
| `analysis` | exports of up to 4 of 18 rows over 3 inventories and 13 wave orders; 3 priced clouds with 98 price combinations and 4 weightings; pairs of workloads; pairs of snapshots | `NoSilentCut`, `PrivateCallsAreRouted`, `RankingIgnoresTheUnfit`, `HighMeansMeasured`, `DiffIsWhole` |

### Bounds

* Two processes with two workers are what a conflict needs: two holders within a process and across
  processes. Two jobs make the order of `created_at` matter. Two attempts give one retry and one
  dead letter; a lease of 2 units has an instant at which `<` and `<=` differ; a backoff of 2, 4
  units is longer than the lease, so a delayed job outlives a crashed neighbour's lease. Two crashes
  allow a crash, a reclaim and a crash of the second attempt; crashes and errors are bounded because
  each one allows one more attempt.
* Two threads are enough for two runs or a run and another writer; `run_writers` has three, for the
  run, the writer and the second run. One file type suffices where the question is which run
  a file belongs to; advisory files matter to `run_leftovers` only. Two uploads distinguish a stale file from a current one. A lease of 1 unit has
  a state within it, one at its end and one past it.
* Three rows are the smallest inventory in which a made-up name meets a real one while two machines
  share a name. The two UUIDs have one short tail, equal to the number in `web-2`, and one of them
  has no longer tail, so that the search reaches every branch. `MaxVms = 3` equals the longest
  inventory, so that acceptance at the limit is reached; the empty inventory reaches `Reject`.

* Three machines give a balancer over two of them and one machine beside it. The guesses have
  development with all three layers, test with which it shares a rank, staging and production: three
  ranks, and a layer that is missing in some of them. The maskings are injective, or make two
  machines one with the third in between or not. One source has a figure for the CPU only and runs
  Windows, the other has none and fits the largest size only. One suggestion is a real but small
  type with a Windows key, the other is no type of the target and has no key. The target is like AWS:
  an image for each family, and internal balancers. The zones are the default, a `/22` (the smallest that works) and a `/23`.
  The policy configurations are none, denials, warnings and an unknown policy.

* Access: two people, of whom one may be granted what the other owns; two processes, so that one
  cache is stale; two tokens and links, so that an old one is there beside a new one. Five requests
  are enough for register, register, create, grant and revoke with restarts between them, for
  register, forgot, and a login that overlaps the reset, and for a deletion beside a creation. A password is set twice: once to exist and once to change.
* Requests: with two keys in a store of two a third claim evicts one that may be in flight; two
  callers in a table of one evict each other's bucket. `Period` 2 with `Limit` 1 has an instant with
  half a token; `Ttl` 2 and four units of time have one before, at and after every deadline.
  A share of a half (store) or all (buckets) instead of a quarter lets tables this small lose one.
* Pricing: two threads, so that one can put an old copy over a newer file and one can fail after the
  breaker opened; a threshold of 2 has a state below it, a reset of 2 a state within it. A time to
  live of 1 is the smallest in which a copy outlives an entry. The clouds differ only in `Outcomes`;
  the instance has the two kinds there are, one that answers whenever its list is up and one that
  may not.
* Render: three machines give a balancer over two and one beside it, two machines in one of the two
  subnets of a tier, and a split of `compute.tf` (above 2). Data disks are 0, 1 and 2.
* Analysis: three machines make a cycle that is not mutual and a chain of mutual calls; four rows
  make both of them; one inventory has an address that two machines claim, and one has none. One of
  the clouds has no Windows image, and is the cheapest or the dearest. The workloads have every
  combination of factors; the snapshots have names that differ only in case, and UUIDs or none.

### Fairness and deadlock

* `JobQueue!Fairness`: a process that died is started again sooner or later (an
  assumption on the deployment, and what "Startup reclaims" in the queue's docstring relies on);
  worker threads loop without blocking on one another, handlers end, a thread that wrote a verdict
  goes on to publish it, time passes.
  Weak fairness of each suffices: `Claim(w)` stays enabled while a due job waits and a worker is
  idle. Nothing is assumed of clients or of faults.
* `ProjectRun!Fairness`: a thread that has begun a handler goes on with it, and time passes. Nothing
  obliges a client to call, a worker to be free, or a process to survive.
* `Naming!FairSpec`: the loop runs.
* `Pricing!FairSpec`: time passes, and a thread that has asked for a price goes on (its sockets have a
  timeout). Nobody is obliged to ask, and a price list may stay away for ever.
* `Translate`, `Access`, `Requests`, `Render` and `Analysis` have no fairness: only safety is checked
  of them.
* Deadlock is checked in `pricing` and `analysis`, which never stop. It is not in the others: a
  service whose bounded clients are done, and a loop, a run or a registry that has come to its end,
  stop. That loops and runs do not stop early is what the liveness properties say.

## 4. Findings

* `run_writers`: `create_job` and `upload` save their own status during a run and defeat
  `try_begin_run`; `store.py` line 142: "One run at a time, per project, is the contract".
* `run_left_running`: the lines after the pipeline (`main.py` 1016-1080) are in neither `except` clause.
  If one raises, the lease is released and the project goes on reading `running`; `main.py` line 1007:
  "the project must not be left reading "running"". `LeftRunningIsFree` is what holds instead.
* `run_leftovers`: `build_project` does not clear the output directory, so optional files of an earlier run
  stay in the bundle (`packager.py` 161, 204); ADR 0066 line 8: "it clears the output directory".

### Seen while modelling

Without a run of their own; the model has each of them, so a property that excluded it would fail.

Queue and runs:
* A process that dies between the UPDATE that ends a job and the publish behind it (`jobs_sqlite.py`
  294/295, 319/321) leaves a verdict that audit and metrics never hear of; nothing sends it later.
  `EventsMatchStatus` bounds how many.
* A handler that outlives its lease reports over whoever has the row by then, since the UPDATE names it by
  id only (`jobs_sqlite.py` 291). With `HandlersWithinLease = FALSE` TLC violates `HolderOwnsRow` and
  `ClientSpec` in a few steps.
* `reclaim_expired` is called by the constructor only (`jobs_sqlite.py` 124): a job whose worker is lost
  while its lease runs, and all of whose processes are back before it has lapsed, stays `running` until
  some later start (`Stranded` in `JobQueue`).
* A run saves its verdict before `end_run` (`main.py` 976); a claim between the two is released by that
  `end_run` and a further run may start. It is the second of the three events of `disturbed`. ADR 0066:
  exactly one pipeline execution.
* `save` writes back what its handler read (`store.py` 357): a run claimed before a re-upload with another
  suffix puts the older path, and a stale `create_job` the older summary, over the newer one.
* A deletion during a run is undone on disk: the pipeline makes the workspace again (`store.py` 373).
* A rejected re-upload unlinks the upload accepted before (`main.py` 940).
* Outside the model: the in-memory queue evicts jobs that are still running, eviction of projects
  does not drop their grants, `pipeline-trace.json` is written after the zip is made.

Translation:
* A remote model's image key is used unchecked (`agents/rightsizing.py` 148), although the prompt offers
  Windows keys for every target; ADR 0038 line 36: `image_key` "must name the image that will
  actually be provisioned".
* `_wave_key` uses the rank of an environment, which development and test share, and production and
  unknown (`waves.py` 99). The docstring of `plan_waves` says "a wave is always a single environment's
  single dependency layer", and a comment (line 128) that waves of two environments never depend on each
  other: those of two ranks do not, but a web wave of test waits for a data wave of development.
* Production is last in the sequence only: no wave waits for another rank, and the report says that
  environments may be run in parallel.
* A landing zone of `/23` is accepted by `LandingZone`, whose message recommends it to who asked for a
  smaller one (`landing_zone.py` 80-85), and refused by `carve_subnets`: `PlanIsValid` says that it is
  refused, and that nothing else is.
* A balancer of a private tier is public on DigitalOcean (`targets/digitalocean/templates/loadbalancer.tf.j2`
  4-8), so `no_public_subnets` does not keep an estate there off the internet, and the README of the bundle
  calls such a balancer "internal" (`packager.py` 94).
* The docstring of `restore_group` speaks of a reconciliation by the caller, and
  there is none after it (`ClassifiedUnlessMasked` says which machines that loses).
* Labels of machines that collapse onto one follow the order of the rows (`agents/rightsizing.py` 212).

Access, requests and prices:
* A login that proved the old password and reaches `create_session` after a reset has deleted the
  sessions opens one that survives; `main.py` 644: "every existing session must die".
  `NoSessionFromBefore` excepts exactly this.
* A project, a session or a link that a request of an account makes while that account is being deleted is
  left without an owner (`main.py` 711-720); `DeletedOwnsNothing` excepts what is in `late`.
* A grant and a revoke of one pair that overlap may leave cache and row apart. `SqlMembership.revoke` does not
  find a grant made through another process (`roles.py` 189), and one revoked here is honoured by
  every other process until it restarts; a revoked admin can be granted anew through it.
* An account made by single sign-on can be entered by a password after a reset (`main.py` 1372).
* `purge_expired_sessions` is never called.
* A full idempotency store drops claims in flight, and `complete` and `abandon` go by key: the later
  request of such a key is answered or released by the earlier one (`idempotency.py` 143).
* "exactly one probe" of a breaker is not so with threads: every thread that asks after the reset time
  and before the first answer goes through (`pricing.py` 432).
* A GCP SKU with a rate of zero is a live price of zero.

Rendering:
* `_cid` drops separators, so `web-1`, `web.1` and `web1` are one logical id in CloudFormation and all
  but the last machine are lost; CDK variables and Bicep names collapse likewise.
* Pulumi writes `opts=` twice for a machine to adopt (`renderers/pulumi.py` 156), which Python refuses.
* Pulumi for AWS has no route tables and no NAT, and Pulumi and Bicep have no data disks, although the
  docstring says "Equivalent to the Terraform output" (`renderers/pulumi.py` 48).
* On Azure, Terraform gives the identity of a tier to Windows machines only
  (`targets/azure/templates/compute.tf.j2` 94, against `identity.py` 39).

Analyses:
* `MIN_CONNECTIONS` is applied per row and a missing count is 1: an export without a count column
  yields no dependency, and the command line then says that no dependency is scheduled wrongly.
* When no cloud can take the estate the first one is recommended, with a score of 0.
* Two machines of a snapshot whose names differ in case only are one in a diff.
* The best workload without utilisation data scores 0.795 against a threshold of 0.80.

## 5. Theorems

All are checked by TLAPS for every value of the constants that satisfies the modules' `ASSUME`s:
any number of jobs (finite), processes, workers, threads, uploads, leases, faults, requests, keys and
callers, and any inventory, flow export, plan, network, price list, weighting and pair of snapshots.

| Theorem | Says | Along |
|---|---|---|
| `JobQueueProofs!TypeCorrect` | types | `TypeOK` is inductive |
| `OwnershipHolds` | `HolderOwnsRow`, `OneHolder` | `Ownership`: both together with the types and with what holds of a thread that has written its verdict. A reclaim takes no live worker's row only because that worker's lease is live |
| `VerdictsAreAnnounced` | `EventsMatchStatus` | `HeardIsTrue`, which needs `Ownership`: a verdict is published by the one thread that wrote it, so once, and a finished row is silent only if that thread is gone. A crash adds at most its process's threads to `Unheard`, by cardinality |
| `VerdictIsFinal` | `TerminalIsFinal` | from `Ownership`: every write after a claim hits a running row |
| `AttemptsAreBounded` | `AttemptsBound` | `AttemptInHand`: a job that waits, or runs with nobody behind it, has an attempt to spare; needs `ThreadsServe`, that only a serving process has live threads |
| `ImplementsClientJob` | `ClientSpec` | step by step; a `Boot` that reclaims is a `Requeue` of the reclaimed set |
| `ProjectRunProofs!TypeCorrect` | types | `TypeOK` is inductive |
| `OneRunAtATime` | `LeaseIsLock` | `OneInRun`: until `disturbed`, at most one thread between `try_begin_run` and `end_run`, a stretch longer than the pipeline, because `end_run` clears a lease whoever set it. No assumption: each of the three events sets `disturbed` in the step that would break the invariant |
| `NoAbandonedRunning` | `LeftRunningIsFree` | inductive with the types, whatever disturbs the lease |
| `BundleIsDescribed` | `BundleMatchesSummary` | `BundleMade`: what a run read is what it packaged when it zips, and what it zipped when it saves. Inductive only with `OneInRun` and `RunHoldsLease`, so until `disturbed`: a second run would package in between |
| `RenderProofs!TypeCorrect` | types | `Typed`: that names and labels are lists, too |
| `EveryMachineIsKept` | `NoMachineLost` | `OneIdentity` (one entry per identity) and `Represented` (each row read has one) |
| `NamesAreUnique` | `NamesUnique` | `NamesInv`: machines already looked at are apart, and `taken` has every original and every new name; two that keep a shared name have no UUID, so `OneIdentity` separates them |
| `LabelsAreUnique` | `LabelsUnique`, `PlainLabelKept` | `LabelsInv`: the dictionary's keys are exactly the labels given |
| `ReferencesResolve` | `RefsResolve` | `RenderInv`, below: what is referred to so far and what `unwritten` refers to is declared so far or by `unwritten`, and for Pulumi and the CDK `unwritten` refers only backwards |
| `TheEstateIsWhole` | `EstateIsWhole` | `InOrder`: machines written and machines in `unwritten` are the machines of the plan, likewise disks, and no identifier of `unwritten` is declared. CloudFormation, where a later machine may replace an earlier one, has `Templated` instead: the disks are those of the machines that are there |
| `PlacementsNeverDiffer` | `PlacementsAgree` | `Consistent` (a machine is where `assign_subnets` puts it, by `MachineEdgesAre` also through the graph) and `SharesAre`, round robin as arithmetic: ranks in a tier have no gap, so the rank minus the number of subnets maps all but one machine of a share into any other share |
| `EachMachineHasOneWayIn` | `OneWayIn` | `InOrder`: public machines written and in `unwritten` are those the renderer should show |
| `TranslateProofs!TypeCorrect` | types | `Inv`: the types with `PlannedCompute` (what each plan was derived from), `PlannedNetwork` (the network is the one planned from these machines and `zone`) and `PassedPolicy`. None of the properties is inductive alone: each speaks of a stage and follows from what an earlier one computed |
| `EveryoneIsClassified` | `ClassifiedUnlessMasked` | `MaskKnown`, and lemmas on `Restored` and `Reconciled`; `LastMachine` gives the maximum of a set of machines by well-foundedness |
| `PlansAreValid` | `PlanIsValid` | `Inv` and `BlocksAssumption` |
| `SizesCoverUse` | `SizedToDemand` | `Meets`, a part of `PlannedCompute`: whoever suggested it, an instance that the model did not name itself is what `smallest_fit` gives for the demand; the rest is the arithmetic of floors and headroom |
| `FlagsTellFamilies` | `FlagTellsFamily` | `Inv` and `HonestTarget` |
| `IngressFollowsSubnets`, `DenialCoversIngress` | `OnlyPublicIsOpen`, `NothingPublicIfDenied` | `Inv`: group, subnet and rules of a machine all follow its tier |
| `WavesFollowLayers`, `ZeroDowntimeIsSafe` | `WavesInOrder`, `ZeroDowntimeIsBalanced` | `Inv` and `WavesMade`; `FrontedHasPeer` |
| `PricingProofs!TypeCorrect` | types | with `ThreadsKnow`: which fields of a thread are set where |
| `CacheAnswersQuotes` | `ServedIsQuoted` | `AllQuoted`: every fresh entry, in the file and in every thread's copy, was quoted at its age. The copies are part of it because any of them may become the file |
| `RequestsProofs!TypeCorrect` | types | with `RequestsKnow` and `BucketIsFair`, without which a bucket might go below zero |
| `RateIsKept` | `WithinRate` | `BucketIsFair`: what passed above the rate and what is left make no more than a full bucket, and a bucket that is not there belongs to a caller who was quiet long enough to have a full one. The last is why dropping idle buckets is harmless |
| `ClaimsAreServed`, `ReplaysFit`, `WriteIsDoneOnce` | `ClaimHasRequest`, `AnswerFitsBody`, `OneEffectPerKey` | `KeyInvariant`: the first two with `KeyIsSafe`, that a key outside `lost` has at most one running request, on its own claim and body, and its effects are that request's or the stored answer's |
| `AccessProofs!TypeCorrect` | types | with `CallsKnow`: what a request carries at each statement |
| `OldSessionsAreClosed` | `NoSessionFromBefore` | `PasswordIsSafe`: a request about to open a session rests on a password no older than `settled`, which is why `SignOut` does not raise it over such a request |
| `ErasedIsForgotten` | `DeletedOwnsNothing` | `NamesLiveOnes`: but for what is `late`, sessions, links and owners name live accounts, and a deletion under way has every project of its account in its list |
| `RevokedIsRefused` | `RevokedStays` | `RevokedIsSafe`: what a process revoked is gone from its cache and from the table, and nobody is about to write it |
| `AnalysisProofs!CutsAreReported` | `NoSilentCut` | `AnalysisInvariant`, below, with `PairsKnown`; `ComponentIsLeast` (a group is the least closed set) and `SplitGroupIsCut` (the part of a group in one wave is not closed, so a call leaves it) |
| `CallsHaveRoutes` | `PrivateCallsAreRouted` | `ExternalKnown`, and `CountsKnown`: the connections to private addresses in the report are those of the rows read |
| `UnfitCloudsHaveNoSay` | `RankingIgnoresTheUnfit` | `SortingIsOrdered` and `SortingIsUnique` (sorting a set by a strict total order lists each member once, and there is one such list), `AloneIsEligiblePart` (the ranking of the able clouds alone is the eligible part of the ranking of all, but for positions), and `CheaperScoresMore` with `BetterWeighsMore`, the arithmetic of scores |
| `HighIsMeasured` | `HighMeansMeasured` | `AllocatedScoresLess`: without utilisation a workload reaches 7950 of 10000, under the 8000 of high; `RoundBound` carries that to the average |
| `DiffAccountsForAll` | `DiffIsWhole` | `MatchingIsExact` (pairs by UUID, then by name, use no machine twice) and `DiffCounts` (cardinalities) |

`AnalysisInvariant` says of each command what its answer was computed from: `ReadingKnows` while rows
are read (one row may add an entry, raise a count or add a port), then one part per command. Counts are
sums over finite sets. The library's induction theorems are not usable here (they take an operator), so
`AnalysisProofs` has its own argument: `SmallestSet` gives, to a property that fails for some
finite set, a smallest one for which it fails, by the well-foundedness of the naturals; from it follow that the
sum of a set exists, does not depend on the order, and splits over disjoint sets (`AddsExists`,
`AddsAgree`, `SumUnion`).

`RenderInv` is what an `Emit` keeps: the part of the file that is written and the part that is not make
up the whole, and the whole is what `ResourcesAre` says of the six renderers. That lemma rests on one per
list of resources (`PulumiAwsBalancersAre`, `CloudFormationRoutesAre`, `TerraformVolumesAre`, ...), each
of the form `Part(s, D, K, I)`: the list `s` refers only to `D` and to what it declares before, declares
each identifier once, with kinds in `K`, and declares `I` in all; `Yields` adds the machines, disks and
public machines in it. Joining two lists joins these (`JoinParts`, `JoinYields`), with what the second
needs covered by the first; where names are not unique (`_cid`, the CDK's variables, Bicep) `Loose` leaves the
distinctness out. `Each` is a `FlattenSeq`, a recursive function: `FlatIs` shows, by the least prefix
that fails, that its elements are those of its parts in order, each once, which is all the other lemmas
use. That the graph says of a machine what the plan says is `MachineEdgesAre` and `FrontEdgesAre`: among
all the edges only the machine's own leave its node, because labels are unique.

Assumptions on constants, all of which TLC evaluates:
* `OwnershipHolds`, `VerdictsAreAnnounced`, `VerdictIsFinal`, `AttemptsAreBounded` and
  `ImplementsClientJob` are stated under `HandlersWithinLease`. The theorems of `ProjectRunProofs` and
  `AccessProofs` assume nothing of the order of requests.
* `BundleIsDescribed` excludes `ProjectStore` together with exceptions past the pipeline: there the shared
  object is marked completed before the summary is assigned, and an exception in between leaves it so.
  `SqlProjectStore`, and `ProjectStore` without such an exception, are covered.
* `BackoffAssumption` says that the backoff is a natural number, since the provers have no theory of
  `^`, and `BlocksAssumption` for the same reason how many `/24` blocks a prefix has.
* `NamingAssumption`: an inventory is a sequence of rows and a UUID has a tail. `AnalysisAssumption`: the
  inputs of the commands are lists, with the names and UUIDs of a snapshot distinct, which is what `Naming`
  shows of an inventory; counts, waves, sizes, rates and weights are natural numbers (`ScoringWeights`
  refuses a negative weight); finitely many ranges are declared.
* `RenderAssumption`: a plan is a list of machines with different names, each with a label of its own
  (`LabelsAreUnique`) that does not end in `lb`, a known tier and a number of disks; a tier's ports are a
  list without repetition; subnets have different names, and there are some of both tiers, as
  `carve_subnets` makes them.
* `CatalogAssumption`: a catalogue, being a finite list, has a cheapest fit and a largest size, and
  TARGET_UTILIZATION is in 10..100 %. `HonestTarget`: a target's own choice of image is what it boots
  (ADR 0038).
* `SuffixAssumption`, `NoneAssumption`, `AccessAssumption`, `PricingAssumption`, `RequestsAssumption`: the
  value for "nothing" is no value, and limits are positive numbers.

Only model-checked:
* Liveness (`EveryJobEnds`, `RunningEndsOrIsTakeable`, `NamingEnds`, `ParkedEnds`), out of the proof
  system's reach.

Every invariant and every action property of a passing run is stated by a theorem; the refinement too.

## 6. Not modelled, and the plan

Not modelled:
* `sources/`, `parsers/`: spreadsheets and text to rows. `Naming` starts from the rows.
* `exec_report.py`, `diagram.py`, `display.py`, `pdf.py`, `print_style.py`, `narrative.py`, `gitops.py`,
  `state.py`, `api/delivery.py`: text from finished data.
* `transfer.py`, `replatform.py`, `maturity.py`, `assessment/`: sums and findings over a finished plan
  that nothing else reads.
* Cryptography (`crypto.py`, password hashing, signatures of tokens), the contents of catalogues and
  price lists, and the web console.
* Of modelled parts: the in-memory queue's executor and eviction, eviction of projects, trimming of
  the audit table, the read-only endpoints.

Next:
1. A composition of `JobQueue` and `ProjectRun`, with the job's handler as the run, replacing
   `backlog`; the in-memory queue and its eviction as a second instance of the queue.
2. A composition of `Naming`, `Translate` and `Render`, so that what `RenderAssumption` says of labels and
   subnets follows from the two theorems about them instead of being assumed.
