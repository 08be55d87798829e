------------------------------ MODULE Analysis ------------------------------
(* The analyses that read an estate and change nothing: depends and the hybrid stage         *)
(* (dependencies.py, hybrid.py), recommend (recommend.py, costing.py), the confidence a      *)
(* bundle carries (evidence.py, confidence.py) and diff (diff.py).  A process starts one     *)
(* analysis, takes its inputs from outside, and ends with an answer or an error.  The rows   *)
(* of a flow export are read one at a time.                                                  *)
EXTENDS Flows, Ranking

CONSTANTS Inventories,   \* sequences of [name, ips]
          Headers,       \* the sets of columns _pick recognises in an export
          Rows,          \* [copy, src, dst, port, count]; two copies are two equal lines
          MaxRows,       \* bound: rows of an export
          WavePlans,     \* [name -> wave]; the empty function when no waves were asked for
          DeclaredSets,  \* what a network team declares: sets of ranges
          Estates,       \* sequences of [os, cpu, mem]
          Requests,      \* sequences of targets
          PlanSets,      \* [priced target -> plan]
          WeightSets,    \* [cost, fit, os]
          Workloads,     \* sequences of [cpu_util, mem_util, tier, env, os, price]
          Snapshots,     \* sequences of [name, uuid, spec]
          LowerOf,       \* [name -> its lower-case form]
          NoUuid         \* the source gave no UUID

(* Inventories, estates, requests, workloads and snapshots are lists; normalisation makes    *)
(* the names in one differ and merges the rows of one UUID (module Naming).  Waves are       *)
(* numbered, connections counted, a network team declares finitely many ranges, and no       *)
(* size, rate or weight is negative (ScoringWeights refuses one).                            *)
ASSUME AnalysisAssumption ==
  /\ \A vms \in Inventories : DOMAIN vms \subseteq Nat
  /\ MinConnections \in Nat /\ \A row \in Rows : row.count = Bad \/ row.count \in Nat
  /\ \A declared \in DeclaredSets : IsFiniteSet(declared)
  /\ \A vms \in Estates :
       /\ Len(vms) \in Nat /\ DOMAIN vms = 1..Len(vms)
       /\ \A i \in DOMAIN vms : vms[i].cpu \in Nat /\ vms[i].mem \in Nat
  /\ \A requested \in Requests : Len(requested) \in Nat /\ DOMAIN requested = 1..Len(requested)
  /\ \A plans \in PlanSets, c \in Priced :
       /\ plans[c].compute \in Nat /\ plans[c].gib \in Nat /\ plans[c].windows_vcpu \in Nat
       /\ plans[c].lb_count \in Nat /\ plans[c].vcpu \in Nat /\ plans[c].memory \in Nat
  /\ \A l \in Lines : LiveRate[l] \in Nat /\ \A c \in Priced : StaticRate[l][c] \in Nat
  /\ \A w \in WeightSets : w.cost \in Nat /\ w.fit \in Nat /\ w.os \in Nat
  /\ \A vms \in Workloads : vms \in Seq({vms[i] : i \in DOMAIN vms})
  /\ \A s \in Snapshots :
       /\ Len(s) \in Nat /\ DOMAIN s = 1..Len(s)
       /\ \A i, j \in DOMAIN s : i # j =>
            s[i].name # s[j].name /\ (s[i].uuid = NoUuid \/ s[i].uuid # s[j].uuid)
  /\ \A wave \in WavePlans : \A n \in DOMAIN wave : wave[n] \in Nat

VARIABLES doing,   \* which analysis, and how far
          input,   \* what it was given
          answer   \* what it answers

vars == <<doing, input, answer>>

Nothing == [none |-> TRUE]
Init == doing = "idle" /\ input = Nothing /\ answer = Nothing

(**************************** depends and the hybrid stage ****************************)
\* parse_flows refuses an export without one of the required columns.
OpenExport ==
  /\ doing = "idle"
  /\ \E vms \in Inventories, header \in Headers :
       /\ input' = [vms |-> vms, header |-> header, read |-> {}, wave |-> <<>>, declared |-> {}]
       /\ IF Required \subseteq header
          THEN doing' = "reading" /\ answer' = EmptyReport
          ELSE doing' = "refused" /\ answer' = Nothing

ReadRow ==
  /\ doing = "reading"
  /\ Cardinality(input.read) < MaxRows
  /\ \E row \in Rows \ input.read :
       /\ input' = [input EXCEPT !.read = @ \cup {row}]
       /\ answer' = IF IsFlow(row) THEN Account(answer, Flow(row, input.header), input.vms)
                    ELSE answer
  /\ UNCHANGED doing

\* _cmd_depends: with the waves of the plan, or without them.
Depends ==
  /\ doing = "reading"
  /\ doing' = "depends"
  /\ \E wave \in WavePlans :
       /\ input' = [input EXCEPT !.wave = wave]
       /\ answer' = Reported(answer, input.vms, wave)

\* The hybrid stage of run_pipeline: no waves, then the networks that stay behind.
Hybrid ==
  /\ doing = "reading"
  /\ doing' = "hybrid"
  /\ \E declared \in DeclaredSets :
       LET networks == PlanHybrid(answer.external, declared) IN
       /\ input' = [input EXCEPT !.declared = declared]
       /\ answer' = [networks |-> networks, notes |-> HybridNotes(networks),
                     ports |-> AllPorts(networks)]

(************************************* recommend *************************************)
\* Weights of which none counts are refused before anything is ranked.
RecommendCloud ==
  /\ doing = "idle"
  /\ \E vms \in Estates, requested \in Requests, plans \in PlanSets, weights \in WeightSets :
       /\ input' = [vms |-> vms, requested |-> requested, plans |-> plans, weights |-> weights]
       /\ IF WeightTotal(weights) > 0
          THEN doing' = "recommend" /\ answer' = Recommend(vms, requested, plans, weights)
          ELSE doing' = "refused" /\ answer' = Nothing

(************************************* confidence ************************************)
Confidence ==
  /\ doing = "idle"
  /\ doing' = "confidence"
  /\ \E vms \in Workloads : input' = [vms |-> vms] /\ answer' = ScorePlan(vms)

(**************************************** diff ***************************************)
Key(vm) == LowerOf[vm.name]
Matches(b, a) == b.uuid # NoUuid /\ b.uuid = a.uuid

\* A dictionary built from a list: of the machines with the same key, the last.
LastOf(list, I) == {i \in I : \A j \in I : Key(list[j]) = Key(list[i]) => j <= i}

\* Faulty variant: machines are matched by name alone.
PairsByName(before, after) ==
  LET b == LastOf(before, DOMAIN before)
      a == LastOf(after, DOMAIN after)
      named == {p \in b \X a : Key(before[p[1]]) = Key(after[p[2]])}
  IN  [pairs |-> named, gone |-> b \ {p[1] : p \in named}, new |-> a \ {p[2] : p \in named}]

\* _pairs: by UUID where both have one, then by lower-cased name what is left.
Pairs(before, after) ==
  LET same  == {p \in (DOMAIN before) \X (DOMAIN after) : Matches(before[p[1]], after[p[2]])}
      b     == LastOf(before, DOMAIN before \ {p[1] : p \in same})
      a     == LastOf(after, DOMAIN after \ {p[2] : p \in same})
      named == {p \in b \X a : Key(before[p[1]]) = Key(after[p[2]])}
  IN  [pairs |-> same \cup named,
       gone  |-> b \ {p[1] : p \in named}, new |-> a \ {p[2] : p \in named}]

\* diff_inventories
Diff(before, after) ==
  LET m == Pairs(before, after)
      Renamed(p) == Key(before[p[1]]) # Key(after[p[2]])
      Changed(p) == before[p[1]].spec # after[p[2]].spec
  IN  [added    |-> {after[i].name : i \in m.new},
       removed  |-> {before[i].name : i \in m.gone},
       renamed  |-> {<<before[p[1]].name, after[p[2]].name>> : p \in {q \in m.pairs : Renamed(q)}},
       modified |-> {after[p[2]].name : p \in {q \in m.pairs : Changed(q)}},
       unchanged |-> Cardinality({p \in m.pairs : ~Renamed(p) /\ ~Changed(p)})]

Compare ==
  /\ doing = "idle"
  /\ doing' = "diff"
  /\ \E before, after \in Snapshots :
       input' = [before |-> before, after |-> after] /\ answer' = Diff(before, after)

\* The process ends; the next one starts from nothing.
Finish ==
  /\ doing \notin {"idle", "reading"}
  /\ doing' = "idle" /\ input' = Nothing /\ answer' = Nothing

Next ==
  \/ OpenExport \/ ReadRow \/ Depends \/ Hybrid
  \/ RecommendCloud \/ Confidence \/ Compare
  \/ Finish

Spec == Init /\ [][Next]_vars

(************************************ properties ************************************)
\* The calls of the export: what was seen, before anything was attributed.
Seen == {Flow(row, input.header) : row \in {r \in input.read : IsFlow(r)}}
Calls == {f \in Seen : f.port \notin InfraPorts /\ f.connections >= MinConnections}
CallsBetween(a, b) ==
  \E f \in Calls : /\ Known(input.vms, f.src) /\ ByIp(input.vms, f.src) = a
                   /\ Known(input.vms, f.dst) /\ ByIp(input.vms, f.dst) = b
Names == {input.vms[i].name : i \in DOMAIN input.vms}
MovedBy(k) == {n \in Names : input.wave[n] <= k}

(* A report that lists no violation lets the waves be run: after each wave no machine that   *)
(* has moved calls one that has not.  And machines that call each other, directly or round   *)
(* through others, are one group; splitting a group over waves always lists a violation      *)
(* inside it.                                                                                *)
NoSilentCut ==
  doing = "depends" /\ Names \subseteq DOMAIN input.wave =>
    /\ answer.violations = {} =>
         \A k \in {input.wave[n] : n \in Names} :
           \A a \in MovedBy(k), b \in Names \ MovedBy(k) : ~CallsBetween(a, b)
    /\ \A a, b \in Names :
         a # b /\ CallsBetween(a, b) /\ CallsBetween(b, a) =>
           \E g \in answer.together : {a, b} \subseteq g
    /\ \A g, h \in answer.together : g = h \/ g \cap h = {}
    /\ \A g \in answer.together :
         Cardinality({input.wave[n] : n \in g}) > 1 =>
           \E d \in answer.violations : {d.source, d.target} \subseteq g

OutwardCalls ==
  {r \in {x \in input.read : IsFlow(x)} :
     LET f == Flow(r, input.header)
     IN  /\ f \in Calls
         /\ Known(input.vms, f.src) /\ ~Known(input.vms, f.dst) /\ f.dst \in Private}
Covering(r) == {n \in answer.networks : r.dst \in n.addresses}
HasRoute(r) ==
  /\ Cardinality(Covering(r)) = 1
  /\ \A n \in Covering(r) : /\ ByIp(input.vms, r.src) \in n.dependents
                            /\ r.port \in n.ports
                            /\ IF n.overlaps THEN n.cidr \in answer.notes.reallocate
                               ELSE /\ ByIp(input.vms, r.src) \in answer.notes.connect
                                    /\ r.port \in answer.ports
Routed == (\A r \in OutwardCalls : HasRoute(r)) /\ \A n \in answer.networks : n.addresses \subseteq Private
Connections(S) == MapThenSumSet(LAMBDA e : e.connections, S)
RowConnections(R, header) == MapThenSumSet(LAMBDA r : Flow(r, header).connections, R)

(* Every call a migrated machine makes to a private address that is not migrating is covered *)
(* by exactly one on-premises network, which names the machine and the port and says whether *)
(* the range can be routed to at all; the networks count each such connection once, and no   *)
(* public address is among them.                                                             *)
PrivateCallsAreRouted ==
  doing = "hybrid" =>
    /\ Routed
    /\ Connections(answer.networks) = RowConnections(OutwardCalls, input.header)

Table(ranked) == [i \in DOMAIN ranked |-> [ranked[i] EXCEPT !.pos = 0]]
Able == Sublist(input.requested,
                {i \in DOMAIN input.requested : /\ input.requested[i] \in Priced
                                                /\ UnsupportedCount(input.requested[i], input.vms) = 0})
NotBeaten(win, s) ==
  s.cost < win.cost /\ s.fit_score >= win.fit_score /\ s.os_score >= win.os_score
    => s.weighted = win.weighted
Undisturbed(alone) ==
  /\ alone.recommended = answer.recommended
  /\ Table(alone.ranked) = Table(Eligible(answer.ranked))
  /\ <<alone.margin, alone.runner_up, alone.spread>>
       = <<answer.margin, answer.runner_up, answer.spread>>
  /\ answer.margin >= 0
  /\ \A i \in DOMAIN alone.ranked : NotBeaten(answer.ranked[1], alone.ranked[i])

(* A cloud that cannot take the estate, or has no price, has no say in the recommendation:   *)
(* without it the winner, the scores, the margin and the spread are the same.  The winner    *)
(* can take the estate whenever some cloud can, and no cloud that can is cheaper and at      *)
(* least as good on the other two counts, unless the two score the same.                     *)
RankingIgnoresTheUnfit ==
  doing = "recommend" /\ Able # <<>> =>
    Undisturbed(Recommend(input.vms, Able, input.plans, input.weights))

(* Nothing is rated high on allocation alone: a workload rated high was sized from observed  *)
(* utilisation, and a plan rated high holds one, however well all else is known.             *)
HighMeansMeasured ==
  doing = "confidence" =>
    /\ \A i \in DOMAIN input.vms :
         answer.levels[i] = "high" => answer.decisions[i].basis = "observed"
    /\ answer.level = "high" => \E i \in DOMAIN input.vms : answer.decisions[i].basis = "observed"

(* Unless two machines of a snapshot differ in the case of their names only, the diff        *)
(* accounts for every machine of both snapshots exactly once; a machine whose UUID is in     *)
(* both is never reported as gone or as new, whatever else was renamed; and a snapshot does  *)
(* not differ from itself.                                                                   *)
HasTwins(list) == \E i, j \in DOMAIN list : i # j /\ Key(list[i]) = Key(list[j])
DiffIsWhole ==
  doing = "diff" =>
    LET kept == answer.modified \cup {r[2] : r \in answer.renamed} IN
    /\ ~HasTwins(input.before) /\ ~HasTwins(input.after) =>
         /\ Cardinality(answer.added) + Cardinality(kept) + answer.unchanged = Len(input.after)
         /\ Cardinality(answer.removed) + Cardinality(kept) + answer.unchanged = Len(input.before)
         /\ answer.added \cap kept = {}
    /\ \A i \in DOMAIN input.before, j \in DOMAIN input.after :
         Matches(input.before[i], input.after[j]) =>
           /\ input.before[i].name \notin answer.removed
           /\ input.after[j].name \notin answer.added
    /\ input.before = input.after =>
         /\ answer.added = {} /\ answer.removed = {} /\ answer.renamed = {} /\ answer.modified = {}
=============================================================================
