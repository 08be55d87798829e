------------------------------- MODULE Ranking -------------------------------
(* What a plan costs, which cloud is recommended and how far the plan may be trusted:        *)
(* costing.py, recommend.py, evidence.py and confidence.py.  Money is in whole cents, a      *)
(* score or a weight in ten-thousandths, the four places the code rounds to; a half is       *)
(* rounded up.                                                                               *)
EXTENDS Integers, Sequences, SequencesExt, FiniteSetsExt

CONSTANTS Priced,        \* the targets with CAP_PRICED
          StaticRate,    \* [line -> [cloud -> cents]]: the _STATIC_RATES tables
          LiveRate,      \* [line -> cents]: what live_line_rate answers
          ImageFamily,   \* [target -> [source family -> family of the image it maps to]]
          NoOs           \* the inventory has no operating system

Lines == {"storage", "windows", "lb"}
Round(n, d) == (2 * n + d) \div (2 * d)
Total(S) == FoldSeq(LAMBDA a, b : a + b, 0, S)
OrElse(n, default) == IF n = 0 THEN default ELSE n

\* The members of a finite set S in the order R, a set of pairs, and the elements of a list
\* at the positions I.
InOrder(S, R) ==
  [k \in 1..Cardinality(S) |-> CHOOSE s \in S : Cardinality({t \in S : <<t, s>> \in R}) = k - 1]
Sublist(list, I) ==
  LET at == InOrder(I, {p \in I \X I : p[1] < p[2]}) IN [k \in DOMAIN at |-> list[at[k]]]

(*********************************** costing.py ***********************************)
\* _line_rates: the live rate where it was asked for and there is one.
LineSource(plan, line) == IF plan.live_requested /\ line \in plan.live THEN "live" ELSE "static"
LineRate(plan, line) ==
  IF LineSource(plan, line) = "live" THEN LiveRate[line] ELSE StaticRate[line][plan.target]

\* _basis: which lines the report says are live, and which it says are not.
Basis(plan) ==
  [live |-> {l \in Lines : LineSource(plan, l) = "live"}, asked |-> plan.live_requested]

\* estimate_costs: four lines and their sum; nothing for a target without a price.
EstimateCosts(plan) ==
  IF plan.target \notin Priced
  THEN [priced |-> FALSE, compute |-> 0, storage |-> 0, licensing |-> 0, lbs |-> 0, total |-> 0,
        basis |-> Basis(plan)]
  ELSE LET storage   == plan.gib * LineRate(plan, "storage")
           licensing == plan.windows_vcpu * LineRate(plan, "windows")
           lbs       == plan.lb_count * LineRate(plan, "lb")
       IN  [priced |-> TRUE, compute |-> plan.compute, storage |-> storage,
            licensing |-> licensing, lbs |-> lbs,
            total |-> plan.compute + storage + licensing + lbs, basis |-> Basis(plan)]

(********************************** recommend.py **********************************)
\* ScoringWeights: scaled to a total of one, refused when nothing is weighed.
WeightTotal(w) == w.cost + w.fit + w.os
DefaultWeights == [cost |-> 4500, fit |-> 3000, os |-> 2500]
Normalized(w)  == [k \in {"cost", "fit", "os"} |-> Round(10000 * w[k], WeightTotal(w))]

OsFamily(os)  == IF os = "windows" THEN "windows" ELSE "linux"
IsWindows(vm) == vm.os = "windows"

\* _fit: how much of what is provisioned is needed, averaged over CPU and memory.
Fit(vms, plan) ==
  LET cpu    == OrElse(Total([i \in DOMAIN vms |-> vms[i].cpu]), 1)
      mem    == OrElse(Total([i \in DOMAIN vms |-> vms[i].mem]), 1)
      gotCpu == OrElse(plan.vcpu, cpu)
      gotMem == OrElse(plan.memory, mem)
  IN  Round(10000 * (Min({cpu, gotCpu}) * gotMem + Min({mem, gotMem}) * gotCpu),
            2 * gotCpu * gotMem)

\* _os_affinity
OsAffinity(cloud, vms) ==
  LET windows == Cardinality({i \in DOMAIN vms : IsWindows(vms[i])})
      half(n) == 5000 + Round(5000 * n, OrElse(Len(vms), 1))
  IN  CASE cloud = "azure" -> half(windows)
        [] cloud = "gcp"   -> half(Len(vms) - windows)
        [] OTHER           -> 6000

\* _unsupported_count: machines whose image would be of the other family.
UnsupportedCount(cloud, vms) ==
  Cardinality({i \in DOMAIN vms : /\ vms[i].os # NoOs
                                  /\ ImageFamily[cloud][OsFamily(vms[i].os)] # OsFamily(vms[i].os)})

\* Where the targets with a price are first named: a dictionary keeps a key where it was
\* first put.
Ranked(requested) ==
  {i \in DOMAIN requested : /\ requested[i] \in Priced
                            /\ \A j \in DOMAIN requested : j < i => requested[j] # requested[i]}

\* The raw metrics of a cloud; pos is its place in the list of targets.
Metrics(vms, name, plan, pos) ==
  [pos |-> pos, cloud |-> name, cost |-> EstimateCosts(plan).total, fit |-> Fit(vms, plan),
   os |-> OsAffinity(name, vms), unsupported |-> UnsupportedCount(name, vms)]
Raw(vms, requested, plans) ==
  {Metrics(vms, requested[i], plans[requested[i]], i) : i \in Ranked(requested)}

\* Faulty variant: the baseline is the cheapest of all, the ineligible ones included.
CheapestCostOfAll(raw) == OrElse(Min({r.cost : r \in raw}), 100)

\* The baseline: the cheapest cloud that can take the estate, or of all when none can.
CheapestCost(raw) ==
  LET able == {r \in raw : r.unsupported = 0}
  IN  OrElse(Min({r.cost : r \in IF able = {} THEN raw ELSE able}), 100)

CostScore(cost, cheapest) ==
  IF cost = 0 THEN 10000 ELSE Min({10000, Round(10000 * cheapest, cost)})

\* The CloudScore of one cloud: a cloud that cannot take the estate scores nothing.
Score(r, cheapest, w) ==
  LET cost == CostScore(r.cost, cheapest)
  IN  [pos |-> r.pos, cloud |-> r.cloud, cost |-> r.cost, cost_score |-> cost,
       fit_score |-> r.fit, os_score |-> r.os, eligible |-> r.unsupported = 0,
       weighted |-> IF r.unsupported > 0 THEN 0
                    ELSE Round(w.cost * cost + w.fit * r.fit + w.os * r.os, 10000)]

\* scores.sort: eligible first, then by weight; clouds that tie keep their order.
Precedes(s, t) ==
  \/ s.eligible /\ ~t.eligible
  \/ s.eligible = t.eligible /\ s.weighted > t.weighted
  \/ s.eligible = t.eligible /\ s.weighted = t.weighted /\ s.pos < t.pos

SortScores(scores) == InOrder(scores, {p \in scores \X scores : Precedes(p[1], p[2])})
Eligible(ranked)   == Sublist(ranked, {i \in DOMAIN ranked : ranked[i].eligible})
Contenders(ranked) == IF Eligible(ranked) = <<>> THEN ranked ELSE Eligible(ranked)

Decisiveness(margin) ==
  IF margin >= 1000 THEN "clear" ELSE IF margin >= 300 THEN "moderate" ELSE "close"

\* recommend: rank the targets that have a price; name the rest.
Recommend(vms, requested, plans, weights) ==
  LET raw     == Raw(vms, requested, plans)
      base    == CheapestCost(raw)
      w       == Normalized(weights)
      ranked  == SortScores({Score(r, base, w) : r \in raw})
      rivals  == Contenders(ranked)
      margin  == IF Len(rivals) > 1 THEN ranked[1].weighted - rivals[2].weighted
                 ELSE ranked[1].weighted
      dearest == Max({rivals[i].cost : i \in DOMAIN rivals})
  IN  [recommended |-> ranked[1].cloud, ranked |-> ranked, margin |-> margin,
       decisiveness |-> Decisiveness(margin),
       runner_up |-> IF Len(rivals) > 1 THEN {rivals[2].cloud} ELSE {},
       spread |-> 12 * (dearest - base),
       excluded |-> {ranked[i].cloud : i \in {k \in DOMAIN ranked : ~ranked[k].eligible}},
       custom |-> Normalized(weights) # DefaultWeights,
       not_ranked |-> {requested[i] : i \in DOMAIN requested} \ Priced]

(*************************** evidence.py and confidence.py ***************************)
\* sizing_decision: any utilisation makes the size an observed one.
SizingBasis(vm) == IF vm.cpu_util \/ vm.mem_util THEN "observed" ELSE "allocated"
Unknowns(vm) ==
  {u \in {"cpu", "memory", "over-provisioned"} :
     CASE u = "cpu" -> ~vm.cpu_util [] u = "memory" -> ~vm.mem_util
       [] OTHER -> SizingBasis(vm) = "allocated"}
Decision(vm) == [basis |-> SizingBasis(vm), unknowns |-> Unknowns(vm)]

\* Faulty variant: sizing weighs no more than the image.
FactorWeightEven == [sizing |-> 30, classification |-> 25, image |-> 25, cost |-> 20]

FactorWeight == [sizing |-> 35, classification |-> 25, image |-> 20, cost |-> 20]

\* The four factors of a workload, in percent.
Factors(vm) ==
  [sizing         |-> IF SizingBasis(vm) = "observed" THEN 90 ELSE 60,
   classification |-> IF vm.tier = "other" THEN 45 ELSE IF vm.env = "unknown" THEN 75 ELSE 90,
   image          |-> CASE vm.os = NoOs -> 35 [] vm.os = "unrecognized" -> 55 [] OTHER -> 90,
   cost           |-> IF vm.price = "live" THEN 90 ELSE 70]

Overall(vm) ==
  LET f == Factors(vm)
  IN  FactorWeight.sizing * f.sizing + FactorWeight.classification * f.classification
      + FactorWeight.image * f.image + FactorWeight.cost * f.cost
Level(score) == IF score >= 8000 THEN "high" ELSE IF score >= 6000 THEN "medium" ELSE "low"

\* score_plan, beside the sizing decisions the plan carries.
ScorePlan(vms) ==
  LET overall == IF vms = <<>> THEN 0
                 ELSE Round(Total([i \in DOMAIN vms |-> Overall(vms[i])]), Len(vms))
  IN  [overall |-> overall, level |-> Level(overall),
       levels |-> [i \in DOMAIN vms |-> Level(Overall(vms[i]))],
       decisions |-> [i \in DOMAIN vms |-> Decision(vms[i])]]
=============================================================================
