------------------------------- MODULE Sizing -------------------------------
(* What size of instance a machine needs and which one it is given: sizing.py *)
(* and smallest_fit() of targets/base.py.  Capacities are compared in whole    *)
(* numbers: a need of d.vcpu / d.unit CPUs is met by i.vcpu CPUs when          *)
(* i.vcpu * d.unit >= d.vcpu.                                                  *)
EXTENDS Integers

CONSTANTS Catalog,            \* the target's sizes: [vcpu, memory, family, price]
          NoFamily,           \* no preference
          NoUtil,             \* utilisation was not observed
          TargetUtilization   \* TARGET_UTILIZATION, in percent

Cheaper(i, j) ==
  \/ i.price < j.price
  \/ i.price = j.price /\ i.vcpu < j.vcpu
  \/ i.price = j.price /\ i.vcpu = j.vcpu /\ i.memory <= j.memory

Bigger(i, j) == i.vcpu > j.vcpu \/ (i.vcpu = j.vcpu /\ i.memory >= j.memory)

\* A catalogue is a finite list, so every part of it has a cheapest size and the
\* whole a largest one; an operator sets the target utilisation in 10..100.
ASSUME CatalogAssumption ==
  /\ \A i \in Catalog : i.vcpu \in Nat /\ i.memory \in Nat /\ i.price \in Nat
  /\ \A S \in SUBSET Catalog : S # {} => \E i \in S : \A j \in S : Cheaper(i, j)
  /\ \E i \in Catalog : \A j \in Catalog : Bigger(i, j)
  /\ TargetUtilization \in 10..100

AtLeast(n, floor) == IF n < floor THEN floor ELSE n

HasUtilization(s) == s.cpu_util # NoUtil \/ s.mem_util # NoUtil
Observed(util)    == IF util = NoUtil THEN 100 ELSE util

\* Faulty variant: a figure that was not observed counts as idle.
EffectiveDemandIdle(s) ==
  IF HasUtilization(s)
  THEN [vcpu   |-> AtLeast(s.cpu * (IF s.cpu_util = NoUtil THEN 0 ELSE s.cpu_util), 100),
        memory |-> AtLeast(s.memory * (IF s.mem_util = NoUtil THEN 0 ELSE s.mem_util), 100),
        unit   |-> TargetUtilization]
  ELSE [vcpu |-> 12 * s.cpu, memory |-> 12 * s.memory, unit |-> 10]

\* effective_demand: what is used, at least 1 CPU and 1 GiB, so that it loads
\* the instance to TARGET_UTILIZATION; without a figure, the allocation and 20 %.
EffectiveDemand(s) ==
  IF HasUtilization(s)
  THEN [vcpu   |-> AtLeast(s.cpu * Observed(s.cpu_util), 100),
        memory |-> AtLeast(s.memory * Observed(s.mem_util), 100),
        unit   |-> TargetUtilization]
  ELSE [vcpu |-> 12 * s.cpu, memory |-> 12 * s.memory, unit |-> 10]

Fits(i, d) == i.vcpu * d.unit >= d.vcpu /\ i.memory * d.unit >= d.memory

Candidates(d, family) ==
  {i \in Catalog : Fits(i, d) /\ (family = NoFamily \/ i.family = family)}

Cheapest(S) == CHOOSE i \in S : \A j \in S : Cheaper(i, j)
Largest     == CHOOSE i \in Catalog : \A j \in Catalog : Bigger(i, j)

\* smallest_fit: of the preferred family, else of any, else the largest there is.
SmallestFit(d, family) ==
  LET preferred == Candidates(d, family)
      any       == Candidates(d, NoFamily)
  IN  IF preferred # {} THEN Cheapest(preferred)
      ELSE IF any # {} THEN Cheapest(any) ELSE Largest
=============================================================================
