-------------------------- MODULE TranslateProofs ---------------------------
(* What Translate guarantees for every inventory, catalogue, answer of the    *)
(* remote model, landing zone and policy configuration.                       *)
EXTENDS Translate, WellFoundedInduction, TLAPS

\* A set of machines has a last one.
LEMMA LastMachine ==
  ASSUME NEW S \in SUBSET Machines, S # {}
  PROVE  \E m \in S : \A k \in S : k <= m
<1> DEFINE R == OpToRel(<, Nat)
           T == {N - m : m \in S}
<1>1. T \subseteq Nat /\ T # {}
  <2>1. N \in Nat
    BY TranslateAssumption
  <2>2. \A m \in S : N - m \in Nat
    BY <2>1 DEF Machines
  <2> QED
    BY <2>2
<1>2. PICK t \in T : \A u \in T : ~(<<u, t>> \in R)
  BY <1>1, NatLessThanWellFounded, WFMin
<1>3. \A u \in T : ~(u < t)
  BY <1>1, <1>2 DEF OpToRel
<1>4. PICK m \in S : t = N - m
  OBVIOUS
<1>5. \A k \in S : ~(N - k < N - m)
  BY <1>3, <1>4
<1> QED
  BY <1>5, TranslateAssumption DEF Machines

\* smallest_fit returns a size of the catalogue, and one that fits when there is one.
LEMMA SmallestFitFacts ==
  ASSUME NEW d, NEW family
  PROVE  /\ SmallestFit(d, family) \in Catalog
         /\ (\E i \in Catalog : Fits(i, d)) => Fits(SmallestFit(d, family), d)
<1>1. \A S \in SUBSET Catalog : S # {} => Cheapest(S) \in S
  BY CatalogAssumption DEF Cheapest
<1>2. Largest \in Catalog
  BY CatalogAssumption DEF Largest
<1>3. \A f : /\ Candidates(d, f) \in SUBSET Catalog
             /\ \A i \in Candidates(d, f) : Fits(i, d)
  BY DEF Candidates
<1>4. (\E i \in Catalog : Fits(i, d)) => Candidates(d, NoFamily) # {}
  BY DEF Candidates
<1> QED
  BY <1>1, <1>2, <1>3, <1>4 DEF SmallestFit

-----------------------------------------------------------------------------
(* Classification *)

\* A machine's masked name is restored to the last machine that has it.
LEMMA RestoredFacts ==
  ASSUME mask \in [Machines -> Machines], NEW m \in Machines
  PROVE  /\ Restored(mask[m]) \in Machines
         /\ mask[Restored(mask[m])] = mask[m]
         /\ \A k \in Machines : mask[k] = mask[m] => k <= Restored(mask[m])
<1> DEFINE S == {k \in Machines : mask[k] = mask[m]}
<1>1. PICK l \in S : \A k \in S : k <= l
  BY LastMachine
<1> QED
  BY <1>1 DEF Restored

\* Whoever answers, a group has real tiers and environments, and names that were
\* sent.
LEMMA ReconciledFacts ==
  ASSUME mask \in [Machines -> Machines],
         NEW guess \in [Machines -> Guesses], NEW answer \in Answers,
         NEW g \in Reconciled(answer, guess)
  PROVE  /\ \E m \in Machines : g[1] = mask[m]
         /\ g[2] \in Tiers /\ g[3] \in Environments
<1>1. \A x \in Guesses : x[1] \in Tiers /\ x[2] \in Environments
  BY TranslateAssumption
<1>2. PICK S \in SUBSET {mask[m] : m \in Machines} : answer \in [S -> Guesses]
  BY DEF Answers
<1>3. CASE \E n \in DOMAIN answer : g = <<n, answer[n][1], answer[n][2]>>
  BY <1>1, <1>2, <1>3
<1>4. CASE \E m \in Machines : g = <<mask[m], guess[m][1], guess[m][2]>>
  BY <1>1, <1>4
<1> QED
  BY <1>3, <1>4 DEF Reconciled, RuleGroups

\* The groups that classification leaves.
LEMMA ClassifiedType ==
  ASSUME mask \in [Machines -> Machines], Classify
  PROVE  members' \subseteq Machines \X Tiers \X Environments
<1>1. PICK guess \in [Machines -> Guesses] :
         \/ members' = RuleGroups(Machines, mask, guess)
         \/ \E answer \in Answers :
              members' = {<<Restored(g[1]), g[2], g[3]>> : g \in Reconciled(answer, guess)}
  BY DEF Classify
<1>2. \A x \in Guesses : x[1] \in Tiers /\ x[2] \in Environments
  BY TranslateAssumption
<1>3. CASE members' = RuleGroups(Machines, mask, guess)
  BY <1>2, <1>3 DEF RuleGroups
<1>4. ASSUME NEW answer \in Answers,
             members' = {<<Restored(g[1]), g[2], g[3]>> : g \in Reconciled(answer, guess)}
      PROVE  members' \subseteq Machines \X Tiers \X Environments
  <2> SUFFICES ASSUME NEW g \in Reconciled(answer, guess)
               PROVE  <<Restored(g[1]), g[2], g[3]>> \in Machines \X Tiers \X Environments
    BY <1>4
  <2>1. /\ \E m \in Machines : g[1] = mask[m]
        /\ g[2] \in Tiers /\ g[3] \in Environments
    BY ReconciledFacts
  <2>2. Restored(g[1]) \in Machines
    BY <2>1, RestoredFacts
  <2> QED
    BY <2>1, <2>2
<1> QED
  BY <1>1, <1>3, <1>4

-----------------------------------------------------------------------------
(* Sizing *)

\* tier_env_index gives a tier and an environment.
LEMMA TierEnvFacts ==
  ASSUME members \subseteq Machines \X Tiers \X Environments, NEW m
  PROVE  TierEnv(m)[1] \in Tiers /\ TierEnv(m)[2] \in Environments
<1> DEFINE of == {g \in members : g[1] = m}
<1>1. CASE of = {}
  BY <1>1 DEF TierEnv, Tiers, Environments
<1>2. CASE of # {}
  <2>1. \E g \in of : \A h \in of : GroupOrder[h[3]] <= GroupOrder[g[3]]
    <3>1. \A g \in of : g[3] \in Environments
      OBVIOUS
    <3> DEFINE at(e) == \E g \in of : g[3] = e
    <3>2. at("unknown") \/ at("development") \/ at("test") \/ at("staging") \/ at("production")
      BY <1>2, <3>1 DEF Environments
    <3> QED
      BY <3>1, <3>2 DEF Environments, GroupOrder
  <2> DEFINE last == CHOOSE g \in of : \A h \in of : GroupOrder[h[3]] <= GroupOrder[g[3]]
  <2>2. last \in of
    BY <2>1
  <2>3. TierEnv(m) = <<last[2], last[3]>>
    BY <1>2 DEF TierEnv
  <2> QED
    BY <2>2, <2>3
<1> QED
  BY <1>1, <1>2

\* The instance of c meets its demand, where the catalogue can and no remote
\* model chose it.
Meets(c) ==
  \/ c.chosen_by = "model"
  \/ \A i \in Catalog : ~Fits(i, EffectiveDemand(c.source))
  \/ Fits(c.instance, EffectiveDemand(c.source))

\* What is planned for one machine, whoever suggests it.
LEMMA ComputePlanFacts ==
  ASSUME NEW s \in Sources, NEW tier \in Tiers, NEW env \in Environments,
         NEW suggestion \in Rightsize(s, tier)
  PROVE  LET c == ComputePlan(s, tier, env, suggestion)
         IN  /\ c \in ComputePlans
             /\ c.instance \in Catalog
             /\ c.root_volume_gib >= MIN_ROOT_GIB
             /\ c.subnet_tier = SubnetForTier(c.tier)
             /\ c.security_group = SgForTier(c.tier)
             /\ c.os_family_changed = FamilyChanged(c.source.os, c.image_key)
             /\ provider = "rule" => c.image_key = ImageKey[c.source.os]
             /\ Meets(c)
<1> DEFINE c == ComputePlan(s, tier, env, suggestion)
<1>1. Instance(s, tier, suggestion) \in Catalog
  BY SmallestFitFacts DEF Instance
<1>2. suggestion.image_key \in DOMAIN KeyFamily \cup {NoKey}
  BY TranslateAssumption DEF Rightsize, RuleSuggestion, ModelSuggestions
<1>3. ImageKey[s.os] \in DOMAIN KeyFamily
  BY TranslateAssumption
<1>4. provider = "rule" => suggestion.image_key = ImageKey[s.os]
  BY DEF Rightsize, RuleSuggestion
<1>5. AtLeast(s.disk, MIN_ROOT_GIB) \in Nat /\ AtLeast(s.disk, MIN_ROOT_GIB) >= MIN_ROOT_GIB
  BY TranslateAssumption DEF AtLeast, MIN_ROOT_GIB
<1>6. SubnetForTier(tier) \in {"public", "private"} /\ SgForTier(tier) \in {"web", "app", "database", "cache"}
  BY DEF SubnetForTier, SgForTier, Tiers
<1>7. \A os, key : FamilyChanged(os, key) \in BOOLEAN
  BY DEF FamilyChanged
<1> DEFINE key == IF suggestion.image_key = NoKey THEN ImageKey[s.os] ELSE suggestion.image_key
<1>8. key \in DOMAIN KeyFamily /\ (provider = "rule" => key = ImageKey[s.os])
  BY <1>2, <1>3, <1>4
<1>9. c = [source |-> s, tier |-> tier, environment |-> env,
           instance |-> Instance(s, tier, suggestion),
           chosen_by |-> IF suggestion.instance \in Catalog THEN suggestion.by ELSE "rules",
           image_key |-> key, os_family_changed |-> FamilyChanged(s.os, key),
           root_volume_gib |-> AtLeast(s.disk, MIN_ROOT_GIB),
           subnet_tier |-> SubnetForTier(tier), security_group |-> SgForTier(tier)]
  BY DEF ComputePlan
<1> HIDE DEF c, key
<1>10. c \in ComputePlans
  <2>1. suggestion.by \in {"rules", "model"}
    BY DEF Rightsize, RuleSuggestion, ModelSuggestions
  <2> QED
    BY <1>1, <1>5, <1>6, <1>7, <1>8, <1>9, <2>1 DEF ComputePlans
<1>11. /\ c.instance \in Catalog
       /\ c.root_volume_gib >= MIN_ROOT_GIB
       /\ c.subnet_tier = SubnetForTier(c.tier)
       /\ c.security_group = SgForTier(c.tier)
       /\ c.os_family_changed = FamilyChanged(c.source.os, c.image_key)
       /\ provider = "rule" => c.image_key = ImageKey[c.source.os]
  BY <1>1, <1>5, <1>8, <1>9
<1>12. Meets(c)
  <2> DEFINE d == EffectiveDemand(s)
  <2>1. /\ c.source = s /\ c.instance = Instance(s, tier, suggestion)
        /\ c.chosen_by = IF suggestion.instance \in Catalog THEN suggestion.by ELSE "rules"
    BY <1>9
  <2>2. suggestion.by # "model" => suggestion.instance = SmallestFit(d, FamilyForTier[tier])
    BY DEF Rightsize, RuleSuggestion, ModelSuggestions
  <2>3. c.chosen_by # "model" => c.instance = SmallestFit(d, FamilyForTier[tier])
    BY <2>1, <2>2 DEF Instance
  <2> QED
    BY <2>1, <2>3, SmallestFitFacts DEF Meets
<1> QED
  BY <1>10, <1>11, <1>12 DEF c

-----------------------------------------------------------------------------
(* The plan.  What every step keeps of the compute plans, of the network that *)
(* is planned from them, and of the policies it has passed.                   *)

PlannedCompute ==
  \A m \in DOMAIN compute :
    /\ compute[m].instance \in Catalog
    /\ compute[m].root_volume_gib >= MIN_ROOT_GIB
    /\ compute[m].subnet_tier = SubnetForTier(compute[m].tier)
    /\ compute[m].security_group = SgForTier(compute[m].tier)
    /\ compute[m].os_family_changed = FamilyChanged(compute[m].source.os, compute[m].image_key)
    /\ provider = "rule" => compute[m].image_key = ImageKey[compute[m].source.os]
    /\ Meets(compute[m])

NetworkMade ==
  zone \in Zones \cup {DefaultZone} /\ zone.prefix # 23 /\ network = NetworkPlan(zone)

PlannedNetwork ==
  /\ stage \in {"classify", "size", "network"} => network = None
  /\ stage \in {"validate", "policy", "package", "done"} => NetworkMade
  /\ stage = "failed" => network = None \/ NetworkMade
  /\ stage # "failed" => error = ""
  /\ error # "invalid"
  /\ error = "zone" <=> zone # None /\ zone.prefix = 23

PassedPolicy ==
  (stage \in {"package", "done"} /\ "no_public_subnets" \in DOMAIN config
      /\ config["no_public_subnets"] = "deny") =>
    \A m \in Machines : compute[m].subnet_tier # "public"

Inv == TypeOK /\ PlannedCompute /\ PlannedNetwork /\ PassedPolicy

\* The machines of a complete plan.
LEMMA CompletePlan ==
  ASSUME TypeOK, stage \notin {"classify", "size"}
  PROVE  /\ DOMAIN compute = Machines
         /\ \A m \in Machines : compute[m] \in ComputePlans
<1>1. compute \in Seq(ComputePlans) /\ Len(compute) = N
  BY DEF TypeOK
<1>2. DOMAIN compute = 1..N /\ \A m \in 1..N : compute[m] \in ComputePlans
  BY <1>1
<1> QED
  BY <1>2 DEF Machines

\* A network that could be carved makes a valid plan.
LEMMA NetworkIsValid ==
  ASSUME TypeOK, PlannedCompute, NetworkMade, stage \notin {"classify", "size"}
  PROVE  Valid
<1>1. zone \in Zones \cup {DefaultZone} /\ zone.prefix # 23 /\ network = NetworkPlan(zone)
  BY DEF NetworkMade
<1>2. /\ DOMAIN compute = Machines
      /\ \A m \in Machines : compute[m] \in ComputePlans
  BY CompletePlan
<1>3. /\ network.vpc = zone /\ network.subnets = Carve
      /\ DOMAIN network.security_groups = {compute[m].security_group : m \in Machines}
  BY <1>1 DEF NetworkPlan
<1>4. \A m \in Machines :
        /\ compute[m].instance \in Catalog
        /\ compute[m].root_volume_gib >= 8
        /\ compute[m].security_group \in DOMAIN network.security_groups
        /\ compute[m].subnet_tier \in DOMAIN network.subnets
  BY <1>2, <1>3 DEF PlannedCompute, ComputePlans, Carve, MIN_ROOT_GIB
<1>5. Blocks(zone.prefix) \in Nat /\ Blocks(zone.prefix) >= 4
  BY <1>1, TranslateAssumption, BlocksAssumption DEF AZ_COUNT
<1>6. \A t \in DOMAIN Carve : Carve[t] \subseteq 0..(Blocks(zone.prefix) - 1)
  BY <1>5 DEF Carve, AZ_COUNT
<1>7. \A t, u \in DOMAIN Carve : t # u => Carve[t] \cap Carve[u] = {}
  BY DEF Carve, AZ_COUNT
<1> QED
  BY <1>3, <1>4, <1>6, <1>7 DEF Valid

\* Sizing one more machine.
LEMMA SizeKeeps ==
  ASSUME Inv, Size
  PROVE  Inv'
<1>1. /\ compute \in Seq(ComputePlans) /\ Len(compute) \in Nat /\ Len(compute) < N
      /\ members \subseteq Machines \X Tiers \X Environments
      /\ DOMAIN compute = 1..Len(compute)
  <2>1. compute \in Seq(ComputePlans) /\ members \subseteq Machines \X Tiers \X Environments
    BY DEF Inv, TypeOK
  <2>2. Len(compute) < N
    BY DEF Size
  <2>3. Len(compute) \in Nat /\ DOMAIN compute = 1..Len(compute)
    BY <2>1
  <2> QED
    BY <2>1, <2>2, <2>3
<1> DEFINE te == TierEnv(Len(compute) + 1)
<1>2. te[1] \in Tiers /\ te[2] \in Environments
  BY <1>1, TierEnvFacts
<1>3. PICK s \in Sources : \E suggestion \in Rightsize(s, te[1]) :
        compute' = Append(compute, ComputePlan(s, te[1], te[2], suggestion))
  BY DEF Size
<1>4. PICK suggestion \in Rightsize(s, te[1]) :
        compute' = Append(compute, ComputePlan(s, te[1], te[2], suggestion))
  BY <1>3
<1> DEFINE c == ComputePlan(s, te[1], te[2], suggestion)
<1>5. /\ c \in ComputePlans
      /\ c.instance \in Catalog
      /\ c.root_volume_gib >= MIN_ROOT_GIB
      /\ c.subnet_tier = SubnetForTier(c.tier)
      /\ c.security_group = SgForTier(c.tier)
      /\ c.os_family_changed = FamilyChanged(c.source.os, c.image_key)
      /\ provider = "rule" => c.image_key = ImageKey[c.source.os]
      /\ Meets(c)
  BY <1>2, ComputePlanFacts
<1> HIDE DEF c, te
<1>6. /\ compute' = Append(compute, c) /\ compute' \in Seq(ComputePlans)
      /\ Len(compute') = Len(compute) + 1 /\ DOMAIN compute' = 1..(Len(compute) + 1)
      /\ \A m \in 1..Len(compute) : compute'[m] = compute[m]
      /\ compute'[Len(compute) + 1] = c
  BY <1>1, <1>4, <1>5 DEF c
<1>7. TypeOK'
  <2>1. /\ stage' = IF Len(compute') = N THEN "network" ELSE "size"
        /\ UNCHANGED <<error, provider, mask, members>>
    BY DEF Size
  <2>2. /\ error' \in {"", "zone", "invalid", "config", "policy"}
        /\ provider' \in {"rule", "remote", "masked"}
        /\ mask' \in [Machines -> Machines]
        /\ members' \subseteq Machines \X Tiers \X Environments
    BY <2>1 DEF Inv, TypeOK
  <2>3. Len(compute') <= N
    BY <1>1, <1>6, TranslateAssumption
  <2>4. /\ stage' \in {"network", "size"}
        /\ stage' = "size" => Len(compute') # N
        /\ stage' = "network" => Len(compute') = N
    BY <2>1
  <2>5. stage' = "size" => Len(compute') < N
    BY <1>1, <1>6, <2>3, <2>4, TranslateAssumption
  <2> QED
    BY <1>6, <2>2, <2>3, <2>4, <2>5 DEF TypeOK
<1>8. PlannedCompute'
  <2> SUFFICES ASSUME NEW m \in 1..(Len(compute) + 1)
               PROVE  /\ compute'[m].instance \in Catalog
                      /\ compute'[m].root_volume_gib >= MIN_ROOT_GIB
                      /\ compute'[m].subnet_tier = SubnetForTier(compute'[m].tier)
                      /\ compute'[m].security_group = SgForTier(compute'[m].tier)
                      /\ compute'[m].os_family_changed
                           = FamilyChanged(compute'[m].source.os, compute'[m].image_key)
                      /\ provider' = "rule" => compute'[m].image_key = ImageKey[compute'[m].source.os]
                      /\ Meets(compute'[m])
    BY <1>6 DEF PlannedCompute
  <2>1. provider' = provider
    BY DEF Size
  <2>2. CASE m = Len(compute) + 1
    BY <1>5, <1>6, <2>1, <2>2
  <2>3. CASE m \in 1..Len(compute)
    BY <1>1, <1>6, <2>1, <2>3 DEF Inv, PlannedCompute
  <2> QED
    BY <1>1, <2>2, <2>3
<1>9. PlannedNetwork' /\ PassedPolicy'
  BY DEF Inv, PlannedNetwork, PassedPolicy, Size
<1> QED
  BY <1>7, <1>8, <1>9 DEF Inv

\* The network is a function of the compute plans and of the zone.
LEMMA NetworkStays ==
  ASSUME UNCHANGED <<compute, zone, network>>
  PROVE  NetworkMade' <=> NetworkMade
<1>1. LoadBalancers' = LoadBalancers
  BY DEF LoadBalancers, InGroup
<1>2. NetworkPlan(zone)' = NetworkPlan(zone)
  BY <1>1 DEF NetworkPlan
<1> QED
  BY <1>2 DEF NetworkMade

\* The stages of run_pipeline keep the plan consistent.
LEMMA InvHolds == Spec => []Inv
<1>1. Init => Inv
  <2> SUFFICES ASSUME Init PROVE Inv
    OBVIOUS
  <2>1. mask \in [Machines -> Machines]
    <3>1. [m \in Machines |-> m] \in [Machines -> Machines] /\ Maskings \subseteq [Machines -> Machines]
      BY TranslateAssumption
    <3>2. mask \in Maskings \cup {[m \in Machines |-> m]}
      BY DEF Init
    <3> QED
      BY <3>1, <3>2
  <2>2. compute \in Seq(ComputePlans) /\ Len(compute) = 0 /\ DOMAIN compute = {}
    <3>1. compute = <<>>
      BY DEF Init
    <3> QED
      BY <3>1
  <2>3. TypeOK
    <3>1. /\ stage = "classify" /\ error = "" /\ provider \in {"rule", "remote", "masked"}
          /\ members = {} /\ compute = <<>>
      BY DEF Init
    <3>2. Len(compute) <= N
      BY <2>2, TranslateAssumption
    <3> QED
      BY <2>1, <2>2, <3>1, <3>2 DEF TypeOK
  <2>4. PlannedCompute
    BY <2>2 DEF PlannedCompute
  <2>5. PlannedNetwork /\ PassedPolicy
    BY DEF Init, PlannedNetwork, PassedPolicy
  <2> QED
    BY <2>3, <2>4, <2>5 DEF Inv
<1>2. Inv /\ [Next]_vars => Inv'
  <2> SUFFICES ASSUME Inv, [Next]_vars PROVE Inv'
    OBVIOUS
  <2>1. CASE Classify
    <3>1. members' \subseteq Machines \X Tiers \X Environments
      BY <2>1, ClassifiedType DEF Inv, TypeOK
    <3>2. /\ stage = "classify" /\ stage' = "size"
          /\ UNCHANGED <<error, provider, mask, compute, zone, network, config>>
      BY <2>1 DEF Classify
    <3>3. Len(compute) < N
      <4>1. compute = <<>>
        BY <3>2 DEF Inv, TypeOK
      <4>2. Len(compute) = 0
        BY <4>1
      <4> QED
        BY <4>2, TranslateAssumption
    <3>4. TypeOK'
      BY <3>1, <3>2, <3>3 DEF Inv, TypeOK
    <3>5. PlannedCompute' /\ PlannedNetwork' /\ PassedPolicy'
      BY <3>2 DEF Inv, PlannedCompute, PlannedNetwork, PassedPolicy
    <3> QED
      BY <3>4, <3>5 DEF Inv
  <2>2. CASE Size
    BY <2>2, SizeKeeps
  <2>3. CASE PlanNetwork
    <3>1. /\ zone' \in Zones \cup {DefaultZone}
          /\ IF Blocks(zone'.prefix) < 2 * AZ_COUNT
             THEN stage' = "failed" /\ error' = "zone" /\ UNCHANGED network
             ELSE stage' = "validate" /\ network' = NetworkPlan(zone') /\ UNCHANGED error
      BY <2>3 DEF PlanNetwork
    <3>2. /\ stage = "network"
          /\ UNCHANGED <<provider, mask, members, compute, config, waves>>
      BY <2>3 DEF PlanNetwork
    <3>3. Blocks(zone'.prefix) < 2 * AZ_COUNT <=> zone'.prefix = 23
      BY <3>1, TranslateAssumption, BlocksAssumption
    <3>4. stage' \in {"failed", "validate"} /\ error' \in {"zone", error}
      BY <3>1
    <3>5. TypeOK'
      BY <3>2, <3>4 DEF Inv, TypeOK
    <3>6. PlannedCompute' /\ PassedPolicy'
      BY <3>2, <3>4 DEF Inv, PlannedCompute, PassedPolicy
    <3>7. network = None /\ error = ""
      BY <3>2 DEF Inv, PlannedNetwork
    <3>8. zone' # None
      <4>1. zone' \in [range : STRING \ {"any"}, prefix : 1..(SUBNET_PREFIX - 1)]
        BY <3>1, TranslateAssumption
      <4>2. DOMAIN zone' = {"range", "prefix"} /\ DOMAIN None = {}
        BY <4>1 DEF None
      <4> QED
        BY <4>2
    <3>9. ASSUME zone'.prefix = 23 PROVE PlannedNetwork'
      BY <3>1, <3>3, <3>7, <3>8, <3>9 DEF PlannedNetwork
    <3>10. ASSUME zone'.prefix # 23 PROVE PlannedNetwork'
      <4>1. stage' = "validate" /\ error' = "" /\ network' = NetworkPlan(zone')
        BY <3>1, <3>3, <3>7, <3>10
      <4>2. NetworkPlan(zone)' = NetworkPlan(zone')
        BY <3>2 DEF NetworkPlan, LoadBalancers, InGroup
      <4>3. NetworkMade'
        BY <3>1, <3>10, <4>1, <4>2 DEF NetworkMade
      <4> QED
        BY <3>10, <4>1, <4>3 DEF PlannedNetwork
    <3> QED
      BY <3>5, <3>6, <3>9, <3>10 DEF Inv
  <2>4. CASE Validate
    <3>1. stage = "validate" /\ UNCHANGED <<provider, mask, members, compute, zone, network, config>>
      BY <2>4 DEF Validate
    <3>2. NetworkMade /\ error = ""
      BY <3>1 DEF Inv, PlannedNetwork
    <3>3. Valid
      BY <3>1, <3>2, NetworkIsValid DEF Inv
    <3>4. stage' = "policy" /\ error' = ""
      BY <2>4, <3>2, <3>3 DEF Validate
    <3>5. NetworkMade'
      BY <3>1, <3>2, NetworkStays
    <3>6. TypeOK'
      BY <3>1, <3>4 DEF Inv, TypeOK
    <3> QED
      BY <3>1, <3>4, <3>5, <3>6 DEF Inv, PlannedCompute, PlannedNetwork, PassedPolicy
  <2>5. CASE EvaluatePolicy
    <3>1. stage = "policy" /\ UNCHANGED <<provider, mask, members, compute, zone, network>>
      BY <2>5 DEF EvaluatePolicy
    <3>2. NetworkMade /\ error = ""
      BY <3>1 DEF Inv, PlannedNetwork
    <3>3. NetworkMade'
      BY <3>1, <3>2, NetworkStays
    <3>4. PICK cfg \in Configs, others \in SUBSET Unmodelled :
            LET broken == {p \in DOMAIN cfg : Breaks(p) \/ p \in others}
            IN  /\ config' = cfg
                /\ IF ~(DOMAIN cfg \subseteq Policies)
                   THEN stage' = "failed" /\ error' = "config"
                   ELSE IF \E p \in broken : cfg[p] = "deny"
                   THEN stage' = "failed" /\ error' = "policy"
                   ELSE stage' = "package" /\ UNCHANGED error
      BY <2>5 DEF EvaluatePolicy
    <3>5. \/ stage' = "failed" /\ error' \in {"config", "policy"}
          \/ /\ stage' = "package" /\ error' = error
             /\ \A p \in DOMAIN config' : config'[p] = "deny" => ~Breaks(p)
      BY <3>4
    <3>6. TypeOK'
      BY <3>1, <3>5 DEF Inv, TypeOK
    <3>7. PlannedCompute' /\ PlannedNetwork'
      BY <3>1, <3>2, <3>3, <3>5 DEF Inv, PlannedCompute, PlannedNetwork
    <3>8. ~Breaks("no_public_subnets") => \A m \in Machines : compute[m].subnet_tier # "public"
      BY DEF Breaks
    <3>9. PassedPolicy'
      BY <3>1, <3>5, <3>8 DEF PassedPolicy
    <3> QED
      BY <3>6, <3>7, <3>9 DEF Inv
  <2>6. CASE Package
    <3>1. /\ stage = "package" /\ stage' = "done"
          /\ UNCHANGED <<error, provider, mask, members, compute, zone, network, config>>
      BY <2>6 DEF Package
    <3>2. NetworkMade'
      <4>1. NetworkMade
        BY <3>1 DEF Inv, PlannedNetwork
      <4> QED
        BY <3>1, <4>1, NetworkStays
    <3>3. TypeOK'
      BY <3>1 DEF Inv, TypeOK
    <3> QED
      BY <3>1, <3>2, <3>3 DEF Inv, PlannedCompute, PlannedNetwork, PassedPolicy
  <2>7. CASE UNCHANGED vars
    <3>1. NetworkMade' <=> NetworkMade
      BY <2>7, NetworkStays DEF vars
    <3> QED
      BY <2>7, <3>1 DEF vars, Inv, TypeOK, PlannedCompute, PlannedNetwork, PassedPolicy
  <2> QED
    BY <2>1, <2>2, <2>3, <2>4, <2>5, <2>6, <2>7 DEF Next
<1> QED
  BY <1>1, <1>2, PTL DEF Spec

\* Every variable has its type, whatever the remote model answers.
THEOREM TypeCorrect == Spec => []TypeOK
<1>1. Inv => TypeOK
  BY DEF Inv
<1> QED
  BY <1>1, InvHolds, PTL

\* validate_plan never refuses a plan: the guardrails of the stages before it
\* leave it nothing to find; a landing zone is refused exactly if it is a /23.
THEOREM PlansAreValid == Spec => []PlanIsValid
<1>1. Inv => PlanIsValid
  BY NetworkIsValid DEF Inv, PlannedNetwork, PlanIsValid
<1> QED
  BY <1>1, InvHolds, PTL

\* os_family_changed tells what will boot, where the target chose the image.
THEOREM FlagsTellFamilies == Spec => []FlagTellsFamily
<1>1. Inv => FlagTellsFamily
  <2> SUFFICES ASSUME Inv, NEW m \in DOMAIN compute, compute[m].source.os # NoOs,
                      provider = "rule" \/ compute[m].image_key = ImageKey[compute[m].source.os]
               PROVE  compute[m].os_family_changed
                        <=> Boots[compute[m].image_key] # OsFamily[compute[m].source.os]
    BY DEF FlagTellsFamily
  <2>1. compute[m] \in ComputePlans
    <3>1. compute \in Seq(ComputePlans)
      BY DEF Inv, TypeOK
    <3> QED
      BY <3>1
  <2>2. compute[m].source.os \in DOMAIN OsFamily \cup {NoOs}
    BY <2>1, TranslateAssumption DEF ComputePlans
  <2>3. compute[m].image_key = ImageKey[compute[m].source.os]
    BY DEF Inv, PlannedCompute
  <2>4. Boots[compute[m].image_key] = KeyFamily[compute[m].image_key]
    BY <2>2, <2>3, HonestTarget
  <2>5. compute[m].os_family_changed = FamilyChanged(compute[m].source.os, compute[m].image_key)
    BY DEF Inv, PlannedCompute
  <2> QED
    BY <2>4, <2>5 DEF FamilyChanged
<1> QED
  BY <1>1, InvHolds, PTL

\* What effective_demand asks for is what the machine needs, with its headroom,
\* and smallest_fit gives it wherever the catalogue can: only the remote model's
\* own choice may be smaller.
THEOREM SizesCoverUse == Spec => []SizedToDemand
<1>1. Inv => SizedToDemand
  <2> SUFFICES ASSUME Inv, NEW m \in DOMAIN compute,
                      Fits(compute[m].instance, EffectiveDemand(compute[m].source))
               PROVE  LET c == compute[m]
                          roomy(have, n, util) ==
                            IF HasUtilization(c.source) THEN have * TargetUtilization >= n * Observed(util)
                                                        ELSE have * 10 >= 12 * n
                      IN  /\ roomy(c.instance.vcpu, c.source.cpu, c.source.cpu_util)
                          /\ roomy(c.instance.memory, c.source.memory, c.source.mem_util)
    BY DEF SizedToDemand, Inv, PlannedCompute, Meets
  <2> DEFINE s == compute[m].source
             i == compute[m].instance
  <2>1. compute[m] \in ComputePlans /\ i \in Catalog
    <3>1. compute \in Seq(ComputePlans)
      BY DEF Inv, TypeOK
    <3> QED
      BY <3>1 DEF Inv, PlannedCompute
  <2>2. s \in Sources
    BY <2>1 DEF ComputePlans
  <2>3. /\ s.cpu \in Nat /\ s.memory \in Nat
        /\ s.cpu_util \in 0..100 \cup {NoUtil} /\ s.mem_util \in 0..100 \cup {NoUtil}
    BY <2>2, TranslateAssumption
  <2>4. i.vcpu \in Nat /\ i.memory \in Nat /\ TargetUtilization \in Nat
    BY <2>1, CatalogAssumption
  <2> HIDE DEF s, i
  <2>5. Fits(i, EffectiveDemand(s))
    BY DEF s, i
  <2>6. ASSUME HasUtilization(s)
        PROVE  /\ i.vcpu * TargetUtilization >= s.cpu * Observed(s.cpu_util)
               /\ i.memory * TargetUtilization >= s.memory * Observed(s.mem_util)
    <3>1. /\ i.vcpu * TargetUtilization >= AtLeast(s.cpu * Observed(s.cpu_util), 100)
          /\ i.memory * TargetUtilization >= AtLeast(s.memory * Observed(s.mem_util), 100)
      BY <2>5, <2>6 DEF Fits, EffectiveDemand
    <3>2. Observed(s.cpu_util) \in Nat /\ Observed(s.mem_util) \in Nat
      BY <2>3 DEF Observed
    <3>3. /\ i.vcpu * TargetUtilization \in Nat /\ i.memory * TargetUtilization \in Nat
          /\ s.cpu * Observed(s.cpu_util) \in Nat /\ s.memory * Observed(s.mem_util) \in Nat
      BY <2>3, <2>4, <3>2
    <3> QED
      BY <3>1, <3>3 DEF AtLeast
  <2>7. ASSUME ~HasUtilization(s)
        PROVE  i.vcpu * 10 >= 12 * s.cpu /\ i.memory * 10 >= 12 * s.memory
    BY <2>5, <2>7 DEF Fits, EffectiveDemand
  <2> QED
    BY <2>6, <2>7 DEF s, i
<1> QED
  BY <1>1, InvHolds, PTL

-----------------------------------------------------------------------------
(* The network *)

\* The rules of the group of a tier, in a VPC of the given zone.
LEMMA IngressFacts ==
  ASSUME NEW tier \in Tiers, NEW z \in Zones \cup {DefaultZone},
         NEW r \in RetargetIngress(DefaultIngress[SgForTier(tier)], z.range)
  PROVE  /\ r.from = IF SubnetForTier(tier) = "public" THEN "any" ELSE z.range
         /\ z.range # "any"
<1>1. z.range # "any" /\ DefaultZone.range # "any"
  BY TranslateAssumption
<1>2. PICK q \in DefaultIngress[SgForTier(tier)] :
        r = IF q.from = DefaultZone.range THEN [q EXCEPT !.from = z.range] ELSE q
  BY DEF RetargetIngress
<1>3. CASE tier = "web"
  <2>1. q.from = "any"
    BY <1>3 DEF DefaultIngress, SgForTier
  <2> QED
    BY <1>1, <1>2, <1>3, <2>1 DEF SubnetForTier
<1>4. CASE tier # "web"
  <2>1. \E p : q = [port |-> p, from |-> DefaultZone.range]
    BY <1>4 DEF DefaultIngress, SgForTier, Tiers
  <2>2. r.from = z.range
    BY <1>2, <2>1
  <2> QED
    BY <1>1, <1>4, <2>2 DEF SubnetForTier
<1> QED
  BY <1>3, <1>4

\* The group of a machine, in a network that is planned.
LEMMA NetworkFacts ==
  ASSUME Inv, NetworkMade, stage \notin {"classify", "size"}
  PROVE  /\ \A m \in Machines : \A r \in network.security_groups[compute[m].security_group] :
              r.from = IF compute[m].subnet_tier = "public" THEN "any" ELSE network.vpc.range
         /\ network.vpc.range # "any"
         /\ DOMAIN network.security_groups = {compute[m].security_group : m \in Machines}
         /\ \A lb \in network.load_balancers :
              \E m \in Machines : lb.subnet_tier = compute[m].subnet_tier
<1>1. zone \in Zones \cup {DefaultZone} /\ network = NetworkPlan(zone)
  BY DEF NetworkMade
<1>2. /\ DOMAIN compute = Machines
      /\ \A m \in Machines : compute[m] \in ComputePlans
  BY CompletePlan DEF Inv
<1>3. /\ network.vpc = zone /\ network.load_balancers = LoadBalancers
      /\ DOMAIN network.security_groups = {compute[m].security_group : m \in Machines}
      /\ \A m \in Machines : network.security_groups[compute[m].security_group]
                               = RetargetIngress(DefaultIngress[compute[m].security_group], zone.range)
  BY <1>1 DEF NetworkPlan
<1>4. \A m \in Machines : /\ compute[m].tier \in Tiers
                          /\ compute[m].subnet_tier = SubnetForTier(compute[m].tier)
                          /\ compute[m].security_group = SgForTier(compute[m].tier)
  BY <1>2 DEF Inv, PlannedCompute, ComputePlans
<1>5. \A lb \in LoadBalancers : \E m \in Machines : lb.subnet_tier = compute[m].subnet_tier
  BY DEF LoadBalancers
<1>6. zone.range # "any"
  BY <1>1, TranslateAssumption
<1> QED
  BY <1>1, <1>3, <1>4, <1>5, <1>6, IngressFacts

\* Only what is in a public subnet is open to the world, and the rest admits its
\* own VPC, whatever range the landing zone gave it.
THEOREM IngressFollowsSubnets == Spec => []OnlyPublicIsOpen
<1>1. Inv => OnlyPublicIsOpen
  <2> SUFFICES ASSUME Inv, network # None PROVE OnlyPublicIsOpen
    BY DEF OnlyPublicIsOpen
  <2>1. NetworkMade /\ stage \notin {"classify", "size"}
    BY DEF Inv, TypeOK, PlannedNetwork
  <2> QED
    BY <2>1, NetworkFacts DEF OnlyPublicIsOpen
<1> QED
  BY <1>1, InvHolds, PTL

\* Denying public subnets denies open ports with them, and internet-facing
\* balancers wherever the platform lets a balancer be internal.
THEOREM DenialCoversIngress == Spec => []NothingPublicIfDenied
<1>1. Inv => NothingPublicIfDenied
  <2> SUFFICES ASSUME Inv, stage \in {"package", "done"}, "no_public_subnets" \in DOMAIN config,
                      config["no_public_subnets"] = "deny"
               PROVE  /\ InternalBalancers => \A lb \in network.load_balancers : ~InternetFacing(lb)
                      /\ \A sg \in DOMAIN network.security_groups :
                           \A r \in network.security_groups[sg] : r.from # "any"
    BY DEF NothingPublicIfDenied
  <2>1. \A m \in Machines : compute[m].subnet_tier # "public"
    BY DEF Inv, PassedPolicy
  <2>2. NetworkMade
    BY DEF Inv, PlannedNetwork
  <2> QED
    BY <2>1, <2>2, NetworkFacts DEF InternetFacing
<1> QED
  BY <1>1, InvHolds, PTL

-----------------------------------------------------------------------------
(* Classification, once more: who is in a group *)

MaskKnown == mask \in [Machines -> Machines] /\ (provider = "rule" => mask = [m \in Machines |-> m])

\* After reconciliation every name that was sent is in a group, and a name that
\* one machine has is in one.
LEMMA ReconciledNames ==
  ASSUME mask \in [Machines -> Machines],
         NEW guess \in [Machines -> Guesses], NEW answer \in Answers,
         NEW m \in Machines
  PROVE  /\ (\A k \in Machines : mask[k] = mask[m] => k <= m) =>
              \E g \in Reconciled(answer, guess) : g[1] = mask[m]
         /\ (\A k \in Machines : mask[k] = mask[m] => k = m) =>
              \A g, h \in Reconciled(answer, guess) : g[1] = mask[m] /\ h[1] = mask[m] => g = h
<1> DEFINE left == {k \in Machines : mask[k] \notin DOMAIN answer}
           said == {<<n, answer[n][1], answer[n][2]>> : n \in DOMAIN answer}
<1>1. Reconciled(answer, guess) = said \cup RuleGroups(left, mask, guess)
  BY DEF Reconciled
<1>2. ASSUME \A k \in Machines : mask[k] = mask[m] => k <= m
      PROVE  \E g \in Reconciled(answer, guess) : g[1] = mask[m]
  <2>1. CASE mask[m] \in DOMAIN answer
    <3> DEFINE g == <<mask[m], answer[mask[m]][1], answer[mask[m]][2]>>
    <3>1. g \in said
      BY <2>1
    <3>2. g[1] = mask[m]
      OBVIOUS
    <3>3. g \in Reconciled(answer, guess)
      BY <1>1, <3>1
    <3> QED
      BY <3>2, <3>3
  <2>2. CASE mask[m] \notin DOMAIN answer
    <3> DEFINE g == <<mask[m], guess[m][1], guess[m][2]>>
    <3>1. g \in RuleGroups(left, mask, guess)
      BY <1>2, <2>2 DEF RuleGroups
    <3>2. g[1] = mask[m]
      OBVIOUS
    <3>3. g \in Reconciled(answer, guess)
      BY <1>1, <3>1
    <3> QED
      BY <3>2, <3>3
  <2> QED
    BY <2>1, <2>2
<1>3. ASSUME \A k \in Machines : mask[k] = mask[m] => k = m,
             NEW g \in Reconciled(answer, guess), NEW h \in Reconciled(answer, guess),
             g[1] = mask[m], h[1] = mask[m]
      PROVE  g = h
  <2>1. \A x \in said : x[1] = mask[m] =>
          mask[m] \in DOMAIN answer /\ x = <<mask[m], answer[mask[m]][1], answer[mask[m]][2]>>
    OBVIOUS
  <2>2. \A x \in RuleGroups(left, mask, guess) : x[1] = mask[m] =>
          mask[m] \notin DOMAIN answer /\ x = <<mask[m], guess[m][1], guess[m][2]>>
    BY <1>3 DEF RuleGroups
  <2> QED
    BY <1>1, <1>3, <2>1, <2>2
<1> QED
  BY <1>2, <1>3

\* Who is in a group once Classify is done.
LEMMA ClassifyClassifies ==
  ASSUME MaskKnown, Classify
  PROVE  ClassifiedUnlessMasked'
<1>1. mask' = mask /\ mask \in [Machines -> Machines]
  BY DEF Classify, MaskKnown
<1> SUFFICES ASSUME NEW m \in Machines
             PROVE  /\ (\E k \in Machines : k > m /\ mask[k] = mask[m])
                         <=> {g \in members' : g[1] = m} = {}
                    /\ (\A k \in Machines : mask[k] = mask[m] => k = m) =>
                         \A g, h \in {g \in members' : g[1] = m} : g = h
  BY <1>1 DEF ClassifiedUnlessMasked
<1>2. \A k \in Machines : k \in Int
  BY DEF Machines
<1>3. CASE provider = "rule"
  <2>1. mask = [k \in Machines |-> k]
    BY <1>3 DEF MaskKnown
  <2>2. PICK guess \in [Machines -> Guesses] : members' = RuleGroups(Machines, mask, guess)
    BY <1>3 DEF Classify
  <2>3. \A k \in Machines : mask[k] = mask[m] => k = m
    BY <2>1
  <2>4. {g \in members' : g[1] = m} = {<<m, guess[m][1], guess[m][2]>>}
    BY <1>2, <2>1, <2>2 DEF RuleGroups
  <2>5. ~\E k \in Machines : k > m /\ mask[k] = mask[m]
    BY <1>2, <2>3
  <2>6. {g \in members' : g[1] = m} # {}
    BY <2>4, Zenon
  <2>7. \A g, h \in {g \in members' : g[1] = m} : g = h
    BY <2>4, Zenon
  <2> QED
    BY <2>5, <2>6, <2>7, Zenon
<1>4. CASE provider # "rule"
  <2>1. PICK guess \in [Machines -> Guesses], answer \in Answers :
          members' = {<<Restored(g[1]), g[2], g[3]>> : g \in Reconciled(answer, guess)}
    BY <1>4 DEF Classify
  <2>2. \A g \in Reconciled(answer, guess) : \E k \in Machines : g[1] = mask[k]
    BY <1>1, ReconciledFacts
  <2>3. \A g \in Reconciled(answer, guess) : Restored(g[1]) = m => g[1] = mask[m]
    BY <1>1, <2>2, RestoredFacts
  <2>4. CASE \E k \in Machines : k > m /\ mask[k] = mask[m]
    <3>1. PICK k \in Machines : k > m /\ mask[k] = mask[m]
      BY <2>4
    <3>2. k <= Restored(mask[m])
      BY <1>1, <3>1, RestoredFacts
    <3>3. Restored(mask[m]) # m /\ k # m
      BY <1>1, <1>2, <3>1, <3>2, RestoredFacts
    <3>4. {g \in members' : g[1] = m} = {}
      BY <2>1, <2>3, <3>3
    <3> QED
      BY <3>1, <3>4
  <2>5. CASE ~\E k \in Machines : k > m /\ mask[k] = mask[m]
    <3>1. \A k \in Machines : mask[k] = mask[m] => k <= m
      BY <1>2, <2>5
    <3>2. Restored(mask[m]) = m
      <4>1. Restored(mask[m]) \in Machines /\ mask[Restored(mask[m])] = mask[m]
              /\ m <= Restored(mask[m])
        BY <1>1, RestoredFacts
      <4> QED
        BY <1>2, <3>1, <4>1
    <3>3. PICK g \in Reconciled(answer, guess) : g[1] = mask[m]
      BY <1>1, <3>1, ReconciledNames
    <3>4. <<m, g[2], g[3]>> \in members'
      BY <2>1, <3>2, <3>3
    <3>5. {x \in members' : x[1] = m} # {}
      BY <3>4
    <3>6. ASSUME \A k \in Machines : mask[k] = mask[m] => k = m,
                 NEW x \in members', NEW y \in members', x[1] = m, y[1] = m
          PROVE  x = y
      <4>1. PICK gx \in Reconciled(answer, guess) : x = <<Restored(gx[1]), gx[2], gx[3]>>
        BY <2>1
      <4>2. PICK gy \in Reconciled(answer, guess) : y = <<Restored(gy[1]), gy[2], gy[3]>>
        BY <2>1
      <4>3. gx[1] = mask[m] /\ gy[1] = mask[m]
        BY <2>3, <3>6, <4>1, <4>2
      <4>4. gx = gy
        BY <1>1, <3>6, <4>3, ReconciledNames
      <4> QED
        BY <4>1, <4>2, <4>4
    <3> QED
      BY <2>5, <3>5, <3>6
  <2> QED
    BY <2>4, <2>5
<1> QED
  BY <1>3, <1>4

\* Only colliding masks make classification lose a machine.
THEOREM EveryoneIsClassified == Spec => []ClassifiedUnlessMasked
<1>1. Init => MaskKnown /\ ClassifiedUnlessMasked
  <2> SUFFICES ASSUME Init PROVE MaskKnown /\ ClassifiedUnlessMasked
    OBVIOUS
  <2>1. [m \in Machines |-> m] \in [Machines -> Machines] /\ Maskings \subseteq [Machines -> Machines]
    BY TranslateAssumption
  <2>2. provider = "rule" => mask = [m \in Machines |-> m]
    BY DEF Init
  <2>3. mask \in Maskings \cup {[m \in Machines |-> m]}
    BY DEF Init
  <2>4. ClassifiedUnlessMasked
    BY DEF Init, ClassifiedUnlessMasked
  <2> QED
    BY <2>1, <2>2, <2>3, <2>4 DEF MaskKnown
<1>2. MaskKnown /\ ClassifiedUnlessMasked /\ [Next]_vars => MaskKnown' /\ ClassifiedUnlessMasked'
  <2> SUFFICES ASSUME MaskKnown, ClassifiedUnlessMasked, [Next]_vars
               PROVE  MaskKnown' /\ ClassifiedUnlessMasked'
    OBVIOUS
  <2>1. CASE Classify
    <3>1. MaskKnown'
      BY <2>1 DEF Classify, MaskKnown
    <3> QED
      BY <2>1, <3>1, ClassifyClassifies
  <2>2. CASE Size \/ PlanNetwork \/ Validate \/ EvaluatePolicy \/ Package
    <3>1. stage # "classify" /\ UNCHANGED <<provider, mask, members>>
      BY <2>2 DEF Size, PlanNetwork, Validate, EvaluatePolicy, Package
    <3> QED
      BY <3>1 DEF MaskKnown, ClassifiedUnlessMasked
  <2>3. CASE UNCHANGED vars
    BY <2>3 DEF vars, MaskKnown, ClassifiedUnlessMasked
  <2> QED
    BY <2>1, <2>2, <2>3 DEF Next
<1> QED
  BY <1>1, <1>2, PTL DEF Spec

-----------------------------------------------------------------------------
(* Waves *)

WavesMade == waves = IF stage = "done" THEN PlanWaves ELSE {}

\* The waves are those of the plan that is packaged.
LEMMA WavesHold == Spec => [](Inv /\ WavesMade)
<1>1. Init => WavesMade
  BY DEF Init, WavesMade
<1>2. WavesMade /\ [Next]_vars => WavesMade'
  <2> SUFFICES ASSUME WavesMade, [Next]_vars PROVE WavesMade'
    OBVIOUS
  <2>1. ASSUME UNCHANGED <<compute, network>> PROVE PlanWaves' = PlanWaves
    BY <2>1 DEF PlanWaves, Downtime, Fronted, WaveKey
  <2>2. CASE Classify \/ Size \/ PlanNetwork \/ Validate \/ EvaluatePolicy
    <3>1. stage # "done" /\ stage' # "done" /\ waves' = waves
      BY <2>2 DEF Classify, Size, PlanNetwork, Validate, EvaluatePolicy
    <3> QED
      BY <3>1 DEF WavesMade
  <2>3. CASE Package
    BY <2>1, <2>3 DEF Package, WavesMade
  <2>4. CASE UNCHANGED vars
    BY <2>1, <2>4 DEF vars, WavesMade
  <2> QED
    BY <2>2, <2>3, <2>4 DEF Next
<1> QED
  BY <1>1, <1>2, InvHolds, PTL DEF Spec

\* A machine behind a balancer is not the only one of its tier and environment.
LEMMA FrontedHasPeer ==
  ASSUME Inv, stage = "done", NEW m \in Fronted
  PROVE  \E k \in Machines \ {m} : /\ compute[k].tier = compute[m].tier
                                   /\ compute[k].environment = compute[m].environment
<1>1. network.load_balancers = LoadBalancers
  <2>1. network = NetworkPlan(zone)
    BY DEF Inv, PlannedNetwork, NetworkMade
  <2> QED
    BY <2>1 DEF NetworkPlan
<1>2. PICK lb \in LoadBalancers : m \in lb.targets
  BY <1>1 DEF Fronted
<1>3. PICK x \in Machines : /\ InGroup(compute[x].tier, compute[x].environment) # {x}
                            /\ lb.targets = InGroup(compute[x].tier, compute[x].environment)
  BY DEF LoadBalancers
<1>4. x \in InGroup(compute[x].tier, compute[x].environment)
  BY DEF InGroup
<1>5. PICK y \in InGroup(compute[x].tier, compute[x].environment) : y # x
  BY <1>3, <1>4
<1>6. \A k \in InGroup(compute[x].tier, compute[x].environment) :
        /\ k \in Machines /\ compute[k].tier = compute[x].tier
        /\ compute[k].environment = compute[x].environment
  BY DEF InGroup
<1> QED
  BY <1>2, <1>3, <1>5, <1>6

\* Who is in a wave, and when nobody waits.
LEMMA WaveFacts ==
  ASSUME WavesMade, stage = "done", NEW w \in waves
  PROVE  /\ w.key \in {WaveKey(m) : m \in Machines}
         /\ w.workloads = {m \in Machines : WaveKey(m) = w.key}
         /\ w.depends_on = DependsOn(w.key, {WaveKey(m) : m \in Machines})
         /\ w.downtime = 0 => w.workloads \subseteq Fronted
<1>1. PICK key \in {WaveKey(m) : m \in Machines} :
        w = [key |-> key, workloads |-> {m \in Machines : WaveKey(m) = key},
             depends_on |-> DependsOn(key, {WaveKey(m) : m \in Machines}),
             downtime |-> Downtime({m \in Machines : WaveKey(m) = key}, key[2])]
  BY DEF WavesMade, PlanWaves
<1>2. /\ w.key = key /\ w.workloads = {m \in Machines : WaveKey(m) = key}
      /\ w.depends_on = DependsOn(key, {WaveKey(m) : m \in Machines})
      /\ w.downtime = Downtime({m \in Machines : WaveKey(m) = key}, key[2])
  BY <1>1
<1> QED
  BY <1>2 DEF Downtime

\* A wave that is announced without downtime moves no machine that stands alone.
THEOREM ZeroDowntimeIsSafe == Spec => []ZeroDowntimeIsBalanced
<1>1. Inv /\ WavesMade => ZeroDowntimeIsBalanced
  <2> SUFFICES ASSUME Inv, WavesMade, NEW w \in waves, w.downtime = 0, NEW m \in w.workloads
               PROVE  \E k \in w.workloads \ {m} :
                        /\ compute[k].tier = compute[m].tier
                        /\ compute[k].environment = compute[m].environment
    BY DEF ZeroDowntimeIsBalanced
  <2>1. stage = "done"
    BY DEF WavesMade
  <2>2. m \in Fronted /\ w.workloads = {k \in Machines : WaveKey(k) = w.key}
    BY <2>1, WaveFacts
  <2>3. PICK k \in Machines \ {m} : /\ compute[k].tier = compute[m].tier
                                    /\ compute[k].environment = compute[m].environment
    BY <2>1, <2>2, FrontedHasPeer
  <2>4. WaveKey(k) = WaveKey(m)
    BY <2>3 DEF WaveKey
  <2> QED
    BY <2>2, <2>3, <2>4
<1> QED
  BY <1>1, WavesHold, PTL

\* The waves keep data before what uses it, production last in the sequence, and
\* no wave waiting for another rank.
THEOREM WavesFollowLayers == Spec => []WavesInOrder
<1>1. Inv /\ WavesMade => WavesInOrder
  <2> SUFFICES ASSUME Inv, WavesMade, stage = "done" PROVE WavesInOrder
    BY DEF WavesInOrder
  <2>1. ASSUME NEW m \in Machines
        PROVE  \E w \in waves : /\ w.key = WaveKey(m)
                                /\ \A v \in waves : m \in v.workloads <=> v = w
    <3> DEFINE key == WaveKey(m)
               keys == {WaveKey(k) : k \in Machines}
               W(q) == [key |-> q, workloads |-> {k \in Machines : WaveKey(k) = q},
                        depends_on |-> DependsOn(q, keys),
                        downtime |-> Downtime({k \in Machines : WaveKey(k) = q}, q[2])]
    <3>1. waves = {W(q) : q \in keys}
      BY DEF WavesMade, PlanWaves
    <3>2. \A q : W(q).key = q /\ W(q).workloads = {k \in Machines : WaveKey(k) = q}
      OBVIOUS
    <3> HIDE DEF W
    <3>3. W(key) \in waves
      BY <3>1
    <3>4. \A q \in keys : m \in W(q).workloads <=> W(q) = W(key)
      BY <3>2
    <3> QED
      BY <3>1, <3>2, <3>3, <3>4
  <2>2. \A m \in Machines : WaveOf(m) \in waves /\ WaveOf(m).key = WaveKey(m)
    BY <2>1 DEF WaveOf
  <2>3. \A m \in Machines : WaveOf(m).depends_on
                               = DependsOn(WaveKey(m), {WaveKey(k) : k \in Machines})
    BY <2>2, WaveFacts
  <2>4. \A m \in Machines : compute[m].tier \in Tiers /\ compute[m].environment \in Environments
    BY CompletePlan DEF Inv, ComputePlans
  <2>5. ASSUME NEW m \in Machines, NEW k \in Machines,
               compute[m].environment = compute[k].environment,
               \/ compute[m].tier \in {"database", "cache"} /\ compute[k].tier \in {"app", "web"}
               \/ compute[m].tier = "app" /\ compute[k].tier = "web"
        PROVE  Runs(WaveOf(m), WaveOf(k)) /\ WaveOf(m).key \in WaveOf(k).depends_on
    <3>1. WaveKey(m)[1] = WaveKey(k)[1]
      BY <2>5 DEF WaveKey
    <3>2. WaveKey(m)[2] < WaveKey(k)[2]
      BY <2>5 DEF WaveKey, TierDepth
    <3> QED
      BY <2>2, <2>3, <3>1, <3>2 DEF Runs, DependsOn
  <2>6. ASSUME NEW m \in Machines, NEW k \in Machines,
               compute[m].environment \in {"development", "test", "staging"},
               compute[k].environment = "production"
        PROVE  Runs(WaveOf(m), WaveOf(k))
    <3>1. WaveKey(m)[1] < WaveKey(k)[1]
      BY <2>6 DEF WaveKey, EnvRank
    <3> QED
      BY <2>2, <3>1 DEF Runs
  <2>7. ASSUME NEW m \in Machines, NEW k \in Machines, WaveOf(m).key \in WaveOf(k).depends_on
        PROVE  Runs(WaveOf(m), WaveOf(k)) /\ WaveOf(m).key[1] = WaveOf(k).key[1]
    BY <2>2, <2>3, <2>7 DEF Runs, DependsOn
  <2> QED
    BY <2>1, <2>5, <2>6, <2>7 DEF WavesInOrder
<1> QED
  BY <1>1, WavesHold, PTL
=============================================================================
