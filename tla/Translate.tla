----------------------------- MODULE Translate ------------------------------
(* One translation, from normalised machines to a project on disk: the stages *)
(* plan, validate, policy and package of pipeline.py, with the agents behind  *)
(* the plan (classification by rules or by a remote model, masked or not;     *)
(* sizing; the network) and the migration waves.                              *)
(*                                                                            *)
(* The machines are the positions 1..N of the inventory: Naming shows that    *)
(* their names and their labels are unique.  What is read of a machine, of    *)
(* the model's answers and of the configuration is chosen in the step that    *)
(* first reads it.                                                            *)
EXTENDS Sizing, Sequences

CONSTANTS N,            \* machines in the inventory
          Guesses,      \* <<tier, environment>> pairs that are given to machines
          Maskings,     \* masked names: functions from machines to machines
          Sources,      \* [cpu, memory, cpu_util, mem_util, os, disk]
          NoOs,         \* the inventory does not give the OS
          OsFamily,     \* the family of each OS string
          KeyFamily,    \* the family each image key names
          ImageKey,     \* the target's image_key(os)
          Boots,        \* the family that image_reference(image_key) boots
          NoKey,        \* an empty image key
          Suggestions,  \* answers of the remote model: [instance, image_key]
          FamilyForTier,\* the target's preferred family, or NoFamily
          DefaultZone,  \* the target's own VPC: [range, prefix]
          Zones,        \* landing zones: [range, prefix]
          InternalBalancers,  \* the target's platform has balancers that are not public
          Configs,      \* policy configurations, severities resolved
          Approved, MaxVcpu   \* parameters of the policies

VARIABLES stage,        \* what runs next
          error,        \* why the run failed
          provider,     \* "rule", "remote", or "masked": remote, de-identified
          mask,         \* the name each machine has on the wire
          members,      \* app_groups: <<machine, tier, environment>>
          compute,      \* plan.compute so far
          zone,         \* the landing zone that was planned for
          network,      \* plan.network
          config,       \* the policy configuration
          waves         \* waves.json

vars == <<stage, error, provider, mask, members, compute, zone, network, config, waves>>

Machines     == 1..N
Tiers        == {"web", "app", "database", "cache", "other"}
Environments == {"production", "staging", "test", "development", "unknown"}
Policies     == {"no_public_subnets", "allowed_instance_families", "max_vcpu",
                 "max_monthly_cost", "naming_prefix", "require_nat",
                 "require_customer_managed_key"}
None         == [x \in {} |-> x]   \* nothing planned, nothing configured

SUBNET_PREFIX == 24
AZ_COUNT      == 2
MIN_ROOT_GIB  == 30

ASSUME TranslateAssumption ==
  /\ N \in Nat \ {0}
  /\ Guesses \subseteq Tiers \X Environments
  /\ Maskings \subseteq [Machines -> Machines]
  /\ NoOs \notin DOMAIN OsFamily
  /\ \A s \in Sources :
       /\ s.cpu \in Nat /\ s.memory \in Nat /\ s.disk \in Nat
       /\ s.cpu_util \in 0..100 \cup {NoUtil} /\ s.mem_util \in 0..100 \cup {NoUtil}
       /\ s.os \in DOMAIN OsFamily \cup {NoOs}
  /\ NoKey \notin DOMAIN KeyFamily /\ DOMAIN Boots = DOMAIN KeyFamily
  /\ \A os \in DOMAIN OsFamily \cup {NoOs} : ImageKey[os] \in DOMAIN KeyFamily
  /\ \A s \in Suggestions : s.image_key \in DOMAIN KeyFamily \cup {NoKey}
  /\ Zones \cup {DefaultZone} \subseteq [range : STRING \ {"any"}, prefix : 1..(SUBNET_PREFIX - 1)]
  /\ DefaultZone.prefix <= 22
  /\ InternalBalancers \in BOOLEAN

\* A target's own choice of image names what it will boot (ADR 0038).
ASSUME HonestTarget ==
  \A os \in DOMAIN OsFamily \cup {NoOs} : Boots[ImageKey[os]] = KeyFamily[ImageKey[os]]

Init ==
  /\ stage = "classify" /\ error = ""
  /\ provider \in {"rule", "remote", "masked"}
  /\ mask \in IF provider = "masked" THEN Maskings ELSE {[m \in Machines |-> m]}
  /\ members = {} /\ compute = <<>> /\ zone = None /\ network = None /\ config = None /\ waves = {}

-----------------------------------------------------------------------------
(* classify *)

\* RuleEngineProvider.classify, for machines ms and what their names suggest: a
\* group per environment, in which a name has one tier, the last one given.
RuleGroups(ms, name, guess) ==
  {<<name[m], guess[m][1], guess[m][2]>> :
     m \in {m \in ms : \A k \in ms : name[k] = name[m] /\ guess[k][2] = guess[m][2] => k <= m}}

\* What is left of the model's groups: the first mention of each known name.
Answers == UNION {[S -> Guesses] : S \in SUBSET {mask[m] : m \in Machines}}

\* Faulty variant: what the model left out stays out.
ReconciledPartly(answer, guess) == {<<n, answer[n][1], answer[n][2]>> : n \in DOMAIN answer}

\* AnthropicProvider.classify; a failed call answers nothing.
Reconciled(answer, guess) ==
  {<<n, answer[n][1], answer[n][2]>> : n \in DOMAIN answer}
    \cup RuleGroups({m \in Machines : mask[m] \notin DOMAIN answer}, mask, guess)

\* Pseudonymizer.restore: _vm_back holds the last machine masked to a name.
Restored(n) == CHOOSE m \in Machines : mask[m] = n /\ \A k \in Machines : mask[k] = n => k <= m

\* The rule engine sees real names.  A remote model, and the rules behind it,
\* see masked ones, from which they may guess otherwise.
Classify ==
  /\ stage = "classify"
  /\ \E guess \in [Machines -> Guesses] :
       \/ /\ provider = "rule"
          /\ members' = RuleGroups(Machines, mask, guess)
       \/ /\ provider # "rule"
          /\ \E answer \in Answers :
               members' = {<<Restored(g[1]), g[2], g[3]>> : g \in Reconciled(answer, guess)}
  /\ stage' = "size"
  /\ UNCHANGED <<error, provider, mask, compute, zone, network, config, waves>>

-----------------------------------------------------------------------------
(* rightsize *)

\* The rule engine lists its groups in this order.
GroupOrder == [production |-> 0, staging |-> 1, test |-> 2, development |-> 3, unknown |-> 4]

\* tier_env_index: the last group that has the machine decides.
TierEnv(m) ==
  LET of == {g \in members : g[1] = m}
      last == CHOOSE g \in of : \A h \in of : GroupOrder[h[3]] <= GroupOrder[g[3]]
  IN  IF of = {} THEN <<"other", "unknown">> ELSE <<last[2], last[3]>>

SgForTier(tier)     == IF tier = "other" THEN "app" ELSE tier
SubnetForTier(tier) == IF tier = "web" THEN "public" ELSE "private"

RuleSuggestion(s, tier) ==
  [instance |-> SmallestFit(EffectiveDemand(s), FamilyForTier[tier]), image_key |-> ImageKey[s.os],
   by |-> "rules"]

ModelSuggestions ==
  {[instance |-> a.instance, image_key |-> a.image_key, by |-> "model"] : a \in Suggestions}

\* A remote model answers anything, or fails and the rules answer.
Rightsize(s, tier) ==
  {RuleSuggestion(s, tier)} \cup (IF provider = "rule" THEN {} ELSE ModelSuggestions)

\* Faulty variant: the type is not looked up in the catalogue.
InstanceAsSuggested(s, tier, suggestion) == suggestion.instance

\* The catalogue guardrail.
Instance(s, tier, suggestion) ==
  IF suggestion.instance \in Catalog THEN suggestion.instance
  ELSE SmallestFit(EffectiveDemand(s), FamilyForTier[tier])

FamilyChanged(os, key) == os # NoOs /\ OsFamily[os] # KeyFamily[key]

\* build_compute_plans, for one machine
ComputePlan(s, tier, env, suggestion) ==
  LET key == IF suggestion.image_key = NoKey THEN ImageKey[s.os] ELSE suggestion.image_key
  IN  [source |-> s, tier |-> tier, environment |-> env,
       instance |-> Instance(s, tier, suggestion),
       chosen_by |-> IF suggestion.instance \in Catalog THEN suggestion.by ELSE "rules",
       image_key |-> key, os_family_changed |-> FamilyChanged(s.os, key),
       root_volume_gib |-> AtLeast(s.disk, MIN_ROOT_GIB),
       subnet_tier |-> SubnetForTier(tier), security_group |-> SgForTier(tier)]

Size ==
  /\ stage = "size" /\ Len(compute) < N
  /\ LET te == TierEnv(Len(compute) + 1)
     IN  \E s \in Sources : \E suggestion \in Rightsize(s, te[1]) :
           compute' = Append(compute, ComputePlan(s, te[1], te[2], suggestion))
  /\ stage' = IF Len(compute') = N THEN "network" ELSE "size"
  /\ UNCHANGED <<error, provider, mask, members, zone, network, config, waves>>

-----------------------------------------------------------------------------
(* plan_network *)

\* carve_subnets: the /24 blocks of a range, by number; public first.
Blocks(prefix) == 2^(SUBNET_PREFIX - prefix)

\* Exponents are beyond the provers: TLC evaluates what the proofs use of them.
ASSUME BlocksAssumption ==
  \A p \in 1..(SUBNET_PREFIX - 1) : Blocks(p) \in Nat /\ (Blocks(p) < 2 * AZ_COUNT <=> p = 23)

Carve == [public |-> 0..(AZ_COUNT - 1), private |-> AZ_COUNT..(2 * AZ_COUNT - 1)]

\* default_ingress: ports and who may reach them.
DefaultIngress ==
  [web      |-> {[port |-> 80, from |-> "any"], [port |-> 443, from |-> "any"]},
   app      |-> {[port |-> 8080, from |-> DefaultZone.range]},
   database |-> {[port |-> p, from |-> DefaultZone.range] : p \in {5432, 3306, 1433}},
   cache    |-> {[port |-> 6379, from |-> DefaultZone.range]}]

\* _retarget_ingress
RetargetIngress(rules, vpc) ==
  {IF r.from = DefaultZone.range THEN [r EXCEPT !.from = vpc] ELSE r : r \in rules}

InGroup(tier, env) == {m \in Machines : compute[m].tier = tier /\ compute[m].environment = env}

\* Faulty variant: a balancer for a tier, whatever the environment.
LoadBalancersByTier ==
  {[tier |-> compute[m].tier, environment |-> compute[m].environment,
    subnet_tier |-> compute[m].subnet_tier, security_group |-> compute[m].security_group,
    targets |-> {k \in Machines : compute[k].tier = compute[m].tier}] :
     m \in {m \in Machines : \E k \in Machines : k # m /\ compute[k].tier = compute[m].tier}}

\* _plan_load_balancers: one in front of two machines or more of one tier and
\* environment; the subnet tier and the security group follow the tier.
LoadBalancers ==
  {[tier |-> compute[m].tier, environment |-> compute[m].environment,
    subnet_tier |-> compute[m].subnet_tier, security_group |-> compute[m].security_group,
    targets |-> InGroup(compute[m].tier, compute[m].environment)] :
     m \in {m \in Machines : InGroup(compute[m].tier, compute[m].environment) # {m}}}

NetworkPlan(z) ==
  [vpc |-> z, subnets |-> Carve,
   security_groups |-> [sg \in {compute[m].security_group : m \in Machines} |->
                          RetargetIngress(DefaultIngress[sg], z.range)],
   load_balancers |-> LoadBalancers,
   nat |-> \E m \in Machines : compute[m].subnet_tier = "private"]

PlanNetwork ==
  /\ stage = "network"
  /\ zone' \in Zones \cup {DefaultZone}
  /\ IF Blocks(zone'.prefix) < 2 * AZ_COUNT
     THEN stage' = "failed" /\ error' = "zone" /\ UNCHANGED network
     ELSE stage' = "validate" /\ network' = NetworkPlan(zone') /\ UNCHANGED error
  /\ UNCHANGED <<provider, mask, members, compute, config, waves>>

-----------------------------------------------------------------------------
(* validate, policy *)

\* validate_plan finds nothing; labels are unique by Naming.
Valid ==
  /\ \A m \in Machines :
       /\ compute[m].instance \in Catalog
       /\ compute[m].root_volume_gib >= 8
       /\ compute[m].security_group \in DOMAIN network.security_groups
       /\ compute[m].subnet_tier \in DOMAIN network.subnets
  /\ \A t \in DOMAIN network.subnets : network.subnets[t] \subseteq 0..(Blocks(network.vpc.prefix) - 1)
  /\ \A t, u \in DOMAIN network.subnets : t # u => network.subnets[t] \cap network.subnets[u] = {}

Validate ==
  /\ stage = "validate"
  /\ IF Valid THEN stage' = "policy" /\ UNCHANGED error
              ELSE stage' = "failed" /\ error' = "invalid"
  /\ UNCHANGED <<provider, mask, members, compute, zone, network, config, waves>>

\* Faulty variant: the last machine is not looked at.
BreaksButLast(p) ==
  CASE p = "no_public_subnets"         -> \E m \in 1..(N - 1) : compute[m].subnet_tier = "public"
    [] p = "allowed_instance_families" -> \E m \in 1..(N - 1) : compute[m].instance.family \notin Approved
    [] p = "max_vcpu"                  -> \E m \in 1..(N - 1) : compute[m].instance.vcpu > MaxVcpu
    [] p = "require_nat"               -> ~network.nat
    [] OTHER                           -> FALSE

\* The builtin policies that read the plan's structure.  A budget, a prefix and
\* a key are compared with figures that are not modelled.
Breaks(p) ==
  CASE p = "no_public_subnets"         -> \E m \in Machines : compute[m].subnet_tier = "public"
    [] p = "allowed_instance_families" -> \E m \in Machines : compute[m].instance.family \notin Approved
    [] p = "max_vcpu"                  -> \E m \in Machines : compute[m].instance.vcpu > MaxVcpu
    [] p = "require_nat"               -> ~network.nat
    [] OTHER                           -> FALSE

Unmodelled == {"max_monthly_cost", "naming_prefix", "require_customer_managed_key"}

\* evaluate: an unknown policy raises, a denial stops the run, a warning is
\* reported.
EvaluatePolicy ==
  /\ stage = "policy"
  /\ \E cfg \in Configs, others \in SUBSET Unmodelled :
       LET broken == {p \in DOMAIN cfg : Breaks(p) \/ p \in others}
       IN  /\ config' = cfg
           /\ IF ~(DOMAIN cfg \subseteq Policies)
              THEN stage' = "failed" /\ error' = "config"
              ELSE IF \E p \in broken : cfg[p] = "deny"
              THEN stage' = "failed" /\ error' = "policy"
              ELSE stage' = "package" /\ UNCHANGED error
  /\ UNCHANGED <<provider, mask, members, compute, zone, network, waves>>

-----------------------------------------------------------------------------
(* package: plan_waves *)

EnvRank   == [development |-> 0, test |-> 0, staging |-> 1, unknown |-> 2, production |-> 2]
TierDepth == [database |-> 0, cache |-> 0, other |-> 0, app |-> 1, web |-> 2]

WaveKey(m) == <<EnvRank[compute[m].environment], TierDepth[compute[m].tier]>>

Fronted == UNION {lb.targets : lb \in network.load_balancers}

Downtime(group, depth) ==
  IF group \subseteq Fronted THEN 0 ELSE IF depth = 0 THEN 30 ELSE 10

\* Faulty variant: a wave depends on the layer right below its own.
DependsOnPrevious(key, keys) == {k \in keys : k[1] = key[1] /\ k[2] = key[2] - 1}

\* A wave depends on the lower layers of its rank, and on no other rank.
DependsOn(key, keys) == {k \in keys : k[1] = key[1] /\ k[2] < key[2]}

\* One wave per key, run in the order of the keys.
PlanWaves ==
  LET keys     == {WaveKey(m) : m \in Machines}
      in(key)  == {m \in Machines : WaveKey(m) = key}
  IN  {[key |-> key, workloads |-> in(key), depends_on |-> DependsOn(key, keys),
        downtime |-> Downtime(in(key), key[2])] : key \in keys}

Package ==
  /\ stage = "package"
  /\ waves' = PlanWaves
  /\ stage' = "done"
  /\ UNCHANGED <<error, provider, mask, members, compute, zone, network, config>>

Next == Classify \/ Size \/ PlanNetwork \/ Validate \/ EvaluatePolicy \/ Package

Spec == Init /\ [][Next]_vars

-----------------------------------------------------------------------------
ComputePlans ==
  [source : Sources, tier : Tiers, environment : Environments,
   instance : Catalog \cup {s.instance : s \in Suggestions}, chosen_by : {"rules", "model"},
   image_key : DOMAIN KeyFamily, os_family_changed : BOOLEAN, root_volume_gib : Nat,
   subnet_tier : {"public", "private"}, security_group : {"web", "app", "database", "cache"}]

TypeOK ==
  /\ stage \in {"classify", "size", "network", "validate", "policy", "package", "done", "failed"}
  /\ error \in {"", "zone", "invalid", "config", "policy"}
  /\ provider \in {"rule", "remote", "masked"}
  /\ mask \in [Machines -> Machines]
  /\ members \subseteq Machines \X Tiers \X Environments
  /\ compute \in Seq(ComputePlans) /\ Len(compute) <= N
  /\ stage = "classify" => compute = <<>>
  /\ stage = "size" => Len(compute) < N
  /\ stage \notin {"classify", "size"} => Len(compute) = N

\* The only machines that classification loses are those whose masked name a
\* later machine has too; any other whose masked name is its own is in exactly
\* one group, whatever the model mentions, invents, repeats or leaves out.
ClassifiedUnlessMasked ==
  stage # "classify" =>
    \A m \in Machines :
      LET groups == {g \in members : g[1] = m}
          later  == \E k \in Machines : k > m /\ mask[k] = mask[m]
          own    == \A k \in Machines : mask[k] = mask[m] => k = m
      IN  /\ later <=> groups = {}
          /\ own => \A g, h \in groups : g = h

\* The guardrails make validation idle: whatever the providers answer, a plan is
\* refused for its landing zone or by policy, never as invalid.  The zone it is
\* refused for is a /23, which LandingZone accepts (and recommends to who asked
\* for less) but carve_subnets cannot split in four; no other zone is.
PlanIsValid ==
  /\ error # "invalid"
  /\ stage = "validate" => Valid
  /\ error = "zone" <=> zone # None /\ zone.prefix = 23

\* An instance leaves less room than the machine needs only when the remote
\* model itself named it or the catalogue has nothing that is large enough: what
\* was seen to be used loads the others to TARGET_UTILIZATION at most, and where
\* nothing was seen they have a fifth more than was allocated.  A resource that
\* was not observed beside one that was counts as fully used.
SizedToDemand ==
  \A m \in DOMAIN compute :
    LET c == compute[m]
        roomy(have, n, util) ==
          IF HasUtilization(c.source) THEN have * TargetUtilization >= n * Observed(util)
                                      ELSE have * 10 >= 12 * n
    IN  \/ c.chosen_by = "model"
        \/ \A i \in Catalog : ~Fits(i, EffectiveDemand(c.source))
        \/ /\ roomy(c.instance.vcpu, c.source.cpu, c.source.cpu_util)
           /\ roomy(c.instance.memory, c.source.memory, c.source.mem_util)

\* os_family_changed is true of exactly the machines that boot another family
\* than they ran, as far as the target chose the image.
FlagTellsFamily ==
  \A m \in DOMAIN compute :
    LET c == compute[m]
    IN  (c.source.os # NoOs /\ (provider = "rule" \/ c.image_key = ImageKey[c.source.os])) =>
          (c.os_family_changed <=> Boots[c.image_key] # OsFamily[c.source.os])

\* Only machines in a public subnet are open to the world; the others admit the
\* range of the VPC they are in, and no other.
OnlyPublicIsOpen ==
  network # None =>
    \A m \in Machines : \A r \in network.security_groups[compute[m].security_group] :
      r.from = (IF compute[m].subnet_tier = "public" THEN "any" ELSE network.vpc.range)

\* The balancer's template asks for a public address: where the plan says
\* internet_facing, and always where the platform has no internal balancers.
InternetFacing(lb) == lb.subnet_tier = "public" \/ ~InternalBalancers

\* Where no_public_subnets is denied, no port of a security group that is
\* rendered is open to the world, although the policy does not read the groups;
\* and on a platform that has internal balancers no balancer is internet-facing,
\* although it reads none of them either.
NothingPublicIfDenied ==
  (stage \in {"package", "done"} /\ "no_public_subnets" \in DOMAIN config
      /\ config["no_public_subnets"] = "deny") =>
    /\ InternalBalancers => \A lb \in network.load_balancers : ~InternetFacing(lb)
    /\ \A sg \in DOMAIN network.security_groups :
         \A r \in network.security_groups[sg] : r.from # "any"

WaveOf(m) == CHOOSE w \in waves : m \in w.workloads
Runs(v, w) == v.key[1] < w.key[1] \/ (v.key[1] = w.key[1] /\ v.key[2] < w.key[2])

\* Every machine is in one wave.  In an environment, data runs before the
\* applications and these before the web tier, each wave waiting for all the
\* lower ones.  Production comes after the lower environments in the sequence,
\* and only there: a wave waits for earlier waves of its own rank and for no
\* others, so that ranks may be run in parallel.
WavesInOrder ==
  stage = "done" =>
    /\ \A m \in Machines : \E w \in waves : \A v \in waves : m \in v.workloads <=> v = w
    /\ \A m, k \in Machines :
         /\ (compute[m].environment = compute[k].environment
               /\ (\/ compute[m].tier \in {"database", "cache"} /\ compute[k].tier \in {"app", "web"}
                   \/ compute[m].tier = "app" /\ compute[k].tier = "web")) =>
              Runs(WaveOf(m), WaveOf(k)) /\ WaveOf(m).key \in WaveOf(k).depends_on
         /\ (compute[m].environment \in {"development", "test", "staging"}
               /\ compute[k].environment = "production") => Runs(WaveOf(m), WaveOf(k))
         /\ WaveOf(m).key \in WaveOf(k).depends_on =>
              Runs(WaveOf(m), WaveOf(k)) /\ WaveOf(m).key[1] = WaveOf(k).key[1]

\* A wave with no downtime moves whole balanced groups: each of its machines has
\* another one of its tier and environment beside it in the wave.
ZeroDowntimeIsBalanced ==
  \A w \in waves : w.downtime = 0 =>
    \A m \in w.workloads : \E k \in w.workloads \ {m} :
      compute[k].tier = compute[m].tier /\ compute[k].environment = compute[m].environment
=============================================================================
