------------------------------- MODULE Render -------------------------------
(* From a validated plan to the files of a project: the infrastructure graph  *)
(* (graph.py), the renderers, and build_files for Terraform.  A renderer is   *)
(* the sequence of the resources it writes, each with the identifiers it      *)
(* declares and the ones it refers to; text and attributes are left out.      *)
(* Writing one resource is one step.                                          *)
EXTENDS SequencesExt, Naturals

CONSTANTS
    Plans,          \* plan.compute: sequences of [vm, tier, env, image, disks, external]
    SubnetTierOf,   \* the target's subnet_tier_for_tier: "public" or "private"
    Subnets,        \* network.subnets: sequence of [name, tier]
    Ports,          \* the ingress ports of each tier's security group, in order
    WindowsImages,  \* image keys that start with windows
    SsmImages,      \* image keys that CloudFormation resolves itself
    LabelOf,        \* resource_name of each machine: a sequence of words
    SafeOf,         \* terraform_safe_name of a machine's name
    CidOf,          \* _cid of a machine's name
    CamelOf,        \* _id of a label
    Identities,     \* instance-identity modes: "none", "basic", "ssm"
    SplitAbove,     \* IACTRANSLATE_SPLIT_COMPUTE_ABOVE
    Nowhere,        \* where Kubernetes places a machine
    None

Targets == {"aws", "azure", "gcp"}

(* The labels are unique (module Naming), and no machine is called like a     *)
(* balancer, whose public address and service would have its name.  The       *)
(* network agent makes subnets of both tiers, and no two of one name.         *)
ASSUME RenderAssumption ==
    /\ SplitAbove \in Nat
    /\ \A e \in Plans : e \in Seq(Range(e)) /\ \A i, j \in DOMAIN e : i # j => e[i].vm # e[j].vm
    /\ \A e \in Plans : \A i \in DOMAIN e :
          /\ e[i].vm \in DOMAIN LabelOf
          /\ e[i].tier \in DOMAIN SubnetTierOf
          /\ e[i].disks \in Nat
    /\ \A v, w \in DOMAIN LabelOf : v # w => LabelOf[v] # LabelOf[w]
    /\ \A v \in DOMAIN LabelOf : Last(LabelOf[v]) # "lb"
    /\ \A t \in DOMAIN SubnetTierOf :
          /\ SubnetTierOf[t] \in {"public", "private"}
          /\ Ports[t] \in Seq(Nat) /\ \A i, j \in DOMAIN Ports[t] : i # j => Ports[t][i] # Ports[t][j]
    /\ Subnets \in Seq(Range(Subnets))
    /\ \A i, j \in DOMAIN Subnets : i # j => Subnets[i].name # Subnets[j].name
    /\ \A i \in DOMAIN Subnets : Subnets[i].name \notin {None, Nowhere}
    /\ \A tier \in {"public", "private"} : \E i \in DOMAIN Subnets : Subnets[i].tier = tier
    /\ Nowhere # None /\ None \notin {"terraform", "pulumi", "cloudformation", "bicep", "cdk", "kubernetes"}

VARIABLES
    target, compute,    \* the plan
    identity,           \* IdentityMode of the run
    graph,              \* InfrastructureGraph
    renderer,           \* the one that runs, or None
    turn,               \* position in the registry
    unwritten,          \* the resources it has still to write
    declared,           \* identifiers declared so far
    twice,              \* identifiers declared more than once
    refs,               \* identifiers referred to so far
    machines,           \* [id, vm, subnet] of the machines written so far
    attached,           \* <<vm, i>>: data disk i of the machine is written
    shown,              \* machines with a public address or service of their own
    placed,             \* where the renderers that are done have put each machine
    refused             \* renderers that do not support the target

renderVars == <<target, compute, identity, graph, renderer, turn, unwritten, declared, twice, refs,
                machines, attached, shown, placed, refused>>

Each(s, F(_)) == FlattenSeq([i \in DOMAIN s |-> F(s[i])])
When(b, s) == IF b THEN s ELSE <<>>
Only(s, P(_)) == Each(s, LAMBDA x : When(P(x), <<x>>))

subnet_tier(m) == SubnetTierOf[m.tier]
Public(m) == subnet_tier(m) = "public"

-----------------------------------------------------------------------------
(* The network of the plan.                                                   *)

SecurityGroups == SetToSeq({m.tier : m \in Range(compute)})
Members(t, e) == Only(compute, LAMBDA m : m.tier = t /\ m.env = e)

(* One balancer for each group of two machines or more whose ports are known. *)
LoadBalancers ==
    LET keys == {<<m.tier, m.env>> : m \in Range(compute)}
        fronted == {k \in keys : Len(Members(k[1], k[2])) > 1 /\ Ports[k[1]] # <<>>}
    IN  Each(SetToSeq(fronted), LAMBDA k :
             <<[name |-> <<k[2], k[1], "lb">>, group |-> k[1], tier |-> SubnetTierOf[k[1]],
                ports |-> Ports[k[1]],
                targets |-> [i \in DOMAIN Members(k[1], k[2]) |-> Members(k[1], k[2])[i].vm]]>>)

Fronted == UNION {Range(LoadBalancers[i].targets) : i \in DOMAIN LoadBalancers}
BalancerOf(vm) == CHOOSE i \in DOMAIN LoadBalancers : vm \in Range(LoadBalancers[i].targets)
NeedsNat == \E m \in Range(compute) : ~Public(m)
Machine(vm) == compute[CHOOSE i \in DOMAIN compute : compute[i].vm = vm]
SubnetsOf(tier) == Only(Subnets, LAMBDA s : s.tier = tier)

-----------------------------------------------------------------------------
(* The graph.                                                                 *)

(* Faulty variant: the machines of both tiers share a counter. *)
OneCounter(i) ==
    LET pool == SubnetsOf(subnet_tier(compute[i])) IN pool[((i - 1) % Len(pool)) + 1].name

(* assign_subnets: round robin over the subnets of the tier, or over all.     *)
assign_subnets(i) ==
    LET tier == subnet_tier(compute[i])
        pool == IF SubnetsOf(tier) # <<>> THEN SubnetsOf(tier) ELSE Subnets
        counter == Cardinality({j \in 1..(i - 1) : subnet_tier(compute[j]) = tier})
    IN  pool[(counter % Len(pool)) + 1].name

subnet_of(vm) == assign_subnets(CHOOSE i \in DOMAIN compute : compute[i].vm = vm)

Edge(s, t, k) == [source |-> s, target |-> t, kind |-> k]
InstanceId(m) == <<"instance", LabelOf[m.vm]>>
LbId(lb) == <<"lb", lb.name>>

(* Faulty variant: the graph places machines by a count of its own. *)
OwnPlacement(m) ==
    <<Edge(InstanceId(m), <<"subnet", OneCounter(CHOOSE i \in DOMAIN compute : compute[i] = m)>>,
           "placed_in"),
      Edge(InstanceId(m), <<"sg", m.tier>>, "secured_by")>>

InstanceEdges(m) == <<Edge(InstanceId(m), <<"subnet", subnet_of(m.vm)>>, "placed_in"),
                      Edge(InstanceId(m), <<"sg", m.tier>>, "secured_by")>>
BalancerEdges(lb) ==
    Each(SubnetsOf(lb.tier), LAMBDA s : <<Edge(LbId(lb), <<"subnet", s.name>>, "placed_in")>>)
    \o <<Edge(LbId(lb), <<"sg", lb.group>>, "secured_by")>>
    \o Each(lb.targets, LAMBDA vm : <<Edge(LbId(lb), InstanceId(Machine(vm)), "fronts")>>)

build_graph ==
    [nodes |-> [i \in DOMAIN compute |-> [id |-> InstanceId(compute[i]), m |-> compute[i]]],
     edges |-> Each(compute, InstanceEdges) \o Each(LoadBalancers, BalancerEdges)]

out_edges(id, kind) == Only(graph.edges, LAMBDA e : e.source = id /\ e.kind = kind)
node(id) == graph.nodes[CHOOSE i \in DOMAIN graph.nodes : graph.nodes[i].id = id]

(* What the renderers that read the graph take from it.                       *)
placed_in(id) == LET es == out_edges(id, "placed_in") IN [i \in DOMAIN es |-> es[i].target[2]]
secured_by(id) == LET es == out_edges(id, "secured_by") IN [i \in DOMAIN es |-> es[i].target[2]]
fronts(id) == LET es == out_edges(id, "fronts") IN [i \in DOMAIN es |-> node(es[i].target).m.vm]

-----------------------------------------------------------------------------
(* Resources.                                                                 *)

R(id, to) == [id |-> id, refs |-> to, vm |-> None, subnet |-> None, disks |-> {}, public |-> FALSE]
VM(id, to, m, subnet, disks, public) ==
    [id |-> id, refs |-> to, vm |-> m.vm, subnet |-> subnet, disks |-> disks, public |-> public]
Ids(kind, names) == {<<kind, n>> : n \in names}
NamesOf(s) == {x.name : x \in Range(s)}
Listeners(lb, F(_)) == Each(lb.ports, F)

-----------------------------------------------------------------------------
(* Pulumi: a Python program, in which a name must be bound before it is used. *)

PulumiAwsNetwork ==
    <<R(<<"vpc">>, {}), R(<<"igw">>, {<<"vpc">>})>>
    \o Each(Subnets, LAMBDA s : <<R(<<"subnet", s.name>>, {<<"vpc">>})>>)
    \o Each(SecurityGroups, LAMBDA g : <<R(<<"sg", g>>, {<<"vpc">>})>>)

PulumiAwsInstances ==
    Each(SetToSeq({m.image : m \in Range(compute)}), LAMBDA k : <<R(<<"ami", k>>, {})>>)
    \o Each(compute, LAMBDA m :
            <<VM(<<"inst", LabelOf[m.vm]>>,
                  {<<"ami", m.image>>, <<"subnet", subnet_of(m.vm)>>, <<"sg", m.tier>>},
                  m, subnet_of(m.vm), {}, Public(m))>>)

PulumiAwsBalancers ==
    Each(LoadBalancers, LAMBDA lb :
        <<R(<<"lb", lb.name>>, {<<"sg", lb.group>>} \cup Ids("subnet", NamesOf(SubnetsOf(lb.tier))))>>
        \o Listeners(lb, LAMBDA p :
            <<R(<<"tg", lb.name, p>>, {<<"vpc">>})>>
            \o Each(lb.targets, LAMBDA vm : <<R(<<"attachment", lb.name, p, LabelOf[vm]>>,
                                               {<<"tg", lb.name, p>>, <<"inst", LabelOf[vm]>>})>>)
            \o <<R(<<"listener", lb.name, p>>, {<<"lb", lb.name>>, <<"tg", lb.name, p>>})>>))

PulumiAws == PulumiAwsNetwork \o PulumiAwsInstances \o PulumiAwsBalancers

PulumiAzureNetwork ==
    <<R(<<"rg">>, {}), R(<<"vnet">>, {<<"rg">>})>>
    \o Each(Subnets, LAMBDA s : <<R(<<"subnet", s.name>>, {<<"rg">>, <<"vnet">>})>>)
    \o Each(SecurityGroups, LAMBDA g : <<R(<<"nsg", g>>, {<<"rg">>})>>)

PulumiAzureBalancers ==
    Each(LoadBalancers, LAMBDA lb :
        When(lb.tier = "public", <<R(<<"pip", lb.name>>, {<<"rg">>})>>)
        \o <<R(<<"lb", lb.name>>, {<<"rg">>} \cup
                IF lb.tier = "public" THEN {<<"pip", lb.name>>}
                ELSE {<<"subnet", SubnetsOf(lb.tier)[1].name>>}),
             R(<<"pool", lb.name>>, {<<"rg">>, <<"lb", lb.name>>})>>
        \o Listeners(lb, LAMBDA p :
            <<R(<<"probe", lb.name, p>>, {<<"rg">>, <<"lb", lb.name>>}),
              R(<<"rule", lb.name, p>>, {<<"rg">>, <<"lb", lb.name>>, <<"pool", lb.name>>,
                                         <<"probe", lb.name, p>>})>>))

(* Faulty variant: a machine behind a balancer keeps its public address. *)
PublicAnyway(m) == Public(m)

(* A machine that a balancer fronts has no public address of its own.         *)
OwnAddress(m) == Public(m) /\ m.vm \notin Fronted

AzureMachine(m, roles) ==
    LET l == LabelOf[m.vm] IN
        When(OwnAddress(m), <<R(<<"pip", l>>, {<<"rg">>})>>)
        \o <<R(<<"nic", l>>, {<<"rg">>, <<"subnet", subnet_of(m.vm)>>}
                             \cup IF OwnAddress(m) THEN {<<"pip", l>>} ELSE {}),
             R(<<"nsgassoc", l>>, {<<"nic", l>>, <<"nsg", m.tier>>})>>
        \o When(m.vm \in Fronted,
                <<R(<<"poolassoc", l>>, {<<"nic", l>>,
                                         <<"pool", LoadBalancers[BalancerOf(m.vm)].name>>})>>)
        \o <<VM(<<"inst", l>>, {<<"rg">>, <<"nic", l>>} \cup roles, m, subnet_of(m.vm), {}, OwnAddress(m))>>

PulumiAzureInstances == Each(compute, LAMBDA m : AzureMachine(m, {}))

PulumiAzure == PulumiAzureNetwork \o PulumiAzureBalancers \o PulumiAzureInstances

PulumiGcpNetwork ==
    <<R(<<"network">>, {})>>
    \o Each(Subnets, LAMBDA s : <<R(<<"subnet", s.name>>, {<<"network">>})>>)
    \o Each(SecurityGroups, LAMBDA g : <<R(<<"fw", g>>, {<<"network">>})>>)

GcpMachine(m, roles) ==
    <<VM(<<"inst", LabelOf[m.vm]>>, {<<"subnet", subnet_of(m.vm)>>} \cup roles, m, subnet_of(m.vm), {},
         OwnAddress(m))>>

PulumiGcpInstances == Each(compute, LAMBDA m : GcpMachine(m, {}))

(* Balancers to the internet are target pools, internal ones backend services. *)
PulumiGcpBalancers ==
    Each(LoadBalancers, LAMBDA lb :
        LET n == lb.name
            members == {<<"inst", LabelOf[vm]>> : vm \in Range(lb.targets)}
        IN  IF lb.tier = "public"
            THEN <<R(<<"hc", n>>, {}), R(<<"pool", n>>, members \cup {<<"hc", n>>})>>
                 \o Listeners(lb, LAMBDA p : <<R(<<"forward", n, p>>, {<<"pool", n>>})>>)
            ELSE <<R(<<"ig", n>>, members), R(<<"hc", n>>, {}),
                   R(<<"bes", n>>, {<<"hc", n>>, <<"ig", n>>})>>
                 \o Listeners(lb, LAMBDA p :
                      <<R(<<"forward", n, p>>, {<<"network">>, <<"bes", n>>,
                                                <<"subnet", SubnetsOf(lb.tier)[1].name>>})>>))

PulumiGcp == PulumiGcpNetwork \o PulumiGcpInstances \o PulumiGcpBalancers

(* Faulty variant: the balancers are written before the machines they name. *)
BalancersFirst ==
    CASE target = "aws" -> PulumiAwsNetwork \o PulumiAwsBalancers \o PulumiAwsInstances
      [] target = "azure" -> PulumiAzure
      [] target = "gcp" -> PulumiGcp

Pulumi == CASE target = "aws" -> PulumiAws
            [] target = "azure" -> PulumiAzure
            [] target = "gcp" -> PulumiGcp

-----------------------------------------------------------------------------
(* Bicep, from the graph.                                                     *)

BicepNetwork ==
    <<R(<<"vnet">>, {})>>
    \o Each(Subnets, LAMBDA s : <<R(<<"subnet", s.name>>, {<<"vnet">>})>>)
    \o Each(SecurityGroups, LAMBDA g : <<R(<<"nsg", g>>, {})>>)

BicepBalancers ==
    Each(LoadBalancers, LAMBDA lb :
        IF lb.tier = "public"
        THEN <<R(<<"pip", lb.name>>, {}), R(LbId(lb), {<<"pip", lb.name>>})>>
        ELSE <<R(LbId(lb), {IF placed_in(LbId(lb)) = <<>> THEN <<"vnet">>
                            ELSE <<"subnet", placed_in(LbId(lb))[1]>>})>>)

(* backend_pool_ref_by_vm_name: the balancers with an edge to the machine.    *)
Pools(vm) == {<<"lb", lb.name>> : lb \in {b \in Range(LoadBalancers) : vm \in Range(fronts(LbId(b)))}}

BicepInstances ==
    Each(compute, LAMBDA m :
        LET l == CamelOf[LabelOf[m.vm]]
            id == InstanceId(m)
            own == Public(m) /\ Pools(m.vm) = {}
        IN  When(own, <<R(<<"pip", l>>, {})>>)
            \o <<R(<<"nic", l>>, {<<"subnet", placed_in(id)[1]>>, <<"nsg", secured_by(id)[1]>>}
                                 \cup Pools(m.vm) \cup IF own THEN {<<"pip", l>>} ELSE {}),
                 VM(<<"vm", l>>, {<<"nic", l>>}, m, placed_in(id)[1], {}, own)>>)

Bicep == BicepNetwork \o BicepBalancers \o BicepInstances

-----------------------------------------------------------------------------
(* CloudFormation and the CDK, from the graph.                                *)

CloudFormationNetwork ==
    <<R(<<"vpc">>, {}), R(<<"igw">>, {}), R(<<"attach">>, {<<"vpc">>, <<"igw">>})>>
    \o Each(Subnets, LAMBDA s : <<R(<<"subnet", s.name>>, {<<"vpc">>})>>)

Associations(tier) ==
    Each(SubnetsOf(tier), LAMBDA s :
         <<R(<<"assoc", s.name>>, {<<"subnet", s.name>>, <<"table", tier>>})>>)

CloudFormationRoutes ==
    When(SubnetsOf("public") # <<>>,
         <<R(<<"table", "public">>, {<<"vpc">>}),
           R(<<"route", "public">>, {<<"table", "public">>, <<"igw">>, <<"attach">>})>>
         \o Associations("public"))
    \o When(NeedsNat /\ SubnetsOf("public") # <<>> /\ SubnetsOf("private") # <<>>,
         <<R(<<"eip">>, {}),
           R(<<"nat">>, {<<"eip">>, <<"subnet", SubnetsOf("public")[1].name>>}),
           R(<<"table", "private">>, {<<"vpc">>}),
           R(<<"route", "private">>, {<<"table", "private">>, <<"nat">>})>>
         \o Associations("private"))

(* Images without a public alias are parameters of the stack.                 *)
CloudFormationGroups ==
    Each(SecurityGroups, LAMBDA g : <<R(<<"sg", g>>, {<<"vpc">>})>>)
    \o Each(SetToSeq({m.image : m \in Range(compute)} \ SsmImages),
            LAMBDA k : <<R(<<"param", k>>, {})>>)

AmiRef(m) == IF m.image \in SsmImages THEN {} ELSE {<<"param", m.image>>}
GraphRefs(m) == AmiRef(m) \cup Ids("subnet", Range(placed_in(InstanceId(m))))
                          \cup Ids("sg", Range(secured_by(InstanceId(m))))

CloudFormationInstances ==
    Each(graph.nodes, LAMBDA n :
        <<VM(<<"inst", CidOf[n.m.vm]>>, GraphRefs(n.m), n.m, placed_in(n.id)[1], 1..n.m.disks,
             Public(n.m))>>)

CloudFormationBalancers ==
    Each(LoadBalancers, LAMBDA lb :
        LET n == lb.name IN
        <<R(LbId(lb), Ids("subnet", Range(placed_in(LbId(lb))))
                      \cup Ids("sg", Range(secured_by(LbId(lb)))))>>
        \o Listeners(lb, LAMBDA p :
            <<R(<<"tg", n, p>>, {<<"vpc">>} \cup {<<"inst", CidOf[vm]>> : vm \in Range(fronts(LbId(lb)))}),
              R(<<"listener", n, p>>, {LbId(lb), <<"tg", n, p>>})>>))

CloudFormationOutputs ==
    Each(LoadBalancers, LAMBDA lb : <<R(<<"dns", lb.name>>, {LbId(lb)})>>)
    \o <<R(<<"vpcid">>, {<<"vpc">>})>>
    \o Each(graph.nodes, LAMBDA n : <<R(<<"out", CidOf[n.m.vm]>>, {<<"inst", CidOf[n.m.vm]>>})>>)

CloudFormation == CloudFormationNetwork \o CloudFormationRoutes \o CloudFormationGroups
                  \o CloudFormationInstances \o CloudFormationBalancers \o CloudFormationOutputs

(* The CDK writes a Python program with the same resources; a machine is a    *)
(* variable called after its name.                                            *)
CdkNetwork == CloudFormationNetwork \o CloudFormationRoutes \o CloudFormationGroups

CdkInstances ==
    Each(compute, LAMBDA m :
        <<VM(<<"inst", SafeOf[m.vm]>>, GraphRefs(m), m, placed_in(InstanceId(m))[1], 1..m.disks,
             Public(m))>>)

CdkBalancers ==
    Each(LoadBalancers, LAMBDA lb :
        LET n == lb.name IN
        <<R(LbId(lb), Ids("subnet", Range(placed_in(LbId(lb))))
                      \cup Ids("sg", Range(secured_by(LbId(lb)))))>>
        \o Listeners(lb, LAMBDA p :
            <<R(<<"tg", n, p>>, {<<"vpc">>} \cup {<<"inst", SafeOf[vm]>> : vm \in Range(fronts(LbId(lb)))}),
              R(<<"listener", n, p>>, {LbId(lb), <<"tg", n, p>>})>>))

Cdk == CdkNetwork \o CdkInstances \o CdkBalancers

-----------------------------------------------------------------------------
(* Kubernetes, from the graph.                                                *)

KubernetesPolicies ==
    <<R(<<"namespace">>, {})>>
    \o Each(SecurityGroups, LAMBDA g : <<R(<<"policy", g>>, {<<"namespace">>})>>)

KubernetesMachines ==
    Each(compute, LAMBDA m :
        LET id == InstanceId(m) IN
        <<VM(<<"vm", LabelOf[m.vm]>>, {<<"namespace">>} \cup Ids("policy", Range(secured_by(id))),
             m, Nowhere, 1..m.disks, FALSE)>>)

(* A service per balancer, and one per machine that no balancer fronts and    *)
(* whose group has ports.                                                     *)
KubernetesServices ==
    Each(LoadBalancers, LAMBDA lb :
        <<R(<<"service", lb.name>>, {<<"vm", LabelOf[vm]>> : vm \in Range(fronts(LbId(lb)))})>>)
    \o Each(Only(compute, LAMBDA m : m.vm \notin Fronted /\ Ports[m.tier] # <<>>), LAMBDA m :
        <<VM(<<"service", LabelOf[m.vm]>>, {<<"vm", LabelOf[m.vm]>>}, m, None, {}, Public(m))>>)

Kubernetes == KubernetesPolicies \o KubernetesMachines \o KubernetesServices
-----------------------------------------------------------------------------
(* Terraform, by the templates of the target; order does not matter to it.    *)

Images == SetToSeq({m.image : m \in Range(compute)})

TerraformAwsNetwork ==
    <<R(<<"vpc">>, {}), R(<<"igw">>, {<<"vpc">>})>>
    \o Each(Subnets, LAMBDA s : <<R(<<"subnet", s.name>>, {<<"vpc">>})>>)
    \o <<R(<<"table", "public">>, {<<"vpc">>, <<"igw">>})>> \o Associations("public")
    \o When(NeedsNat,
            <<R(<<"eip">>, {}),
              R(<<"nat">>, {<<"eip">>, <<"igw">>, <<"subnet", SubnetsOf("public")[1].name>>}),
              R(<<"table", "private">>, {<<"vpc">>, <<"nat">>})>> \o Associations("private"))
    \o Each(SecurityGroups, LAMBDA g : <<R(<<"sg", g>>, {<<"vpc">>})>>)
    \o Each(Images, LAMBDA k : <<R(<<"ami", k>>, {})>>)

TerraformGcpNetwork ==
    PulumiGcpNetwork
    \o When(NeedsNat, <<R(<<"router">>, {<<"network">>}), R(<<"nat">>, {<<"router">>})>>)

(* roles_for: an identity per tier, without permissions.                      *)
roles_for == IF identity = "none" THEN {} ELSE {m.tier : m \in Range(compute)}

TerraformIdentity ==
    Each(SetToSeq(roles_for), LAMBDA t :
        IF target = "aws"
        THEN <<R(<<"role", t>>, {}), R(<<"profile", t>>, {<<"role", t>>})>>
             \o When(identity = "ssm", <<R(<<"ssm", t>>, {<<"role", t>>})>>)
        ELSE <<R(<<"profile", t>>, IF target = "azure" THEN {<<"rg">>} ELSE {})>>)

Profile(m) == IF roles_for = {} THEN {} ELSE {<<"profile", m.tier>>}

(* Faulty variant: a file per environment, of which the last tier's remains. *)
SplitByEnvironment ==
    IF SplitAbove = 0 \/ Len(compute) <= SplitAbove THEN compute
    ELSE Each(SetToSeq({m.env : m \in Range(compute)}), LAMBDA e :
              LET last == CHOOSE m \in Range(compute) : m.env = e IN Members(last.tier, e))

(* _compute_split: above a threshold, a file per environment and tier.        *)
ComputeFiles ==
    IF SplitAbove = 0 \/ Len(compute) <= SplitAbove THEN compute
    ELSE Each(SetToSeq({<<m.tier, m.env>> : m \in Range(compute)}), LAMBDA k : Members(k[1], k[2]))

(* On Azure only Windows machines are given the identity of their tier.       *)
TerraformMachine(m) ==
    CASE target = "aws" ->
            <<VM(<<"inst", LabelOf[m.vm]>>,
                 {<<"ami", m.image>>, <<"subnet", subnet_of(m.vm)>>, <<"sg", m.tier>>} \cup Profile(m), m, subnet_of(m.vm), {}, Public(m))>>
      [] target = "azure" -> AzureMachine(m, IF m.image \in WindowsImages THEN Profile(m) ELSE {})
      [] target = "gcp" -> GcpMachine(m, Profile(m))

TerraformVolumes ==
    Each(compute, LAMBDA m : Each([i \in 1..m.disks |-> i], LAMBDA i :
        <<VM(<<"volume", LabelOf[m.vm], i>>, {<<"inst", LabelOf[m.vm]>>}, m, None, {i}, FALSE)>>))

(* Machines that exist already are imported, on AWS.                          *)
TerraformImports ==
    Each(Only(compute, LAMBDA m : m.external), LAMBDA m :
         <<R(<<"import", LabelOf[m.vm]>>, {<<"inst", LabelOf[m.vm]>>})>>)

TerraformOutputs == Each(compute, LAMBDA m : <<R(<<"output", m.vm>>, {<<"inst", LabelOf[m.vm]>>})>>)

Terraform ==
    (CASE target = "aws" -> TerraformAwsNetwork \o PulumiAwsBalancers \o TerraformImports
       [] target = "azure" -> PulumiAzureNetwork \o PulumiAzureBalancers
       [] target = "gcp" -> TerraformGcpNetwork \o PulumiGcpBalancers)
    \o TerraformIdentity \o Each(ComputeFiles, TerraformMachine) \o TerraformVolumes \o TerraformOutputs

-----------------------------------------------------------------------------
(* The registry.                                                              *)

Renderers == <<"terraform", "pulumi", "cloudformation", "bicep", "cdk", "kubernetes">>

supports(name) ==
    CASE name \in {"terraform", "kubernetes"} -> TRUE
      [] name = "pulumi" -> target \in {"aws", "azure", "gcp"}
      [] name \in {"cloudformation", "cdk"} -> target = "aws"
      [] name = "bicep" -> target = "azure"

Resources(name) ==
    CASE name = "terraform" -> Terraform
      [] name = "pulumi" -> Pulumi
      [] name = "cloudformation" -> CloudFormation
      [] name = "bicep" -> Bicep
      [] name = "cdk" -> Cdk
      [] name = "kubernetes" -> Kubernetes

RenderInit ==
    /\ target \in Targets /\ compute \in Plans /\ identity \in Identities
    /\ graph = [nodes |-> <<>>, edges |-> <<>>]
    /\ renderer = None /\ turn = 1 /\ unwritten = <<>>
    /\ declared = {} /\ twice = {} /\ refs = {} /\ machines = {} /\ attached = {}
    /\ shown = {} /\ placed = {} /\ refused = {}

BuildGraph ==
    /\ turn = 1 /\ renderer = None /\ graph.nodes = <<>>
    /\ graph' = build_graph
    /\ UNCHANGED <<target, compute, identity, renderer, turn, unwritten, declared, twice, refs, machines,
                   attached, shown, placed, refused>>

(* render: the next renderer starts, or says that it cannot do the target.    *)
Begin ==
    /\ graph.nodes # <<>> /\ renderer = None /\ turn <= Len(Renderers)
    /\ IF supports(Renderers[turn])
       THEN /\ renderer' = Renderers[turn]
            /\ unwritten' = Resources(Renderers[turn])
            /\ UNCHANGED <<turn, refused>>
       ELSE /\ refused' = refused \cup {Renderers[turn]}
            /\ turn' = turn + 1
            /\ UNCHANGED <<renderer, unwritten>>
    /\ declared' = {} /\ twice' = {} /\ refs' = {} /\ machines' = {} /\ attached' = {}
    /\ shown' = {}
    /\ UNCHANGED <<target, compute, identity, graph, placed>>

(* A CloudFormation template is a dictionary: a second resource replaces the  *)
(* first one of its name.                                                     *)
Replaced(r) == IF renderer = "cloudformation" THEN {x \in machines : x.id = r.id} ELSE {}

Emit ==
    /\ renderer # None /\ unwritten # <<>>
    /\ LET r == Head(unwritten) IN
       /\ declared' = declared \cup {r.id}
       /\ twice' = IF r.id \in declared THEN twice \cup {r.id} ELSE twice
       /\ refs' = refs \cup r.refs
       /\ machines' = IF r.subnet = None THEN machines
                      ELSE (machines \ Replaced(r)) \cup {[id |-> r.id, vm |-> r.vm, subnet |-> r.subnet]}
       /\ attached' = {a \in attached : a[1] \notin {x.vm : x \in Replaced(r)}}
                      \cup {<<r.vm, i>> : i \in r.disks}
       /\ shown' = IF r.public THEN shown \cup {r.vm} ELSE shown
    /\ unwritten' = Tail(unwritten)
    /\ UNCHANGED <<target, compute, identity, graph, renderer, turn, placed, refused>>

Finish ==
    /\ renderer # None /\ unwritten = <<>>
    /\ renderer' = None /\ turn' = turn + 1
    /\ placed' = placed \cup {<<x.vm, x.subnet>> : x \in {x \in machines : x.subnet # Nowhere}}
    /\ UNCHANGED <<target, compute, identity, graph, unwritten, declared, twice, refs, machines, attached,
                   shown, refused>>

RenderNext == BuildGraph \/ Begin \/ Emit \/ Finish

RenderSpec == RenderInit /\ [][RenderNext]_renderVars

-----------------------------------------------------------------------------
Written == renderer # None /\ unwritten = <<>>
Vms == {m.vm : m \in Range(compute)}

(* Whatever a generated resource refers to is there, and in the programs (Pulumi, CDK) it    *)
(* has been bound before the line that uses it: instances name subnets, groups, images and   *)
(* identities, balancers name instances, and each list is written by a loop of its own.      *)
RefsResolve ==
    (renderer \in {"pulumi", "cdk"} \/ Written) => refs \subseteq declared

(* The renderers that call a machine by its label write every machine exactly once, also     *)
(* when names differ only in separators and also when compute.tf is split, and those that    *)
(* write data disks write all of them.                                                       *)
EstateIsWhole ==
    /\ renderer \in {"terraform", "pulumi", "kubernetes"} =>
           twice = {} /\ (Written => {x.vm : x \in machines} = Vms)
    /\ Written /\ renderer \in {"terraform", "cloudformation", "cdk", "kubernetes"} =>
           attached = UNION {{x.vm} \X (1..Machine(x.vm).disks) : x \in machines}

(* Some renderers ask assign_subnets, the others the edges of the graph: they "can't         *)
(* disagree with each other" (assign_subnets).  Each puts a machine into a subnet of its     *)
(* tier, and no subnet of a tier has two machines more than another.                         *)
PlacementsAgree ==
    LET In(s) == {x \in machines : x.subnet = s.name} IN
    /\ \A x \in machines, p \in placed : x.vm = p[1] /\ x.subnet # Nowhere => x.subnet = p[2]
    /\ Written /\ renderer # "kubernetes" => \A s \in Range(Subnets) :
          /\ \A x \in In(s) : subnet_tier(Machine(x.vm)) = s.tier
          /\ \A t \in Range(Subnets) : s.tier = t.tier /\ renderer # "cloudformation" =>
                Cardinality(In(s)) <= Cardinality(In(t)) + 1

(* Outside AWS, where public subnets hand out addresses, a machine behind a balancer has no  *)
(* way in of its own, and a public machine that no balancer fronts has one ("giving it one   *)
(* too would bypass the LB").                                                                *)
OneWayIn ==
    Written /\ (target # "aws" \/ renderer = "kubernetes") =>
        shown = {m.vm : m \in {m \in Range(compute) : Public(m) /\ m.vm \notin Fronted
                                   /\ (renderer = "kubernetes" => Ports[m.tier] # <<>>)}}
=============================================================================
