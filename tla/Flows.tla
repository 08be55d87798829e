-------------------------------- MODULE Flows --------------------------------
(* What a flow export says about an estate: dependencies.py and hybrid.py.  An address is a  *)
(* model value; the constants say which are private, the /24 each lies in and the networks   *)
(* that collide with the planned VPC.  Lists that the code sorts for the reader are sets.    *)
EXTENDS Integers, FiniteSets, FiniteSetsExt, TLC

CONSTANTS InfraPorts,      \* INFRASTRUCTURE_PORTS
          MinConnections,  \* MIN_CONNECTIONS
          Private,         \* the addresses ip_address(..).is_private answers True for
          NetOf,           \* [address -> the /24 it is summarised to]
          Colliding,       \* the networks that overlap the planned VPC
          Blank, Bad       \* an empty cell, a cell that is no number

Required == {"src_ip", "dst_ip", "dst_port"}

\* parse_flows: a row with a malformed port or an empty end is skipped, and a count that is
\* missing or malformed, or whose column is, is one connection.
IsFlow(row) == row.port # Bad /\ row.src # Blank /\ row.dst # Blank
Flow(row, header) ==
  [src |-> row.src, dst |-> row.dst, port |-> row.port,
   connections |-> IF "connections" \in header /\ row.count # Bad THEN row.count ELSE 1]

\* _index_by_ip: who has the address; the first in the inventory when several claim it.
Owners(vms, ip) == {i \in DOMAIN vms : ip \in vms[i].ips}
Known(vms, ip)  == Owners(vms, ip) # {}
ByIp(vms, ip)   == vms[Min(Owners(vms, ip))].name

EmptyReport == [pairs |-> {}, external |-> {}, mapped |-> 0, unmapped |-> 0, filtered |-> 0,
                together |-> {}, violations |-> {}, notes |-> {}]

\* One entry of a defaultdict: the new port and connections on top of what was there.
Entry(entries, a, b) ==
  LET old == {e \in entries : e.source = a /\ e.target = b}
  IN  IF old = {} THEN [source |-> a, target |-> b, ports |-> {}, connections |-> 0]
      ELSE CHOOSE e \in old : TRUE
Counted(entries, a, b, f) ==
  LET e == Entry(entries, a, b)
  IN  (entries \ {e}) \cup {[e EXCEPT !.ports = @ \cup {f.port},
                                      !.connections = @ + f.connections]}

\* Faulty variant: a call to an address outside the inventory is not attributed to anyone.
AccountForgets(rep, f, vms) ==
  IF f.port \in InfraPorts \/ f.connections < MinConnections
  THEN [rep EXCEPT !.filtered = @ + 1]
  ELSE IF ~Known(vms, f.src) \/ ~Known(vms, f.dst)
  THEN [rep EXCEPT !.unmapped = @ + 1]
  ELSE IF ByIp(vms, f.dst) = ByIp(vms, f.src)
  THEN [rep EXCEPT !.filtered = @ + 1]
  ELSE [rep EXCEPT !.pairs = Counted(@, ByIp(vms, f.src), ByIp(vms, f.dst), f), !.mapped = @ + 1]

\* The loop body of analyze_dependencies.
Account(rep, f, vms) ==
  IF f.port \in InfraPorts \/ f.connections < MinConnections
  THEN [rep EXCEPT !.filtered = @ + 1]
  ELSE IF ~Known(vms, f.src)
  THEN [rep EXCEPT !.unmapped = @ + 1]
  ELSE IF ~Known(vms, f.dst)
  THEN [rep EXCEPT !.external = Counted(@, ByIp(vms, f.src), f.dst, f), !.mapped = @ + 1]
  ELSE IF ByIp(vms, f.dst) = ByIp(vms, f.src)
  THEN [rep EXCEPT !.filtered = @ + 1]
  ELSE [rep EXCEPT !.pairs = Counted(@, ByIp(vms, f.src), ByIp(vms, f.dst), f), !.mapped = @ + 1]

Edges(pairs) == {<<d.source, d.target>> : d \in pairs}

\* _mutual_groups: the components of the graph of calls that go both ways.  The search from
\* a machine ends with a set that is closed under mutual calls and in which it reaches all.
Mutual(pairs) == {e \in Edges(pairs) : <<e[2], e[1]>> \in Edges(pairs)}
Closed(M, C)  == \A e \in M : (e[1] \in C) = (e[2] \in C)
Component(M, n) ==
  LET closed == {C \in SUBSET {e[1] : e \in M} : n \in C /\ Closed(M, C)}
  IN  CHOOSE C \in closed : \A D \in closed : C \subseteq D
MutualGroups(pairs) ==
  LET M == Mutual(pairs) IN {Component(M, n) : n \in {e[1] : e \in M}}

\* Faulty variant: the comparison is the wrong way round.
WaveViolationsSwapped(pairs, wave) ==
  {d \in pairs : {d.source, d.target} \subseteq DOMAIN wave /\ wave[d.source] > wave[d.target]}

\* _wave_violations: the dependent moves before what it calls; no waves, no violations.
WaveViolations(pairs, wave) ==
  {d \in pairs : {d.source, d.target} \subseteq DOMAIN wave /\ wave[d.source] < wave[d.target]}

\* coverage_pct, in tenths of a percent.
CoveragePct(rep) ==
  LET total == rep.mapped + rep.unmapped
  IN  IF total = 0 THEN 0 ELSE (2000 * rep.mapped + total) \div (2 * total)

\* _notes: the warnings a reader acts on.
Notes(rep, vms) ==
  IF \A i \in DOMAIN vms : vms[i].ips = {} THEN {"no addresses"}
  ELSE {n \in {"low coverage", "violations", "together", "public", "private"} :
          CASE n = "low coverage" -> CoveragePct(rep) < 600 /\ rep.mapped + rep.unmapped > 0
            [] n = "violations"   -> rep.violations # {}
            [] n = "together"     -> rep.together # {}
            [] n = "public"       -> \E e \in rep.external : e.target \notin Private
            [] n = "private"      -> \E e \in rep.external : e.target \in Private}

\* What analyze_dependencies returns once the rows are read.
Reported(rep, vms, wave) ==
  LET whole == [rep EXCEPT !.together = MutualGroups(rep.pairs),
                           !.violations = WaveViolations(rep.pairs, wave)]
  IN  [whole EXCEPT !.notes = Notes(whole, vms)]

\* plan_hybrid: one network per /24 that a private address outside the inventory lies in,
\* and one per declared range that is not already there, empty.
Observed24(external) == {NetOf[e.target] : e \in {x \in external : x.target \in Private}}
OnPrem(external, net) ==
  LET into == {e \in external : e.target \in Private /\ NetOf[e.target] = net}
  IN  [cidr |-> net, addresses |-> {e.target : e \in into},
       ports |-> UNION {e.ports : e \in into},
       connections |-> MapThenSumSet(LAMBDA e : e.connections, into),
       dependents |-> {e.source : e \in into},
       overlaps |-> net \in Colliding]

PlanHybrid(external, declared) ==
  {OnPrem(external, net) : net \in Observed24(external) \cup (declared \ {Bad})}

Routable(networks)  == {n \in networks : ~n.overlaps}
Conflicts(networks) == {n \in networks : n.overlaps}
AllPorts(networks)  == UNION {n.ports : n \in Routable(networks)}

\* _notes of hybrid.py: ranges to reallocate, and machines that need the corporate network.
HybridNotes(networks) ==
  [reallocate |-> {n.cidr : n \in Conflicts(networks)},
   connect    |-> UNION {n.dependents : n \in Routable(networks)}]
=============================================================================
