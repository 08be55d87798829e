----------------------------- MODULE MCAnalysis -----------------------------
(* Three machines that call each other, two private networks they leave behind, three priced *)
(* clouds of which one has no Windows image, and snapshots of two machines.                  *)
EXTENDS Analysis

CONSTANTS ipA, ipB, ipC, stranger, p1, p2, q1, pub, none

Machine(n, ips) == [name |-> n, ips |-> ips]
SmallInventories ==
  {<<Machine("a", {ipA}), Machine("b", {ipB}), Machine("c", {ipC})>>,
   <<Machine("a", {ipA}), Machine("b", {ipA, ipB}), Machine("c", {ipC})>>,
   <<Machine("a", {}), Machine("b", {}), Machine("c", {})>>}
SmallHeaders == {Required, Required \cup {"connections"}, {"src_ip", "dst_ip"}}

Row(copy, src, dst, port, count) ==
  [copy |-> copy, src |-> src, dst |-> dst, port |-> port, count |-> count]
SmallRows ==
  {Row(k, ipA, ipB, 80, 2) : k \in 1..2} \cup {Row(k, ipA, p1, 80, 2) : k \in 1..2}
  \cup {Row(1, e[1], e[2], 80, 2) : e \in {<<ipB, ipA>>, <<ipB, ipC>>, <<ipC, ipB>>, <<ipC, ipA>>,
                                           <<ipB, p2>>, <<ipA, q1>>, <<ipA, pub>>,
                                           <<stranger, ipA>>, <<ipA, ipA>>}}
  \cup {Row(1, ipA, ipB, 53, 2), Row(1, ipA, ipC, 80, 1), Row(1, ipA, ipC, 80, none),
        Row(1, ipA, ipC, none, 2), Row(1, ipA, none, 80, 2)}

WaveOrders == {f \in [{"a", "b", "c"} -> 1..3] : \E k \in 1..3 : {f[n] : n \in {"a", "b", "c"}} = 1..k}
SmallWaves == WaveOrders \cup {<<>>}

Net(ip) == CASE ip \in {p1, p2} -> "192.168.40.0/24" [] ip = q1 -> "10.0.0.0/24"
             [] OTHER -> "elsewhere"
Nets == [ip \in {ipA, ipB, ipC, stranger, p1, p2, q1, pub} |-> Net(ip)]
SmallDeclared == {{}, {"192.168.40.0/24", "172.16.0.0/12", none}}

Os == {"windows", "linux", none}
SmallEstates == {<<[os |-> o, cpu |-> 2, mem |-> 4], [os |-> r, cpu |-> 1, mem |-> 4]>> : o, r \in Os}
Family == [c \in {"aws", "azure", "digitalocean"} |->
             [o \in {"windows", "linux"} |-> IF c = "digitalocean" THEN "linux" ELSE o]]
Plan(c, compute, vcpu, live) ==
  [target |-> c, compute |-> compute, gib |-> 100, windows_vcpu |-> vcpu, lb_count |-> 1,
   vcpu |-> vcpu, memory |-> 2 * vcpu, live_requested |-> live, live |-> {"storage"}]
CloudPlans(c) == {Plan(c, m, v, FALSE) : m \in {0, 9000, 30000}, v \in {4, 8}} \cup {Plan(c, 9000, 4, TRUE)}
SmallPlans == {("aws" :> x @@ "azure" :> y @@ "digitalocean" :> z) :
                 x \in CloudPlans("aws"), y \in CloudPlans("azure"),
                 z \in {Plan("digitalocean", 3000, 4, FALSE), Plan("digitalocean", 30000, 8, FALSE)}}
Rates == [storage |-> [c \in {"aws", "azure", "digitalocean"} |-> IF c = "aws" THEN 8 ELSE 10],
          windows |-> [c \in {"aws", "azure", "digitalocean"} |-> IF c = "digitalocean" THEN 0 ELSE 3358],
          lb |-> [c \in {"aws", "azure", "digitalocean"} |-> IF c = "aws" THEN 1643 ELSE 1825]]
Live == [storage |-> 9, windows |-> 3000, lb |-> 1700]
SmallRequests == {<<"aws", "azure", "digitalocean", "ahv">>, <<"digitalocean", "ahv">>,
                  <<"azure", "digitalocean", "azure">>}
Weights(c, f, o) == [cost |-> c, fit |-> f, os |-> o]
SmallWeights == {Weights(4500, 3000, 2500), Weights(1, 2, 2), Weights(1, 0, 0), Weights(0, 0, 0)}

Workload == [cpu_util : BOOLEAN, mem_util : {FALSE}, tier : {"web", "other"}, env : {"prod", "unknown"},
             os : {"windows", "unrecognized", none}, price : {"live", "static"}]
SmallWorkloads == {<<x>> : x \in Workload} \cup {<<x, y>> : x, y \in Workload}

Vm(n, u, s) == [name |-> n, uuid |-> u, spec |-> s]
Vms == {Vm(n, u, s) : n \in {"web", "WEB", "db"}, u \in {"u1", "u2", none}, s \in {"small", "large"}}
SmallSnapshots == {<<x>> : x \in Vms} \cup
  {s \in Vms \X Vms : s[1].name # s[2].name /\ (s[1].uuid = none \/ s[1].uuid # s[2].uuid)}
Lower == [n \in {"web", "WEB", "db"} |-> IF n = "WEB" THEN "web" ELSE n]
=============================================================================
