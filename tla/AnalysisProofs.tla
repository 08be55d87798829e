--------------------------- MODULE AnalysisProofs ---------------------------
(* What the analyses guarantee for every estate, export, wave plan and pair   *)
(* of snapshots: waves reported as safe are safe, every call to a network     *)
(* left behind has a route, a diff accounts for every machine.                *)
EXTENDS Analysis, FiniteSetTheorems, WellFoundedInduction, TLAPS

\* Entries of the two dictionaries are records of four fields.
Entries(S) == \A e \in S : e = [source |-> e.source, target |-> e.target,
                                ports |-> e.ports, connections |-> e.connections]

\* A report has the fields of DependencyReport.
Fields == {"pairs", "external", "mapped", "unmapped", "filtered", "together", "violations", "notes"}
IsReport(rep) == rep = [k \in Fields |-> rep[k]]

\* What the pairs of machines in a report say of the rows read so far: each call
\* between two machines is there, and there is nothing else.
PairsKnown(pairs) ==
  /\ \A f \in Calls :
       Known(input.vms, f.src) /\ Known(input.vms, f.dst)
         /\ ByIp(input.vms, f.src) # ByIp(input.vms, f.dst) =>
       \E d \in pairs : d.source = ByIp(input.vms, f.src) /\ d.target = ByIp(input.vms, f.dst)
  /\ \A d \in pairs : d.source \in Names /\ d.target \in Names /\ d.source # d.target

\* What the calls to addresses outside the inventory say.
ExternalKnown(external) ==
  \A f \in Calls :
    Known(input.vms, f.src) /\ ~Known(input.vms, f.dst) =>
    \E e \in external : e.source = ByIp(input.vms, f.src) /\ e.target = f.dst /\ f.port \in e.ports

\* A dictionary of counted calls: finite, one entry for each key, counts that are numbers.
Tallied(S) ==
  /\ IsFiniteSet(S) /\ \A e \in S : e.connections \in Nat
  /\ \A d, e \in S : d.source = e.source /\ d.target = e.target => d = e

\* The entries for private addresses.
ToPrivate(S) == {e \in S : e.target \in Private}

\* Each connection to a private address outside the inventory is counted once.
CountsKnown(external) ==
  /\ IsFiniteSet(input.read) /\ Tallied(external)
  /\ Connections(ToPrivate(external)) = RowConnections(OutwardCalls, input.header)

\* While rows are read.
ReadingKnows ==
  doing = "reading" =>
    /\ \E vms \in Inventories, header \in Headers, read \in SUBSET Rows :
         input = [vms |-> vms, header |-> header, read |-> read, wave |-> <<>>, declared |-> {}]
    /\ IsReport(answer)
    /\ Entries(answer.pairs) /\ Entries(answer.external)
    /\ PairsKnown(answer.pairs) /\ ExternalKnown(answer.external) /\ CountsKnown(answer.external)

\* When the analysis is done.
DependsKnows ==
  doing = "depends" =>
    /\ input.vms \in Inventories /\ input.wave \in WavePlans
    /\ PairsKnown(answer.pairs)
    /\ answer.together = MutualGroups(answer.pairs)
    /\ answer.violations = WaveViolations(answer.pairs, input.wave)

\* What recommend was given and what it answered.
RecommendKnows ==
  doing = "recommend" =>
    /\ input.vms \in Estates /\ input.requested \in Requests /\ input.plans \in PlanSets
    /\ input.weights \in WeightSets /\ WeightTotal(input.weights) > 0
    /\ answer = Recommend(input.vms, input.requested, input.plans, input.weights)

ConfidenceKnows ==
  doing = "confidence" => input.vms \in Workloads /\ answer = ScorePlan(input.vms)

DiffKnows ==
  doing = "diff" =>
    /\ input.before \in Snapshots /\ input.after \in Snapshots
    /\ answer = Diff(input.before, input.after)

AnalysisInvariant ==
  ReadingKnows /\ DependsKnows /\ PrivateCallsAreRouted /\ RecommendKnows /\ ConfidenceKnows
  /\ DiffKnows

-----------------------------------------------------------------------------
(* The owner of an address.                                                   *)

\* A set of natural numbers has a least one.
LEMMA LeastNatural ==
  ASSUME NEW S \in SUBSET Nat, S # {}
  PROVE  \E m \in S : \A k \in S : m <= k
<1> DEFINE R == OpToRel(<, Nat)
<1>1. PICK m \in S : \A k \in S : ~(<<k, m>> \in R)
  BY NatLessThanWellFounded, WFMin
<1>2. \A k \in S : ~(k < m)
  BY <1>1 DEF OpToRel
<1> QED
  BY <1>2

\* Whoever a known address is attributed to is a machine of the inventory.
LEMMA OwnerIsNamed ==
  ASSUME NEW vms, DOMAIN vms \subseteq Nat, NEW ip, Known(vms, ip)
  PROVE  \E i \in DOMAIN vms : ByIp(vms, ip) = vms[i].name
<1>1. Owners(vms, ip) \in SUBSET Nat /\ Owners(vms, ip) # {} /\ Owners(vms, ip) \subseteq DOMAIN vms
  BY DEF Owners, Known
<1>2. \E m \in Owners(vms, ip) : \A k \in Owners(vms, ip) : m <= k
  BY <1>1, LeastNatural
<1>3. Min(Owners(vms, ip)) \in Owners(vms, ip)
  BY <1>2 DEF Min
<1> QED
  BY <1>1, <1>3 DEF ByIp

-----------------------------------------------------------------------------
(* Groups of machines that call each other.                                   *)

\* Calls that go both ways, between things that have a first and a second.
Symmetric(M) == \A e \in M : e = <<e[1], e[2]>> /\ <<e[2], e[1]>> \in M
Around(M, n) == {C \in SUBSET {e[1] : e \in M} : n \in C /\ Closed(M, C)}

\* The search of _mutual_groups ends with the least closed set around its start.
LEMMA ComponentIsLeast ==
  ASSUME NEW M, Symmetric(M), NEW n \in {e[1] : e \in M}
  PROVE  /\ Component(M, n) \in Around(M, n)
         /\ \A D \in Around(M, n) : Component(M, n) \subseteq D
<1> DEFINE V == {e[1] : e \in M}
           L == {x \in V : \A D \in Around(M, n) : x \in D}
<1>1. \A e \in M : e[1] \in V /\ e[2] \in V
  BY DEF Symmetric
<1>2. n \in L /\ L \subseteq V
  BY DEF Around
<1>3. Closed(M, L)
  BY <1>1 DEF Closed, Around
<1>4. L \in Around(M, n) /\ \A D \in Around(M, n) : L \subseteq D
  BY <1>2, <1>3 DEF Around
<1> QED
  BY <1>4 DEF Component, Around

\* The pairs that call each other are symmetric.
LEMMA MutualIsSymmetric ==
  ASSUME NEW pairs
  PROVE  Symmetric(Mutual(pairs))
  BY DEF Symmetric, Mutual, Edges

\* Two groups are one or have nobody in common.
LEMMA GroupsAreApart ==
  ASSUME NEW M, Symmetric(M), NEW n \in {e[1] : e \in M}, NEW k \in {e[1] : e \in M},
         Component(M, n) \cap Component(M, k) # {}
  PROVE  Component(M, n) = Component(M, k)
<1> DEFINE V == {e[1] : e \in M}
<1>1. ASSUME NEW x \in V, NEW y \in V, Component(M, x) \cap Component(M, y) # {}
      PROVE  Component(M, y) \subseteq Component(M, x)
  <2>1. Component(M, x) \in Around(M, x) /\ Component(M, y) \in Around(M, y)
    BY ComponentIsLeast
  <2>2. \A D \in Around(M, y) : Component(M, y) \subseteq D
    BY ComponentIsLeast
  <2>3. CASE y \in Component(M, x)
    BY <2>1, <2>2, <2>3 DEF Around
  <2>4. CASE y \notin Component(M, x)
    <3> DEFINE D == Component(M, y) \ Component(M, x)
    <3>1. D \in Around(M, y)
      BY <2>1, <2>4 DEF Around, Closed
    <3>2. Component(M, y) \subseteq D
      BY <2>2, <3>1
    <3> QED
      BY <1>1, <3>2
  <2> QED
    BY <2>3, <2>4
<1> QED
  BY <1>1

\* A group of machines that move in several waves has a call, both ways, across them.
LEMMA SplitGroupIsCut ==
  ASSUME NEW M, Symmetric(M), NEW n \in {e[1] : e \in M}, NEW wave,
         Cardinality({wave[m] : m \in Component(M, n)}) > 1
  PROVE  \E e \in M : {e[1], e[2]} \subseteq Component(M, n) /\ wave[e[1]] # wave[e[2]]
<1> DEFINE g == Component(M, n)
           D == {m \in g : wave[m] = wave[n]}
<1> SUFFICES ASSUME \A e \in M : {e[1], e[2]} \subseteq g => wave[e[1]] = wave[e[2]] PROVE FALSE
  OBVIOUS
<1>1. g \in Around(M, n) /\ \A C \in Around(M, n) : g \subseteq C
  BY ComponentIsLeast
<1> HIDE DEF g
<1>2. D \in Around(M, n)
  BY <1>1 DEF Around, Closed
<1>3. g \subseteq D /\ n \in g
  BY <1>1, <1>2 DEF Around
<1>4. {wave[m] : m \in g} = {wave[n]}
  BY <1>3
<1>5. Cardinality({wave[m] : m \in g}) = 1
  BY <1>4, FS_Singleton
<1> QED
  BY <1>5 DEF g

\* A report derived from all calls is silent about none: waves without a listed
\* violation can be run, and groups are what must move together.
LEMMA ReportIsComplete ==
  ASSUME DependsKnows
  PROVE  NoSilentCut
<1> SUFFICES ASSUME doing = "depends", Names \subseteq DOMAIN input.wave
             PROVE  /\ answer.violations = {} =>
                         \A k \in {input.wave[n] : n \in Names} :
                           \A a \in MovedBy(k), b \in Names \ MovedBy(k) : ~CallsBetween(a, b)
                    /\ \A a, b \in Names :
                         a # b /\ CallsBetween(a, b) /\ CallsBetween(b, a) =>
                           \E g \in answer.together : {a, b} \subseteq g
                    /\ \A g, h \in answer.together : g = h \/ g \cap h = {}
                    /\ \A g \in answer.together :
                         Cardinality({input.wave[n] : n \in g}) > 1 =>
                           \E d \in answer.violations : {d.source, d.target} \subseteq g
  BY DEF NoSilentCut
<1> DEFINE pairs == answer.pairs
           wave == input.wave
           M == Mutual(pairs)
<1>1. /\ PairsKnown(pairs) /\ answer.together = MutualGroups(pairs)
      /\ answer.violations = WaveViolations(pairs, wave)
  BY DEF DependsKnows
<1>2. \A x \in Names : x \in DOMAIN wave /\ wave[x] \in Nat
  BY AnalysisAssumption DEF DependsKnows
<1>3. \A a, b : a # b /\ CallsBetween(a, b) => \E d \in pairs : d.source = a /\ d.target = b
  BY <1>1 DEF CallsBetween, PairsKnown
<1>4. \A d \in pairs : wave[d.source] < wave[d.target] => d \in answer.violations
  BY <1>1, <1>2 DEF WaveViolations, PairsKnown
<1>5. Symmetric(M)
  BY MutualIsSymmetric
<1>6. answer.together = {Component(M, n) : n \in {e[1] : e \in M}}
  BY <1>1 DEF MutualGroups
<1>7. ASSUME answer.violations = {}, NEW k \in {wave[n] : n \in Names},
             NEW a \in MovedBy(k), NEW b \in Names \ MovedBy(k), CallsBetween(a, b)
      PROVE  FALSE
  <2>1. a \in Names /\ b \in Names /\ wave[a] <= k /\ ~(wave[b] <= k) /\ k \in Nat
    BY <1>2, <1>7 DEF MovedBy
  <2>2. wave[a] < wave[b]
    BY <1>2, <2>1
  <2>3. PICK d \in pairs : d.source = a /\ d.target = b
    BY <1>2, <1>3, <1>7, <2>1, <2>2
  <2> QED
    BY <1>4, <1>7, <2>2, <2>3
<1>8. ASSUME NEW a \in Names, NEW b \in Names, a # b, CallsBetween(a, b), CallsBetween(b, a)
      PROVE  \E g \in answer.together : {a, b} \subseteq g
  <2>1. <<a, b>> \in Edges(pairs) /\ <<b, a>> \in Edges(pairs)
    BY <1>3, <1>8 DEF Edges
  <2>2. <<a, b>> \in M
    BY <2>1 DEF Mutual
  <2> HIDE DEF M
  <2>3. a \in {e[1] : e \in M}
    BY <2>2
  <2>4. Component(M, a) \in Around(M, a)
    BY <1>5, <2>3, ComponentIsLeast
  <2>5. {a, b} \subseteq Component(M, a)
    BY <2>2, <2>4 DEF Around, Closed
  <2> QED
    BY <1>6, <2>3, <2>5
<1>9. ASSUME NEW g \in answer.together, NEW h \in answer.together PROVE g = h \/ g \cap h = {}
  <2> HIDE DEF M
  <2> QED
    BY <1>5, <1>6, GroupsAreApart
<1>10. ASSUME NEW g \in answer.together, Cardinality({wave[n] : n \in g}) > 1
       PROVE  \E d \in answer.violations : {d.source, d.target} \subseteq g
  <2>1. PICK e \in M : {e[1], e[2]} \subseteq g /\ wave[e[1]] # wave[e[2]]
    <3> HIDE DEF M, wave
    <3>1. PICK n \in {e[1] : e \in M} : g = Component(M, n)
      BY <1>6
    <3> QED
      BY <1>5, <1>10, <3>1, SplitGroupIsCut
  <2>2. /\ \E d \in pairs : d.source = e[1] /\ d.target = e[2]
        /\ \E d \in pairs : d.source = e[2] /\ d.target = e[1]
    BY <2>1 DEF Mutual, Edges
  <2>3. wave[e[1]] \in Nat /\ wave[e[2]] \in Nat
    BY <1>1, <1>2, <2>2 DEF PairsKnown
  <2>4. wave[e[1]] < wave[e[2]] \/ wave[e[2]] < wave[e[1]]
    BY <2>1, <2>3
  <2> QED
    BY <1>4, <2>1, <2>2, <2>4
<1> QED
  BY <1>7, <1>8, <1>9, <1>10

-----------------------------------------------------------------------------
(* Sums over finite sets.                                                    *)

\* Among some subsets of a finite set there is one that contains no other.
LEMMA SmallestSet ==
  ASSUME NEW S, IsFiniteSet(S), NEW B \in SUBSET SUBSET S, B # {}
  PROVE  \E s \in B : \A t \in B : t \subseteq s => t = s
<1> DEFINE C == {Cardinality(s) : s \in B}
<1>1. \A s \in B : IsFiniteSet(s) /\ Cardinality(s) \in Nat
  BY FS_Subset, FS_CardinalityType
<1>2. C \in SUBSET Nat /\ C # {}
  BY <1>1
<1>3. PICK m \in C : \A k \in C : m <= k
  <2> HIDE DEF C
  <2> QED
    BY <1>2, LeastNatural
<1>4. PICK s \in B : m = Cardinality(s)
  OBVIOUS
<1>5. ASSUME NEW t \in B, t \subseteq s PROVE t = s
  <2>1. Cardinality(s) <= Cardinality(t)
    BY <1>3, <1>4
  <2>2. Cardinality(t) <= Cardinality(s) /\ (Cardinality(s) = Cardinality(t) => s = t)
    BY <1>1, <1>5, FS_Subset
  <2> QED
    BY <1>1, <2>1, <2>2
<1> QED
  BY <1>5

\* The community module's sum: it takes some element, adds it to the sum of the rest.
Pick(s) == CHOOSE x \in s : TRUE
Rec(w, g, s) == IF s = {} THEN 0 ELSE w[Pick(s)] + g[s \ {Pick(s)}]
Adds(w, S, g) == g = [s \in SUBSET S |-> Rec(w, g, s)]

\* Two sums that are defined this way agree where both are defined.
LEMMA AddsAgree ==
  ASSUME NEW w, NEW S, IsFiniteSet(S), NEW g, Adds(w, S, g), NEW T, NEW h, Adds(w, T, h),
         NEW u \in SUBSET S, u \in SUBSET T
  PROVE  g[u] = h[u]
<1> DEFINE B == {s \in SUBSET S : s \subseteq T /\ g[s] # h[s]}
<1> SUFFICES ASSUME B # {} PROVE FALSE
  OBVIOUS
<1>1. PICK s \in B : \A t \in B : t \subseteq s => t = s
  <2>1. B \in SUBSET SUBSET S
    OBVIOUS
  <2> HIDE DEF B
  <2> QED
    BY <2>1, SmallestSet
<1>2. g[s] = Rec(w, g, s) /\ h[s] = Rec(w, h, s)
  BY DEF Adds
<1>3. CASE s = {}
  BY <1>2, <1>3 DEF Rec
<1>4. CASE s # {}
  <2>1. Pick(s) \in s
    BY <1>4 DEF Pick
  <2>2. s \ {Pick(s)} \notin B
    BY <1>1, <2>1
  <2>3. g[s \ {Pick(s)}] = h[s \ {Pick(s)}]
    BY <2>2
  <2>4. Rec(w, g, s) = Rec(w, h, s)
    BY <2>3 DEF Rec
  <2> QED
    BY <1>2, <2>4
<1> QED
  BY <1>3, <1>4

\* Over a finite set there is such a sum.
LEMMA AddsExists ==
  ASSUME NEW w, NEW S, IsFiniteSet(S)
  PROVE  \E g : Adds(w, S, g)
<1> DEFINE B == {s \in SUBSET S : ~\E g : Adds(w, s, g)}
<1> SUFFICES ASSUME B # {} PROVE FALSE
  OBVIOUS
<1>1. PICK s \in B : \A t \in B : t \subseteq s => t = s
  <2>1. B \in SUBSET SUBSET S
    OBVIOUS
  <2> HIDE DEF B
  <2> QED
    BY <2>1, SmallestSet
<1> DEFINE H(t) == CHOOSE g : Adds(w, t, g)
<1>2. ASSUME NEW t \in SUBSET s, t # s PROVE Adds(w, t, H(t)) /\ H(t)[t] = Rec(w, H(t), t)
  <2>1. Adds(w, t, H(t))
    BY <1>1, <1>2
  <2> HIDE DEF H
  <2> QED
    BY <2>1 DEF Adds
<1> HIDE DEF H
<1> DEFINE F == [t \in SUBSET s |-> H(t)[t]]
           G == [t \in SUBSET s |-> IF t = s THEN Rec(w, F, s) ELSE H(t)[t]]
<1>3. ASSUME NEW t \in SUBSET s PROVE G[t] = Rec(w, G, t)
  <2>1. CASE t = s
    <3>1. s # {} => Pick(s) \in s /\ s \ {Pick(s)} \in SUBSET s /\ s \ {Pick(s)} # s
      BY DEF Pick
    <3>2. s # {} => G[s \ {Pick(s)}] = F[s \ {Pick(s)}]
      BY <3>1
    <3>3. G[s] = Rec(w, F, s)
      OBVIOUS
    <3> HIDE DEF F, G
    <3> QED
      BY <2>1, <3>2, <3>3 DEF Rec
  <2>2. CASE t # s
    <3>1. G[t] = H(t)[t]
      BY <2>2
    <3>2. Adds(w, t, H(t)) /\ H(t)[t] = Rec(w, H(t), t)
      BY <1>2, <2>2
    <3>3. ASSUME t # {} PROVE G[t \ {Pick(t)}] = H(t)[t \ {Pick(t)}]
      <4> DEFINE r == t \ {Pick(t)}
      <4>1. r \in SUBSET s /\ r # s /\ r \in SUBSET t
        BY <2>2
      <4>2. G[r] = H(r)[r] /\ Adds(w, r, H(r))
        BY <1>2, <4>1
      <4>3. IsFiniteSet(r)
        BY <4>1, FS_Subset
      <4>4. H(r)[r] = H(t)[r]
        <5> HIDE DEF r
        <5> QED
          BY <3>2, <4>1, <4>2, <4>3, AddsAgree
      <4> QED
        BY <4>2, <4>4
    <3> HIDE DEF G
    <3> QED
      BY <3>1, <3>2, <3>3 DEF Rec
  <2> QED
    BY <2>1, <2>2
<1>4. Adds(w, s, G)
  <2>1. G = [t \in SUBSET s |-> G[t]]
    OBVIOUS
  <2> HIDE DEF G
  <2> QED
    BY <1>3, <2>1 DEF Adds
<1> QED
  BY <1>4

\* The sum of w over S.
SumOver(w, S) == (CHOOSE g : Adds(w, S, g))[S]

\* Sums of integers can be taken apart at any element.
LEMMA SumStep ==
  ASSUME NEW w, NEW S, IsFiniteSet(S), \A x \in S : w[x] \in Int
  PROVE  /\ SumOver(w, {}) = 0
         /\ \A T \in SUBSET S : SumOver(w, T) \in Int
         /\ \A T \in SUBSET S : \A x \in T : SumOver(w, T) = w[x] + SumOver(w, T \ {x})
<1> DEFINE g == CHOOSE h : Adds(w, S, h)
<1>1. Adds(w, S, g)
  BY AddsExists
<1> HIDE DEF g
<1>2. ASSUME NEW T \in SUBSET S PROVE SumOver(w, T) = g[T] /\ g[T] = Rec(w, g, T)
  <2> DEFINE k == CHOOSE h : Adds(w, T, h)
  <2>1. IsFiniteSet(T)
    BY FS_Subset
  <2>2. Adds(w, T, k)
    BY <2>1, AddsExists
  <2>3. SumOver(w, T) = k[T]
    BY DEF SumOver
  <2> HIDE DEF k
  <2>4. k[T] = g[T]
    <3>1. T \in SUBSET T
      OBVIOUS
    <3>2. \A u \in SUBSET T : u \in SUBSET S => k[u] = g[u]
      BY <1>1, <2>1, <2>2, AddsAgree
    <3> QED
      BY <3>1, <3>2
  <2>5. g[T] = Rec(w, g, T)
    BY <1>1 DEF Adds
  <2> QED
    BY <2>3, <2>4, <2>5
<1>3. ASSUME NEW T \in SUBSET S, T # {}
      PROVE  Pick(T) \in T /\ g[T] = w[Pick(T)] + g[T \ {Pick(T)}]
  BY <1>2, <1>3 DEF Rec, Pick
<1>4. g[{}] = 0
  BY <1>2 DEF Rec
<1>5. \A T \in SUBSET S : g[T] \in Int
  <2> DEFINE B == {T \in SUBSET S : g[T] \notin Int}
  <2> SUFFICES ASSUME B # {} PROVE FALSE
    OBVIOUS
  <2>1. PICK T \in B : \A t \in B : t \subseteq T => t = T
    <3>1. B \in SUBSET SUBSET S
      OBVIOUS
    <3> HIDE DEF B
    <3> QED
      BY <3>1, SmallestSet
  <2>2. T # {}
    BY <1>4
  <2>3. Pick(T) \in T /\ g[T] = w[Pick(T)] + g[T \ {Pick(T)}]
    BY <1>3, <2>2
  <2>4. T \ {Pick(T)} \notin B /\ T \ {Pick(T)} \in SUBSET S
    BY <2>1, <2>3
  <2>5. g[T \ {Pick(T)}] \in Int /\ w[Pick(T)] \in Int
    BY <2>3, <2>4
  <2> QED
    BY <2>3, <2>5
<1>6. \A T \in SUBSET S : \A x \in T : g[T] = w[x] + g[T \ {x}]
  <2> DEFINE B == {T \in SUBSET S : \E x \in T : g[T] # w[x] + g[T \ {x}]}
  <2> SUFFICES ASSUME B # {} PROVE FALSE
    OBVIOUS
  <2>1. PICK T \in B : \A t \in B : t \subseteq T => t = T
    <3>1. B \in SUBSET SUBSET S
      OBVIOUS
    <3> HIDE DEF B
    <3> QED
      BY <3>1, SmallestSet
  <2>2. PICK x \in T : g[T] # w[x] + g[T \ {x}]
    OBVIOUS
  <2> DEFINE p == Pick(T)
  <2>3. p \in T /\ g[T] = w[p] + g[T \ {p}]
    BY <1>3
  <2> HIDE DEF p
  <2>4. x # p
    BY <2>2, <2>3
  <2>5. T \ {p} \notin B /\ T \ {x} \notin B /\ T \ {p} \in SUBSET S /\ T \ {x} \in SUBSET S
    BY <2>1, <2>3
  <2>6. g[T \ {p}] = w[x] + g[(T \ {p}) \ {x}] /\ g[T \ {x}] = w[p] + g[(T \ {x}) \ {p}]
    BY <2>3, <2>4, <2>5
  <2>7. (T \ {p}) \ {x} = (T \ {x}) \ {p} /\ (T \ {x}) \ {p} \in SUBSET S
    OBVIOUS
  <2>8. w[x] \in Int /\ w[p] \in Int /\ g[(T \ {x}) \ {p}] \in Int
    BY <1>5, <2>3, <2>7
  <2>9. g[T] = w[x] + g[T \ {x}]
    <3> DEFINE c == g[(T \ {x}) \ {p}]
    <3>1. g[T] = w[p] + (w[x] + c)
      BY <2>3, <2>6, <2>7
    <3>2. g[T \ {x}] = w[p] + c
      BY <2>6
    <3> HIDE DEF c
    <3> QED
      BY <2>8, <3>1, <3>2 DEF c
  <2> QED
    BY <2>2, <2>9
<1>7. \A T \in SUBSET S : \A x \in T : SumOver(w, T) = w[x] + SumOver(w, T \ {x})
  <2> SUFFICES ASSUME NEW T \in SUBSET S, NEW x \in T PROVE SumOver(w, T) = w[x] + SumOver(w, T \ {x})
    OBVIOUS
  <2>1. T \ {x} \in SUBSET S
    OBVIOUS
  <2> QED
    BY <1>2, <1>6, <2>1
<1>8. {} \in SUBSET S
  OBVIOUS
<1> QED
  BY <1>2, <1>4, <1>5, <1>7, <1>8

\* The sum over two sets that have nothing in common.
LEMMA SumUnion ==
  ASSUME NEW w, NEW S, IsFiniteSet(S), \A x \in S : w[x] \in Int,
         NEW P \in SUBSET S, NEW Q \in SUBSET S, P \cap Q = {}
  PROVE  SumOver(w, P \cup Q) = SumOver(w, P) + SumOver(w, Q)
<1> DEFINE B == {T \in SUBSET S : T \subseteq P /\ SumOver(w, T \cup Q) # SumOver(w, T) + SumOver(w, Q)}
<1> SUFFICES ASSUME B # {} PROVE FALSE
  OBVIOUS
<1>1. PICK T \in B : \A t \in B : t \subseteq T => t = T
  <2>1. B \in SUBSET SUBSET S
    OBVIOUS
  <2> HIDE DEF B
  <2> QED
    BY <2>1, SmallestSet
<1>2. \A R \in SUBSET S : SumOver(w, R) \in Int
  BY SumStep
<1>3. T # {}
  <2> SUFFICES ASSUME T = {} PROVE FALSE
    OBVIOUS
  <2>1. SumOver(w, T) = 0 /\ T \cup Q = Q /\ SumOver(w, Q) \in Int
    BY <1>2, SumStep
  <2>2. SumOver(w, T \cup Q) # SumOver(w, T) + SumOver(w, Q)
    OBVIOUS
  <2> HIDE DEF B
  <2> QED
    BY <2>1, <2>2
<1>4. PICK x \in T : TRUE
  BY <1>3
<1> DEFINE U == T \ {x}
<1>5. U \notin B /\ U \in SUBSET S /\ U \subseteq P
  BY <1>1
<1>6. SumOver(w, U \cup Q) = SumOver(w, U) + SumOver(w, Q)
  BY <1>5
<1>7. (T \cup Q) \ {x} = U \cup Q /\ T \cup Q \in SUBSET S /\ x \in T \cup Q /\ w[x] \in Int
  OBVIOUS
<1>8. SumOver(w, T \cup Q) = w[x] + SumOver(w, U \cup Q)
  BY <1>7, SumStep
<1>9. SumOver(w, T) = w[x] + SumOver(w, U)
  BY SumStep
<1>10. SumOver(w, U) \in Int /\ SumOver(w, Q) \in Int
  BY <1>2, <1>5
<1>11. SumOver(w, T \cup Q) # SumOver(w, T) + SumOver(w, Q)
  OBVIOUS
<1> HIDE DEF B, U
<1> QED
  BY <1>6, <1>7, <1>8, <1>9, <1>10, <1>11

\* Both are sums in the sense above.
LEMMA ConnectionsIsSum ==
  ASSUME NEW S, IsFiniteSet(S), NEW w, \A x \in S : w[x] = x.connections
  PROVE  Connections(S) = SumOver(w, S)
<1> DEFINE Eqn(g) == g = [s \in SUBSET S |-> IF s = {} THEN 0
             ELSE (CHOOSE x \in s : TRUE).connections + g[s \ {CHOOSE x \in s : TRUE}]]
           k == CHOOSE g : Eqn(g)
<1>1. ASSUME NEW g PROVE Eqn(g) <=> Adds(w, S, g)
  <2>1. ASSUME NEW s \in SUBSET S
        PROVE  (IF s = {} THEN 0 ELSE (CHOOSE x \in s : TRUE).connections + g[s \ {CHOOSE x \in s : TRUE}])
                 = Rec(w, g, s)
    BY DEF Rec, Pick
  <2> QED
    BY <2>1 DEF Adds
<1>2. Connections(S) = k[S]
  BY DEF Connections, MapThenSumSet, MapThenFoldSet
<1> HIDE DEF Eqn
<1>3. \E g : Eqn(g)
  BY <1>1, AddsExists
<1>4. Adds(w, S, k)
  BY <1>1, <1>3
<1> HIDE DEF k
<1> DEFINE j == CHOOSE g : Adds(w, S, g)
<1>5. Adds(w, S, j) /\ SumOver(w, S) = j[S]
  BY AddsExists DEF SumOver
<1> HIDE DEF j
<1>6. \A u \in SUBSET S : k[u] = j[u]
  BY <1>4, <1>5, AddsAgree
<1>7. S \in SUBSET S
  OBVIOUS
<1> QED
  BY <1>2, <1>5, <1>6, <1>7

\* The same for rows.
LEMMA RowsIsSum ==
  ASSUME NEW S, IsFiniteSet(S), NEW w, NEW h, \A x \in S : w[x] = Flow(x, h).connections
  PROVE  RowConnections(S, h) = SumOver(w, S)
<1> DEFINE Eqn(g) == g = [s \in SUBSET S |-> IF s = {} THEN 0
             ELSE Flow(CHOOSE x \in s : TRUE, h).connections + g[s \ {CHOOSE x \in s : TRUE}]]
           k == CHOOSE g : Eqn(g)
<1>1. ASSUME NEW g PROVE Eqn(g) <=> Adds(w, S, g)
  <2>1. ASSUME NEW s \in SUBSET S
        PROVE  (IF s = {} THEN 0 ELSE Flow(CHOOSE x \in s : TRUE, h).connections + g[s \ {CHOOSE x \in s : TRUE}])
                 = Rec(w, g, s)
    BY DEF Rec, Pick
  <2> QED
    BY <2>1 DEF Adds
<1>2. RowConnections(S, h) = k[S]
  BY DEF RowConnections, MapThenSumSet, MapThenFoldSet
<1> HIDE DEF Eqn
<1>3. \E g : Eqn(g)
  BY <1>1, AddsExists
<1>4. Adds(w, S, k)
  BY <1>1, <1>3
<1> HIDE DEF k
<1> DEFINE j == CHOOSE g : Adds(w, S, g)
<1>5. Adds(w, S, j) /\ SumOver(w, S) = j[S]
  BY AddsExists DEF SumOver
<1> HIDE DEF j
<1>6. \A u \in SUBSET S : k[u] = j[u]
  BY <1>4, <1>5, AddsAgree
<1>7. S \in SUBSET S
  OBVIOUS
<1> QED
  BY <1>2, <1>5, <1>6, <1>7

\* The connections of a set are those of any two parts of it.
LEMMA ConnectionsLaws ==
  ASSUME NEW S, IsFiniteSet(S), \A e \in S : e.connections \in Int
  PROVE  /\ Connections({}) = 0
         /\ \A T \in SUBSET S : Connections(T) \in Int
         /\ \A T \in SUBSET S : \A x \in T : Connections(T) = x.connections + Connections(T \ {x})
         /\ \A P, Q \in SUBSET S : P \cap Q = {} => Connections(P \cup Q) = Connections(P) + Connections(Q)
<1> DEFINE w == [e \in S |-> e.connections]
<1>1. \A e \in S : w[e] \in Int /\ w[e] = e.connections
  OBVIOUS
<1> HIDE DEF w
<1>2. ASSUME NEW T \in SUBSET S PROVE Connections(T) = SumOver(w, T)
  <2>1. IsFiniteSet(T) /\ \A e \in T : w[e] = e.connections
    BY <1>1, FS_Subset
  <2> QED
    BY <2>1, ConnectionsIsSum
<1>3. Connections({}) = 0
  <2>1. {} \in SUBSET S
    OBVIOUS
  <2> QED
    BY <1>1, <1>2, <2>1, SumStep
<1>4. ASSUME NEW T \in SUBSET S PROVE Connections(T) \in Int
  BY <1>1, <1>2, SumStep
<1>5. ASSUME NEW T \in SUBSET S, NEW x \in T PROVE Connections(T) = x.connections + Connections(T \ {x})
  <2>1. T \ {x} \in SUBSET S
    OBVIOUS
  <2>2. SumOver(w, T) = w[x] + SumOver(w, T \ {x})
    BY <1>1, SumStep
  <2> QED
    BY <1>1, <1>2, <2>1, <2>2
<1>6. ASSUME NEW P \in SUBSET S, NEW Q \in SUBSET S, P \cap Q = {}
      PROVE  Connections(P \cup Q) = Connections(P) + Connections(Q)
  <2>1. P \cup Q \in SUBSET S
    OBVIOUS
  <2>2. SumOver(w, P \cup Q) = SumOver(w, P) + SumOver(w, Q)
    BY <1>1, <1>6, SumUnion
  <2> QED
    BY <1>2, <2>1, <2>2
<1> QED
  BY <1>3, <1>4, <1>5, <1>6

\* The connections of rows are those of any one and of the others.
LEMMA RowsLaws ==
  ASSUME NEW S, IsFiniteSet(S), NEW h, \A r \in S : Flow(r, h).connections \in Int
  PROVE  /\ RowConnections({}, h) = 0
         /\ \A T \in SUBSET S : RowConnections(T, h) \in Int
         /\ \A T \in SUBSET S : \A x \in T :
              RowConnections(T, h) = Flow(x, h).connections + RowConnections(T \ {x}, h)
<1> DEFINE w == [r \in S |-> Flow(r, h).connections]
<1>1. \A r \in S : w[r] \in Int /\ w[r] = Flow(r, h).connections
  OBVIOUS
<1> HIDE DEF w
<1>2. ASSUME NEW T \in SUBSET S PROVE RowConnections(T, h) = SumOver(w, T)
  <2>1. IsFiniteSet(T) /\ \A r \in T : w[r] = Flow(r, h).connections
    BY <1>1, FS_Subset
  <2> QED
    BY <2>1, RowsIsSum
<1>3. RowConnections({}, h) = 0
  <2>1. {} \in SUBSET S
    OBVIOUS
  <2> QED
    BY <1>1, <1>2, <2>1, SumStep
<1>4. ASSUME NEW T \in SUBSET S PROVE RowConnections(T, h) \in Int
  BY <1>1, <1>2, SumStep
<1>5. ASSUME NEW T \in SUBSET S, NEW x \in T
      PROVE  RowConnections(T, h) = Flow(x, h).connections + RowConnections(T \ {x}, h)
  <2>1. T \ {x} \in SUBSET S
    OBVIOUS
  <2>2. SumOver(w, T) = w[x] + SumOver(w, T \ {x})
    BY <1>1, SumStep
  <2> QED
    BY <1>1, <1>2, <2>1, <2>2
<1> QED
  BY <1>3, <1>4, <1>5

-----------------------------------------------------------------------------
(* Reading rows.                                                              *)

\* Counting a call in a dictionary keeps every other entry, keeps the ports of its
\* own and has the port of the call.
LEMMA CountedFacts ==
  ASSUME NEW S, Entries(S), NEW a, NEW b, NEW f
  PROVE  /\ Entries(Counted(S, a, b, f))
         /\ \A e \in S : \E n \in Counted(S, a, b, f) :
              n.source = e.source /\ n.target = e.target /\ e.ports \subseteq n.ports
         /\ \E n \in Counted(S, a, b, f) : n.source = a /\ n.target = b /\ f.port \in n.ports
         /\ \A n \in Counted(S, a, b, f) : n \in S \/ (n.source = a /\ n.target = b)
<1> DEFINE e == Entry(S, a, b)
           n == [e EXCEPT !.ports = @ \cup {f.port}, !.connections = @ + f.connections]
<1>1. /\ e = [source |-> e.source, target |-> e.target, ports |-> e.ports, connections |-> e.connections]
      /\ e.source = a /\ e.target = b
  BY DEF Entry, Entries
<1>2. Counted(S, a, b, f) = (S \ {e}) \cup {n}
  BY DEF Counted
<1> HIDE DEF e
<1>3. n = [source |-> e.source, target |-> e.target, ports |-> e.ports \cup {f.port},
           connections |-> e.connections + f.connections]
  <2>1. PICK s, t, p, c : e = [source |-> s, target |-> t, ports |-> p, connections |-> c]
    BY <1>1
  <2>2. e.source = s /\ e.target = t /\ e.ports = p /\ e.connections = c
    BY <2>1
  <2> DEFINE ports == e.ports \cup {f.port}
             total == e.connections + f.connections
  <2>3. n = [e EXCEPT !.ports = ports, !.connections = total]
    OBVIOUS
  <2> HIDE DEF n, ports, total
  <2>4. n = [source |-> s, target |-> t, ports |-> ports, connections |-> total]
    BY <2>1, <2>3
  <2> QED
    BY <2>2, <2>4 DEF ports, total
<1> HIDE DEF n
<1>4. n.source = a /\ n.target = b /\ n.ports = e.ports \cup {f.port}
  BY <1>1, <1>3
<1>5. n = [source |-> n.source, target |-> n.target, ports |-> n.ports, connections |-> n.connections]
  BY <1>3
<1> QED
  BY <1>1, <1>2, <1>4, <1>5 DEF Entries

\* What one more row adds to the calls.
LEMMA RowAddsCall ==
  ASSUME NEW row, input' = [input EXCEPT !.read = @ \cup {row}], ReadingKnows, doing = "reading"
  PROVE  /\ input'.vms = input.vms /\ input'.header = input.header /\ input'.read = input.read \cup {row}
         /\ Names' = Names
         /\ \A f \in Calls' : f \in Calls \/
              (f = Flow(row, input.header) /\ IsFlow(row) /\ f.port \notin InfraPorts
               /\ f.connections >= MinConnections)
<1>1. PICK vms \in Inventories, header \in Headers, read \in SUBSET Rows :
        input = [vms |-> vms, header |-> header, read |-> read, wave |-> <<>>, declared |-> {}]
  BY DEF ReadingKnows
<1>2. input'.vms = input.vms /\ input'.header = input.header /\ input'.read = input.read \cup {row}
  BY <1>1
<1> QED
  BY <1>2 DEF Names, Calls, Seen

\* Counting a call adds its connections to the dictionary, to the private part of it
\* exactly when the call is to a private address.
LEMMA CountedSum ==
  ASSUME NEW S, Entries(S), Tallied(S), NEW a, NEW b, NEW f, f.connections \in Nat
  PROVE  /\ Tallied(Counted(S, a, b, f))
         /\ Connections(ToPrivate(Counted(S, a, b, f)))
              = Connections(ToPrivate(S)) + (IF b \in Private THEN f.connections ELSE 0)
<1> DEFINE e == Entry(S, a, b)
           n == [e EXCEPT !.ports = @ \cup {f.port}, !.connections = @ + f.connections]
           N == Counted(S, a, b, f)
<1>1. /\ e.source = a /\ e.target = b /\ e.connections \in Nat
      /\ e = [source |-> e.source, target |-> e.target, ports |-> e.ports, connections |-> e.connections]
      /\ e \in S \/ (e.connections = 0 /\ \A d \in S : ~(d.source = a /\ d.target = b))
  BY DEF Entry, Entries, Tallied
<1>2. N = (S \ {e}) \cup {n}
  BY DEF Counted
<1>3. n.source = a /\ n.target = b /\ n.connections = e.connections + f.connections
  <2> HIDE DEF e
  <2>1. PICK s, t, p, c : e = [source |-> s, target |-> t, ports |-> p, connections |-> c]
    BY <1>1
  <2>2. e.source = s /\ e.target = t /\ e.ports = p /\ e.connections = c
    BY <2>1
  <2> DEFINE ports == e.ports \cup {f.port}
             total == e.connections + f.connections
  <2>3. n = [e EXCEPT !.ports = ports, !.connections = total]
    OBVIOUS
  <2> HIDE DEF n, ports, total
  <2>4. n = [source |-> s, target |-> t, ports |-> ports, connections |-> total]
    BY <2>1, <2>3
  <2> QED
    BY <1>1, <2>2, <2>4 DEF total
<1> HIDE DEF e, n, N
<1>4. n.connections \in Nat
  BY <1>1, <1>3
<1>5. \A d \in S \ {e} : ~(d.source = a /\ d.target = b)
  BY <1>1 DEF Tallied
<1>6. IsFiniteSet(S \ {e}) /\ IsFiniteSet(N)
  <2>1. IsFiniteSet(S \ {e})
    BY FS_Difference DEF Tallied
  <2> QED
    BY <1>2, <2>1, FS_AddElement
<1>7. Tallied(N)
  BY <1>2, <1>3, <1>4, <1>5, <1>6 DEF Tallied
<1> DEFINE rest == ToPrivate(S \ {e})
<1>8. Connections(rest) \in Int
  <2>1. rest \in SUBSET (S \ {e}) /\ \A d \in S \ {e} : d.connections \in Int
    BY DEF ToPrivate, Tallied
  <2> HIDE DEF rest
  <2> QED
    BY <1>6, <2>1, ConnectionsLaws
<1>9. CASE b \notin Private
  <2>1. ToPrivate(N) = ToPrivate(S)
    BY <1>1, <1>2, <1>3, <1>9 DEF ToPrivate
  <2>2. ToPrivate(S) = rest
    BY <1>1, <1>9 DEF ToPrivate
  <2> HIDE DEF rest
  <2>3. Connections(ToPrivate(N)) = Connections(ToPrivate(S)) + 0
    BY <1>8, <2>1, <2>2
  <2> QED
    BY <1>7, <1>9, <2>3 DEF N
<1>10. CASE b \in Private
  <2>1. ToPrivate(N) \ {n} = rest /\ n \in ToPrivate(N) /\ ToPrivate(N) \in SUBSET N
    BY <1>2, <1>3, <1>5, <1>10 DEF ToPrivate
  <2>2. \A d \in N : d.connections \in Int
    BY <1>7 DEF Tallied
  <2> HIDE DEF rest
  <2>3. Connections(ToPrivate(N)) = n.connections + Connections(rest)
    BY <1>6, <2>1, <2>2, ConnectionsLaws
  <2>4. Connections(ToPrivate(S)) = e.connections + Connections(rest)
    <3>1. CASE e \in S
      <4>1. ToPrivate(S) \ {e} = rest /\ e \in ToPrivate(S) /\ ToPrivate(S) \in SUBSET S
        BY <1>1, <1>10, <3>1 DEF ToPrivate, rest
      <4>2. IsFiniteSet(S) /\ \A d \in S : d.connections \in Int
        BY DEF Tallied
      <4> QED
        BY <4>1, <4>2, ConnectionsLaws
    <3>2. CASE e \notin S
      <4>1. ToPrivate(S) = rest /\ e.connections = 0
        BY <1>1, <3>2 DEF ToPrivate, rest
      <4> QED
        BY <1>8, <4>1
    <3> QED
      BY <3>1, <3>2
  <2>5. Connections(ToPrivate(N)) = Connections(ToPrivate(S)) + f.connections
    BY <1>1, <1>3, <1>8, <2>3, <2>4
  <2> QED
    BY <1>7, <1>10, <2>5 DEF N
<1> QED
  BY <1>9, <1>10

\* A call that counts, and what the loop body of analyze_dependencies makes of it.
Counts(g) == ~(g.port \in InfraPorts \/ g.connections < MinConnections)
Inward(g, vms) == Known(vms, g.src) /\ Known(vms, g.dst) /\ ByIp(vms, g.dst) # ByIp(vms, g.src)
Outward(g, vms) == Known(vms, g.src) /\ ~Known(vms, g.dst)

\* The loop body counts a call once, among the pairs or among the external ones.
LEMMA AccountFields ==
  ASSUME NEW rep, IsReport(rep), NEW g, NEW vms, NEW new, new = Account(rep, g, vms)
  PROVE  /\ IsReport(new)
         /\ new.pairs = IF Counts(g) /\ Inward(g, vms)
                        THEN Counted(rep.pairs, ByIp(vms, g.src), ByIp(vms, g.dst), g) ELSE rep.pairs
         /\ new.external = IF Counts(g) /\ Outward(g, vms)
                           THEN Counted(rep.external, ByIp(vms, g.src), g.dst, g) ELSE rep.external
<1>1. ASSUME NEW v, new = [rep EXCEPT !.filtered = v] \/ new = [rep EXCEPT !.unmapped = v]
      PROVE  IsReport(new) /\ new.pairs = rep.pairs /\ new.external = rep.external
  <2>1. CASE new = [rep EXCEPT !.filtered = v]
    BY <2>1 DEF IsReport, Fields
  <2>2. CASE new = [rep EXCEPT !.unmapped = v]
    BY <2>2 DEF IsReport, Fields
  <2> QED
    BY <1>1, <2>1, <2>2
<1>2. ASSUME NEW v, NEW w, new = [rep EXCEPT !.external = v, !.mapped = w]
      PROVE  IsReport(new) /\ new.pairs = rep.pairs /\ new.external = v
  BY <1>2 DEF IsReport, Fields
<1>3. ASSUME NEW v, NEW w, new = [rep EXCEPT !.pairs = v, !.mapped = w]
      PROVE  IsReport(new) /\ new.pairs = v /\ new.external = rep.external
  BY <1>3 DEF IsReport, Fields
<1>4. CASE ~Counts(g) \/ ~Known(vms, g.src)
           \/ (Known(vms, g.dst) /\ ByIp(vms, g.dst) = ByIp(vms, g.src))
  <2>1. \/ new = [rep EXCEPT !.filtered = rep.filtered + 1]
        \/ new = [rep EXCEPT !.unmapped = rep.unmapped + 1]
    BY <1>4 DEF Account, Counts
  <2>2. IsReport(new) /\ new.pairs = rep.pairs /\ new.external = rep.external
    <3>1. CASE new = [rep EXCEPT !.filtered = rep.filtered + 1]
      <4> DEFINE v == rep.filtered + 1
      <4>1. new = [rep EXCEPT !.filtered = v]
        BY <3>1
      <4> HIDE DEF v
      <4> QED
        BY <1>1, <4>1
    <3>2. CASE new = [rep EXCEPT !.unmapped = rep.unmapped + 1]
      <4> DEFINE v == rep.unmapped + 1
      <4>1. new = [rep EXCEPT !.unmapped = v]
        BY <3>2
      <4> HIDE DEF v
      <4> QED
        BY <1>1, <4>1
    <3> QED
      BY <2>1, <3>1, <3>2
  <2> QED
    BY <1>4, <2>2 DEF Inward, Outward
<1>5. CASE Counts(g) /\ Outward(g, vms)
  <2> DEFINE v == Counted(rep.external, ByIp(vms, g.src), g.dst, g)
             w == rep.mapped + 1
  <2>1. new = [rep EXCEPT !.external = v, !.mapped = w]
    BY <1>5 DEF Account, Counts, Outward
  <2> HIDE DEF v, w
  <2>2. IsReport(new) /\ new.pairs = rep.pairs /\ new.external = v
    BY <1>2, <2>1
  <2> QED
    BY <1>5, <2>2 DEF Inward, Outward, v
<1>6. CASE Counts(g) /\ Inward(g, vms)
  <2> DEFINE v == Counted(rep.pairs, ByIp(vms, g.src), ByIp(vms, g.dst), g)
             w == rep.mapped + 1
  <2>1. new = [rep EXCEPT !.pairs = v, !.mapped = w]
    BY <1>6 DEF Account, Counts, Inward
  <2> HIDE DEF v, w
  <2>2. IsReport(new) /\ new.pairs = v /\ new.external = rep.external
    BY <1>3, <2>1
  <2> QED
    BY <1>6, <2>2 DEF Inward, Outward, v
<1> QED
  BY <1>4, <1>5, <1>6 DEF Inward, Outward

\* The rows of an export that call a private address outside the inventory.
RowsOut(read, h, vms) ==
  {r \in read : IsFlow(r) /\ Counts(Flow(r, h)) /\ Outward(Flow(r, h), vms) /\ r.dst \in Private}

\* Reading a row counts its connections among those to private addresses when it is
\* such a call.
LEMMA ReadRowCounts ==
  ASSUME ReadingKnows, doing = "reading", NEW row \in Rows \ input.read,
         input' = [input EXCEPT !.read = @ \cup {row}],
         answer' = IF IsFlow(row) THEN Account(answer, Flow(row, input.header), input.vms) ELSE answer
  PROVE  CountsKnown(answer.external)'
<1> DEFINE h == input.header
           vms == input.vms
           f == Flow(row, h)
           old == RowsOut(input.read, h, vms)
           out == IsFlow(row) /\ Counts(f) /\ Outward(f, vms)
<1>1. PICK inv \in Inventories, header \in Headers, read \in SUBSET Rows :
        input = [vms |-> inv, header |-> header, read |-> read, wave |-> <<>>, declared |-> {}]
  BY DEF ReadingKnows
<1>2. /\ input'.vms = vms /\ input'.header = h /\ input'.read = input.read \cup {row}
      /\ input.read \in SUBSET Rows /\ input'.read \in SUBSET Rows
  BY <1>1
<1>3. \A r \in Rows : /\ Flow(r, h).connections \in Nat /\ Flow(r, h).dst = r.dst
                       /\ Flow(r, h).src = r.src /\ Flow(r, h).port = r.port
  BY AnalysisAssumption DEF Flow
<1>4. OutwardCalls = old
  BY <1>2, <1>3, AnalysisAssumption DEF OutwardCalls, Calls, Seen, RowsOut, Counts, Outward
<1>5. OutwardCalls' = RowsOut(input'.read, h, vms)
  BY <1>2, <1>3, AnalysisAssumption DEF OutwardCalls, Calls, Seen, RowsOut, Counts, Outward
<1>6. OutwardCalls' = IF out /\ row.dst \in Private THEN old \cup {row} ELSE old
  BY <1>2, <1>5 DEF RowsOut
<1>7. /\ IsFiniteSet(input.read) /\ Tallied(answer.external) /\ Entries(answer.external)
      /\ Connections(ToPrivate(answer.external)) = RowConnections(old, h)
      /\ IsReport(answer)
  BY <1>4 DEF ReadingKnows, CountsKnown
<1>8. IsFiniteSet(input'.read)
  BY <1>2, <1>7, FS_AddElement
<1>9. answer'.external = IF out THEN Counted(answer.external, ByIp(vms, f.src), f.dst, f) ELSE answer.external
  <2>1. CASE ~IsFlow(row)
    BY <2>1
  <2>2. CASE IsFlow(row)
    <3>1. answer' = Account(answer, f, vms)
      BY <2>2
    <3> HIDE DEF f, vms
    <3>2. answer'.external = IF Counts(f) /\ Outward(f, vms)
                             THEN Counted(answer.external, ByIp(vms, f.src), f.dst, f) ELSE answer.external
      BY <1>7, <3>1, AccountFields
    <3> QED
      BY <2>2, <3>2
  <2> QED
    BY <2>1, <2>2
<1>10. f.connections \in Nat /\ f.dst = row.dst
  BY <1>3
<1>11. /\ old \subseteq input.read /\ row \notin old
       /\ RowConnections(old, h) \in Int
       /\ RowConnections(old \cup {row}, h) = f.connections + RowConnections(old, h)
  <2>1. old \subseteq input.read /\ row \notin old
    BY DEF RowsOut
  <2>2. \A r \in input'.read : Flow(r, h).connections \in Int
    BY <1>2, <1>3
  <2> HIDE DEF old, h, f
  <2>3. /\ old \in SUBSET input'.read /\ old \cup {row} \in SUBSET input'.read
        /\ (old \cup {row}) \ {row} = old /\ row \in old \cup {row}
    BY <1>2, <2>1
  <2>4. /\ RowConnections(old, h) \in Int
        /\ RowConnections(old \cup {row}, h) = Flow(row, h).connections + RowConnections((old \cup {row}) \ {row}, h)
    BY <1>8, <2>2, <2>3, RowsLaws
  <2> QED
    BY <2>1, <2>3, <2>4 DEF f
<1> HIDE DEF h, vms, f, old
<1>12. Tallied(answer'.external) /\ Connections(ToPrivate(answer'.external)) = RowConnections(OutwardCalls', h)
  <2>1. CASE ~out
    BY <1>6, <1>7, <1>9, <2>1
  <2>2. CASE out
    <3> DEFINE new == Counted(answer.external, ByIp(vms, f.src), f.dst, f)
    <3>1. /\ Tallied(new)
          /\ Connections(ToPrivate(new))
               = Connections(ToPrivate(answer.external)) + (IF f.dst \in Private THEN f.connections ELSE 0)
      BY <1>7, <1>10, CountedSum
    <3>2. answer'.external = new
      BY <1>9, <2>2
    <3> HIDE DEF new
    <3>3. CASE row.dst \in Private
      BY <1>6, <1>7, <1>10, <1>11, <2>2, <3>1, <3>2, <3>3
    <3>4. CASE row.dst \notin Private
      BY <1>6, <1>7, <1>10, <1>11, <2>2, <3>1, <3>2, <3>4
    <3> QED
      BY <3>3, <3>4
  <2> QED
    BY <2>1, <2>2
<1> QED
  BY <1>2, <1>8, <1>12 DEF CountsKnown, h

\* Reading a row keeps what is known of all rows read.
LEMMA ReadRowStep ==
  ASSUME ReadingKnows, ReadRow
  PROVE  ReadingKnows'
<1>1. PICK row \in Rows \ input.read :
        /\ input' = [input EXCEPT !.read = @ \cup {row}]
        /\ answer' = IF IsFlow(row) THEN Account(answer, Flow(row, input.header), input.vms) ELSE answer
  BY DEF ReadRow
<1> DEFINE vms == input.vms
           f == Flow(row, input.header)
<1>2. doing = "reading" /\ doing' = "reading"
  BY DEF ReadRow
<1>3. PICK inv \in Inventories, header \in Headers, read \in SUBSET Rows :
        input = [vms |-> inv, header |-> header, read |-> read, wave |-> <<>>, declared |-> {}]
  BY <1>2 DEF ReadingKnows
<1>4. /\ input'.vms = vms /\ Names' = Names
      /\ \A c \in Calls' : c \in Calls \/ (c = f /\ IsFlow(row) /\ c.port \notin InfraPorts
                                           /\ c.connections >= MinConnections)
  BY <1>1, <1>2, RowAddsCall
<1>5. \E i \in Inventories, h \in Headers, r \in SUBSET Rows :
        input' = [vms |-> i, header |-> h, read |-> r, wave |-> <<>>, declared |-> {}]
  <2>1. read \cup {row} \in SUBSET Rows
    OBVIOUS
  <2>2. input' = [vms |-> inv, header |-> header, read |-> read \cup {row}, wave |-> <<>>, declared |-> {}]
    BY <1>1, <1>3
  <2> QED
    BY <2>1, <2>2
<1>6. f.connections \in Nat
  BY AnalysisAssumption DEF Flow
<1>7. vms \in Inventories /\ DOMAIN vms \subseteq Nat
  BY <1>3, AnalysisAssumption
<1>8. /\ IsReport(answer) /\ Entries(answer.pairs) /\ Entries(answer.external)
      /\ PairsKnown(answer.pairs) /\ ExternalKnown(answer.external)
  BY <1>2 DEF ReadingKnows
<1>9. CountsKnown(answer.external)'
  BY <1>1, <1>2, ReadRowCounts
<1>10. CASE ~IsFlow(row)
  <2>1. answer' = answer /\ \A c \in Calls' : c \in Calls
    BY <1>1, <1>4, <1>10
  <2> HIDE DEF vms, f
  <2>2. PairsKnown(answer.pairs)' /\ ExternalKnown(answer.external)'
    BY <1>4, <1>8, <2>1 DEF PairsKnown, ExternalKnown, vms
  <2> QED
    BY <1>5, <1>8, <1>9, <2>1, <2>2 DEF ReadingKnows
<1>11. CASE IsFlow(row)
  <2>1. answer' = Account(answer, f, vms)
    BY <1>1, <1>11
  <2>2. \A ip : Known(vms, ip) => ByIp(vms, ip) \in Names
    BY <1>7, OwnerIsNamed DEF Names
  <2>3. f \in Calls' \ Calls => Counts(f)
    BY <1>4, <1>6, AnalysisAssumption DEF Counts
  <2> HIDE DEF vms, f
  <2>4. /\ IsReport(answer')
        /\ answer'.pairs = IF Counts(f) /\ Inward(f, vms)
                           THEN Counted(answer.pairs, ByIp(vms, f.src), ByIp(vms, f.dst), f) ELSE answer.pairs
        /\ answer'.external = IF Counts(f) /\ Outward(f, vms)
                              THEN Counted(answer.external, ByIp(vms, f.src), f.dst, f) ELSE answer.external
    BY <1>8, <2>1, AccountFields
  <2>5. /\ Entries(answer'.pairs)
        /\ \A e \in answer.pairs : \E n \in answer'.pairs : n.source = e.source /\ n.target = e.target
        /\ \A n \in answer'.pairs : n \in answer.pairs \/
             (n.source \in Names /\ n.target \in Names /\ n.source # n.target)
        /\ Counts(f) /\ Inward(f, vms) =>
             \E d \in answer'.pairs : d.source = ByIp(vms, f.src) /\ d.target = ByIp(vms, f.dst)
    <3>1. CASE ~(Counts(f) /\ Inward(f, vms))
      BY <1>8, <2>4, <3>1
    <3>2. CASE Counts(f) /\ Inward(f, vms)
      BY <1>8, <2>2, <2>4, <3>2, CountedFacts DEF Inward
    <3> QED
      BY <3>1, <3>2
  <2>6. /\ Entries(answer'.external)
        /\ \A e \in answer.external : \E n \in answer'.external :
             n.source = e.source /\ n.target = e.target /\ e.ports \subseteq n.ports
        /\ Counts(f) /\ Outward(f, vms) =>
             \E e \in answer'.external : e.source = ByIp(vms, f.src) /\ e.target = f.dst /\ f.port \in e.ports
    <3>1. CASE ~(Counts(f) /\ Outward(f, vms))
      BY <1>8, <2>4, <3>1
    <3>2. CASE Counts(f) /\ Outward(f, vms)
      BY <1>8, <2>4, <3>2, CountedFacts
    <3> QED
      BY <3>1, <3>2
  <2>7. f \in Calls' \ Calls /\ Known(vms, f.src) =>
           IF Known(vms, f.dst)
           THEN ByIp(vms, f.src) # ByIp(vms, f.dst) =>
                  \E d \in answer'.pairs : d.source = ByIp(vms, f.src) /\ d.target = ByIp(vms, f.dst)
           ELSE \E e \in answer'.external : e.source = ByIp(vms, f.src) /\ e.target = f.dst /\ f.port \in e.ports
    BY <2>3, <2>5, <2>6 DEF Inward, Outward
  <2>8. \A c \in Calls' : c \in Calls \/ c = f
    BY <1>4
  <2>9. ASSUME NEW g \in Calls', Known(vms, g.src), Known(vms, g.dst), ByIp(vms, g.src) # ByIp(vms, g.dst)
        PROVE  \E d \in answer'.pairs : d.source = ByIp(vms, g.src) /\ d.target = ByIp(vms, g.dst)
    <3>1. CASE g \in Calls
      <4>1. PICK e \in answer.pairs : e.source = ByIp(vms, g.src) /\ e.target = ByIp(vms, g.dst)
        BY <1>8, <2>9, <3>1 DEF PairsKnown, vms
      <4> QED
        BY <2>5, <4>1
    <3>2. CASE g \notin Calls /\ g = f
      BY <2>7, <2>9, <3>2
    <3> QED
      BY <2>8, <3>1, <3>2
  <2>10. ASSUME NEW g \in Calls', Known(vms, g.src), ~Known(vms, g.dst)
         PROVE  \E e \in answer'.external : e.source = ByIp(vms, g.src) /\ e.target = g.dst /\ g.port \in e.ports
    <3>1. CASE g \in Calls
      <4>1. PICK e \in answer.external : e.source = ByIp(vms, g.src) /\ e.target = g.dst /\ g.port \in e.ports
        BY <1>8, <2>10, <3>1 DEF ExternalKnown, vms
      <4> QED
        BY <2>6, <4>1
    <3>2. CASE g \notin Calls /\ g = f
      BY <2>7, <2>10, <3>2
    <3> QED
      BY <2>8, <3>1, <3>2
  <2>11. \A d \in answer'.pairs : d.source \in Names' /\ d.target \in Names' /\ d.source # d.target
    BY <1>4, <1>8, <2>5 DEF PairsKnown
  <2>12. PairsKnown(answer.pairs)' /\ ExternalKnown(answer.external)'
    BY <1>4, <2>9, <2>10, <2>11 DEF PairsKnown, ExternalKnown
  <2> QED
    BY <1>5, <1>9, <2>4, <2>5, <2>6, <2>12 DEF ReadingKnows
<1> QED
  BY <1>10, <1>11
-----------------------------------------------------------------------------
(* The other steps of depends and of the hybrid stage.                        *)

\* An export that was just opened has no calls and an empty report.
LEMMA OpenExportStep ==
  ASSUME OpenExport
  PROVE  AnalysisInvariant'
<1>1. PICK vms \in Inventories, header \in Headers :
        /\ input' = [vms |-> vms, header |-> header, read |-> {}, wave |-> <<>>, declared |-> {}]
        /\ IF Required \subseteq header
           THEN doing' = "reading" /\ answer' = EmptyReport
           ELSE doing' = "refused" /\ answer' = Nothing
  BY DEF OpenExport
<1>2. CASE doing' = "refused"
  BY <1>2 DEF AnalysisInvariant, ReadingKnows, DependsKnows, PrivateCallsAreRouted, RecommendKnows, ConfidenceKnows, DiffKnows
<1>3. CASE doing' = "reading" /\ answer' = EmptyReport
  <2>1. Calls' = {}
    BY <1>1 DEF Calls, Seen
  <2>2. IsReport(answer') /\ answer'.pairs = {} /\ answer'.external = {}
    BY <1>3 DEF IsReport, Fields, EmptyReport
  <2>3. PairsKnown(answer.pairs)' /\ ExternalKnown(answer.external)'
    BY <2>1, <2>2 DEF PairsKnown, ExternalKnown
  <2>4. CountsKnown(answer.external)'
    <3>1. OutwardCalls' = {} /\ input'.read = {}
      BY <1>1 DEF OutwardCalls
    <3>2. IsFiniteSet({}) /\ ToPrivate({}) = {} /\ Tallied({})
      BY FS_EmptySet DEF ToPrivate, Tallied
    <3>3. Connections({}) = 0 /\ RowConnections({}, input'.header) = 0
      BY <3>2, ConnectionsLaws, RowsLaws
    <3> QED
      BY <2>2, <3>1, <3>2, <3>3 DEF CountsKnown
  <2>5. {} \in SUBSET Rows
    OBVIOUS
  <2>6. ReadingKnows'
    BY <1>1, <2>2, <2>3, <2>4, <2>5 DEF ReadingKnows, Entries
  <2> QED
    BY <1>3, <2>6 DEF AnalysisInvariant, DependsKnows, PrivateCallsAreRouted, RecommendKnows, ConfidenceKnows, DiffKnows
<1> QED
  BY <1>1, <1>2, <1>3

\* The report of depends is derived from what was known when the last row was read.
LEMMA DependsStep ==
  ASSUME ReadingKnows, Depends
  PROVE  AnalysisInvariant'
<1>1. PICK wave \in WavePlans :
        input' = [input EXCEPT !.wave = wave] /\ answer' = Reported(answer, input.vms, wave)
  BY DEF Depends
<1>2. doing = "reading" /\ doing' = "depends"
  BY DEF Depends
<1>3. PICK vms \in Inventories, header \in Headers, read \in SUBSET Rows :
        input = [vms |-> vms, header |-> header, read |-> read, wave |-> <<>>, declared |-> {}]
  BY <1>2 DEF ReadingKnows
<1>4. IsReport(answer) /\ PairsKnown(answer.pairs)
  BY <1>2 DEF ReadingKnows
<1>5. /\ input'.vms = input.vms /\ input'.header = input.header /\ input'.read = input.read
      /\ input'.wave = wave /\ input.vms \in Inventories
  BY <1>1, <1>3
<1>6. Calls' = Calls /\ Names' = Names
  BY <1>5 DEF Calls, Seen, Names
<1>7. /\ answer'.pairs = answer.pairs
      /\ answer'.together = MutualGroups(answer.pairs)
      /\ answer'.violations = WaveViolations(answer.pairs, wave)
  <2> DEFINE groups == MutualGroups(answer.pairs)
             cuts == WaveViolations(answer.pairs, wave)
             whole == [answer EXCEPT !.together = groups, !.violations = cuts]
             notes == Notes(whole, input.vms)
  <2>1. answer' = [whole EXCEPT !.notes = notes]
    BY <1>1 DEF Reported
  <2> HIDE DEF groups, cuts, notes
  <2>2. answer'.pairs = answer.pairs /\ answer'.together = groups /\ answer'.violations = cuts
    BY <1>4, <2>1 DEF IsReport, Fields
  <2> QED
    BY <2>2 DEF groups, cuts
<1>8. PairsKnown(answer.pairs)'
  BY <1>4, <1>5, <1>6, <1>7 DEF PairsKnown
<1>9. DependsKnows'
  BY <1>5, <1>7, <1>8 DEF DependsKnows
<1> QED
  BY <1>2, <1>9 DEF AnalysisInvariant, ReadingKnows, PrivateCallsAreRouted, RecommendKnows, ConfidenceKnows, DiffKnows

\* What an on-premises network says.
LEMMA OnPremFacts ==
  ASSUME NEW external, NEW net
  PROVE  /\ OnPrem(external, net).cidr = net
         /\ OnPrem(external, net).overlaps = (net \in Colliding)
         /\ OnPrem(external, net).addresses
              = {e.target : e \in {x \in external : x.target \in Private /\ NetOf[x.target] = net}}
         /\ \A e \in external : e.target \in Private /\ NetOf[e.target] = net =>
              e.source \in OnPrem(external, net).dependents /\ e.ports \subseteq OnPrem(external, net).ports
  BY DEF OnPrem

\* A private address that is called lies in one of the planned networks, and in no other.
LEMMA OneNetworkEach ==
  ASSUME NEW external, NEW declared, NEW e \in external, e.target \in Private
  PROVE  {n \in PlanHybrid(external, declared) : e.target \in n.addresses}
           = {OnPrem(external, NetOf[e.target])}
<1>1. OnPrem(external, NetOf[e.target]) \in PlanHybrid(external, declared)
  BY DEF PlanHybrid, Observed24
<1>2. e.target \in OnPrem(external, NetOf[e.target]).addresses
  BY OnPremFacts
<1>3. ASSUME NEW n \in PlanHybrid(external, declared), e.target \in n.addresses
      PROVE  n = OnPrem(external, NetOf[e.target])
  <2>1. PICK net : n = OnPrem(external, net)
    BY DEF PlanHybrid
  <2>2. NetOf[e.target] = net
    BY <1>3, <2>1, OnPremFacts
  <2> QED
    BY <2>1, <2>2
<1> QED
  BY <1>1, <1>2, <1>3
\* The calls into some networks.
Into(external, J) == {e \in ToPrivate(external) : NetOf[e.target] \in J}

\* A network counts the calls into it.
LEMMA OnPremCounts ==
  ASSUME NEW external, NEW net
  PROVE  OnPrem(external, net).connections = Connections(Into(external, {net})) /\ OnPrem(external, net).cidr = net
<1>1. Into(external, {net}) = {e \in external : e.target \in Private /\ NetOf[e.target] = net}
  BY DEF Into, ToPrivate
<1>2. OnPrem(external, net).connections =
         Connections({e \in external : e.target \in Private /\ NetOf[e.target] = net})
  BY DEF OnPrem, Connections
<1>3. OnPrem(external, net).cidr = net
  BY DEF OnPrem
<1> QED
  BY <1>1, <1>2, <1>3

\* The networks share out the connections to private addresses.
LEMMA NetworksShareOut ==
  ASSUME NEW external, Tallied(external), NEW declared, IsFiniteSet(declared)
  PROVE  Connections(PlanHybrid(external, declared)) = Connections(ToPrivate(external))
<1> DEFINE K == Observed24(external) \cup (declared \ {Bad})
           Nets(J) == {OnPrem(external, k) : k \in J}
<1>1. IsFiniteSet(ToPrivate(external)) /\ \A e \in ToPrivate(external) : e.connections \in Int
  BY FS_Subset DEF ToPrivate, Tallied
<1>2. IsFiniteSet(K)
  <2> DEFINE g == [e \in ToPrivate(external) |-> NetOf[e.target]]
  <2>1. g \in Surjection(ToPrivate(external), Observed24(external))
    BY DEF Surjection, Observed24, ToPrivate
  <2>2. IsFiniteSet(Observed24(external))
    BY <1>1, <2>1, FS_Surjection
  <2>3. IsFiniteSet(declared \ {Bad})
    BY FS_Difference
  <2> QED
    BY <2>2, <2>3, FS_Union
<1>3. PlanHybrid(external, declared) = Nets(K)
  BY DEF PlanHybrid
<1>4. Into(external, K) = ToPrivate(external)
  BY DEF Into, ToPrivate, Observed24
<1> HIDE DEF K
<1>5. IsFiniteSet(Nets(K))
  <2> DEFINE g == [k \in K |-> OnPrem(external, k)]
  <2>1. g \in Surjection(K, Nets(K))
    BY DEF Surjection
  <2> QED
    BY <1>2, <2>1, FS_Surjection
<1>6. \A J : Into(external, J) \in SUBSET ToPrivate(external)
  BY DEF Into
<1>7. \A n \in Nets(K) : n.connections \in Int
  <2> SUFFICES ASSUME NEW k \in K PROVE OnPrem(external, k).connections \in Int
    OBVIOUS
  <2>1. Into(external, {k}) \in SUBSET ToPrivate(external)
    BY <1>6
  <2>2. Connections(Into(external, {k})) \in Int
    BY <1>1, <2>1, ConnectionsLaws
  <2> QED
    BY <2>2, OnPremCounts
<1> DEFINE B == {J \in SUBSET K : Connections(Nets(J)) # Connections(Into(external, J))}
<1>8. B = {}
  <2> SUFFICES ASSUME B # {} PROVE FALSE
    OBVIOUS
  <2>1. PICK J \in B : \A t \in B : t \subseteq J => t = J
    <3>1. B \in SUBSET SUBSET K
      OBVIOUS
    <3> HIDE DEF B
    <3> QED
      BY <1>2, <3>1, SmallestSet
  <2>2. J # {}
    <3> SUFFICES ASSUME J = {} PROVE FALSE
      OBVIOUS
    <3>1. Nets(J) = {} /\ Into(external, J) = {}
      BY DEF Into
    <3> QED
      BY <3>1
  <2>3. PICK k \in J : TRUE
    BY <2>2
  <2> DEFINE I == J \ {k}
             n == OnPrem(external, k)
  <2>4. I \in SUBSET K /\ I \notin B
    BY <2>1
  <2>5. Connections(Nets(I)) = Connections(Into(external, I))
    BY <2>4
  <2>6. Nets(J) \ {n} = Nets(I) /\ n \in Nets(J) /\ Nets(J) \in SUBSET Nets(K)
    <3>1. ASSUME NEW i \in I PROVE OnPrem(external, i) # n
      <4>1. OnPrem(external, i).cidr = i /\ OnPrem(external, k).cidr = k
        BY OnPremCounts
      <4> QED
        BY <4>1
    <3> QED
      BY <3>1
  <2> HIDE DEF n, Nets
  <2>7. Connections(Nets(J)) = n.connections + Connections(Nets(I))
    <3>1. \A T \in SUBSET Nets(K) : \A x \in T : Connections(T) = x.connections + Connections(T \ {x})
      BY <1>5, <1>7, ConnectionsLaws
    <3> QED
      BY <2>6, <3>1
  <2>8. /\ Into(external, J) = Into(external, {k}) \cup Into(external, I)
        /\ Into(external, {k}) \cap Into(external, I) = {}
    BY DEF Into
  <2>9. Connections(Into(external, J)) = Connections(Into(external, {k})) + Connections(Into(external, I))
    <3> DEFINE P == Into(external, {k})
               Q == Into(external, I)
    <3>1. P \in SUBSET ToPrivate(external) /\ Q \in SUBSET ToPrivate(external)
      BY <1>6
    <3>2. Into(external, J) = P \cup Q /\ P \cap Q = {}
      BY <2>8
    <3> HIDE DEF P, Q
    <3>3. Connections(P \cup Q) = Connections(P) + Connections(Q)
      BY <1>1, <3>1, <3>2, ConnectionsLaws
    <3> QED
      BY <3>2, <3>3 DEF P, Q
  <2>10. n.connections = Connections(Into(external, {k}))
    BY OnPremCounts DEF n
  <2> QED
    BY <2>5, <2>7, <2>9, <2>10
<1>9. K \in SUBSET K
  OBVIOUS
<1> QED
  BY <1>3, <1>4, <1>8, <1>9

\* The hybrid stage routes every call to a private address that stays behind.
LEMMA HybridStep ==
  ASSUME ReadingKnows, Hybrid
  PROVE  AnalysisInvariant'
<1>1. PICK declared \in DeclaredSets :
        /\ input' = [input EXCEPT !.declared = declared]
        /\ answer' = [networks |-> PlanHybrid(answer.external, declared),
                      notes |-> HybridNotes(PlanHybrid(answer.external, declared)),
                      ports |-> AllPorts(PlanHybrid(answer.external, declared))]
  BY DEF Hybrid
<1> DEFINE external == answer.external
           nets == PlanHybrid(external, declared)
<1>2. doing = "reading" /\ doing' = "hybrid"
  BY DEF Hybrid
<1>3. PICK vms \in Inventories, header \in Headers, read \in SUBSET Rows :
        input = [vms |-> vms, header |-> header, read |-> read, wave |-> <<>>, declared |-> {}]
  BY <1>2 DEF ReadingKnows
<1>4. input'.vms = input.vms /\ input'.header = input.header /\ input'.read = input.read
  BY <1>1, <1>3
<1>5. Calls' = Calls /\ OutwardCalls' = OutwardCalls
  BY <1>4 DEF Calls, Seen, OutwardCalls
<1> HIDE DEF nets
<1>6. answer'.networks = nets /\ answer'.notes = HybridNotes(nets) /\ answer'.ports = AllPorts(nets)
  BY <1>1 DEF nets
<1>7. ASSUME NEW r \in OutwardCalls PROVE HasRoute(r)'
  <2>1. PICK e \in external : /\ e.source = ByIp(input.vms, r.src) /\ e.target = r.dst
                              /\ r.port \in e.ports /\ e.target \in Private
    <3>1. /\ Flow(r, input.header) \in Calls
          /\ Known(input.vms, r.src) /\ ~Known(input.vms, r.dst) /\ r.dst \in Private
      BY DEF OutwardCalls, Flow
    <3>2. /\ Flow(r, input.header).src = r.src /\ Flow(r, input.header).dst = r.dst
          /\ Flow(r, input.header).port = r.port
      BY DEF Flow
    <3> QED
      BY <1>2, <3>1, <3>2 DEF ReadingKnows, ExternalKnown
  <2> DEFINE n == OnPrem(external, NetOf[e.target])
  <2>2. {x \in nets : r.dst \in x.addresses} = {n}
    BY <2>1, OneNetworkEach DEF nets
  <2>3. /\ n.cidr = NetOf[e.target]
        /\ ByIp(input.vms, r.src) \in n.dependents /\ r.port \in n.ports
    BY <2>1, OnPremFacts
  <2> HIDE DEF n
  <2>4. Covering(r)' = {n}
    BY <1>6, <2>2 DEF Covering
  <2>5. Cardinality(Covering(r)') = 1
    BY <2>4, FS_Singleton
  <2>6. n \in nets
    BY <2>2
  <2>7. CASE n.overlaps
    <3>1. n.cidr \in HybridNotes(nets).reallocate
      BY <2>6, <2>7 DEF HybridNotes, Conflicts
    <3> QED
      BY <1>4, <1>6, <2>3, <2>4, <2>5, <2>7, <3>1 DEF HasRoute
  <2>8. CASE ~n.overlaps
    <3>1. n \in Routable(nets)
      BY <2>6, <2>8 DEF Routable
    <3>2. ByIp(input.vms, r.src) \in HybridNotes(nets).connect /\ r.port \in AllPorts(nets)
      BY <2>3, <3>1 DEF HybridNotes, AllPorts
    <3> QED
      BY <1>4, <1>6, <2>3, <2>4, <2>5, <2>8, <3>2 DEF HasRoute
  <2> QED
    BY <2>7, <2>8
<1>8. \A n \in nets : n.addresses \subseteq Private
  BY OnPremFacts DEF nets, PlanHybrid
<1>9. Routed'
  BY <1>5, <1>6, <1>7, <1>8 DEF Routed
<1>10. Connections(answer'.networks) = RowConnections(OutwardCalls', input'.header)
  <2>1. Tallied(external) /\ Connections(ToPrivate(external)) = RowConnections(OutwardCalls, input.header)
    BY <1>2 DEF ReadingKnows, CountsKnown
  <2>2. IsFiniteSet(declared)
    BY AnalysisAssumption
  <2> HIDE DEF external
  <2>3. Connections(nets) = Connections(ToPrivate(external))
    BY <2>1, <2>2, NetworksShareOut DEF nets
  <2> QED
    BY <1>4, <1>5, <1>6, <2>1, <2>3
<1>11. PrivateCallsAreRouted'
  BY <1>9, <1>10 DEF PrivateCallsAreRouted
<1> QED
  BY <1>2, <1>11 DEF AnalysisInvariant, ReadingKnows, DependsKnows, RecommendKnows, ConfidenceKnows, DiffKnows

\* A comparison answers with the diff of its two snapshots.
LEMMA CompareStep ==
  ASSUME Compare
  PROVE  AnalysisInvariant'
<1>1. PICK before \in Snapshots, after \in Snapshots :
        input' = [before |-> before, after |-> after] /\ answer' = Diff(before, after)
  BY DEF Compare
<1>2. doing' = "diff"
  BY DEF Compare
<1>3. input'.before = before /\ input'.after = after
  BY <1>1
<1>4. DiffKnows'
  BY <1>1, <1>3 DEF DiffKnows
<1> QED
  BY <1>2, <1>4 DEF AnalysisInvariant, ReadingKnows, DependsKnows, PrivateCallsAreRouted, RecommendKnows, ConfidenceKnows

-----------------------------------------------------------------------------
(* The confidence of a plan.                                                  *)

\* The sum a plan's average is made of.
LEMMA TotalIsSum ==
  ASSUME NEW w, IsFiniteSet(DOMAIN w)
  PROVE  Total(w) = SumOver(w, DOMAIN w)
<1> DEFINE S == DOMAIN w
           Eqn(g) == g = [s \in SUBSET S |-> IF s = {} THEN 0
             ELSE w[CHOOSE x \in s : TRUE] + g[s \ {CHOOSE x \in s : TRUE}]]
           k == CHOOSE g : Eqn(g)
<1>1. ASSUME NEW g PROVE Eqn(g) <=> Adds(w, S, g)
  BY DEF Adds, Rec, Pick
<1>2. Total(w) = k[S]
  BY DEF Total, FoldSeq, FoldFunction, FoldFunctionOnSet, MapThenFoldSet
<1> HIDE DEF Eqn, S
<1>3. \E g : Eqn(g)
  BY <1>1, AddsExists DEF S
<1>4. Adds(w, S, k)
  BY <1>1, <1>3
<1> HIDE DEF k
<1> DEFINE j == CHOOSE g : Adds(w, S, g)
<1>5. Adds(w, S, j) /\ SumOver(w, S) = j[S]
  BY AddsExists DEF SumOver, S
<1> HIDE DEF j
<1>6. \A u \in SUBSET S : k[u] = j[u]
  BY <1>4, <1>5, AddsAgree DEF S
<1>7. S \in SUBSET S
  OBVIOUS
<1> QED
  BY <1>2, <1>5, <1>6, <1>7 DEF S

\* A workload sized from its allocation scores 79.5 percent at most.
LEMMA AllocatedScoresLess ==
  ASSUME NEW vm
  PROVE  /\ Overall(vm) \in Int
         /\ SizingBasis(vm) # "observed" => Overall(vm) <= 7950
<1> DEFINE f == Factors(vm)
<1>1. /\ f.sizing \in {60, 90} /\ (SizingBasis(vm) # "observed" => f.sizing = 60)
      /\ f.classification \in {45, 75, 90} /\ f.image \in {35, 55, 90} /\ f.cost \in {70, 90}
  BY DEF Factors
<1>2. /\ FactorWeight.sizing = 35 /\ FactorWeight.classification = 25
      /\ FactorWeight.image = 20 /\ FactorWeight.cost = 20
  BY DEF FactorWeight
<1>3. Overall(vm) = 35 * f.sizing + 25 * f.classification + 20 * f.image + 20 * f.cost
  BY <1>2 DEF Overall
<1> HIDE DEF f
<1> QED
  BY <1>1, <1>3

\* So do any number of them together.
LEMMA SumBound ==
  ASSUME NEW S, IsFiniteSet(S), NEW w, \A x \in S : w[x] \in Int /\ w[x] <= 7950
  PROVE  SumOver(w, S) \in Int /\ SumOver(w, S) <= 7950 * Cardinality(S)
<1> DEFINE B == {T \in SUBSET S : ~(SumOver(w, T) <= 7950 * Cardinality(T))}
<1>1. ASSUME NEW T \in SUBSET S
      PROVE  SumOver(w, T) \in Int /\ IsFiniteSet(T) /\ Cardinality(T) \in Nat
  <2>1. IsFiniteSet(T)
    BY FS_Subset
  <2>2. Cardinality(T) \in Nat
    BY <2>1, FS_CardinalityType
  <2>3. SumOver(w, T) \in Int
    BY SumStep
  <2> QED
    BY <2>1, <2>2, <2>3
<1>2. B = {}
  <2> SUFFICES ASSUME B # {} PROVE FALSE
    OBVIOUS
  <2>1. PICK T \in B : \A t \in B : t \subseteq T => t = T
    <3>1. B \in SUBSET SUBSET S
      OBVIOUS
    <3> HIDE DEF B
    <3> QED
      BY <3>1, SmallestSet
  <2>2. T # {}
    <3>1. SumOver(w, {}) = 0 /\ Cardinality({}) = 0
      BY SumStep, FS_EmptySet
    <3> QED
      BY <3>1
  <2>3. PICK x \in T : TRUE
    BY <2>2
  <2> DEFINE U == T \ {x}
  <2>4. U \notin B /\ U \in SUBSET S
    BY <2>1
  <2>5. SumOver(w, U) <= 7950 * Cardinality(U)
    BY <2>4
  <2>6. SumOver(w, T) = w[x] + SumOver(w, U)
    BY SumStep
  <2>7. Cardinality(T) = Cardinality(U) + 1
    <3>1. IsFiniteSet(T) /\ Cardinality(U) = Cardinality(T) - 1
      BY <1>1, FS_RemoveElement
    <3> QED
      BY <1>1, <2>4, <3>1
  <2>8. w[x] \in Int /\ w[x] <= 7950 /\ SumOver(w, U) \in Int /\ Cardinality(U) \in Nat
    BY <1>1, <2>4
  <2>9. ~(SumOver(w, T) <= 7950 * Cardinality(T))
    OBVIOUS
  <2> HIDE DEF B, U
  <2> QED
    BY <2>5, <2>6, <2>7, <2>8, <2>9
<1>3. S \in SUBSET S
  OBVIOUS
<1> QED
  BY <1>1, <1>2, <1>3

\* An average of such scores is not a high one.
LEMMA RoundBound ==
  ASSUME NEW n \in Int, NEW d \in Nat, d > 0, n <= 7950 * d
  PROVE  Round(n, d) < 8000
<1> DEFINE q == (2 * n + d) \div (2 * d)
<1>1. q \in Int /\ (2 * d) * q <= 2 * n + d
  OBVIOUS
<1>2. Round(n, d) = q
  BY DEF Round
<1> HIDE DEF q
<1>3. SUFFICES ASSUME q >= 8000 PROVE FALSE
  BY <1>1, <1>2
<1>4. (2 * d) * q >= (2 * d) * 8000
  BY <1>1, <1>3
<1> QED
  BY <1>1, <1>4

\* What is rated high was measured.
LEMMA RatingIsEarned ==
  ASSUME ConfidenceKnows
  PROVE  HighMeansMeasured
<1> SUFFICES ASSUME doing = "confidence" PROVE HighMeansMeasured
  BY DEF HighMeansMeasured
<1> DEFINE vms == input.vms
           w == [i \in DOMAIN vms |-> Overall(vms[i])]
           overall == IF vms = <<>> THEN 0 ELSE Round(Total(w), Len(vms))
<1>1. vms \in Seq({vms[i] : i \in DOMAIN vms}) /\ answer = ScorePlan(vms)
  BY AnalysisAssumption DEF ConfidenceKnows
<1>2. Len(vms) \in Nat /\ DOMAIN vms = 1..Len(vms) /\ (vms # <<>> => Len(vms) > 0)
  <2> HIDE DEF vms
  <2> QED
    BY <1>1
<1>3. /\ answer.level = Level(overall)
      /\ answer.levels = [i \in DOMAIN vms |-> Level(Overall(vms[i]))]
      /\ answer.decisions = [i \in DOMAIN vms |-> Decision(vms[i])]
  BY <1>1 DEF ScorePlan
<1> HIDE DEF overall
<1>4. \A i \in DOMAIN vms : answer.decisions[i].basis = SizingBasis(vms[i])
  BY <1>3 DEF Decision
<1>5. ASSUME NEW i \in DOMAIN vms, answer.levels[i] = "high"
      PROVE  answer.decisions[i].basis = "observed"
  <2>1. Level(Overall(vms[i])) = "high" /\ Overall(vms[i]) \in Int
    BY <1>3, <1>5, AllocatedScoresLess
  <2>2. Overall(vms[i]) >= 8000
    BY <2>1 DEF Level
  <2>3. SizingBasis(vms[i]) = "observed"
    BY <2>1, <2>2, AllocatedScoresLess
  <2> QED
    BY <1>4, <2>3
<1>6. ASSUME answer.level = "high", \A i \in DOMAIN vms : answer.decisions[i].basis # "observed"
      PROVE  FALSE
  <2>1. \A i \in DOMAIN vms : w[i] \in Int /\ w[i] <= 7950
    BY <1>4, <1>6, AllocatedScoresLess
  <2>2. IsFiniteSet(DOMAIN vms) /\ Cardinality(DOMAIN vms) = Len(vms) /\ DOMAIN w = DOMAIN vms
    <3>1. DOMAIN w = DOMAIN vms
      OBVIOUS
    <3>2. Len(vms) \in Int /\ 1 \in Int /\ Len(vms) \in Nat
      BY <1>2
    <3> HIDE DEF vms
    <3>3. IsFiniteSet(1..Len(vms)) /\ Cardinality(1..Len(vms)) = Len(vms)
      <4> DEFINE n == Len(vms)
      <4>1. n \in Nat /\ n \in Int /\ 1 \in Int
        BY <3>2
      <4> HIDE DEF n
      <4>2. IsFiniteSet(1..n) /\ Cardinality(1..n) = IF 1 > n THEN 0 ELSE n - 1 + 1
        BY ONLY <4>1, FS_Interval
      <4>3. (IF 1 > n THEN 0 ELSE n - 1 + 1) = n
        BY ONLY <4>1
      <4> QED
        BY <4>2, <4>3 DEF n
    <3> QED
      BY <1>2, <3>1, <3>3
  <2> HIDE DEF w
  <2>3. Total(w) \in Int /\ Total(w) <= 7950 * Len(vms)
    <3>1. Total(w) = SumOver(w, DOMAIN vms)
      BY <2>2, TotalIsSum
    <3>2. SumOver(w, DOMAIN vms) \in Int /\ SumOver(w, DOMAIN vms) <= 7950 * Cardinality(DOMAIN vms)
      BY <2>1, <2>2, SumBound
    <3> QED
      BY <2>2, <3>1, <3>2
  <2>4. vms # <<>> => Round(Total(w), Len(vms)) < 8000
    BY <1>2, <2>3, RoundBound
  <2>5. vms # <<>> => Round(Total(w), Len(vms)) \in Int
    BY <1>2, <2>3 DEF Round
  <2>6. overall \in Int /\ overall < 8000
    BY <2>4, <2>5 DEF overall
  <2>7. Level(overall) # "high"
    BY <2>6 DEF Level
  <2> QED
    BY <1>3, <1>6, <2>7
<1> QED
  BY <1>5, <1>6 DEF HighMeansMeasured

-----------------------------------------------------------------------------
(* The diff of two snapshots.                                                 *)

\* A snapshot of an inventory: a list in which no name and no UUID is repeated.
IsSnapshot(s) ==
  /\ Len(s) \in Nat /\ DOMAIN s = 1..Len(s)
  /\ \A i, j \in DOMAIN s : i # j =>
       s[i].name # s[j].name /\ (s[i].uuid = NoUuid \/ s[i].uuid # s[j].uuid)

\* The names of the machines at some positions, those of the later ones of some pairs,
\* and the machines a diff reports as renamed or modified.
NamesAt(list, I) == {list[i].name : i \in I}
NamesNow(after, K) == {after[p[2]].name : p \in K}
Kept(d) == d.modified \cup {r[2] : r \in d.renamed}

\* A function that takes no value twice has as many values as arguments.
LEMMA ImageSize ==
  ASSUME NEW S, IsFiniteSet(S), NEW f, DOMAIN f = S, \A x, y \in S : f[x] = f[y] => x = y
  PROVE  IsFiniteSet({f[x] : x \in S}) /\ Cardinality({f[x] : x \in S}) = Cardinality(S)
<1> DEFINE g == [x \in S |-> f[x]]
           T == {f[x] : x \in S}
<1>1. g \in Bijection(S, T)
  BY DEF Bijection, Injection, Surjection, IsInjective
<1>2. ExistsBijection(S, T)
  BY <1>1 DEF ExistsBijection
<1> QED
  BY <1>2, FS_Bijection

\* A set and what it leaves of a finite one add up.
LEMMA PartsAddUp ==
  ASSUME NEW S, IsFiniteSet(S), NEW T \in SUBSET S
  PROVE  /\ IsFiniteSet(T) /\ IsFiniteSet(S \ T)
         /\ Cardinality(T) \in Nat /\ Cardinality(S \ T) \in Nat
         /\ Cardinality(T) + Cardinality(S \ T) = Cardinality(S)
<1>1. IsFiniteSet(T) /\ IsFiniteSet(S \ T)
  BY FS_Subset, FS_Difference
<1>2. S \cap T = T
  OBVIOUS
<1>3. Cardinality(S \ T) = Cardinality(S) - Cardinality(T)
  BY <1>2, FS_Difference
<1>4. Cardinality(T) \in Nat /\ Cardinality(S \ T) \in Nat /\ Cardinality(S) \in Nat
  BY <1>1, FS_CardinalityType
<1> QED
  BY <1>1, <1>3, <1>4

\* Machines of a snapshot and their names are equally many.
LEMMA NamesCount ==
  ASSUME NEW list, IsSnapshot(list), NEW I \in SUBSET DOMAIN list
  PROVE  /\ IsFiniteSet(I)
         /\ Cardinality(NamesAt(list, I)) = Cardinality(I)
<1>1. IsFiniteSet(DOMAIN list)
  BY FS_Interval DEF IsSnapshot
<1>2. IsFiniteSet(I)
  BY <1>1, FS_Subset
<1> DEFINE f == [i \in I |-> list[i].name]
<1>3. DOMAIN f = I /\ \A x, y \in I : f[x] = f[y] => x = y
  BY DEF IsSnapshot
<1>4. {f[i] : i \in I} = NamesAt(list, I)
  BY DEF NamesAt
<1> HIDE DEF f
<1>5. Cardinality({f[i] : i \in I}) = Cardinality(I)
  BY <1>2, <1>3, ImageSize
<1> QED
  BY <1>2, <1>4, <1>5

\* One side of a matching: the machines that were matched and the ones that were not.
LEMMA SideSize ==
  ASSUME NEW list, IsSnapshot(list), NEW pairs, NEW pick \in [pairs -> DOMAIN list],
         \A p, q \in pairs : pick[p] = pick[q] => p = q,
         NEW rest, rest = DOMAIN list \ {pick[p] : p \in pairs}
  PROVE  /\ IsFiniteSet(pairs) /\ Cardinality(pairs) \in Nat
         /\ Cardinality(NamesAt(list, rest)) + Cardinality(pairs) = Len(list)
<1>1. IsFiniteSet(DOMAIN list) /\ Cardinality(DOMAIN list) = Len(list)
  <2>1. Len(list) \in Int /\ DOMAIN list = 1..Len(list) /\ Len(list) \in Nat
    BY DEF IsSnapshot
  <2>2. IsFiniteSet(1..Len(list)) /\ Cardinality(1..Len(list)) = Len(list)
    BY <2>1, FS_Interval
  <2> QED
    BY <2>1, <2>2
<1>2. pick \in Injection(pairs, DOMAIN list)
  BY DEF Injection, IsInjective
<1>3. IsFiniteSet(pairs)
  BY <1>1, <1>2, FS_Injection
<1> DEFINE used == {pick[p] : p \in pairs}
<1>4. Cardinality(used) = Cardinality(pairs)
  BY <1>3, ImageSize
<1>5. used \in SUBSET DOMAIN list
  OBVIOUS
<1>6. rest = DOMAIN list \ used /\ rest \in SUBSET DOMAIN list
  OBVIOUS
<1>7. Cardinality(NamesAt(list, rest)) = Cardinality(rest)
  BY <1>6, NamesCount
<1> HIDE DEF used
<1>8. /\ Cardinality(used) + Cardinality(rest) = Cardinality(DOMAIN list)
      /\ Cardinality(used) \in Nat /\ Cardinality(rest) \in Nat
  BY <1>1, <1>5, <1>6, PartsAddUp
<1> QED
  BY <1>1, <1>3, <1>4, <1>7, <1>8

\* Without twins a dictionary keyed by name keeps every machine.
LEMMA LastIsAll ==
  ASSUME NEW list, IsSnapshot(list), ~HasTwins(list), NEW I \in SUBSET DOMAIN list
  PROVE  LastOf(list, I) = I
  BY DEF LastOf, HasTwins, IsSnapshot

\* _pairs matches each machine with at most one of the other snapshot, and what it
\* does not match is gone or new.
LEMMA MatchingIsExact ==
  ASSUME NEW before, IsSnapshot(before), ~HasTwins(before),
         NEW after, IsSnapshot(after), ~HasTwins(after),
         NEW m, m = Pairs(before, after)
  PROVE  /\ m.pairs \subseteq (DOMAIN before) \X (DOMAIN after)
         /\ \A p, q \in m.pairs : p[1] = q[1] <=> p[2] = q[2]
         /\ m.gone = DOMAIN before \ {p[1] : p \in m.pairs}
         /\ m.new = DOMAIN after \ {p[2] : p \in m.pairs}
<1> DEFINE same  == {p \in (DOMAIN before) \X (DOMAIN after) : Matches(before[p[1]], after[p[2]])}
           b     == DOMAIN before \ {p[1] : p \in same}
           a     == DOMAIN after \ {p[2] : p \in same}
           named == {p \in b \X a : Key(before[p[1]]) = Key(after[p[2]])}
<1>1. LastOf(before, b) = b /\ LastOf(after, a) = a
  BY LastIsAll
<1>2. /\ m.pairs = same \cup named
      /\ m.gone = b \ {p[1] : p \in named} /\ m.new = a \ {p[2] : p \in named}
  BY <1>1 DEF Pairs
<1>3. \A p \in same : p[1] \in DOMAIN before /\ p[2] \in DOMAIN after /\ Matches(before[p[1]], after[p[2]])
  OBVIOUS
<1>4. \A p, q \in same : p[1] = q[1] <=> p[2] = q[2]
  BY <1>3 DEF Matches, IsSnapshot
<1>5. \A p \in named : p[1] \in b /\ p[2] \in a /\ Key(before[p[1]]) = Key(after[p[2]])
  OBVIOUS
<1>6. \A p, q \in named : p[1] = q[1] <=> p[2] = q[2]
  BY <1>5 DEF HasTwins
<1>7. \A p \in same, q \in named : p[1] # q[1] /\ p[2] # q[2]
  BY <1>5
<1>8. m.pairs \subseteq (DOMAIN before) \X (DOMAIN after)
  BY <1>2
<1>9. m.gone = DOMAIN before \ {p[1] : p \in m.pairs} /\ m.new = DOMAIN after \ {p[2] : p \in m.pairs}
  BY <1>2
<1>10. \A p, q \in m.pairs : p[1] = q[1] <=> p[2] = q[2]
  <2> HIDE DEF same, named
  <2> QED
    BY <1>2, <1>4, <1>6, <1>7
<1> QED
  BY <1>8, <1>9, <1>10
\* The pairs a diff reports, as renamed, as modified or as both.
Differ(before, after, m) ==
  {p \in m.pairs : Key(before[p[1]]) # Key(after[p[2]]) \/ before[p[1]].spec # after[p[2]].spec}

\* What the diff d says of the matching m.
Tells(before, after, m, d) ==
  /\ d.added = NamesAt(after, m.new)
  /\ d.removed = NamesAt(before, m.gone)
  /\ Kept(d) = NamesNow(after, Differ(before, after, m))
  /\ d.unchanged = Cardinality(m.pairs \ Differ(before, after, m))
  /\ Differ(before, after, m) = {} => d.renamed = {} /\ d.modified = {}

\* diff_inventories reports what _pairs matched and what it did not.
LEMMA DiffFields ==
  ASSUME NEW before, NEW after
  PROVE  Tells(before, after, Pairs(before, after), Diff(before, after))
<1> DEFINE m == Pairs(before, after)
           d == Diff(before, after)
<1>1. /\ d.added = {after[i].name : i \in m.new}
      /\ d.removed = {before[i].name : i \in m.gone}
      /\ d.renamed = {<<before[p[1]].name, after[p[2]].name>> :
                        p \in {q \in m.pairs : Key(before[q[1]]) # Key(after[q[2]])}}
      /\ d.modified = {after[p[2]].name : p \in {q \in m.pairs : before[q[1]].spec # after[q[2]].spec}}
      /\ d.unchanged = Cardinality({p \in m.pairs : ~(Key(before[p[1]]) # Key(after[p[2]]))
                                                    /\ ~(before[p[1]].spec # after[p[2]].spec)})
  BY DEF Diff
<1> HIDE DEF m, d
<1>2. {p \in m.pairs : ~(Key(before[p[1]]) # Key(after[p[2]])) /\ ~(before[p[1]].spec # after[p[2]].spec)}
        = m.pairs \ Differ(before, after, m)
  BY DEF Differ
<1>3. d.unchanged = Cardinality(m.pairs \ Differ(before, after, m))
  BY <1>1, <1>2
<1>4. {r[2] : r \in d.renamed}
        = {after[p[2]].name : p \in {q \in m.pairs : Key(before[q[1]]) # Key(after[q[2]])}}
  <2> DEFINE R == {q \in m.pairs : Key(before[q[1]]) # Key(after[q[2]])}
  <2>1. d.renamed = {<<before[p[1]].name, after[p[2]].name>> : p \in R}
    BY <1>1
  <2> HIDE DEF R
  <2>2. ASSUME NEW x \in {r[2] : r \in d.renamed} PROVE x \in {after[p[2]].name : p \in R}
    BY <2>1
  <2>3. ASSUME NEW p \in R PROVE after[p[2]].name \in {r[2] : r \in d.renamed}
    <3>1. <<before[p[1]].name, after[p[2]].name>> \in d.renamed
      BY <2>1
    <3> QED
      BY <3>1
  <2>4. {r[2] : r \in d.renamed} = {after[p[2]].name : p \in R}
    BY <2>2, <2>3
  <2> QED
    BY <2>4 DEF R
<1>5. Kept(d) = NamesNow(after, Differ(before, after, m))
  BY <1>1, <1>4 DEF Differ, Kept, NamesNow
<1>6. ASSUME Differ(before, after, m) = {} PROVE d.renamed = {} /\ d.modified = {}
  BY <1>1, <1>6 DEF Differ
<1>7. d.added = NamesAt(after, m.new) /\ d.removed = NamesAt(before, m.gone)
  BY <1>1 DEF NamesAt
<1> QED
  <2>1. Tells(before, after, m, d)
    BY <1>3, <1>5, <1>6, <1>7 DEF Tells
  <2> QED
    BY <2>1 DEF m, d

\* The counts of a diff add up to the machines of either snapshot.
LEMMA DiffCounts ==
  ASSUME NEW before, IsSnapshot(before), ~HasTwins(before),
         NEW after, IsSnapshot(after), ~HasTwins(after), NEW d, d = Diff(before, after)
  PROVE  /\ Cardinality(d.added) + Cardinality(Kept(d)) + d.unchanged = Len(after)
         /\ Cardinality(d.removed) + Cardinality(Kept(d)) + d.unchanged = Len(before)
         /\ d.added \cap Kept(d) = {}
<1> DEFINE m == Pairs(before, after)
           K == Differ(before, after, m)
           first == [p \in m.pairs |-> p[1]]
           second == [p \in m.pairs |-> p[2]]
<1>1. /\ m.pairs \subseteq (DOMAIN before) \X (DOMAIN after)
      /\ \A p, q \in m.pairs : p[1] = q[1] <=> p[2] = q[2]
      /\ m.gone = DOMAIN before \ {p[1] : p \in m.pairs}
      /\ m.new = DOMAIN after \ {p[2] : p \in m.pairs}
  BY MatchingIsExact
<1>2. Tells(before, after, m, d)
  BY DiffFields
<1> HIDE DEF m
<1>3. /\ d.added = NamesAt(after, m.new) /\ d.removed = NamesAt(before, m.gone)
      /\ Kept(d) = NamesNow(after, K) /\ d.unchanged = Cardinality(m.pairs \ K)
  BY <1>2 DEF Tells
<1>4. \A p, q \in m.pairs : p[1] = q[1] \/ p[2] = q[2] => p = q
  <2>1. \A p \in m.pairs : p = <<p[1], p[2]>>
    BY <1>1
  <2> QED
    BY <1>1, <2>1
<1>5. K \subseteq m.pairs
  BY DEF Differ
<1> HIDE DEF K
<1>6. /\ first \in [m.pairs -> DOMAIN before] /\ \A p, q \in m.pairs : first[p] = first[q] => p = q
      /\ m.gone = DOMAIN before \ {first[p] : p \in m.pairs}
  <2>1. first \in [m.pairs -> DOMAIN before] /\ \A p \in m.pairs : first[p] = p[1]
    BY <1>1
  <2> HIDE DEF first
  <2>2. \A p, q \in m.pairs : first[p] = first[q] => p = q
    BY <1>4, <2>1
  <2>3. {first[p] : p \in m.pairs} = {p[1] : p \in m.pairs}
    BY <2>1
  <2> QED
    BY <1>1, <2>1, <2>2, <2>3
<1>7. /\ second \in [m.pairs -> DOMAIN after] /\ \A p, q \in m.pairs : second[p] = second[q] => p = q
      /\ m.new = DOMAIN after \ {second[p] : p \in m.pairs}
  <2>1. second \in [m.pairs -> DOMAIN after] /\ \A p \in m.pairs : second[p] = p[2]
    BY <1>1
  <2> HIDE DEF second
  <2>2. \A p, q \in m.pairs : second[p] = second[q] => p = q
    BY <1>4, <2>1
  <2>3. {second[p] : p \in m.pairs} = {p[2] : p \in m.pairs}
    BY <2>1
  <2> QED
    BY <1>1, <2>1, <2>2, <2>3
<1>8. \A p \in m.pairs : second[p] = p[2]
  OBVIOUS
<1> HIDE DEF first, second
<1>9. /\ IsFiniteSet(m.pairs) /\ Cardinality(m.pairs) \in Nat
      /\ Cardinality(d.removed) + Cardinality(m.pairs) = Len(before)
  BY <1>3, <1>6, SideSize
<1>10. Cardinality(d.added) + Cardinality(m.pairs) = Len(after)
  BY <1>3, <1>7, SideSize
<1>11. Cardinality(Kept(d)) = Cardinality(K) /\ IsFiniteSet(K)
  <2>1. IsFiniteSet(K)
    BY <1>5, <1>9, FS_Subset
  <2> DEFINE label == [p \in K |-> after[p[2]].name]
  <2>2. DOMAIN label = K /\ \A p, q \in K : label[p] = label[q] => p = q
    <3>1. \A p \in K : p \in m.pairs /\ p[2] \in DOMAIN after
      BY <1>1, <1>5
    <3> QED
      BY <1>4, <3>1 DEF IsSnapshot
  <2>3. {label[p] : p \in K} = Kept(d)
    BY <1>3 DEF NamesNow
  <2> HIDE DEF label
  <2> QED
    BY <2>1, <2>2, <2>3, ImageSize
<1>12. /\ Cardinality(K) + Cardinality(m.pairs \ K) = Cardinality(m.pairs)
       /\ Cardinality(K) \in Nat /\ Cardinality(m.pairs \ K) \in Nat
  BY <1>5, <1>9, PartsAddUp
<1>13. Cardinality(d.added) \in Nat /\ Cardinality(d.removed) \in Nat
  <2>1. m.new \in SUBSET DOMAIN after /\ m.gone \in SUBSET DOMAIN before
    BY <1>1
  <2>2. IsFiniteSet(m.new) /\ Cardinality(d.added) = Cardinality(m.new)
    BY <1>3, <2>1, NamesCount
  <2>3. IsFiniteSet(m.gone) /\ Cardinality(d.removed) = Cardinality(m.gone)
    BY <1>3, <2>1, NamesCount
  <2> QED
    BY <2>2, <2>3, FS_CardinalityType
<1>14. d.added \cap Kept(d) = {}
  <2>1. ASSUME NEW i \in m.new, NEW p \in K PROVE after[i].name # after[p[2]].name
    <3>1. i \in DOMAIN after /\ p[2] \in DOMAIN after /\ i # p[2]
      BY <1>1, <1>5
    <3> QED
      BY <3>1 DEF IsSnapshot
  <2>2. NamesAt(after, m.new) \cap NamesNow(after, K) = {}
    BY <2>1 DEF NamesAt, NamesNow
  <2> QED
    BY <1>3, <2>2
<1> QED
  BY <1>3, <1>9, <1>10, <1>11, <1>12, <1>13, <1>14

\* A machine whose UUID is in both snapshots is neither gone nor new.
LEMMA MatchedStays ==
  ASSUME NEW before, IsSnapshot(before), NEW after, IsSnapshot(after), NEW d, d = Diff(before, after),
         NEW i \in DOMAIN before, NEW j \in DOMAIN after, Matches(before[i], after[j])
  PROVE  before[i].name \notin d.removed /\ after[j].name \notin d.added
<1> DEFINE m == Pairs(before, after)
           same == {p \in (DOMAIN before) \X (DOMAIN after) : Matches(before[p[1]], after[p[2]])}
<1>1. m.gone \subseteq DOMAIN before \ {p[1] : p \in same} /\ m.new \subseteq DOMAIN after \ {p[2] : p \in same}
  BY DEF Pairs, LastOf
<1>2. <<i, j>> \in same
  OBVIOUS
<1>3. i \in {p[1] : p \in same} /\ j \in {p[2] : p \in same}
  BY <1>2
<1>4. d.added = NamesAt(after, m.new) /\ d.removed = NamesAt(before, m.gone)
  <2>1. Tells(before, after, m, d)
    BY DiffFields
  <2> HIDE DEF m
  <2> QED
    BY <2>1 DEF Tells
<1> HIDE DEF m, same
<1>5. ASSUME NEW k \in m.gone PROVE before[k].name # before[i].name
  BY <1>1, <1>3 DEF IsSnapshot
<1>6. ASSUME NEW k \in m.new PROVE after[k].name # after[j].name
  BY <1>1, <1>3 DEF IsSnapshot
<1> QED
  BY <1>4, <1>5, <1>6 DEF NamesAt

\* A snapshot does not differ from itself.
LEMMA SameIsSame ==
  ASSUME NEW s, IsSnapshot(s), NEW d, d = Diff(s, s)
  PROVE  d.added = {} /\ d.removed = {} /\ d.renamed = {} /\ d.modified = {}
<1> DEFINE m == Pairs(s, s)
           same == {p \in (DOMAIN s) \X (DOMAIN s) : Matches(s[p[1]], s[p[2]])}
           b == LastOf(s, DOMAIN s \ {p[1] : p \in same})
           a == LastOf(s, DOMAIN s \ {p[2] : p \in same})
           named == {p \in b \X a : Key(s[p[1]]) = Key(s[p[2]])}
<1>1. m.pairs = same \cup named /\ m.gone = b \ {p[1] : p \in named} /\ m.new = a \ {p[2] : p \in named}
  BY DEF Pairs
<1>2. \A p \in same : p[1] = p[2]
  BY DEF Matches, IsSnapshot
<1>3. {p[1] : p \in same} = {p[2] : p \in same}
  BY <1>2
<1>4. a = b
  BY <1>3
<1>5. b \subseteq DOMAIN s /\ \A i, j \in b : Key(s[i]) = Key(s[j]) => i = j
  BY DEF LastOf, IsSnapshot
<1> HIDE DEF b, a, same, m
<1>6. \A p \in named : p[1] = p[2]
  BY <1>4, <1>5
<1>7. \A i \in b : <<i, i>> \in named
  BY <1>4
<1>8. m.gone = {} /\ m.new = {}
  <2> HIDE DEF named
  <2>1. ASSUME NEW i \in b PROVE i \in {p[1] : p \in named} /\ i \in {p[2] : p \in named}
    <3>1. <<i, i>> \in named /\ <<i, i>>[1] = i /\ <<i, i>>[2] = i
      BY <1>7
    <3> QED
      BY <3>1
  <2> QED
    BY <1>1, <1>4, <2>1
<1>9. Differ(s, s, m) = {}
  BY <1>1, <1>2, <1>6 DEF Differ
<1>10. Tells(s, s, m, d)
  BY DiffFields DEF m
<1>11. /\ d.added = NamesAt(s, m.new) /\ d.removed = NamesAt(s, m.gone)
       /\ Differ(s, s, m) = {} => d.renamed = {} /\ d.modified = {}
  BY <1>10 DEF Tells
<1> QED
  BY <1>8, <1>9, <1>11 DEF NamesAt

\* The answer of a comparison accounts for both snapshots.
LEMMA DiffIsComplete ==
  ASSUME DiffKnows
  PROVE  DiffIsWhole
<1> SUFFICES ASSUME doing = "diff" PROVE DiffIsWhole
  BY DEF DiffIsWhole
<1>1. IsSnapshot(input.before) /\ IsSnapshot(input.after) /\ answer = Diff(input.before, input.after)
  BY AnalysisAssumption DEF DiffKnows, IsSnapshot
<1>2. ~HasTwins(input.before) /\ ~HasTwins(input.after) =>
        /\ Cardinality(answer.added) + Cardinality(Kept(answer)) + answer.unchanged = Len(input.after)
        /\ Cardinality(answer.removed) + Cardinality(Kept(answer)) + answer.unchanged = Len(input.before)
        /\ answer.added \cap Kept(answer) = {}
  BY <1>1, DiffCounts
<1>3. \A i \in DOMAIN input.before, j \in DOMAIN input.after :
        Matches(input.before[i], input.after[j]) =>
          /\ input.before[i].name \notin answer.removed
          /\ input.after[j].name \notin answer.added
  BY <1>1, MatchedStays
<1>4. input.before = input.after =>
        /\ answer.added = {} /\ answer.removed = {} /\ answer.renamed = {} /\ answer.modified = {}
  BY <1>1, SameIsSame
<1> QED
  BY <1>2, <1>3, <1>4 DEF DiffIsWhole, Kept

-----------------------------------------------------------------------------
(* Lists in order.                                                            *)

\* An order in which of two members one comes first.
Orders(R, S) ==
  /\ \A s \in S : <<s, s>> \notin R
  /\ \A s, t, u \in S : <<s, t>> \in R /\ <<t, u>> \in R => <<s, u>> \in R
  /\ \A s, t \in S : s = t \/ <<s, t>> \in R \/ <<t, s>> \in R
Below(S, R, s) == {t \in S : <<t, s>> \in R}
Less(I) == {p \in I \X I : p[1] < p[2]}

\* The numbers up to n are n.
LEMMA UpTo ==
  ASSUME NEW n \in Nat
  PROVE  IsFiniteSet(1..n) /\ Cardinality(1..n) = n
<1>1. IsFiniteSet(1..n) /\ Cardinality(1..n) = IF 1 > n THEN 0 ELSE n - 1 + 1
  BY FS_Interval
<1> QED
  BY <1>1

\* Who comes later has more before him.
LEMMA LaterHasMoreBefore ==
  ASSUME NEW S, IsFiniteSet(S), NEW R, Orders(R, S)
  PROVE  /\ \A s \in S : Cardinality(Below(S, R, s)) \in 0..(Cardinality(S) - 1)
         /\ \A s, t \in S : <<s, t>> \in R => Cardinality(Below(S, R, s)) < Cardinality(Below(S, R, t))
<1>1. \A s \in S : IsFiniteSet(Below(S, R, s)) /\ Cardinality(Below(S, R, s)) \in Nat
  BY FS_Subset, FS_CardinalityType DEF Below
<1>2. Cardinality(S) \in Nat
  BY FS_CardinalityType
<1>3. ASSUME NEW s \in S PROVE Cardinality(Below(S, R, s)) \in 0..(Cardinality(S) - 1)
  <2>1. Below(S, R, s) \in SUBSET S /\ Below(S, R, s) # S
    BY DEF Below, Orders
  <2>2. Cardinality(Below(S, R, s)) <= Cardinality(S) /\ Cardinality(Below(S, R, s)) # Cardinality(S)
    BY <2>1, FS_Subset
  <2> QED
    BY <1>1, <1>2, <2>2
<1>4. ASSUME NEW s \in S, NEW t \in S, <<s, t>> \in R
      PROVE  Cardinality(Below(S, R, s)) < Cardinality(Below(S, R, t))
  <2>1. s \in Below(S, R, t) /\ s \notin Below(S, R, s)
    BY <1>4 DEF Below, Orders
  <2>2. Below(S, R, s) \in SUBSET Below(S, R, t)
    BY <1>4 DEF Below, Orders
  <2>3. /\ Cardinality(Below(S, R, s)) <= Cardinality(Below(S, R, t))
        /\ Cardinality(Below(S, R, s)) # Cardinality(Below(S, R, t))
    BY <1>1, <2>1, <2>2, FS_Subset
  <2> QED
    BY <1>1, <2>3
<1> QED
  BY <1>3, <1>4

\* Sorting lists every member once, each before those that come after it.
LEMMA SortingIsOrdered ==
  ASSUME NEW S, IsFiniteSet(S), NEW R, Orders(R, S)
  PROVE  /\ Cardinality(S) \in Nat
         /\ InOrder(S, R) \in [1..Cardinality(S) -> S]
         /\ \A s \in S : \E k \in 1..Cardinality(S) : InOrder(S, R)[k] = s
         /\ \A i, j \in 1..Cardinality(S) : i < j => <<InOrder(S, R)[i], InOrder(S, R)[j]>> \in R
<1> DEFINE n == Cardinality(S)
           rank(s) == Cardinality(Below(S, R, s))
           pos == [s \in S |-> rank(s)]
           f == InOrder(S, R)
<1>1. n \in Nat
  BY FS_CardinalityType
<1>2. \A s \in S : rank(s) \in 0..(n - 1)
  BY LaterHasMoreBefore
<1>3. \A s, t \in S : <<s, t>> \in R => rank(s) < rank(t)
  BY LaterHasMoreBefore
<1>4. \A s, t \in S : rank(s) = rank(t) => s = t
  <2> SUFFICES ASSUME NEW s \in S, NEW t \in S, rank(s) = rank(t) PROVE s = t
    OBVIOUS
  <2>1. ~(rank(s) < rank(t)) /\ ~(rank(t) < rank(s))
    BY <1>1, <1>2
  <2> QED
    BY <1>3, <2>1 DEF Orders
<1>5. f = [k \in 1..n |-> CHOOSE s \in S : rank(s) = k - 1]
  BY DEF InOrder, Below
<1> HIDE DEF n, rank, f
<1>6. pos \in Injection(S, 0..(n - 1))
  BY <1>2, <1>4 DEF Injection, IsInjective
<1>7. IsFiniteSet(0..(n - 1)) /\ Cardinality(0..(n - 1)) = n
  <2>1. /\ IsFiniteSet(0..(n - 1))
        /\ Cardinality(0..(n - 1)) = IF 0 > n - 1 THEN 0 ELSE (n - 1) - 0 + 1
    BY <1>1, FS_Interval
  <2> QED
    BY <1>1, <2>1
<1>8. pos \in Surjection(S, 0..(n - 1))
  BY <1>6, <1>7, FS_Injection DEF n
<1>9. \A k \in 1..n : \E s \in S : rank(s) = k - 1
  <2> SUFFICES ASSUME NEW k \in 1..n PROVE \E s \in S : rank(s) = k - 1
    OBVIOUS
  <2>1. k - 1 \in 0..(n - 1)
    BY <1>1
  <2> QED
    BY <1>8, <2>1 DEF Surjection
<1>10. \A k \in 1..n : f[k] \in S /\ rank(f[k]) = k - 1
  BY <1>5, <1>9
<1>11. f \in [1..n -> S]
  BY <1>5, <1>10
<1>12. ASSUME NEW s \in S PROVE \E k \in 1..n : f[k] = s
  <2>1. rank(s) + 1 \in 1..n /\ rank(f[rank(s) + 1]) = rank(s)
    <3>1. rank(s) \in 0..(n - 1)
      BY <1>2
    <3>2. rank(s) + 1 \in 1..n /\ (rank(s) + 1) - 1 = rank(s)
      BY <1>1, <3>1
    <3> QED
      BY <1>10, <3>2
  <2> QED
    BY <1>4, <1>10, <2>1
<1>13. ASSUME NEW i \in 1..n, NEW j \in 1..n, i < j PROVE <<f[i], f[j]>> \in R
  <2>1. f[i] \in S /\ f[j] \in S /\ rank(f[i]) = i - 1 /\ rank(f[j]) = j - 1
    BY <1>10
  <2>2. f[i] # f[j] /\ ~(rank(f[j]) < rank(f[i]))
    BY <1>13, <2>1
  <2> QED
    BY <1>3, <2>1, <2>2 DEF Orders
<1> QED
  BY <1>1, <1>11, <1>12, <1>13 DEF n, f

\* A list of all members in order is the sorted one.
LEMMA SortingIsUnique ==
  ASSUME NEW S, IsFiniteSet(S), NEW R, Orders(R, S), NEW m \in Nat, NEW g \in [1..m -> S],
         \A s \in S : \E k \in 1..m : g[k] = s,
         \A i, j \in 1..m : i < j => <<g[i], g[j]>> \in R
  PROVE  m = Cardinality(S) /\ g = InOrder(S, R)
<1> DEFINE rank(s) == Cardinality(Below(S, R, s))
<1>1. \A i, j \in 1..m : g[i] = g[j] => i = j
  <2> SUFFICES ASSUME NEW i \in 1..m, NEW j \in 1..m, g[i] = g[j], i < j PROVE FALSE
    OBVIOUS
  <2> QED
    BY DEF Orders
<1>2. ASSUME NEW k \in 1..m PROVE rank(g[k]) = k - 1
  <2> DEFINE h == [i \in 1..(k - 1) |-> g[i]]
  <2>1. Below(S, R, g[k]) = {h[i] : i \in 1..(k - 1)}
    <3>1. ASSUME NEW t \in S, <<t, g[k]>> \in R PROVE \E i \in 1..(k - 1) : t = h[i]
      <4>1. PICK i \in 1..m : g[i] = t
        OBVIOUS
      <4>2. i # k /\ ~(k < i)
        <5>1. <<g[k], g[k]>> \notin R
          BY DEF Orders
        <5>2. k < i => <<g[k], t>> \in R
          BY <4>1
        <5> QED
          BY <3>1, <4>1, <5>1, <5>2 DEF Orders
      <4>3. i \in 1..(k - 1)
        BY <4>2
      <4> QED
        BY <4>1, <4>3
    <3>2. ASSUME NEW i \in 1..(k - 1) PROVE h[i] \in S /\ <<h[i], g[k]>> \in R
      OBVIOUS
    <3> QED
      BY <3>1, <3>2 DEF Below
  <2>2. \A i, j \in 1..(k - 1) : h[i] = h[j] => i = j
    BY <1>1
  <2>3. k - 1 \in Nat
    OBVIOUS
  <2>4. IsFiniteSet(1..(k - 1)) /\ Cardinality(1..(k - 1)) = k - 1
    BY <2>3, UpTo
  <2>5. DOMAIN h = 1..(k - 1)
    OBVIOUS
  <2> HIDE DEF h
  <2>6. Cardinality({h[i] : i \in 1..(k - 1)}) = k - 1
    BY <2>2, <2>4, <2>5, ImageSize
  <2> QED
    BY <2>1, <2>6
<1>3. m = Cardinality(S)
  <2>1. S = {g[k] : k \in 1..m}
    OBVIOUS
  <2>2. IsFiniteSet(1..m) /\ Cardinality(1..m) = m /\ DOMAIN g = 1..m
    BY UpTo
  <2> QED
    BY <1>1, <2>1, <2>2, ImageSize
<1>4. \A s, t \in S : rank(s) = rank(t) => s = t
  <2> SUFFICES ASSUME NEW s \in S, NEW t \in S, rank(s) = rank(t) PROVE s = t
    OBVIOUS
  <2>1. PICK i \in 1..m : g[i] = s
    OBVIOUS
  <2>2. PICK j \in 1..m : g[j] = t
    OBVIOUS
  <2>3. i - 1 = j - 1
    BY <1>2, <2>1, <2>2
  <2> QED
    BY <2>1, <2>2, <2>3
<1>5. InOrder(S, R) = [k \in 1..m |-> CHOOSE s \in S : rank(s) = k - 1]
  BY <1>3 DEF InOrder, Below
<1> HIDE DEF rank
<1>6. \A k \in 1..m : InOrder(S, R)[k] = g[k]
  <2> SUFFICES ASSUME NEW k \in 1..m PROVE (CHOOSE s \in S : rank(s) = k - 1) = g[k]
    BY <1>5
  <2>1. g[k] \in S /\ rank(g[k]) = k - 1
    BY <1>2
  <2> QED
    BY <1>4, <2>1
<1> QED
  BY <1>3, <1>5, <1>6

\* Positions in a list are ordered by <.
LEMMA PositionsInOrder ==
  ASSUME NEW I \in SUBSET Nat
  PROVE  Orders(Less(I), I)
  BY DEF Orders, Less

\* What is taken from a list: a position for each place, in order, none left out.
LEMMA SublistIs ==
  ASSUME NEW list, NEW I \in SUBSET Nat, IsFiniteSet(I)
  PROVE  LET at == InOrder(I, Less(I)) IN
         /\ Cardinality(I) \in Nat /\ at \in [1..Cardinality(I) -> I]
         /\ \A i \in I : \E k \in 1..Cardinality(I) : at[k] = i
         /\ \A j, k \in 1..Cardinality(I) : j < k => at[j] < at[k]
         /\ Sublist(list, I) = [k \in 1..Cardinality(I) |-> list[at[k]]]
<1> DEFINE at == InOrder(I, Less(I))
<1>1. /\ Cardinality(I) \in Nat /\ at \in [1..Cardinality(I) -> I]
      /\ \A i \in I : \E k \in 1..Cardinality(I) : at[k] = i
      /\ \A j, k \in 1..Cardinality(I) : j < k => <<at[j], at[k]>> \in Less(I)
  BY PositionsInOrder, SortingIsOrdered
<1>2. \A j, k \in 1..Cardinality(I) : j < k => at[j] < at[k]
  BY <1>1 DEF Less
<1>3. Sublist(list, I) = [k \in DOMAIN at |-> list[at[k]]]
  BY DEF Sublist, Less
<1> QED
  BY <1>1, <1>2, <1>3

\* The first m elements of a list.
LEMMA FirstOnes ==
  ASSUME NEW list, NEW m \in Nat
  PROVE  Sublist(list, 1..m) = [k \in 1..m |-> list[k]]
<1> DEFINE id == [k \in 1..m |-> k]
<1>1. IsFiniteSet(1..m) /\ 1..m \in SUBSET Nat
  BY UpTo
<1>2. id \in [1..m -> 1..m] /\ (\A s \in 1..m : \E k \in 1..m : id[k] = s)
  OBVIOUS
<1>3. \A i, j \in 1..m : i < j => <<id[i], id[j]>> \in Less(1..m)
  BY DEF Less
<1> HIDE DEF id
<1>4. id = InOrder(1..m, Less(1..m))
  BY <1>1, <1>2, <1>3, PositionsInOrder, SortingIsUnique
<1>5. Sublist(list, 1..m) = [k \in 1..Cardinality(1..m) |-> list[id[k]]]
  BY <1>1, <1>4, SublistIs
<1> QED
  BY <1>5, UpTo DEF id

\* Positions that are closed downwards are the first ones.
LEMMA ClosedIsFirst ==
  ASSUME NEW n \in Nat, NEW I \in SUBSET (1..n), \A i \in I, j \in 1..n : j < i => j \in I
  PROVE  \E m \in 0..n : I = 1..m
<1> DEFINE C == {k \in 1..(n + 1) : k \notin I}
<1>1. C \in SUBSET Nat /\ n + 1 \in C
  OBVIOUS
<1>2. PICK c \in C : \A k \in C : c <= k
  <2> HIDE DEF C
  <2> QED
    BY <1>1, LeastNatural
<1>3. c \in 1..(n + 1) /\ c \notin I
  OBVIOUS
<1>4. \A k \in 1..(c - 1) : k \in I
  BY <1>2, <1>3
<1>5. \A k \in I : k \in 1..(c - 1)
  BY <1>3
<1>6. I = 1..(c - 1)
  <2> DEFINE J == 1..(c - 1)
  <2>1. I \subseteq J /\ J \subseteq I
    BY <1>4, <1>5
  <2> HIDE DEF J
  <2>2. I = J
    BY <2>1
  <2> QED
    BY <2>2 DEF J
<1>7. c - 1 \in 0..n
  BY <1>3
<1> QED
  BY <1>6, <1>7

-----------------------------------------------------------------------------
(* What a cloud scores.                                                       *)

\* A rounded quotient is a number.
LEMMA RoundIsNatural ==
  ASSUME NEW n \in Nat, NEW d \in Nat, d > 0
  PROVE  Round(n, d) \in Nat
<1> DEFINE a == 2 * n + d
           b == 2 * d
<1>1. a \in Nat /\ b \in Nat /\ b > 0
  OBVIOUS
<1>2. Round(n, d) = a \div b
  BY DEF Round
<1> HIDE DEF a, b
<1> QED
  BY <1>1, <1>2

\* More of the dividend does not make less.
LEMMA RoundGrows ==
  ASSUME NEW n \in Nat, NEW k \in Nat, NEW d \in Nat, d > 0, n <= k
  PROVE  Round(n, d) <= Round(k, d)
<1> DEFINE p == Round(n, d)
           q == Round(k, d)
           b == 2 * d
<1>1. p \in Nat /\ q \in Nat
  BY RoundIsNatural
<1>2. b * p <= 2 * n + d /\ 2 * k + d < b * q + b
  BY DEF Round
<1>3. b \in Nat /\ b > 0
  OBVIOUS
<1> HIDE DEF p, q, b
<1>4. b * p < b * q + b
  BY <1>1, <1>2, <1>3
<1>5. SUFFICES ASSUME p >= q + 1 PROVE FALSE
  BY <1>1 DEF p, q
<1>6. b * p >= b * (q + 1)
  BY <1>1, <1>3, <1>5
<1>7. b * (q + 1) = b * q + b
  BY <1>1, <1>3
<1> QED
  BY <1>1, <1>3, <1>4, <1>6, <1>7

\* Neither does less of the divisor.
LEMMA RoundShrinks ==
  ASSUME NEW n \in Nat, NEW d \in Nat, NEW e \in Nat, d > 0, d <= e
  PROVE  Round(n, e) <= Round(n, d)
<1> DEFINE p == Round(n, e)
           q == Round(n, d)
<1>1. p \in Nat /\ q \in Nat
  BY RoundIsNatural
<1>2. (2 * e) * p <= 2 * n + e /\ 2 * n + d < (2 * d) * q + 2 * d
  BY DEF Round
<1> HIDE DEF p, q
<1>3. SUFFICES ASSUME p >= q + 1 PROVE FALSE
  BY <1>1 DEF p, q
<1> DEFINE x == 2 * p - 1
<1>4. x \in Nat /\ x >= 2 * q + 1
  BY <1>1, <1>3
<1>5. e * x <= 2 * n
  BY <1>1, <1>2
<1>6. 2 * n < d * (2 * q + 1)
  BY <1>1, <1>2
<1> HIDE DEF x
<1>7. d * (2 * q + 1) <= d * x
  BY <1>1, <1>4
<1>8. d * x <= e * x
  BY <1>4
<1>9. d * (2 * q + 1) \in Int /\ d * x \in Int /\ e * x \in Int
  BY <1>1, <1>4
<1> QED
  BY <1>5, <1>6, <1>7, <1>8, <1>9

\* Numbers that are not negative have no negative sum.
LEMMA SumIsNatural ==
  ASSUME NEW S, IsFiniteSet(S), NEW w, \A x \in S : w[x] \in Nat
  PROVE  SumOver(w, S) \in Nat
<1> DEFINE B == {T \in SUBSET S : SumOver(w, T) \notin Nat}
<1> SUFFICES ASSUME B # {} PROVE FALSE
  OBVIOUS
<1>1. PICK T \in B : \A t \in B : t \subseteq T => t = T
  <2>1. B \in SUBSET SUBSET S
    OBVIOUS
  <2> HIDE DEF B
  <2> QED
    BY <2>1, SmallestSet
<1>2. SumOver(w, {}) = 0
  BY SumStep
<1>3. PICK x \in T : TRUE
  BY <1>2
<1>4. T \ {x} \notin B /\ T \ {x} \in SUBSET S
  BY <1>1
<1>5. SumOver(w, T) = w[x] + SumOver(w, T \ {x})
  BY SumStep
<1>6. SumOver(w, T \ {x}) \in Nat /\ w[x] \in Nat
  BY <1>4
<1>7. SumOver(w, T) \in Nat
  BY <1>5, <1>6
<1> QED
  BY <1>7

\* The total of a list of numbers is a number.
LEMMA TotalIsNatural ==
  ASSUME NEW w, IsFiniteSet(DOMAIN w), \A x \in DOMAIN w : w[x] \in Nat
  PROVE  Total(w) \in Nat
  BY SumIsNatural, TotalIsSum

\* The less of two numbers.
LEMMA LessOfTwo ==
  ASSUME NEW a \in Nat, NEW b \in Nat
  PROVE  Min({a, b}) \in {a, b} /\ Min({a, b}) <= a /\ Min({a, b}) <= b
<1>1. \E x \in {a, b} : \A y \in {a, b} : x <= y
  OBVIOUS
<1>2. Min({a, b}) \in {a, b} /\ \A y \in {a, b} : Min({a, b}) <= y
  BY <1>1 DEF Min
<1> QED
  BY <1>2

\* Every metric of a cloud is a number that is not negative.
LEMMA MetricsAreNumbers ==
  ASSUME NEW vms \in Estates, NEW plans \in PlanSets, NEW c \in Priced, NEW pos
  PROVE  LET r == Metrics(vms, c, plans[c], pos) IN
         r.cost \in Nat /\ r.fit \in Nat /\ r.os \in Nat /\ r.unsupported \in Nat
<1> DEFINE plan == plans[c]
<1>0. Len(vms) \in Nat /\ DOMAIN vms = 1..Len(vms)
      /\ \A i \in DOMAIN vms : vms[i].cpu \in Nat /\ vms[i].mem \in Nat
  BY AnalysisAssumption
<1>1. IsFiniteSet(DOMAIN vms)
  BY <1>0, UpTo
<1>2. /\ plan.compute \in Nat /\ plan.gib \in Nat /\ plan.windows_vcpu \in Nat
      /\ plan.lb_count \in Nat /\ plan.vcpu \in Nat /\ plan.memory \in Nat
  BY AnalysisAssumption
<1> HIDE DEF plan
<1>3. EstimateCosts(plan).total \in Nat
  <2>1. CASE plan.target \notin Priced
    BY <2>1 DEF EstimateCosts
  <2>2. CASE plan.target \in Priced
    <3>1. \A l \in Lines : LineRate(plan, l) \in Nat
      BY <2>2, AnalysisAssumption DEF LineRate
    <3>2. LineRate(plan, "storage") \in Nat /\ LineRate(plan, "windows") \in Nat /\ LineRate(plan, "lb") \in Nat
      BY <3>1 DEF Lines
    <3>3. /\ plan.gib * LineRate(plan, "storage") \in Nat
          /\ plan.windows_vcpu * LineRate(plan, "windows") \in Nat
          /\ plan.lb_count * LineRate(plan, "lb") \in Nat
      BY <1>2, <3>2
    <3>4. EstimateCosts(plan).total = plan.compute + plan.gib * LineRate(plan, "storage")
             + plan.windows_vcpu * LineRate(plan, "windows") + plan.lb_count * LineRate(plan, "lb")
      BY <2>2 DEF EstimateCosts
    <3> QED
      BY <1>2, <3>3, <3>4
  <2> QED
    BY <2>1, <2>2
<1>4. Fit(vms, plan) \in Nat
  <2> DEFINE us == [i \in DOMAIN vms |-> vms[i].cpu]
             ms == [i \in DOMAIN vms |-> vms[i].mem]
             cpu == OrElse(Total(us), 1)
             mem == OrElse(Total(ms), 1)
             gotCpu == OrElse(plan.vcpu, cpu)
             gotMem == OrElse(plan.memory, mem)
             a == Min({cpu, gotCpu})
             b == Min({mem, gotMem})
  <2>1. Total(us) \in Nat /\ Total(ms) \in Nat
    BY <1>0, <1>1, TotalIsNatural
  <2>2. Fit(vms, plan) = Round(10000 * (a * gotMem + b * gotCpu), 2 * gotCpu * gotMem)
    BY DEF Fit
  <2> HIDE DEF us, ms
  <2>3. cpu \in Nat /\ cpu > 0 /\ mem \in Nat /\ mem > 0
    BY <2>1 DEF OrElse
  <2> HIDE DEF cpu, mem
  <2>4. gotCpu \in Nat /\ gotCpu > 0 /\ gotMem \in Nat /\ gotMem > 0
    BY <1>2, <2>3 DEF OrElse
  <2> HIDE DEF gotCpu, gotMem
  <2>5. a \in Nat /\ b \in Nat
    BY <2>3, <2>4, LessOfTwo
  <2> HIDE DEF a, b
  <2>6. a * gotMem \in Nat /\ b * gotCpu \in Nat /\ gotCpu * gotMem \in Nat /\ gotCpu * gotMem > 0
    BY <2>4, <2>5
  <2>7. 2 * gotCpu * gotMem = 2 * (gotCpu * gotMem)
    BY <2>4
  <2>8. 10000 * (a * gotMem + b * gotCpu) \in Nat /\ 2 * gotCpu * gotMem \in Nat /\ 2 * gotCpu * gotMem > 0
    BY <2>6, <2>7
  <2> QED
    BY <2>2, <2>8, RoundIsNatural
<1>5. \A P \in SUBSET DOMAIN vms : Cardinality(P) \in Nat /\ Cardinality(P) <= Len(vms)
  BY <1>0, <1>1, UpTo, FS_Subset, FS_CardinalityType
<1>6. OsAffinity(c, vms) \in Nat
  <2> DEFINE windows == Cardinality({i \in DOMAIN vms : IsWindows(vms[i])})
             half(n) == 5000 + Round(5000 * n, OrElse(Len(vms), 1))
  <2>1. windows \in Nat /\ windows <= Len(vms)
    BY <1>5
  <2>2. OrElse(Len(vms), 1) \in Nat /\ OrElse(Len(vms), 1) > 0
    BY <1>0 DEF OrElse
  <2>3. \A n \in Nat : half(n) \in Nat
    <3> SUFFICES ASSUME NEW n \in Nat PROVE half(n) \in Nat
      OBVIOUS
    <3> DEFINE k == 5000 * n
               d == OrElse(Len(vms), 1)
    <3>1. k \in Nat /\ d \in Nat /\ d > 0 /\ half(n) = 5000 + Round(k, d)
      BY <2>2
    <3> HIDE DEF k, d, half
    <3>2. Round(k, d) \in Nat
      BY <3>1, RoundIsNatural
    <3> QED
      BY <3>1, <3>2
  <2>4. Len(vms) - windows \in Nat
    BY <1>0, <2>1
  <2>5. OsAffinity(c, vms) = CASE c = "azure" -> half(windows)
                               [] c = "gcp"   -> half(Len(vms) - windows)
                               [] OTHER       -> 6000
    BY DEF OsAffinity
  <2> HIDE DEF half, windows
  <2>6. half(windows) \in Nat /\ half(Len(vms) - windows) \in Nat
    BY <2>1, <2>3, <2>4
  <2> QED
    BY <2>5, <2>6
<1>7. UnsupportedCount(c, vms) \in Nat
  BY <1>5 DEF UnsupportedCount
<1> QED
  BY <1>3, <1>4, <1>6, <1>7 DEF Metrics, plan

\* So are the weights that are applied.
LEMMA WeightsAreNumbers ==
  ASSUME NEW weights \in WeightSets, WeightTotal(weights) > 0
  PROVE  LET w == Normalized(weights) IN w.cost \in Nat /\ w.fit \in Nat /\ w.os \in Nat
<1>1. weights.cost \in Nat /\ weights.fit \in Nat /\ weights.os \in Nat
  BY AnalysisAssumption
<1>2. WeightTotal(weights) \in Nat
  BY <1>1 DEF WeightTotal
<1>3. /\ Normalized(weights).cost = Round(10000 * weights.cost, WeightTotal(weights))
      /\ Normalized(weights).fit = Round(10000 * weights.fit, WeightTotal(weights))
      /\ Normalized(weights).os = Round(10000 * weights.os, WeightTotal(weights))
  BY DEF Normalized
<1>4. 10000 * weights.cost \in Nat /\ 10000 * weights.fit \in Nat /\ 10000 * weights.os \in Nat
  BY <1>1
<1> QED
  BY <1>2, <1>3, <1>4, RoundIsNatural

\* What is cheaper scores no less on cost.
LEMMA CheaperScoresMore ==
  ASSUME NEW a \in Nat, NEW b \in Nat, NEW base \in Nat
  PROVE  /\ CostScore(a, base) \in Nat
         /\ a < b => CostScore(b, base) <= CostScore(a, base)
<1> DEFINE n == 10000 * base
<1>0. n \in Nat
  OBVIOUS
<1>1. \A x \in Nat : x # 0 => CostScore(x, base) = Min({10000, Round(n, x)})
  BY DEF CostScore
<1>2. CostScore(0, base) = 10000
  BY DEF CostScore
<1> HIDE DEF n
<1>3. \A x \in Nat : x # 0 => Round(n, x) \in Nat
  BY <1>0, RoundIsNatural
<1>4. \A x \in Nat : x # 0 => /\ CostScore(x, base) \in {10000, Round(n, x)}
                              /\ CostScore(x, base) <= 10000 /\ CostScore(x, base) <= Round(n, x)
  <2> SUFFICES ASSUME NEW x \in Nat, x # 0
               PROVE  /\ CostScore(x, base) \in {10000, Round(n, x)}
                      /\ CostScore(x, base) <= 10000 /\ CostScore(x, base) <= Round(n, x)
    OBVIOUS
  <2> DEFINE y == Round(n, x)
  <2>1. y \in Nat /\ 10000 \in Nat /\ CostScore(x, base) = Min({10000, y})
    BY <1>1, <1>3
  <2> HIDE DEF y
  <2>2. Min({10000, y}) \in {10000, y} /\ Min({10000, y}) <= 10000 /\ Min({10000, y}) <= y
    BY <2>1, LessOfTwo
  <2> QED
    BY <2>1, <2>2 DEF y
<1>5. \A x \in Nat : CostScore(x, base) \in Nat /\ CostScore(x, base) <= 10000
  BY <1>2, <1>3, <1>4
<1>6. ASSUME a < b PROVE CostScore(b, base) <= CostScore(a, base)
  <2>1. CASE a = 0
    BY <1>2, <1>5, <2>1
  <2>2. CASE a # 0
    <3>1. a > 0 /\ a <= b /\ b # 0
      BY <1>6, <2>2
    <3>2. Round(n, b) <= Round(n, a)
      BY <1>0, <3>1, RoundShrinks
    <3> QED
      BY <1>3, <1>4, <1>5, <2>2, <3>1, <3>2
  <2> QED
    BY <2>1, <2>2
<1> QED
  BY <1>5, <1>6

-----------------------------------------------------------------------------
(* The recommendation.                                                        *)

\* The scores of the clouds a list of targets names, and the order they are sorted in.
ScoreAt(vms, requested, plans, weights, i) ==
  Score(Metrics(vms, requested[i], plans[requested[i]], i),
        CheapestCost(Raw(vms, requested, plans)), Normalized(weights))
Scores(vms, requested, plans, weights) ==
  {ScoreAt(vms, requested, plans, weights, i) : i \in Ranked(requested)}
ByRank(T) == {p \in T \X T : Precedes(p[1], p[2])}

\* A list of targets.
IsList(requested) == \E n \in Nat : DOMAIN requested = 1..n

\* The positions of the targets that have a price and can take the estate.
AblePlaces(vms, requested) ==
  {i \in DOMAIN requested : requested[i] \in Priced /\ UnsupportedCount(requested[i], vms) = 0}

\* What is scored.
IsScore(s) ==
  /\ s = [pos |-> s.pos, cloud |-> s.cloud, cost |-> s.cost, cost_score |-> s.cost_score,
          fit_score |-> s.fit_score, os_score |-> s.os_score, eligible |-> s.eligible,
          weighted |-> s.weighted]
  /\ s.pos \in Nat /\ s.cost \in Nat /\ s.cost_score \in Nat /\ s.fit_score \in Nat
  /\ s.os_score \in Nat /\ s.eligible \in BOOLEAN /\ s.weighted \in Nat

\* The baseline is a cost of one of the clouds, or a dollar.
LEMMA BaselineIsNumber ==
  ASSUME NEW raw, raw # {}, \A r \in raw : r.cost \in Nat
  PROVE  CheapestCost(raw) \in Nat
<1> DEFINE able == {r \in raw : r.unsupported = 0}
           C == {r.cost : r \in IF able = {} THEN raw ELSE able}
<1>1. C \in SUBSET Nat /\ C # {}
  OBVIOUS
<1>2. CheapestCost(raw) = OrElse(Min(C), 100)
  BY DEF CheapestCost
<1> HIDE DEF C
<1>3. \E x \in C : \A y \in C : x <= y
  BY <1>1, LeastNatural
<1>4. Min(C) \in C
  BY <1>3 DEF Min
<1>5. Min(C) \in Nat
  BY <1>1, <1>4
<1> QED
  BY <1>2, <1>5 DEF OrElse

\* The score of each ranked cloud.
LEMMA ScoreIs ==
  ASSUME NEW vms \in Estates, NEW plans \in PlanSets, NEW weights \in WeightSets,
         WeightTotal(weights) > 0, NEW requested, IsList(requested), NEW i \in Ranked(requested)
  PROVE  LET s == ScoreAt(vms, requested, plans, weights, i) IN
         /\ IsScore(s) /\ s.pos = i /\ s.cloud = requested[i]
         /\ s.eligible = (UnsupportedCount(requested[i], vms) = 0)
         /\ CheapestCost(Raw(vms, requested, plans)) \in Nat
<1> DEFINE raw == Raw(vms, requested, plans)
           base == CheapestCost(raw)
           w == Normalized(weights)
           r == Metrics(vms, requested[i], plans[requested[i]], i)
           s == ScoreAt(vms, requested, plans, weights, i)
           sum == w.cost * CostScore(r.cost, base) + w.fit * r.fit + w.os * r.os
<1>1. base \in Nat
  <2>1. raw # {}
    BY DEF Raw
  <2>2. ASSUME NEW x \in raw PROVE x.cost \in Nat
    <3>1. PICK j \in Ranked(requested) : x = Metrics(vms, requested[j], plans[requested[j]], j)
      BY DEF Raw
    <3>2. requested[j] \in Priced
      BY DEF Ranked
    <3> QED
      BY <3>1, <3>2, MetricsAreNumbers
  <2> HIDE DEF raw
  <2> QED
    BY <2>1, <2>2, BaselineIsNumber
<1>2. i \in Nat /\ requested[i] \in Priced
  BY DEF Ranked, IsList
<1>3. r.cost \in Nat /\ r.fit \in Nat /\ r.os \in Nat /\ r.unsupported \in Nat
  BY <1>2, MetricsAreNumbers
<1>4. w.cost \in Nat /\ w.fit \in Nat /\ w.os \in Nat
  BY WeightsAreNumbers
<1>5. CostScore(r.cost, base) \in Nat
  BY <1>1, <1>3, CheaperScoresMore
<1>6. s = [pos |-> r.pos, cloud |-> r.cloud, cost |-> r.cost, cost_score |-> CostScore(r.cost, base),
           fit_score |-> r.fit, os_score |-> r.os, eligible |-> r.unsupported = 0,
           weighted |-> IF r.unsupported > 0 THEN 0 ELSE Round(sum, 10000)]
  BY DEF ScoreAt, Score
<1>7. r.pos = i /\ r.cloud = requested[i] /\ r.unsupported = UnsupportedCount(requested[i], vms)
  BY DEF Metrics
<1>8. sum \in Nat
  <2> DEFINE cs == CostScore(r.cost, base)
             x == w.cost * cs
             y == w.fit * r.fit
             z == w.os * r.os
  <2> HIDE DEF base, w, r
  <2>1. cs \in Nat
    BY <1>5
  <2> HIDE DEF cs
  <2>2. x \in Nat /\ y \in Nat /\ z \in Nat
    BY <1>3, <1>4, <2>1
  <2>3. sum = x + y + z
    BY DEF cs
  <2> HIDE DEF x, y, z, sum
  <2> QED
    BY <2>2, <2>3
<1> HIDE DEF sum, r, base, w, s
<1>9. Round(sum, 10000) \in Nat
  BY <1>8, RoundIsNatural
<1>10. /\ s.pos = i /\ s.cloud = requested[i] /\ s.cost = r.cost /\ s.cost_score = CostScore(r.cost, base)
       /\ s.fit_score = r.fit /\ s.os_score = r.os /\ s.eligible = (r.unsupported = 0)
       /\ s.weighted = IF r.unsupported > 0 THEN 0 ELSE Round(sum, 10000)
  BY <1>6, <1>7
<1>11. s.weighted \in Nat /\ s.eligible \in BOOLEAN
  BY <1>9, <1>10
<1>12. IsScore(s)
  BY <1>2, <1>3, <1>5, <1>6, <1>10, <1>11 DEF IsScore
<1> QED
  BY <1>1, <1>7, <1>10, <1>12 DEF s, base

\* The clouds are ranked in one order: no two are at one place.
LEMMA RankingIsOrder ==
  ASSUME NEW T, \A s \in T : IsScore(s), \A s, t \in T : s.pos = t.pos => s = t
  PROVE  Orders(ByRank(T), T)
<1>0. \A s, t \in T : <<s, t>> \in ByRank(T) <=> Precedes(s, t)
  BY DEF ByRank
<1>1. \A s \in T : s.pos \in Nat /\ s.weighted \in Nat /\ s.eligible \in BOOLEAN
  BY DEF IsScore
<1>2. \A s \in T : ~Precedes(s, s)
  BY <1>1 DEF Precedes
<1>3. ASSUME NEW s \in T, NEW t \in T, NEW u \in T, Precedes(s, t), Precedes(t, u) PROVE Precedes(s, u)
  BY <1>1, <1>3 DEF Precedes
<1>4. ASSUME NEW s \in T, NEW t \in T, s # t PROVE Precedes(s, t) \/ Precedes(t, s)
  <2>1. s.pos # t.pos
    BY <1>4
  <2> QED
    BY <1>1, <2>1 DEF Precedes
<1> QED
  BY <1>0, <1>2, <1>3, <1>4 DEF Orders

\* Each target is scored once, and finitely many are.
LEMMA ScoresAre ==
  ASSUME NEW vms \in Estates, NEW plans \in PlanSets, NEW weights \in WeightSets,
         WeightTotal(weights) > 0, NEW requested, IsList(requested)
  PROVE  LET T == Scores(vms, requested, plans, weights) IN
         /\ IsFiniteSet(T) /\ \A s \in T : IsScore(s)
         /\ \A s, t \in T : s.pos = t.pos => s = t
         /\ Orders(ByRank(T), T)
<1> DEFINE T == Scores(vms, requested, plans, weights)
           F == [i \in Ranked(requested) |-> ScoreAt(vms, requested, plans, weights, i)]
<1>1. \A i \in Ranked(requested) : F[i] = ScoreAt(vms, requested, plans, weights, i)
  OBVIOUS
<1>2. \A i \in Ranked(requested) : IsScore(F[i]) /\ F[i].pos = i
  BY <1>1, ScoreIs
<1>3. T = {F[i] : i \in Ranked(requested)}
  BY DEF Scores
<1>4. DOMAIN F = Ranked(requested)
  OBVIOUS
<1> HIDE DEF F, T
<1>5. IsFiniteSet(Ranked(requested))
  <2>1. PICK n \in Nat : DOMAIN requested = 1..n
    BY DEF IsList
  <2>2. Ranked(requested) \in SUBSET (1..n) /\ IsFiniteSet(1..n)
    BY <2>1, UpTo DEF Ranked
  <2> QED
    BY <2>2, FS_Subset
<1>6. \A i, j \in Ranked(requested) : F[i] = F[j] => i = j
  BY <1>2
<1>7. IsFiniteSet(T)
  BY <1>3, <1>4, <1>5, <1>6, ImageSize
<1>8. (\A s \in T : IsScore(s)) /\ (\A s, t \in T : s.pos = t.pos => s = t)
  BY <1>2, <1>3
<1> QED
  BY <1>7, <1>8, RankingIsOrder DEF T

\* The sorted scores, of which the first e are the eligible ones.
Podium(ranked, e) ==
  /\ \A k \in DOMAIN ranked : k \in 1..e <=> ranked[k].eligible
  /\ Eligible(ranked) = [k \in 1..e |-> ranked[k]]

LEMMA RankedIs ==
  ASSUME NEW vms \in Estates, NEW plans \in PlanSets, NEW weights \in WeightSets,
         WeightTotal(weights) > 0, NEW requested, IsList(requested)
  PROVE  LET T == Scores(vms, requested, plans, weights)
             ranked == SortScores(T)
         IN  \E n \in Nat, e \in Nat :
               /\ ranked \in [1..n -> T] /\ e <= n /\ Podium(ranked, e)
               /\ \A s \in T : \E k \in 1..n : ranked[k] = s
               /\ \A i, j \in 1..n : i < j => Precedes(ranked[i], ranked[j])
<1> DEFINE T == Scores(vms, requested, plans, weights)
           ranked == SortScores(T)
           n == Cardinality(T)
           I == {k \in 1..n : ranked[k].eligible}
<1>1. /\ IsFiniteSet(T) /\ (\A s \in T : IsScore(s)) /\ Orders(ByRank(T), T)
  BY ScoresAre
<1> HIDE DEF T
<1>2. ranked = InOrder(T, ByRank(T))
  BY DEF SortScores, ByRank
<1> HIDE DEF ranked
<1>3. /\ n \in Nat /\ ranked \in [1..n -> T]
      /\ \A s \in T : \E k \in 1..n : ranked[k] = s
      /\ \A i, j \in 1..n : i < j => <<ranked[i], ranked[j]>> \in ByRank(T)
  BY <1>1, <1>2, SortingIsOrdered
<1>4. \A i, j \in 1..n : i < j => Precedes(ranked[i], ranked[j])
  BY <1>3 DEF ByRank
<1>5. \A i \in I, j \in 1..n : j < i => j \in I
  <2> SUFFICES ASSUME NEW i \in I, NEW j \in 1..n, j < i PROVE ranked[j].eligible
    OBVIOUS
  <2>1. Precedes(ranked[j], ranked[i]) /\ ranked[i].eligible
    BY <1>4
  <2> QED
    BY <2>1 DEF Precedes
<1> HIDE DEF n
<1>6. PICK e \in 0..n : I = 1..e
  <2>1. I \in SUBSET (1..n)
    OBVIOUS
  <2> HIDE DEF I
  <2> QED
    BY <1>3, <1>5, <2>1, ClosedIsFirst
<1>7. e \in Nat /\ e <= n
  BY <1>3
<1>8. Eligible(ranked) = Sublist(ranked, I)
  BY <1>3 DEF Eligible
<1>9. Podium(ranked, e)
  <2>1. Eligible(ranked) = [k \in 1..e |-> ranked[k]]
    BY <1>6, <1>7, <1>8, FirstOnes
  <2>2. \A k \in DOMAIN ranked : k \in 1..e <=> ranked[k].eligible
    BY <1>3, <1>6
  <2> QED
    BY <2>1, <2>2 DEF Podium
<1> QED
  BY <1>3, <1>4, <1>7, <1>9 DEF T, ranked

\* A place among the able ones is first for its cloud where the place in the list is.
LEMMA PlacesMatch ==
  ASSUME NEW vms, NEW requested, IsList(requested)
  PROVE  LET J == AblePlaces(vms, requested)
             able == Sublist(requested, J)
             at == InOrder(J, Less(J))
             n == Cardinality(J)
         IN  /\ n \in Nat /\ DOMAIN able = 1..n /\ at \in [1..n -> J]
             /\ \A i \in J : \E k \in 1..n : at[k] = i
             /\ \A j, k \in 1..n : j < k <=> at[j] < at[k]
             /\ \A k \in 1..n : able[k] = requested[at[k]]
             /\ \A k \in 1..n : k \in Ranked(able) <=> at[k] \in Ranked(requested)
<1> DEFINE J == AblePlaces(vms, requested)
           able == Sublist(requested, J)
           at == InOrder(J, Less(J))
           n == Cardinality(J)
<1>1. J \in SUBSET DOMAIN requested /\ DOMAIN requested \subseteq Nat /\ IsFiniteSet(J)
  <2>1. PICK m \in Nat : DOMAIN requested = 1..m
    BY DEF IsList
  <2>2. J \in SUBSET (1..m) /\ IsFiniteSet(1..m)
    BY <2>1, UpTo DEF AblePlaces
  <2> QED
    BY <2>1, <2>2, FS_Subset
<1>2. \A i, j \in DOMAIN requested : i \in J /\ requested[j] = requested[i] => j \in J
  BY DEF AblePlaces
<1>3. \A i \in J : requested[i] \in Priced
  BY DEF AblePlaces
<1> HIDE DEF J
<1>4. /\ n \in Nat /\ at \in [1..n -> J]
      /\ \A i \in J : \E k \in 1..n : at[k] = i
      /\ \A j, k \in 1..n : j < k => at[j] < at[k]
      /\ able = [k \in 1..n |-> requested[at[k]]]
  BY <1>1, SublistIs
<1> HIDE DEF at, n, able
<1>5. \A k \in 1..n : at[k] \in Nat /\ at[k] \in DOMAIN requested /\ at[k] \in J
  BY <1>1, <1>4
<1>6. ASSUME NEW j \in 1..n, NEW k \in 1..n PROVE j < k <=> at[j] < at[k]
  <2>1. j < k \/ j = k \/ k < j
    BY <1>4
  <2>2. at[j] \in Nat /\ at[k] \in Nat
    BY <1>5
  <2> QED
    BY <1>4, <2>1, <2>2
<1>7. DOMAIN able = 1..n /\ \A k \in 1..n : able[k] = requested[at[k]]
  BY <1>4
<1>8. ASSUME NEW k \in 1..n PROVE k \in Ranked(able) <=> at[k] \in Ranked(requested)
  <2>1. able[k] \in Priced /\ requested[at[k]] \in Priced
    BY <1>3, <1>5, <1>7
  <2>2. k \in Ranked(able) <=> \A j \in 1..n : j < k => able[j] # able[k]
    BY <1>7, <2>1 DEF Ranked
  <2>3. at[k] \in Ranked(requested) <=>
          \A i \in DOMAIN requested : i < at[k] => requested[i] # requested[at[k]]
    BY <1>5, <2>1 DEF Ranked
  <2>4. ASSUME \A j \in 1..n : j < k => able[j] # able[k],
               NEW i \in DOMAIN requested, i < at[k], requested[i] = requested[at[k]]
        PROVE  FALSE
    <3>1. i \in J
      BY <1>2, <1>5, <2>4
    <3>2. PICK j \in 1..n : at[j] = i
      BY <1>4, <3>1
    <3>3. j < k /\ able[j] = able[k]
      BY <1>6, <1>7, <2>4, <3>2
    <3> QED
      BY <2>4, <3>3
  <2>5. ASSUME \A i \in DOMAIN requested : i < at[k] => requested[i] # requested[at[k]],
               NEW j \in 1..n, j < k, able[j] = able[k]
        PROVE  FALSE
    BY <1>5, <1>6, <1>7, <2>5
  <2> QED
    BY <2>2, <2>3, <2>4, <2>5
<1> QED
  BY <1>4, <1>6, <1>7, <1>8 DEF J, at, n, able

\* The cost baseline is that of the clouds that can take the estate.
LEMMA SameBaseline ==
  ASSUME NEW vms, NEW plans, NEW requested, IsList(requested),
         AblePlaces(vms, requested) # {}
  PROVE  CheapestCost(Raw(vms, Sublist(requested, AblePlaces(vms, requested)), plans))
           = CheapestCost(Raw(vms, requested, plans))
<1> DEFINE J == AblePlaces(vms, requested)
           able == Sublist(requested, J)
           at == InOrder(J, Less(J))
           n == Cardinality(J)
           raw == Raw(vms, requested, plans)
           own == Raw(vms, able, plans)
           Sound(R) == {r \in R : r.unsupported = 0}
           cost(c) == EstimateCosts(plans[c]).total
<1>1. /\ n \in Nat /\ DOMAIN able = 1..n /\ at \in [1..n -> J]
      /\ \A i \in J : \E k \in 1..n : at[k] = i
      /\ \A k \in 1..n : able[k] = requested[at[k]]
      /\ \A k \in 1..n : k \in Ranked(able) <=> at[k] \in Ranked(requested)
  BY PlacesMatch
<1>2. \A i \in Ranked(requested) : i \in J <=> UnsupportedCount(requested[i], vms) = 0
  BY DEF AblePlaces, Ranked
<1>3. \A i \in J : UnsupportedCount(requested[i], vms) = 0
  BY DEF AblePlaces
<1>4. {r.cost : r \in Sound(raw)} = {cost(requested[i]) : i \in Ranked(requested) \cap J}
  <2>1. \A r : r \in Sound(raw) <=>
          \E i \in Ranked(requested) \cap J : r = Metrics(vms, requested[i], plans[requested[i]], i)
    BY <1>2 DEF Raw, Metrics
  <2>2. \A i : Metrics(vms, requested[i], plans[requested[i]], i).cost = cost(requested[i])
    BY DEF Metrics
  <2> HIDE DEF J, raw, Sound, cost
  <2> QED
    BY <2>1, <2>2
<1>5. {r.cost : r \in own} = {cost(able[k]) : k \in Ranked(able)} /\ Sound(own) = own
  <2>1. \A r : r \in own <=> \E k \in Ranked(able) : r = Metrics(vms, able[k], plans[able[k]], k)
    BY DEF Raw
  <2>2. \A k : Metrics(vms, able[k], plans[able[k]], k).cost = cost(able[k])
    BY DEF Metrics
  <2>3. \A k \in Ranked(able) : UnsupportedCount(able[k], vms) = 0
    <3>1. Ranked(able) \subseteq 1..n
      BY <1>1 DEF Ranked
    <3> HIDE DEF J, able, at
    <3> QED
      BY <1>1, <1>3, <3>1
  <2>4. \A k \in Ranked(able) : Metrics(vms, able[k], plans[able[k]], k).unsupported = 0
    BY <2>3 DEF Metrics
  <2> HIDE DEF own, cost, able
  <2> QED
    BY <2>1, <2>2, <2>4
<1>6. {cost(requested[i]) : i \in Ranked(requested) \cap J} = {cost(able[k]) : k \in Ranked(able)}
  <2>1. \A i \in Ranked(requested) \cap J : \E k \in Ranked(able) : able[k] = requested[i]
    <3> HIDE DEF J, able, at
    <3> QED
      BY <1>1
  <2>2. \A k \in Ranked(able) : \E i \in Ranked(requested) \cap J : able[k] = requested[i]
    <3>1. Ranked(able) \subseteq 1..n
      BY <1>1 DEF Ranked
    <3> HIDE DEF J, able, at
    <3> QED
      BY <1>1, <3>1
  <2> HIDE DEF J, able, at, cost
  <2> QED
    BY <2>1, <2>2
<1>7. Ranked(requested) \cap J # {}
  <2>1. PICK m \in J : \A k \in J : m <= k
    <3>1. J \in SUBSET Nat /\ J # {}
      BY DEF AblePlaces, IsList
    <3> HIDE DEF J
    <3> QED
      BY <3>1, LeastNatural
  <2>2. ASSUME NEW j \in DOMAIN requested, j < m PROVE requested[j] # requested[m]
    <3>1. j \notin J
      <4>1. j \in Nat /\ m \in Nat
        BY DEF AblePlaces, IsList
      <4> QED
        BY <2>1, <2>2, <4>1
    <3> QED
      BY <3>1 DEF AblePlaces
  <2>3. m \in Ranked(requested)
    BY <2>2 DEF AblePlaces, Ranked
  <2> QED
    BY <2>3
<1> DEFINE C == {cost(requested[i]) : i \in Ranked(requested) \cap J}
<1>8. C # {}
  BY <1>7
<1>9. Sound(raw) # {} /\ own # {}
  <2> HIDE DEF J, own, raw, Sound, cost, able
  <2> QED
    BY <1>4, <1>5, <1>6, <1>8
<1>10. CheapestCost(raw) = OrElse(Min({r.cost : r \in Sound(raw)}), 100)
  <2> HIDE DEF raw
  <2> QED
    BY <1>9 DEF CheapestCost
<1>11. CheapestCost(own) = OrElse(Min({r.cost : r \in own}), 100)
  <2> HIDE DEF own
  <2> QED
    BY <1>5, <1>9 DEF CheapestCost
<1> HIDE DEF J, own, raw, Sound, cost, able, C
<1>12. {r.cost : r \in Sound(raw)} = {r.cost : r \in own}
  BY <1>4, <1>5, <1>6
<1> QED
  BY <1>10, <1>11, <1>12 DEF own, raw, able, J

\* The same score at another place.
At(s, k) == [s EXCEPT !.pos = k]

\* The ranking of the able clouds alone is the eligible part of the whole ranking.
LEMMA AloneIsEligiblePart ==
  ASSUME NEW vms \in Estates, NEW plans \in PlanSets, NEW weights \in WeightSets,
         WeightTotal(weights) > 0, NEW requested, IsList(requested),
         AblePlaces(vms, requested) # {},
         NEW n \in Nat, NEW e \in Nat, e <= n, NEW ranked,
         ranked = SortScores(Scores(vms, requested, plans, weights)),
         ranked \in [1..n -> Scores(vms, requested, plans, weights)], Podium(ranked, e),
         \A s \in Scores(vms, requested, plans, weights) : \E k \in 1..n : ranked[k] = s,
         \A i, j \in 1..n : i < j => Precedes(ranked[i], ranked[j])
  PROVE  LET able  == Sublist(requested, AblePlaces(vms, requested))
             alone == SortScores(Scores(vms, able, plans, weights))
         IN  /\ DOMAIN alone = 1..e /\ e >= 1
             /\ \A k \in 1..e : \E p \in Nat : alone[k] = At(ranked[k], p)
<1> DEFINE J == AblePlaces(vms, requested)
           able == Sublist(requested, J)
           at == InOrder(J, Less(J))
           m == Cardinality(J)
           T == Scores(vms, requested, plans, weights)
           U == Scores(vms, able, plans, weights)
           F(i) == ScoreAt(vms, requested, plans, weights, i)
           G(k) == ScoreAt(vms, able, plans, weights, k)
           N == Ranked(requested)
           M == Ranked(able)
           place(i) == CHOOSE k \in 1..m : at[k] = i
           g == [k \in 1..e |-> At(ranked[k], place(ranked[k].pos))]
<1>1. /\ m \in Nat /\ DOMAIN able = 1..m /\ at \in [1..m -> J]
      /\ \A i \in J : \E k \in 1..m : at[k] = i
      /\ \A j, k \in 1..m : j < k <=> at[j] < at[k]
      /\ \A k \in 1..m : able[k] = requested[at[k]]
      /\ \A k \in 1..m : k \in M <=> at[k] \in N
  BY PlacesMatch
<1>2. IsList(able)
  BY <1>1 DEF IsList
<1>3. J \in SUBSET Nat /\ M \subseteq 1..m
  <2>1. J \in SUBSET Nat
    BY DEF AblePlaces, IsList
  <2>2. M \subseteq 1..m
    BY <1>1 DEF Ranked
  <2> QED
    BY <2>1, <2>2
<1>4. \A i \in N : /\ F(i) \in T /\ IsScore(F(i)) /\ F(i).pos = i
                   /\ F(i).eligible <=> i \in J
  <2>1. \A i \in N : F(i) \in T
    BY DEF Scores
  <2>2. \A i \in N : /\ IsScore(F(i)) /\ F(i).pos = i
                     /\ F(i).eligible = (UnsupportedCount(requested[i], vms) = 0)
    BY ScoreIs
  <2>3. \A i \in N : i \in J <=> UnsupportedCount(requested[i], vms) = 0
    BY DEF AblePlaces, Ranked
  <2> HIDE DEF N, F, J
  <2> QED
    BY <2>1, <2>2, <2>3
<1>5. \A s \in T : \E i \in N : s = F(i)
  BY DEF Scores
<1>6. \A k \in M : at[k] \in N \cap J /\ G(k) = At(F(at[k]), k)
  <2> SUFFICES ASSUME NEW k \in M PROVE at[k] \in N \cap J /\ G(k) = At(F(at[k]), k)
    OBVIOUS
  <2>1. k \in 1..m /\ at[k] \in N \cap J /\ able[k] = requested[at[k]]
    <3> HIDE DEF at, able, J, M, N
    <3> QED
      BY <1>1, <1>3
  <2>2. CheapestCost(Raw(vms, able, plans)) = CheapestCost(Raw(vms, requested, plans))
    BY SameBaseline
  <2> DEFINE c == able[k]
             i == at[k]
             base == CheapestCost(Raw(vms, requested, plans))
             w == Normalized(weights)
  <2>3. G(k) = Score(Metrics(vms, c, plans[c], k), base, w)
    BY <2>2 DEF ScoreAt
  <2>4. F(at[k]) = Score(Metrics(vms, c, plans[c], i), base, w)
    BY <2>1 DEF ScoreAt
  <2> HIDE DEF base, w, c, i, F, G
  <2>5. Score(Metrics(vms, c, plans[c], k), base, w) = At(Score(Metrics(vms, c, plans[c], i), base, w), k)
    BY DEF Score, Metrics, At
  <2> QED
    BY <2>1, <2>3, <2>4, <2>5
<1>7. \A k \in M : G(k) \in U
  BY DEF Scores
<1>8. \A u \in U : \E k \in M : u = G(k)
  BY DEF Scores
<1>9. IsFiniteSet(U) /\ Orders(ByRank(U), U) /\ \A u \in U : IsScore(u)
  BY <1>2, ScoresAre
<1>10. SortScores(U) = InOrder(U, ByRank(U))
  BY DEF SortScores, ByRank
<1>11. \A k \in 1..m : place(at[k]) = k
  <2> SUFFICES ASSUME NEW k \in 1..m, NEW j \in 1..m, at[j] = at[k] PROVE j = k
    OBVIOUS
  <2>1. at[j] \in Nat /\ ~(at[j] < at[k]) /\ ~(at[k] < at[j])
    <3>1. at[j] \in Nat
      BY <1>1, <1>3
    <3> HIDE DEF at
    <3> QED
      BY <3>1
  <2>2. ~(j < k) /\ ~(k < j)
    <3> HIDE DEF at
    <3> QED
      BY <1>1, <2>1
  <2> QED
    BY <1>1, <2>2
<1> HIDE DEF at, able, J, M, N, F, G, T, U, m, place
<1>12. \A k \in 1..e : \E l \in M : /\ ranked[k] = F(at[l]) /\ ranked[k].pos = at[l]
                                    /\ g[k] = G(l) /\ g[k].pos = l
  <2> SUFFICES ASSUME NEW k \in 1..e
               PROVE  \E l \in M : /\ ranked[k] = F(at[l]) /\ ranked[k].pos = at[l]
                                   /\ g[k] = G(l) /\ g[k].pos = l
    OBVIOUS
  <2>1. k \in 1..n /\ ranked[k] \in T /\ ranked[k].eligible
    BY DEF Podium, T
  <2>2. PICK i \in N : ranked[k] = F(i)
    BY <1>5, <2>1
  <2>3. i \in J /\ ranked[k].pos = i
    BY <1>4, <2>1, <2>2
  <2>4. PICK l \in 1..m : at[l] = i
    BY <1>1, <2>3
  <2>5. l \in M
    BY <1>1, <2>4
  <2>6. g[k] = At(F(at[l]), l)
    BY <1>11, <2>2, <2>3, <2>4
  <2>7. At(F(at[l]), l).pos = l
    <3>1. IsScore(F(at[l]))
      BY <1>4, <1>6, <2>5
    <3> DEFINE s == F(at[l])
    <3>2. s = [pos |-> s.pos, cloud |-> s.cloud, cost |-> s.cost, cost_score |-> s.cost_score,
               fit_score |-> s.fit_score, os_score |-> s.os_score, eligible |-> s.eligible,
               weighted |-> s.weighted]
      BY <3>1 DEF IsScore
    <3> HIDE DEF s
    <3>3. At(s, l).pos = l
      BY <3>2 DEF At
    <3> QED
      BY <3>3 DEF s
  <2> QED
    BY <1>6, <2>2, <2>3, <2>4, <2>5, <2>6, <2>7
<1>13. g \in [1..e -> U]
  <2>1. \A k \in 1..e : g[k] \in U
    BY <1>7, <1>12
  <2> QED
    BY <2>1
<1>14. \A u \in U : \E k \in 1..e : g[k] = u
  <2> SUFFICES ASSUME NEW u \in U PROVE \E k \in 1..e : g[k] = u
    OBVIOUS
  <2>1. PICK l \in M : u = G(l)
    BY <1>8
  <2>2. at[l] \in N \cap J /\ F(at[l]) \in T /\ F(at[l]).eligible
    BY <1>4, <1>6
  <2>3. PICK k \in 1..n : ranked[k] = F(at[l])
    BY <2>2 DEF T
  <2>4. k \in 1..e
    BY <2>2, <2>3 DEF Podium
  <2>5. PICK j \in M : ranked[k] = F(at[j]) /\ ranked[k].pos = at[j] /\ g[k] = G(j)
    BY <1>12, <2>4
  <2>6. at[j] = at[l]
    BY <1>4, <2>2, <2>3, <2>5
  <2>7. j = l
    BY <1>3, <1>11, <2>6
  <2> QED
    BY <2>1, <2>4, <2>5, <2>7
<1>15. \A i, j \in 1..e : i < j => <<g[i], g[j]>> \in ByRank(U)
  <2> SUFFICES ASSUME NEW i \in 1..e, NEW j \in 1..e, i < j PROVE <<g[i], g[j]>> \in ByRank(U)
    OBVIOUS
  <2>1. PICK k \in M : ranked[i] = F(at[k]) /\ ranked[i].pos = at[k] /\ g[i] = G(k) /\ g[i].pos = k
    BY <1>12
  <2>2. PICK l \in M : ranked[j] = F(at[l]) /\ ranked[j].pos = at[l] /\ g[j] = G(l) /\ g[j].pos = l
    BY <1>12
  <2>3. i \in 1..n /\ j \in 1..n
    OBVIOUS
  <2>4. Precedes(ranked[i], ranked[j])
    BY <2>3
  <2>5. /\ g[i].eligible = ranked[i].eligible /\ g[i].weighted = ranked[i].weighted
        /\ g[j].eligible = ranked[j].eligible /\ g[j].weighted = ranked[j].weighted
    <3>1. IsScore(ranked[i]) /\ IsScore(ranked[j])
      BY <1>4, <1>6, <2>1, <2>2
    <3>2. g[i] = At(ranked[i], k) /\ g[j] = At(ranked[j], l)
      BY <1>6, <2>1, <2>2
    <3> HIDE DEF g
    <3> QED
      BY <3>1, <3>2 DEF IsScore, At
  <2>6. ranked[i].pos < ranked[j].pos <=> g[i].pos < g[j].pos
    BY <1>1, <1>3, <2>1, <2>2
  <2> HIDE DEF g
  <2>7. Precedes(g[i], g[j])
    BY <2>4, <2>5, <2>6 DEF Precedes
  <2>8. g[i] \in U /\ g[j] \in U
    BY <1>13
  <2> QED
    BY <2>7, <2>8 DEF ByRank
<1> HIDE DEF g
<1>16. g = SortScores(U)
  BY <1>9, <1>10, <1>13, <1>14, <1>15, SortingIsUnique
<1>17. \A k \in 1..e : \E p \in Nat : g[k] = At(ranked[k], p)
  <2> SUFFICES ASSUME NEW k \in 1..e PROVE \E p \in Nat : g[k] = At(ranked[k], p)
    OBVIOUS
  <2>1. PICK l \in M : ranked[k] = F(at[l]) /\ g[k] = G(l)
    BY <1>12
  <2>2. l \in Nat /\ G(l) = At(F(at[l]), l)
    BY <1>3, <1>6
  <2> QED
    BY <2>1, <2>2
<1>18. e >= 1
  <2>1. PICK i \in J : \A k \in J : i <= k
    BY <1>3, LeastNatural DEF J
  <2>2. i \in N
    <3>1. \A j \in DOMAIN requested : j < i => j \notin J
      BY <1>3, <2>1 DEF IsList
    <3> QED
      BY <3>1 DEF J, N, AblePlaces, Ranked
  <2>3. F(i) \in T /\ F(i).eligible
    BY <1>4, <2>2
  <2>4. PICK k \in 1..n : ranked[k] = F(i)
    BY <2>3 DEF T
  <2>5. k \in 1..e
    BY <2>3, <2>4 DEF Podium
  <2> QED
    BY <2>5
<1>19. DOMAIN g = 1..e
  BY <1>13
<1> QED
  BY <1>16, <1>17, <1>18, <1>19 DEF U, able, J

\* A cloud that is cheaper and no worse otherwise weighs no less, by the same baseline.
LEMMA BetterWeighsMore ==
  ASSUME NEW vms \in Estates, NEW plans \in PlanSets, NEW weights \in WeightSets,
         WeightTotal(weights) > 0, NEW requested, IsList(requested),
         NEW s \in Scores(vms, requested, plans, weights),
         NEW t \in Scores(vms, requested, plans, weights), s.eligible, t.eligible,
         s.cost < t.cost, s.fit_score >= t.fit_score, s.os_score >= t.os_score
  PROVE  s.weighted >= t.weighted
<1> DEFINE base == CheapestCost(Raw(vms, requested, plans))
           w == Normalized(weights)
           sum(x) == w.cost * CostScore(x.cost, base) + w.fit * x.fit_score + w.os * x.os_score
<1>1. ASSUME NEW x \in Scores(vms, requested, plans, weights), x.eligible
      PROVE  /\ x.weighted = Round(sum(x), 10000)
             /\ IsScore(x) /\ base \in Nat
  <2>1. PICK i \in Ranked(requested) : x = ScoreAt(vms, requested, plans, weights, i)
    BY DEF Scores
  <2> DEFINE r == Metrics(vms, requested[i], plans[requested[i]], i)
  <2>2. IsScore(x) /\ base \in Nat /\ x.eligible = (UnsupportedCount(requested[i], vms) = 0)
    BY <2>1, ScoreIs
  <2>3. x = Score(r, base, w)
    BY <2>1 DEF ScoreAt
  <2>4. r.unsupported = 0
    BY <1>1, <2>2 DEF Metrics
  <2> HIDE DEF r, base, w
  <2>5. x.cost = r.cost /\ x.fit_score = r.fit /\ x.os_score = r.os
    BY <2>3 DEF Score
  <2>6. x.weighted = Round(w.cost * CostScore(r.cost, base) + w.fit * r.fit + w.os * r.os, 10000)
    BY <2>3, <2>4 DEF Score
  <2> QED
    BY <2>2, <2>5, <2>6 DEF base
<1>2. w.cost \in Nat /\ w.fit \in Nat /\ w.os \in Nat
  BY WeightsAreNumbers
<1>3. /\ s.cost \in Nat /\ s.fit_score \in Nat /\ s.os_score \in Nat
      /\ t.cost \in Nat /\ t.fit_score \in Nat /\ t.os_score \in Nat /\ base \in Nat
  BY <1>1 DEF IsScore
<1> DEFINE c == CostScore(s.cost, base)
           d == CostScore(t.cost, base)
<1>4. c \in Nat /\ d \in Nat /\ d <= c
  BY <1>3, CheaperScoresMore
<1>5. s.weighted = Round(sum(s), 10000) /\ t.weighted = Round(sum(t), 10000)
  BY <1>1
<1>6. sum(s) = w.cost * c + w.fit * s.fit_score + w.os * s.os_score
  OBVIOUS
<1>7. sum(t) = w.cost * d + w.fit * t.fit_score + w.os * t.os_score
  OBVIOUS
<1> HIDE DEF c, d, base, w, sum
<1>8. /\ w.cost * c \in Nat /\ w.fit * s.fit_score \in Nat /\ w.os * s.os_score \in Nat
      /\ w.cost * d \in Nat /\ w.fit * t.fit_score \in Nat /\ w.os * t.os_score \in Nat
  BY <1>2, <1>3, <1>4
<1>9. \A k, a, b \in Nat : a <= b => k * a <= k * b
  OBVIOUS
<1>10. /\ w.cost * d <= w.cost * c /\ w.fit * t.fit_score <= w.fit * s.fit_score
       /\ w.os * t.os_score <= w.os * s.os_score
  BY <1>2, <1>3, <1>4, <1>9
<1>11. sum(s) \in Nat /\ sum(t) \in Nat /\ sum(t) <= sum(s)
  BY <1>6, <1>7, <1>8, <1>10
<1>12. Round(sum(t), 10000) <= Round(sum(s), 10000)
  BY <1>11, RoundGrows
<1>13. Round(sum(t), 10000) \in Nat /\ Round(sum(s), 10000) \in Nat
  BY <1>11, RoundIsNatural
<1> QED
  BY <1>5, <1>12, <1>13

\* What follows from a ranking.
Margin(ranked, rivals) ==
  IF Len(rivals) > 1 THEN ranked[1].weighted - rivals[2].weighted ELSE ranked[1].weighted
RunnerUp(rivals) == IF Len(rivals) > 1 THEN {rivals[2].cloud} ELSE {}
Dearest(rivals) == Max({rivals[i].cost : i \in DOMAIN rivals})

LEMMA RecommendFields ==
  ASSUME NEW vms, NEW requested, NEW plans, NEW weights
  PROVE  LET rec    == Recommend(vms, requested, plans, weights)
             ranked == SortScores(Scores(vms, requested, plans, weights))
             rivals == Contenders(ranked)
         IN  /\ rec.ranked = ranked /\ rec.recommended = ranked[1].cloud
             /\ rec.margin = Margin(ranked, rivals) /\ rec.runner_up = RunnerUp(rivals)
             /\ rec.spread = 12 * (Dearest(rivals) - CheapestCost(Raw(vms, requested, plans)))
<1> DEFINE raw == Raw(vms, requested, plans)
           base == CheapestCost(raw)
           w == Normalized(weights)
           ranked == SortScores(Scores(vms, requested, plans, weights))
<1>1. {Score(r, base, w) : r \in raw} = Scores(vms, requested, plans, weights)
  <2>1. \A x : x \in raw <=>
          \E i \in Ranked(requested) : x = Metrics(vms, requested[i], plans[requested[i]], i)
    BY DEF Raw
  <2>2. \A x : x \in Scores(vms, requested, plans, weights) <=>
          \E i \in Ranked(requested) :
            x = Score(Metrics(vms, requested[i], plans[requested[i]], i), base, w)
    BY DEF Scores, ScoreAt
  <2> HIDE DEF raw, base, w
  <2> QED
    BY <2>1, <2>2
<1>2. SortScores({Score(r, base, w) : r \in raw}) = ranked
  BY <1>1
<1> QED
  BY <1>2 DEF Recommend, Margin, RunnerUp, Dearest

\* The contenders are the eligible ones, when there is one.
LEMMA ContendersAre ==
  ASSUME NEW ranked, NEW e \in Nat, e >= 1, Podium(ranked, e)
  PROVE  Contenders(ranked) = [k \in 1..e |-> ranked[k]]
<1>1. Eligible(ranked) = [k \in 1..e |-> ranked[k]]
  BY DEF Podium
<1>2. [k \in 1..e |-> ranked[k]] # <<>>
  <2>1. 1 \in DOMAIN [k \in 1..e |-> ranked[k]] /\ DOMAIN <<>> = {}
    OBVIOUS
  <2> QED
    BY <2>1
<1> QED
  BY <1>1, <1>2 DEF Contenders

\* The unfit have no say.
LEMMA UnfitHaveNoSay ==
  ASSUME RecommendKnows
  PROVE  RankingIgnoresTheUnfit
<1> SUFFICES ASSUME doing = "recommend", Able # <<>>
             PROVE  Undisturbed(Recommend(input.vms, Able, input.plans, input.weights))
  BY DEF RankingIgnoresTheUnfit
<1> DEFINE vms == input.vms
           requested == input.requested
           plans == input.plans
           weights == input.weights
           T == Scores(vms, requested, plans, weights)
           ranked == SortScores(T)
           U == Scores(vms, Able, plans, weights)
           alone == SortScores(U)
           rec == Recommend(vms, Able, plans, weights)
<1>1. /\ vms \in Estates /\ requested \in Requests /\ plans \in PlanSets /\ weights \in WeightSets
      /\ WeightTotal(weights) > 0 /\ answer = Recommend(vms, requested, plans, weights)
  BY DEF RecommendKnows
<1>2. IsList(requested)
  BY <1>1, AnalysisAssumption DEF IsList
<1>3. Able = Sublist(requested, AblePlaces(vms, requested))
  BY DEF Able, AblePlaces
<1> HIDE DEF vms, requested, plans, weights
<1>4. AblePlaces(vms, requested) # {}
  <2> SUFFICES ASSUME AblePlaces(vms, requested) = {} PROVE Able = <<>>
    OBVIOUS
  <2>1. 1..0 = {}
    OBVIOUS
  <2>2. Able = [k \in 1..0 |-> requested[k]]
    BY <1>3, <2>1, FirstOnes
  <2> QED
    BY <2>1, <2>2
<1>5. PICK n \in Nat, e \in Nat :
        /\ ranked \in [1..n -> T] /\ e <= n /\ Podium(ranked, e)
        /\ \A s \in T : \E k \in 1..n : ranked[k] = s
        /\ \A i, j \in 1..n : i < j => Precedes(ranked[i], ranked[j])
  BY <1>1, <1>2, RankedIs
<1>6. /\ DOMAIN alone = 1..e /\ e >= 1
      /\ \A k \in 1..e : \E p \in Nat : alone[k] = At(ranked[k], p)
  <2> DEFINE r == ranked
             able == Sublist(requested, AblePlaces(vms, requested))
  <2>1. /\ r = SortScores(T) /\ r \in [1..n -> T] /\ e <= n /\ Podium(r, e)
        /\ \A s \in T : \E k \in 1..n : r[k] = s
        /\ \A i, j \in 1..n : i < j => Precedes(r[i], r[j])
    BY <1>5
  <2> HIDE DEF r
  <2>2. /\ DOMAIN SortScores(Scores(vms, able, plans, weights)) = 1..e /\ e >= 1
        /\ \A k \in 1..e : \E p \in Nat : SortScores(Scores(vms, able, plans, weights))[k] = At(r[k], p)
    BY <1>1, <1>2, <1>4, <2>1, AloneIsEligiblePart
  <2> QED
    BY <1>3, <2>2 DEF r
<1>7. /\ IsFiniteSet(T) /\ \A s \in T : IsScore(s)
  BY <1>1, <1>2, ScoresAre
<1>8. /\ answer.ranked = ranked /\ answer.recommended = ranked[1].cloud
      /\ answer.margin = Margin(ranked, Contenders(ranked))
      /\ answer.runner_up = RunnerUp(Contenders(ranked))
      /\ answer.spread = 12 * (Dearest(Contenders(ranked)) - CheapestCost(Raw(vms, requested, plans)))
  BY <1>1, RecommendFields
<1>9. /\ rec.ranked = alone /\ rec.recommended = alone[1].cloud
      /\ rec.margin = Margin(alone, Contenders(alone))
      /\ rec.runner_up = RunnerUp(Contenders(alone))
      /\ rec.spread = 12 * (Dearest(Contenders(alone)) - CheapestCost(Raw(vms, Able, plans)))
  BY RecommendFields
<1>10. CheapestCost(Raw(vms, Able, plans)) = CheapestCost(Raw(vms, requested, plans))
  BY <1>2, <1>3, <1>4, SameBaseline
<1> HIDE DEF ranked, alone, T, U, rec
<1>11. \A k \in 1..e : /\ IsScore(ranked[k]) /\ ranked[k].eligible /\ ranked[k] \in T
                        /\ alone[k] = At(ranked[k], alone[k].pos)
                        /\ alone[k].cloud = ranked[k].cloud /\ alone[k].cost = ranked[k].cost
                        /\ alone[k].weighted = ranked[k].weighted
                        /\ alone[k].fit_score = ranked[k].fit_score
                        /\ alone[k].os_score = ranked[k].os_score
                        /\ alone[k].eligible
                        /\ [alone[k] EXCEPT !.pos = 0] = [ranked[k] EXCEPT !.pos = 0]
  <2> SUFFICES ASSUME NEW k \in 1..e
               PROVE  /\ IsScore(ranked[k]) /\ ranked[k].eligible /\ ranked[k] \in T
                      /\ alone[k] = At(ranked[k], alone[k].pos)
                      /\ alone[k].cloud = ranked[k].cloud /\ alone[k].cost = ranked[k].cost
                      /\ alone[k].weighted = ranked[k].weighted
                      /\ alone[k].fit_score = ranked[k].fit_score
                      /\ alone[k].os_score = ranked[k].os_score
                      /\ alone[k].eligible
                      /\ [alone[k] EXCEPT !.pos = 0] = [ranked[k] EXCEPT !.pos = 0]
    OBVIOUS
  <2>1. k \in 1..n /\ k \in DOMAIN ranked
    BY <1>5
  <2>2. ranked[k] \in T /\ ranked[k].eligible /\ IsScore(ranked[k])
    BY <1>5, <1>7, <2>1 DEF Podium
  <2>3. PICK p \in Nat : alone[k] = At(ranked[k], p)
    BY <1>6
  <2> DEFINE s == ranked[k]
             a == alone[k]
  <2>4. s = [pos |-> s.pos, cloud |-> s.cloud, cost |-> s.cost, cost_score |-> s.cost_score,
             fit_score |-> s.fit_score, os_score |-> s.os_score, eligible |-> s.eligible,
             weighted |-> s.weighted]
    BY <2>2 DEF IsScore
  <2>5. a = At(s, p) /\ s.eligible
    BY <2>2, <2>3
  <2> HIDE DEF s, a
  <2>6. /\ a.cloud = s.cloud /\ a.cost = s.cost /\ a.weighted = s.weighted /\ a.pos = p
        /\ a.fit_score = s.fit_score /\ a.os_score = s.os_score /\ a.eligible
        /\ [a EXCEPT !.pos = 0] = [s EXCEPT !.pos = 0]
    BY <2>4, <2>5 DEF At
  <2> QED
    BY <2>2, <2>5, <2>6 DEF s, a
<1>12. Podium(alone, e)
  <2> DEFINE I == {i \in DOMAIN alone : alone[i].eligible}
  <2>1. I = 1..e
    BY <1>6, <1>11
  <2>2. Eligible(alone) = Sublist(alone, I)
    BY DEF Eligible
  <2> HIDE DEF I
  <2>3. Eligible(alone) = [k \in 1..e |-> alone[k]]
    BY <2>1, <2>2, FirstOnes
  <2> QED
    BY <1>6, <1>11, <2>3 DEF Podium
<1> DEFINE f == [k \in 1..e |-> ranked[k]]
           h == [k \in 1..e |-> alone[k]]
<1>13. Contenders(ranked) = f /\ Contenders(alone) = h
  BY <1>5, <1>6, <1>12, ContendersAre
<1>14. Len(f) = e /\ Len(h) = e /\ DOMAIN f = 1..e /\ DOMAIN h = 1..e
  OBVIOUS
<1>15. \A k \in 1..e : /\ f[k] = ranked[k] /\ h[k] = alone[k]
                        /\ f[k].cloud = h[k].cloud /\ f[k].cost = h[k].cost
                        /\ f[k].weighted = h[k].weighted
  BY <1>11
<1> HIDE DEF f, h
<1>16. Margin(alone, h) = Margin(ranked, f) /\ RunnerUp(h) = RunnerUp(f)
  <2>1. 1 \in 1..e /\ (e > 1 => 2 \in 1..e)
    BY <1>6
  <2> QED
    BY <1>14, <1>15, <2>1 DEF Margin, RunnerUp
<1>17. Dearest(h) = Dearest(f)
  <2>1. {h[i].cost : i \in DOMAIN h} = {f[i].cost : i \in DOMAIN f}
    BY <1>14, <1>15
  <2> QED
    BY <2>1 DEF Dearest
<1>18. rec.recommended = answer.recommended
  <2>1. 1 \in 1..e
    BY <1>6
  <2> QED
    BY <1>8, <1>9, <1>15, <2>1
<1>19. Table(rec.ranked) = Table(Eligible(answer.ranked))
  <2>1. Table(alone) = [k \in 1..e |-> [alone[k] EXCEPT !.pos = 0]]
    BY <1>6 DEF Table
  <2>2. Eligible(ranked) = f
    BY <1>5 DEF Podium, f
  <2>3. Table(f) = [k \in 1..e |-> [ranked[k] EXCEPT !.pos = 0]]
    BY <1>14, <1>15 DEF Table
  <2>4. \A k \in 1..e : [alone[k] EXCEPT !.pos = 0] = [ranked[k] EXCEPT !.pos = 0]
    BY <1>11
  <2>5. Table(alone) = Table(f)
    BY <2>1, <2>3, <2>4
  <2> QED
    BY <1>8, <1>9, <2>2, <2>5
<1>20. \A i, j \in 1..e : i <= j => ranked[i].weighted >= ranked[j].weighted
  <2> SUFFICES ASSUME NEW i \in 1..e, NEW j \in 1..e, i <= j
               PROVE  ranked[i].weighted >= ranked[j].weighted
    OBVIOUS
  <2>1. /\ ranked[i].weighted \in Nat /\ ranked[j].weighted \in Nat
        /\ ranked[i].eligible /\ ranked[j].eligible
    BY <1>11 DEF IsScore
  <2>2. CASE i = j
    BY <2>1, <2>2
  <2>3. CASE i < j
    <3>1. i \in 1..n /\ j \in 1..n
      BY <1>5
    <3>2. Precedes(ranked[i], ranked[j])
      BY <1>5, <2>3, <3>1
    <3> QED
      BY <2>1, <3>2 DEF Precedes
  <2> QED
    BY <2>2, <2>3
<1>21. answer.margin >= 0
  <2>1. 1 \in 1..e /\ (e > 1 => 2 \in 1..e)
    BY <1>6
  <2>2. \A k \in 1..e : ranked[k].weighted \in Nat
    BY <1>11 DEF IsScore
  <2>3. answer.margin = IF e > 1 THEN ranked[1].weighted - ranked[2].weighted ELSE ranked[1].weighted
    BY <1>8, <1>13, <1>14, <1>15, <2>1 DEF Margin
  <2> QED
    BY <1>20, <2>1, <2>2, <2>3
<1>22. ASSUME NEW i \in DOMAIN rec.ranked PROVE NotBeaten(answer.ranked[1], rec.ranked[i])
  <2>1. i \in 1..e /\ 1 \in 1..e /\ rec.ranked[i] = alone[i] /\ answer.ranked[1] = ranked[1]
    BY <1>6, <1>8, <1>9
  <2>2. ASSUME alone[i].cost < ranked[1].cost, alone[i].fit_score >= ranked[1].fit_score,
               alone[i].os_score >= ranked[1].os_score
        PROVE  alone[i].weighted = ranked[1].weighted
    <3>1. /\ ranked[i].cost < ranked[1].cost /\ ranked[i].fit_score >= ranked[1].fit_score
          /\ ranked[i].os_score >= ranked[1].os_score /\ ranked[i] \in T /\ ranked[1] \in T
          /\ ranked[i].eligible /\ ranked[1].eligible
      BY <1>11, <2>1, <2>2
    <3>2. ranked[i].weighted >= ranked[1].weighted
      BY <1>1, <1>2, <3>1, BetterWeighsMore DEF T
    <3>3. ranked[1].weighted >= ranked[i].weighted
      BY <1>20, <2>1
    <3>4. ranked[1].weighted \in Nat /\ ranked[i].weighted \in Nat /\ alone[i].weighted = ranked[i].weighted
      BY <1>11, <2>1 DEF IsScore
    <3> QED
      BY <3>2, <3>3, <3>4
  <2> QED
    BY <2>1, <2>2 DEF NotBeaten
<1>23. <<rec.margin, rec.runner_up, rec.spread>> = <<answer.margin, answer.runner_up, answer.spread>>
  BY <1>8, <1>9, <1>10, <1>13, <1>16, <1>17
<1> QED
  BY <1>18, <1>19, <1>21, <1>22, <1>23 DEF Undisturbed, rec, vms, plans, weights

-----------------------------------------------------------------------------
(* What holds of every analysis.                                              *)

\* Every answer is derived from all that was read.
LEMMA AnalysisIsKnown == Spec => []AnalysisInvariant
<1>1. Init => AnalysisInvariant
  BY DEF Init, AnalysisInvariant, ReadingKnows, DependsKnows, PrivateCallsAreRouted, RecommendKnows, ConfidenceKnows, DiffKnows
<1>2. ASSUME AnalysisInvariant, [Next]_vars PROVE AnalysisInvariant'
  <2> USE DEF AnalysisInvariant
  <2>1. CASE OpenExport
    BY <2>1, OpenExportStep
  <2>2. CASE ReadRow
    <3>1. ReadingKnows' /\ doing' = "reading"
      BY <1>2, <2>2, ReadRowStep DEF ReadRow
    <3> QED
      BY <3>1 DEF DependsKnows, PrivateCallsAreRouted, RecommendKnows, ConfidenceKnows, DiffKnows
  <2>3. CASE Depends
    BY <1>2, <2>3, DependsStep
  <2>4. CASE Hybrid
    BY <1>2, <2>4, HybridStep
  <2>5. CASE RecommendCloud
    <3>1. PICK vms \in Estates, requested \in Requests, plans \in PlanSets, weights \in WeightSets :
            /\ input' = [vms |-> vms, requested |-> requested, plans |-> plans, weights |-> weights]
            /\ IF WeightTotal(weights) > 0
               THEN doing' = "recommend" /\ answer' = Recommend(vms, requested, plans, weights)
               ELSE doing' = "refused"
      BY <2>5 DEF RecommendCloud
    <3>2. /\ input'.vms = vms /\ input'.requested = requested /\ input'.plans = plans
          /\ input'.weights = weights /\ doing' \in {"recommend", "refused"}
      BY <3>1
    <3>3. RecommendKnows'
      BY <3>1, <3>2 DEF RecommendKnows
    <3> QED
      BY <3>2, <3>3 DEF ReadingKnows, DependsKnows, PrivateCallsAreRouted, ConfidenceKnows, DiffKnows
  <2>6. CASE Confidence
    <3>1. PICK vms \in Workloads : input' = [vms |-> vms] /\ answer' = ScorePlan(vms)
      BY <2>6 DEF Confidence
    <3>2. doing' = "confidence" /\ input'.vms = vms
      BY <2>6, <3>1 DEF Confidence
    <3>3. ConfidenceKnows'
      BY <3>1, <3>2 DEF ConfidenceKnows
    <3> QED
      BY <3>2, <3>3 DEF ReadingKnows, DependsKnows, PrivateCallsAreRouted, RecommendKnows, DiffKnows
  <2>7. CASE Compare
    BY <2>7, CompareStep
  <2>8. CASE Finish
    BY <2>8 DEF Finish, ReadingKnows, DependsKnows, PrivateCallsAreRouted, RecommendKnows, ConfidenceKnows, DiffKnows
  <2>9. CASE UNCHANGED vars
    <3>1. doing' = doing /\ input' = input /\ answer' = answer
      BY <2>9 DEF vars
    <3>2. Calls' = Calls /\ Names' = Names /\ OutwardCalls' = OutwardCalls
      BY <3>1 DEF Calls, Seen, Names, OutwardCalls
    <3>3. PrivateCallsAreRouted' = PrivateCallsAreRouted
      BY <3>1, <3>2 DEF PrivateCallsAreRouted, Routed, HasRoute, Covering
    <3> QED
      BY <1>2, <3>1, <3>2, <3>3
         DEF ReadingKnows, DependsKnows, RecommendKnows, ConfidenceKnows, DiffKnows, PairsKnown, ExternalKnown, CountsKnown
  <2> QED
    BY <1>2, <2>1, <2>2, <2>3, <2>4, <2>5, <2>6, <2>7, <2>8, <2>9 DEF Next
<1> QED
  BY <1>1, <1>2, PTL DEF Spec

(* depends: a report without a violation lets the waves be run, machines that *)
(* call each other are one group, and a split group lists a violation.        *)
THEOREM CutsAreReported == Spec => []NoSilentCut
<1>1. AnalysisInvariant => NoSilentCut
  BY ReportIsComplete DEF AnalysisInvariant
<1> QED
  BY <1>1, AnalysisIsKnown, PTL

(* The hybrid stage: each call to a private address that stays behind has one *)
(* network, with the caller and the port, routed or marked for reallocation,  *)
(* and the networks count every connection once.                              *)
THEOREM CallsHaveRoutes == Spec => []PrivateCallsAreRouted
<1>1. AnalysisInvariant => PrivateCallsAreRouted
  BY DEF AnalysisInvariant
<1> QED
  BY <1>1, AnalysisIsKnown, PTL

(* recommend: a cloud that has no price or cannot take the estate changes     *)
(* neither the winner nor a score, the margin or the spread, and the winner   *)
(* is beaten by no able cloud that is cheaper and no worse otherwise.         *)
THEOREM UnfitCloudsHaveNoSay == Spec => []RankingIgnoresTheUnfit
<1>1. AnalysisInvariant => RankingIgnoresTheUnfit
  BY UnfitHaveNoSay DEF AnalysisInvariant
<1> QED
  BY <1>1, AnalysisIsKnown, PTL

(* Confidence: a workload rated high was sized from observed utilisation, and *)
(* a plan rated high holds such a workload.                                   *)
THEOREM HighIsMeasured == Spec => []HighMeansMeasured
<1>1. AnalysisInvariant => HighMeansMeasured
  BY RatingIsEarned DEF AnalysisInvariant
<1> QED
  BY <1>1, AnalysisIsKnown, PTL

(* diff: every machine of both snapshots is accounted for exactly once, a     *)
(* matching UUID is never gone or new, and equal snapshots do not differ.     *)
THEOREM DiffAccountsForAll == Spec => []DiffIsWhole
<1>1. AnalysisInvariant => DiffIsWhole
  BY DiffIsComplete DEF AnalysisInvariant
<1> QED
  BY <1>1, AnalysisIsKnown, PTL
=============================================================================
