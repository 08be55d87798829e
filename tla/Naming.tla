------------------------------- MODULE Naming -------------------------------
(* From the rows of an uploaded inventory to machines with a name and a       *)
(* Terraform label of their own: normalize() and _disambiguate() of           *)
(* normalize.py, and _ensure_unique_resource_names() of agents/rightsizing.py.*)
(*                                                                            *)
(* Each iteration of a loop is a step, the inner while loops included, so     *)
(* what holds at the end of a loop is an invariant and not an induction over  *)
(* the input.                                                                 *)
(*                                                                            *)
(* A name is the sequence of its words, each with the spelling before it (a   *)
(* separator, a capital): web-2 is <<<<"", web>>, <<"-", 2>>>>.  A label has   *)
(* the words only.  A number n, as a word, is the decimal numeral of n.       *)
EXTENDS Integers, Sequences

CONSTANTS Names,     \* names of machines in the inventory, after sanitising
          Blank,     \* a row with no name
          Uuids,     \* hypervisor UUIDs, in lower case
          NoUuid,    \* a row with no UUID
          Tails,     \* for each UUID its trailing characters, 8 of them and more
          Estates,   \* the inventories that may be uploaded
          MaxVms     \* MAX_VMS

VARIABLES records,   \* the rows of the upload
          phase,     \* which loop runs
          row,       \* rows read so far
          seen,      \* seen.values(): the machines, in order of first appearance
          names,     \* vm_name of each machine
          taken,     \* names that are no longer free
          todo,      \* machines _disambiguate has not looked at
          probe,     \* candidates an inner loop has refused for this machine
          labels,    \* resource_name of each plan so far
          counts     \* `seen` of _ensure_unique_resource_names

vars == <<records, phase, row, seen, names, taken, todo, probe, labels, counts>>

Records  == [name : Names \cup {Blank}, uuid : Uuids \cup {NoUuid}, disk : Nat]
Machines == {r \in Records : r.name # Blank}

ASSUME NamingAssumption ==
  /\ Blank \notin Names /\ NoUuid \notin Uuids /\ MaxVms \in Nat
  /\ \A n \in Names : n \in Seq({n[k] : k \in DOMAIN n})
  /\ \A u \in Uuids : Len(Tails[u]) \in Nat \ {0}
  /\ \A e \in Estates : e \in Seq(Records)

Init ==
  /\ records \in Estates
  /\ phase = "normalize" /\ row = 0
  /\ seen = <<>> /\ names = <<>> /\ taken = {} /\ todo = {} /\ probe = 0
  /\ labels = <<>> /\ counts = [l \in {} |-> 0]

-----------------------------------------------------------------------------
(* normalize *)

\* Faulty variant: a machine is its name.
IdentityByName(m) == <<"name", m.name>>

\* _identity: the UUID, or failing that the name.
Identity(m) == IF m.uuid # NoUuid THEN <<"uuid", m.uuid>> ELSE <<"name", m.name>>

Current == records[row + 1]
Reading == phase = "normalize" /\ row < Len(records)

\* A row without a name is not a machine.
SkipRow ==
  /\ Reading /\ Current.name = Blank
  /\ row' = row + 1
  /\ UNCHANGED <<records, phase, seen, names, taken, todo, probe, labels, counts>>

\* The first row of a machine.
AddMachine ==
  /\ Reading /\ Current.name # Blank
  /\ \A p \in DOMAIN seen : Identity(seen[p]) # Identity(Current)
  /\ seen' = Append(seen, Current)
  /\ row' = row + 1
  /\ UNCHANGED <<records, phase, names, taken, todo, probe, labels, counts>>

\* Another row of a machine replaces the first one, in its place, when it has
\* more disk.
MergeRow ==
  /\ Reading /\ Current.name # Blank
  /\ \E p \in DOMAIN seen :
       /\ Identity(seen[p]) = Identity(Current)
       /\ seen' = IF Current.disk > seen[p].disk THEN [seen EXCEPT ![p] = Current] ELSE seen
  /\ row' = row + 1
  /\ UNCHANGED <<records, phase, names, taken, todo, probe, labels, counts>>

-----------------------------------------------------------------------------
(* _disambiguate *)

\* by_name and taken are built, and out is a copy of the machines.
StartNames ==
  /\ phase = "normalize" /\ row = Len(records)
  /\ phase' = "disambiguate"
  /\ names' = [p \in DOMAIN seen |-> seen[p].name]
  /\ taken' = {seen[p].name : p \in DOMAIN seen}
  /\ todo' = DOMAIN seen
  /\ UNCHANGED <<records, row, seen, probe, labels, counts>>

\* by_name has one entry per name, in order of first appearance, and each entry
\* its machines in order.
Leader(p) ==
  CHOOSE q \in DOMAIN seen :
    seen[q].name = seen[p].name /\ \A r \in 1..(q - 1) : seen[r].name # seen[p].name

Turn(p) ==
  /\ phase = "disambiguate" /\ p \in todo
  /\ \A q \in todo : Leader(p) < Leader(q) \/ (Leader(p) = Leader(q) /\ p <= q)

Shared(p) == \E q \in DOMAIN seen : q # p /\ seen[q].name = seen[p].name
Renames(p) == Shared(p) /\ seen[p].uuid # NoUuid

\* f"{name}-{word}"
Suffixed(name, word) == Append(name, <<"-", word>>)

\* Ever longer tails of the UUID, then the whole of it with -2, -3, ...
Candidate(p) ==
  LET tail == Tails[seen[p].uuid]
      full == Suffixed(seen[p].name, tail[Len(tail)])
  IN  IF probe < Len(tail) THEN Suffixed(seen[p].name, tail[probe + 1])
                           ELSE Suffixed(full, probe - Len(tail) + 2)

KeepName(p) ==
  /\ Turn(p) /\ ~Renames(p)
  /\ todo' = todo \ {p}
  /\ UNCHANGED <<records, phase, row, seen, names, taken, probe, labels, counts>>

\* Faulty variant: the new name is not added to taken.
RenameUntaken(p) ==
  /\ Turn(p) /\ Renames(p) /\ Candidate(p) \notin taken
  /\ names' = [names EXCEPT ![p] = Candidate(p)]
  /\ todo' = todo \ {p} /\ probe' = 0
  /\ UNCHANGED <<records, phase, row, seen, taken, labels, counts>>

Rename(p) ==
  /\ Turn(p) /\ Renames(p) /\ Candidate(p) \notin taken
  /\ names' = [names EXCEPT ![p] = Candidate(p)]
  /\ taken' = taken \cup {Candidate(p)}
  /\ todo' = todo \ {p} /\ probe' = 0
  /\ UNCHANGED <<records, phase, row, seen, labels, counts>>

NextName(p) ==
  /\ Turn(p) /\ Renames(p) /\ Candidate(p) \in taken
  /\ probe' = probe + 1
  /\ UNCHANGED <<records, phase, row, seen, names, taken, todo, labels, counts>>

\* No machine, or too many of them: run_pipeline raises.
Reject ==
  /\ phase = "disambiguate" /\ todo = {}
  /\ Len(seen) = 0 \/ Len(seen) > MaxVms
  /\ phase' = "rejected"
  /\ UNCHANGED <<records, row, seen, names, taken, todo, probe, labels, counts>>

-----------------------------------------------------------------------------
(* _ensure_unique_resource_names *)

\* terraform_safe_name: whatever separates words becomes `_`, in lower case.
Label(name) == [k \in DOMAIN name |-> name[k][2]]

\* The machines are planned in their order; sizing changes no name.
StartLabels ==
  /\ phase = "disambiguate" /\ todo = {} /\ Len(seen) \in 1..MaxVms
  /\ phase' = "label"
  /\ UNCHANGED <<records, row, seen, names, taken, todo, probe, labels, counts>>

Labelling == phase = "label" /\ Len(labels) < Len(names)
Base == Label(names[Len(labels) + 1])

\* f"{base}_{count + 1}", and count goes up with each refusal.
NextLabel == Append(Base, counts[Base] + probe + 1)

\* The first plan with a label keeps it.
KeepLabel ==
  /\ Labelling /\ Base \notin DOMAIN counts
  /\ labels' = Append(labels, Base)
  /\ counts' = [l \in DOMAIN counts \cup {Base} |-> IF l = Base THEN 1 ELSE counts[l]]
  /\ UNCHANGED <<records, phase, row, seen, names, taken, todo, probe>>

\* Faulty variant: the suffixed label is not looked up.
SuffixLabelBlindly ==
  /\ Labelling /\ Base \in DOMAIN counts
  /\ labels' = Append(labels, NextLabel)
  /\ counts' = [l \in DOMAIN counts \cup {NextLabel} |->
                   IF l = Base THEN counts[Base] + 1 ELSE IF l = NextLabel THEN 1 ELSE counts[l]]
  /\ probe' = 0
  /\ UNCHANGED <<records, phase, row, seen, names, taken, todo>>

SuffixLabel ==
  /\ Labelling /\ Base \in DOMAIN counts /\ NextLabel \notin DOMAIN counts
  /\ labels' = Append(labels, NextLabel)
  /\ counts' = [l \in DOMAIN counts \cup {NextLabel} |->
                   IF l = Base THEN counts[Base] + 1 ELSE IF l = NextLabel THEN 1 ELSE counts[l]]
  /\ probe' = 0
  /\ UNCHANGED <<records, phase, row, seen, names, taken, todo>>

\* Faulty variant: the same suffix is tried again.
SkipLabelStuck ==
  /\ Labelling /\ Base \in DOMAIN counts /\ NextLabel \in DOMAIN counts
  /\ UNCHANGED vars

SkipLabel ==
  /\ Labelling /\ Base \in DOMAIN counts /\ NextLabel \in DOMAIN counts
  /\ probe' = probe + 1
  /\ UNCHANGED <<records, phase, row, seen, names, taken, todo, labels, counts>>

Done ==
  /\ phase = "label" /\ Len(labels) = Len(names)
  /\ phase' = "done"
  /\ UNCHANGED <<records, row, seen, names, taken, todo, probe, labels, counts>>

Next ==
  \/ SkipRow \/ AddMachine \/ MergeRow
  \/ StartNames \/ Reject
  \/ \E p \in DOMAIN seen : KeepName(p) \/ Rename(p) \/ NextName(p)
  \/ StartLabels \/ KeepLabel \/ SuffixLabel \/ SkipLabel \/ Done

Spec == Init /\ [][Next]_vars

\* The loops run: nothing in them waits.
FairSpec == Spec /\ WF_vars(Next)

-----------------------------------------------------------------------------
TypeOK ==
  /\ records \in Seq(Records)
  /\ phase  \in {"normalize", "disambiguate", "rejected", "label", "done"}
  /\ row    \in 0..Len(records)
  /\ seen   \in Seq(Machines)
  /\ phase # "normalize" => Len(names) = Len(seen) /\ DOMAIN names = DOMAIN seen
  /\ todo   \subseteq DOMAIN seen
  /\ probe  \in Nat
  /\ Len(labels) <= Len(names)
  /\ \A l \in DOMAIN counts : counts[l] \in Nat \ {0}

Named == phase \in {"rejected", "label", "done"}

\* Every named row of the upload is in the plan: by its UUID under whatever name
\* its fullest row has, or by its name when it has no UUID, once and with no
\* less disk than any of its rows (ADR 0070: no machine is dropped silently).
NoMachineLost ==
  \A k \in 1..row : records[k].name # Blank =>
    \E p \in DOMAIN seen :
      /\ seen[p].uuid = records[k].uuid
      /\ records[k].uuid = NoUuid => seen[p].name = records[k].name
      /\ seen[p].disk >= records[k].disk
      /\ \A q \in DOMAIN seen : q # p =>
           \/ seen[q].uuid # records[k].uuid
           \/ records[k].uuid = NoUuid /\ seen[q].name # records[k].name

\* vm_name, on which the rest of the pipeline joins, is unique, although a
\* suffixed name may be the real name of another machine.
NamesUnique ==
  Named => \A p, q \in DOMAIN names : names[p] = names[q] => p = q

\* resource_name is unique: distinct names may collapse onto one label, and a
\* suffixed label may be the label of a machine that has it by name.
LabelsUnique == \A p, q \in DOMAIN labels : labels[p] = labels[q] => p = q

\* A label is suffixed only when a machine before it has the plain one.
PlainLabelKept ==
  \A p \in DOMAIN labels :
    labels[p] # Label(names[p]) => \E q \in 1..(p - 1) : labels[q] = Label(names[p])

\* The searches for a free name and a free label end.
NamingEnds == <>(phase \in {"rejected", "done"})
=============================================================================
