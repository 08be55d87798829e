---------------------------- MODULE RenderProofs ----------------------------
(* What holds of the names and of the generated projects for every inventory  *)
(* and every plan.  First Naming: no machine is lost, and names and labels    *)
(* are unique; its loops are steps of the specification, so the proofs are    *)
(* inductions over its steps and need none over the input.  Then Render:      *)
(* references resolve, the estate is whole, placements agree, and a machine   *)
(* has one way in.                                                            *)
EXTENDS Naming, Render, FiniteSetTheorems, SequenceTheorems, WellFoundedInduction, TLAPS

\* Facts about growing a sequence by one element.
LEMMA AppendFacts ==
  ASSUME NEW S, NEW s \in Seq(S), NEW e
  PROVE  /\ DOMAIN Append(s, e) = 1..(Len(s) + 1)
         /\ DOMAIN s = 1..Len(s)
         /\ Len(s) \in Nat
         /\ Len(Append(s, e)) = Len(s) + 1
         /\ \A k \in 1..Len(s) : Append(s, e)[k] = s[k]
         /\ Append(s, e)[Len(s) + 1] = e
  OBVIOUS

-----------------------------------------------------------------------------
(* Types *)

\* A list of names or labels: whatever the elements are, it is a function whose
\* domain is an initial segment of the positive integers.
List(s) == Len(s) \in Nat /\ DOMAIN s = 1..Len(s)

Typed == TypeOK /\ List(names) /\ List(labels) /\ (phase = "normalize" => Len(labels) = 0)

\* The loop variables of normalize, _disambiguate and _ensure_unique_resource_names
\* keep their types.
LEMMA TypedHolds == Spec => []Typed
<1>1. Init => Typed
  BY NamingAssumption DEF Init, Typed, TypeOK, List, Machines
<1>2. Typed /\ [Next]_vars => Typed'
  <2> SUFFICES ASSUME Typed, [Next]_vars PROVE Typed'
    OBVIOUS
  <2> USE DEF Typed, TypeOK, List
  <2>1. CASE SkipRow
    BY <2>1 DEF SkipRow, Reading
  <2>2. CASE AddMachine
    BY <2>2 DEF AddMachine, Reading, Current, Machines
  <2>3. CASE MergeRow
    <3>1. PICK p \in DOMAIN seen :
            seen' = IF Current.disk > seen[p].disk THEN [seen EXCEPT ![p] = Current] ELSE seen
      BY <2>3 DEF MergeRow
    <3>2. Current \in Machines
      BY <2>3 DEF MergeRow, Reading, Current, Machines
    <3>3. seen' \in Seq(Machines) /\ DOMAIN seen' = DOMAIN seen
      BY <3>1, <3>2
    <3> QED
      BY <2>3, <3>3 DEF MergeRow, Reading
  <2>4. CASE StartNames
    BY <2>4 DEF StartNames
  <2>5. CASE Reject
    BY <2>5 DEF Reject
  <2>6. ASSUME NEW p \in DOMAIN seen, KeepName(p) \/ Rename(p) \/ NextName(p) PROVE Typed'
    BY <2>6 DEF KeepName, Rename, NextName, Turn
  <2>7. CASE StartLabels
    BY <2>7 DEF StartLabels
  <2>8. CASE KeepLabel
    BY <2>8 DEF KeepLabel, Labelling
  <2>9. CASE SuffixLabel
    BY <2>9 DEF SuffixLabel, Labelling
  <2>10. CASE SkipLabel
    BY <2>10 DEF SkipLabel
  <2>11. CASE Done
    BY <2>11 DEF Done
  <2>12. CASE UNCHANGED vars
    BY <2>12 DEF vars
  <2> QED
    BY <2>1, <2>2, <2>3, <2>4, <2>5, <2>6, <2>7, <2>8, <2>9, <2>10, <2>11, <2>12 DEF Next
<1> QED
  BY <1>1, <1>2, PTL DEF Spec

\* Every variable has its type, for any inventory.
THEOREM TypeCorrect == Spec => []TypeOK
<1>1. Typed => TypeOK
  BY DEF Typed
<1> QED
  BY <1>1, TypedHolds, PTL

-----------------------------------------------------------------------------
(* Machines.  Two machines never have one identity, and every row that was    *)
(* read is represented by a machine of its identity.                          *)
OneIdentity == \A p, q \in DOMAIN seen : Identity(seen[p]) = Identity(seen[q]) => p = q

Represented ==
  \A k \in 1..row : records[k].name # Blank =>
    \E p \in DOMAIN seen : Identity(seen[p]) = Identity(records[k]) /\ seen[p].disk >= records[k].disk

\* The row that is being read.
LEMMA ReadingFacts ==
  ASSUME Typed, Reading
  PROVE  /\ row \in Nat /\ row + 1 \in 1..Len(records)
         /\ Current = records[row + 1] /\ Current \in Records /\ Current.disk \in Nat
         /\ \A k \in 1..(row + 1) : records[k].disk \in Nat
<1>1. Len(records) \in Nat /\ row \in Nat /\ row < Len(records)
  BY DEF Typed, TypeOK, Reading
<1>2. \A k \in 1..Len(records) : records[k] \in Records
  BY DEF Typed, TypeOK
<1>3. row + 1 \in 1..Len(records) /\ \A k \in 1..(row + 1) : k \in 1..Len(records)
  BY <1>1
<1>4. \A r \in Records : r.disk \in Nat
  BY DEF Records
<1> QED
  BY <1>1, <1>2, <1>3, <1>4 DEF Current

\* normalize keeps one entry of `seen` per identity, and every row read so far has
\* one.
LEMMA MachinesHold == Spec => [](Typed /\ OneIdentity /\ Represented)
<1>1. Init => OneIdentity /\ Represented
  BY DEF Init, OneIdentity, Represented
<1>2. Typed /\ OneIdentity /\ Represented /\ [Next]_vars => OneIdentity' /\ Represented'
  <2> SUFFICES ASSUME Typed, OneIdentity, Represented, [Next]_vars
               PROVE  OneIdentity' /\ Represented'
    OBVIOUS
  <2>1. CASE SkipRow
    BY <2>1 DEF Typed, TypeOK, SkipRow, Reading, Current, OneIdentity, Represented
  <2>2. CASE AddMachine
    <3>1. /\ row' = row + 1 /\ records' = records /\ row + 1 \in 1..Len(records)
          /\ seen' = Append(seen, Current) /\ Current = records[row + 1]
          /\ Current.disk \in Nat
      BY <2>2, ReadingFacts DEF AddMachine
    <3>2. /\ DOMAIN seen = 1..Len(seen) /\ Len(seen) \in Nat
          /\ DOMAIN seen' = 1..(Len(seen) + 1)
          /\ \A k \in 1..Len(seen) : seen'[k] = seen[k]
          /\ seen'[Len(seen) + 1] = Current
      BY <3>1, AppendFacts DEF Typed, TypeOK
    <3>3. OneIdentity'
      BY <2>2, <3>2 DEF AddMachine, OneIdentity
    <3>4. \A k \in 1..row : records[k].name # Blank =>
            \E p \in DOMAIN seen' :
              Identity(seen'[p]) = Identity(records[k]) /\ seen'[p].disk >= records[k].disk
      <4> SUFFICES ASSUME NEW k \in 1..row, records[k].name # Blank
                   PROVE  \E p \in DOMAIN seen' :
                            Identity(seen'[p]) = Identity(records[k]) /\ seen'[p].disk >= records[k].disk
        OBVIOUS
      <4>1. PICK p \in DOMAIN seen :
              Identity(seen[p]) = Identity(records[k]) /\ seen[p].disk >= records[k].disk
        BY DEF Represented
      <4>2. p \in DOMAIN seen' /\ seen'[p] = seen[p]
        BY <3>2
      <4> QED
        BY <4>1, <4>2
    <3>5. Represented'
      <4> SUFFICES ASSUME NEW k \in 1..(row + 1), records[k].name # Blank
                   PROVE  \E p \in DOMAIN seen' :
                            Identity(seen'[p]) = Identity(records[k]) /\ seen'[p].disk >= records[k].disk
        BY <3>1 DEF Represented
      <4>1. CASE k \in 1..row
        BY <4>1, <3>4
      <4>2. CASE k = row + 1
        <5>1. Len(seen) + 1 \in DOMAIN seen' /\ seen'[Len(seen) + 1] = records[k]
          BY <4>2, <3>1, <3>2
        <5>2. records[k].disk >= records[k].disk
          BY <4>2, <3>1
        <5> QED
          BY <5>1, <5>2
      <4>3. row \in Nat
        BY DEF Typed, TypeOK
      <4> QED
        BY <4>1, <4>2, <4>3
    <3> QED
      BY <3>3, <3>5
  <2>3. CASE MergeRow
    <3>1. PICK p \in DOMAIN seen :
            /\ Identity(seen[p]) = Identity(Current)
            /\ seen' = IF Current.disk > seen[p].disk THEN [seen EXCEPT ![p] = Current] ELSE seen
      BY <2>3 DEF MergeRow
    <3>2. /\ row' = row + 1 /\ records' = records /\ row + 1 \in 1..Len(records)
          /\ Current = records[row + 1] /\ Current.disk \in Nat
          /\ \A k \in 1..row : records[k].disk \in Nat
          /\ \A q \in DOMAIN seen : seen[q].disk \in Nat
      <4>1. \A q \in DOMAIN seen : seen[q] \in Machines
        BY DEF Typed, TypeOK
      <4>2. \A q \in DOMAIN seen : seen[q].disk \in Nat
        BY <4>1 DEF Machines, Records
      <4>3. Reading /\ row' = row + 1 /\ records' = records
        BY <2>3 DEF MergeRow
      <4> QED
        BY <4>2, <4>3, ReadingFacts
    <3>3. /\ DOMAIN seen' = DOMAIN seen
          /\ \A q \in DOMAIN seen : Identity(seen'[q]) = Identity(seen[q])
          /\ \A q \in DOMAIN seen : seen'[q].disk >= seen[q].disk
          /\ seen'[p].disk >= Current.disk
      <4>1. CASE Current.disk > seen[p].disk
        <5>1. seen' = [seen EXCEPT ![p] = Current]
          BY <3>1, <4>1
        <5>2. DOMAIN seen' = DOMAIN seen /\ seen'[p] = Current
          BY <5>1
        <5>3. \A q \in DOMAIN seen : q # p => seen'[q] = seen[q]
          BY <5>1
        <5> QED
          BY <3>1, <3>2, <4>1, <5>2, <5>3
      <4>2. CASE ~(Current.disk > seen[p].disk)
        <5>1. seen' = seen
          BY <3>1, <4>2
        <5> QED
          BY <3>2, <4>2, <5>1
      <4> QED
        BY <4>1, <4>2
    <3>4. OneIdentity'
      BY <3>3 DEF OneIdentity
    <3>5. Represented'
      <4> SUFFICES ASSUME NEW k \in 1..(row + 1), records[k].name # Blank
                   PROVE  \E q \in DOMAIN seen' :
                            Identity(seen'[q]) = Identity(records[k]) /\ seen'[q].disk >= records[k].disk
        BY <3>2 DEF Represented
      <4>1. CASE k \in 1..row
        <5>1. PICK q \in DOMAIN seen :
                Identity(seen[q]) = Identity(records[k]) /\ seen[q].disk >= records[k].disk
          BY <4>1 DEF Represented
        <5>2. seen'[q].disk \in Nat
          BY <3>1, <3>2
        <5>3. records[k].disk \in Nat /\ seen[q].disk \in Nat
          BY <4>1, <3>2
        <5>4. seen'[q].disk >= seen[q].disk /\ Identity(seen'[q]) = Identity(seen[q])
          BY <3>3
        <5>5. seen'[q].disk >= records[k].disk
          BY <5>1, <5>2, <5>3, <5>4
        <5> QED
          BY <5>1, <5>4, <5>5, <3>3
      <4>2. CASE k = row + 1
        BY <4>2, <3>1, <3>2, <3>3
      <4>3. row \in Nat
        BY DEF Typed, TypeOK
      <4> QED
        BY <4>1, <4>2, <4>3
    <3> QED
      BY <3>4, <3>5
  <2>4. CASE UNCHANGED <<records, row, seen>>
    BY <2>4 DEF OneIdentity, Represented
  <2>5. ASSUME ~SkipRow, ~AddMachine, ~MergeRow PROVE UNCHANGED <<records, row, seen>>
    BY <2>5 DEF Next, vars, StartNames, Reject, KeepName, Rename, NextName, StartLabels,
                KeepLabel, SuffixLabel, SkipLabel, Done
  <2> QED
    BY <2>1, <2>2, <2>3, <2>4, <2>5
<1> QED
  BY <1>1, <1>2, TypedHolds, PTL DEF Spec

\* Every named row of every inventory is in the plan, once.
THEOREM EveryMachineIsKept == Spec => []NoMachineLost
<1>1. Typed /\ OneIdentity /\ Represented => NoMachineLost
  <2> SUFFICES ASSUME Typed, OneIdentity, Represented,
                      NEW k \in 1..row, records[k].name # Blank
               PROVE  \E p \in DOMAIN seen :
                        /\ seen[p].uuid = records[k].uuid
                        /\ records[k].uuid = NoUuid => seen[p].name = records[k].name
                        /\ seen[p].disk >= records[k].disk
                        /\ \A q \in DOMAIN seen : q # p =>
                             \/ seen[q].uuid # records[k].uuid
                             \/ records[k].uuid = NoUuid /\ seen[q].name # records[k].name
    BY DEF NoMachineLost
  <2>1. PICK p \in DOMAIN seen :
          Identity(seen[p]) = Identity(records[k]) /\ seen[p].disk >= records[k].disk
    BY DEF Represented
  <2>2. /\ seen[p].uuid = records[k].uuid
        /\ records[k].uuid = NoUuid => seen[p].name = records[k].name
    BY <2>1 DEF Identity
  <2>3. ASSUME NEW q \in DOMAIN seen, q # p
        PROVE  \/ seen[q].uuid # records[k].uuid
               \/ records[k].uuid = NoUuid /\ seen[q].name # records[k].name
    BY <2>1, <2>2, <2>3 DEF OneIdentity, Identity
  <2> QED
    BY <2>1, <2>2, <2>3
<1> QED
  BY <1>1, MachinesHold, PTL

-----------------------------------------------------------------------------
(* Names.  While _disambiguate runs, a machine that still waits has the name  *)
(* it came with, a new name belongs to one machine, and a machine that kept a *)
(* shared name has no UUID.  Two machines without a UUID have different       *)
(* names, by their identities, so in the end all names differ.                *)
NamesInv ==
  /\ phase = "disambiguate" =>
       /\ \A p \in DOMAIN seen : seen[p].name \in taken /\ names[p] \in taken
       /\ \A p \in todo : names[p] = seen[p].name
       /\ \A p, q \in DOMAIN seen : p # q /\ names[p] = names[q] =>
            names[p] = seen[p].name /\ names[q] = seen[q].name
       /\ \A p \in DOMAIN seen : p \notin todo /\ names[p] = seen[p].name => ~Renames(p)
  /\ NamesUnique

\* When _disambiguate has looked at every machine, its names are distinct.
LEMMA NamesSettled ==
  ASSUME Typed, OneIdentity, NamesInv, phase = "disambiguate", todo = {}
  PROVE  \A p, q \in DOMAIN names : names[p] = names[q] => p = q
<1> SUFFICES ASSUME NEW p \in DOMAIN seen, NEW q \in DOMAIN seen, names[p] = names[q], p # q
             PROVE  FALSE
  BY DEF Typed, TypeOK
<1>1. names[p] = seen[p].name /\ names[q] = seen[q].name
  BY DEF NamesInv
<1>2. seen[p].uuid = NoUuid /\ seen[q].uuid = NoUuid
  BY <1>1 DEF NamesInv, Renames, Shared
<1> QED
  BY <1>1, <1>2 DEF OneIdentity, Identity

\* Each step of _disambiguate keeps the settled names apart and `taken` complete.
LEMMA NamesHold == Spec => [](Typed /\ OneIdentity /\ NamesInv)
<1>1. Init => NamesInv
  BY DEF Init, NamesInv, NamesUnique, Named
<1>2. Typed /\ OneIdentity /\ NamesInv /\ [Next]_vars => NamesInv'
  <2> SUFFICES ASSUME Typed, OneIdentity, NamesInv, [Next]_vars PROVE NamesInv'
    OBVIOUS
  <2>1. CASE SkipRow \/ AddMachine \/ MergeRow
    BY <2>1 DEF SkipRow, AddMachine, MergeRow, Reading, NamesInv, NamesUnique, Named
  <2>2. CASE StartNames
    BY <2>2 DEF StartNames, NamesInv, NamesUnique, Named
  <2>3. CASE Reject \/ StartLabels
    <3>1. \A p, q \in DOMAIN names : names[p] = names[q] => p = q
      BY <2>3, NamesSettled DEF Reject, StartLabels
    <3> QED
      BY <2>3, <3>1 DEF Reject, StartLabels, NamesInv, NamesUnique, Named
  <2>4. ASSUME NEW p \in DOMAIN seen, KeepName(p) PROVE NamesInv'
    BY <2>4 DEF KeepName, Turn, NamesInv, NamesUnique, Named, Renames, Shared
  <2>5. ASSUME NEW p \in DOMAIN seen, Rename(p) PROVE NamesInv'
    <3>1. /\ phase = "disambiguate" /\ phase' = phase /\ seen' = seen /\ p \in todo
          /\ Candidate(p) \notin taken /\ taken' = taken \cup {Candidate(p)}
          /\ todo' = todo \ {p}
      BY <2>5 DEF Rename, Turn
    <3>2. names'[p] = Candidate(p) /\ \A q \in DOMAIN seen : q # p => names'[q] = names[q]
      BY <2>5 DEF Rename, Typed, TypeOK, Turn
    <3>3. \A q \in DOMAIN seen : seen[q].name \in taken /\ names[q] \in taken
      BY <3>1 DEF NamesInv
    <3>4. \A q \in DOMAIN seen : Renames(q)' <=> Renames(q)
      BY <3>1 DEF Renames, Shared
    <3>5. todo \subseteq DOMAIN seen
      BY DEF Typed, TypeOK
    <3> QED
      BY <3>1, <3>2, <3>3, <3>4, <3>5 DEF NamesInv, NamesUnique, Named
  <2>6. ASSUME NEW p \in DOMAIN seen, NextName(p) PROVE NamesInv'
    BY <2>6 DEF NextName, NamesInv, NamesUnique, Named, Renames, Shared
  <2>7. CASE KeepLabel \/ SuffixLabel \/ SkipLabel \/ Done
    BY <2>7 DEF KeepLabel, SuffixLabel, SkipLabel, Done, Labelling, NamesInv, NamesUnique, Named
  <2>8. CASE UNCHANGED vars
    BY <2>8 DEF vars, NamesInv, NamesUnique, Named, Renames, Shared
  <2> QED
    BY <2>1, <2>2, <2>3, <2>4, <2>5, <2>6, <2>7, <2>8 DEF Next
<1> QED
  BY <1>1, <1>2, MachinesHold, PTL DEF Spec

\* No two machines of any inventory have one vm_name.
THEOREM NamesAreUnique == Spec => []NamesUnique
<1>1. NamesInv => NamesUnique
  BY DEF NamesInv
<1> QED
  BY <1>1, NamesHold, PTL

-----------------------------------------------------------------------------
(* Labels.  The dictionary has the labels given so far, no more and no less.  *)
LabelsInv ==
  /\ DOMAIN counts = {labels[p] : p \in DOMAIN labels}
  /\ phase \in {"normalize", "disambiguate"} => Len(labels) = 0
  /\ LabelsUnique
  /\ PlainLabelKept

\* Appending a label that the dictionary does not hold keeps the labels apart.
LEMMA LabelsStep ==
  ASSUME Typed, LabelsInv, Labelling, NEW l, l \notin DOMAIN counts,
         l # Base => Base \in DOMAIN counts,
         names' = names, labels' = Append(labels, l), DOMAIN counts' = DOMAIN counts \cup {l},
         phase' = phase
  PROVE  LabelsInv'
<1>1. Len(labels) \in Nat /\ DOMAIN labels = 1..Len(labels)
  BY DEF Typed, List
<1>2. /\ DOMAIN labels' = 1..(Len(labels) + 1) /\ Len(labels') = Len(labels) + 1
      /\ \A k \in 1..Len(labels) : labels'[k] = labels[k]
      /\ labels'[Len(labels) + 1] = l
  BY <1>1 DEF Typed, List
<1>3. DOMAIN counts' = {labels'[p] : p \in DOMAIN labels'}
  BY <1>1, <1>2 DEF LabelsInv
<1>4. LabelsUnique'
  BY <1>1, <1>2 DEF LabelsInv, LabelsUnique
<1>5. PlainLabelKept'
  <2> SUFFICES ASSUME NEW p \in DOMAIN labels', labels'[p] # Label(names'[p])
               PROVE  \E q \in 1..(p - 1) : labels'[q] = Label(names'[p])
    BY DEF PlainLabelKept
  <2>0. p \in 1..(Len(labels) + 1) /\ labels'[p] # Label(names[p])
    BY <1>2
  <2>1. CASE p \in 1..Len(labels)
    <3>1. labels[p] # Label(names[p])
      BY <1>2, <2>0, <2>1
    <3>2. PICK q \in 1..(p - 1) : labels[q] = Label(names[p])
      BY <1>1, <2>1, <3>1 DEF LabelsInv, PlainLabelKept
    <3> QED
      BY <1>1, <1>2, <2>1, <3>2
  <2>2. CASE p = Len(labels) + 1
    <3>1. Base = Label(names[p]) /\ Base # l
      BY <1>2, <2>0, <2>2 DEF Base
    <3>2. Base \in {labels[q] : q \in DOMAIN labels}
      BY <3>1 DEF LabelsInv
    <3>3. PICK q \in 1..Len(labels) : labels[q] = Base
      BY <1>1, <3>2
    <3> QED
      BY <1>1, <1>2, <2>2, <3>1, <3>3
  <2> QED
    BY <1>1, <2>0, <2>1, <2>2
<1> QED
  BY <1>3, <1>4, <1>5 DEF LabelsInv, Labelling

\* Each step of _ensure_unique_resource_names keeps the labels apart.
LEMMA LabelsHold == Spec => [](Typed /\ LabelsInv)
<1>1. Init => LabelsInv
  BY DEF Init, LabelsInv, LabelsUnique, PlainLabelKept
<1>2. Typed /\ LabelsInv /\ [Next]_vars => LabelsInv'
  <2> SUFFICES ASSUME Typed, LabelsInv, [Next]_vars PROVE LabelsInv'
    OBVIOUS
  <2>1. CASE KeepLabel
    <3>1. /\ Labelling /\ Base \notin DOMAIN counts
          /\ names' = names /\ phase' = phase /\ labels' = Append(labels, Base)
          /\ DOMAIN counts' = DOMAIN counts \cup {Base}
      BY <2>1 DEF KeepLabel
    <3> QED
      BY <3>1, LabelsStep
  <2>2. CASE SuffixLabel
    <3>1. /\ Labelling /\ Base \in DOMAIN counts /\ NextLabel \notin DOMAIN counts
          /\ names' = names /\ phase' = phase /\ labels' = Append(labels, NextLabel)
          /\ DOMAIN counts' = DOMAIN counts \cup {NextLabel}
      BY <2>2 DEF SuffixLabel
    <3> QED
      BY <3>1, LabelsStep
  <2>3. ASSUME phase \in {"normalize", "disambiguate"}, UNCHANGED <<labels, counts>> PROVE LabelsInv'
    BY <2>3 DEF LabelsInv, LabelsUnique, PlainLabelKept, Typed, List
  <2>4. CASE SkipRow \/ AddMachine \/ MergeRow \/ StartNames \/ Reject \/ StartLabels
    BY <2>3, <2>4 DEF SkipRow, AddMachine, MergeRow, Reading, StartNames, Reject, StartLabels
  <2>5. ASSUME NEW p \in DOMAIN seen, KeepName(p) \/ Rename(p) \/ NextName(p) PROVE LabelsInv'
    BY <2>3, <2>5 DEF KeepName, Rename, NextName, Turn
  <2>6. CASE SkipLabel \/ Done \/ UNCHANGED vars
    <3>1. UNCHANGED <<names, labels, counts>> /\ (phase' = phase \/ phase' = "done")
      BY <2>6 DEF SkipLabel, Done, vars
    <3>2. PlainLabelKept'
      BY <3>1 DEF PlainLabelKept, LabelsInv
    <3> QED
      BY <3>1, <3>2 DEF LabelsInv, LabelsUnique
  <2> QED
    BY <2>1, <2>2, <2>4, <2>5, <2>6 DEF Next
<1> QED
  BY <1>1, <1>2, TypedHolds, PTL DEF Spec

\* No two machines of any inventory have one Terraform label, and a machine
\* has a suffixed one only when a machine before it has the plain one.
THEOREM LabelsAreUnique == Spec => [](LabelsUnique /\ PlainLabelKept)
<1>1. LabelsInv => LabelsUnique /\ PlainLabelKept
  BY DEF LabelsInv
<1> QED
  BY <1>1, LabelsHold, PTL

-----------------------------------------------------------------------------
(* Lists, and lists of lists in a row.                                        *)

Sequence(s) == s \in Seq(Range(s))

\* A set of natural numbers has a least one.
LEMMA LeastNatural ==
  ASSUME NEW S \in SUBSET Nat, S # {}
  PROVE  \E m \in S : \A k \in S : m <= k
<1> DEFINE Q == OpToRel(<, Nat)
<1>1. PICK m \in S : \A k \in S : ~(<<k, m>> \in Q)
  BY NatLessThanWellFounded, WFMin
<1>2. \A k \in S : ~(k < m)
  BY <1>1 DEF OpToRel
<1> QED
  BY <1>2

LEMMA SequenceIs ==
  ASSUME NEW s, Sequence(s)
  PROVE  /\ Len(s) \in Nat /\ DOMAIN s = 1..Len(s) /\ s = [i \in 1..Len(s) |-> s[i]]
         /\ s = <<>> <=> Len(s) = 0
<1>1. Len(s) \in Nat /\ DOMAIN s = 1..Len(s) /\ s \in [1..Len(s) -> Range(s)]
  BY DEF Sequence
<1>2. s = <<>> <=> Len(s) = 0
  BY DEF Sequence
<1> QED
  BY <1>1, <1>2

LEMMA IsSequence ==
  ASSUME NEW n \in Nat, NEW s, s = [i \in 1..n |-> s[i]]
  PROVE  Sequence(s) /\ Len(s) = n /\ DOMAIN s = 1..n
<1>1. DOMAIN s = 1..n
  OBVIOUS
<1>2. s \in [1..n -> Range(s)]
  BY <1>1 DEF Range
<1>3. s \in Seq(Range(s))
  BY <1>2
<1> QED
  BY <1>1, <1>3 DEF Sequence

LEMMA NoneAndOne ==
  ASSUME NEW x
  PROVE  /\ Sequence(<<>>) /\ Range(<<>>) = {} /\ Len(<<>>) = 0 /\ DOMAIN <<>> = {}
         /\ Sequence(<<x>>) /\ Range(<<x>>) = {x} /\ Len(<<x>>) = 1 /\ DOMAIN <<x>> = {1} /\ <<x>>[1] = x
<1>1. DOMAIN <<>> = {} /\ Len(<<>>) = 0
  OBVIOUS
<1>2. Range(<<>>) = {}
  BY <1>1 DEF Range
<1>3. DOMAIN <<x>> = {1} /\ Len(<<x>>) = 1 /\ <<x>>[1] = x
  OBVIOUS
<1>4. Range(<<x>>) = {x}
  BY <1>3 DEF Range
<1>5. Sequence(<<>>)
  BY <1>2 DEF Sequence
<1>6. Sequence(<<x>>)
  BY <1>4 DEF Sequence
<1> QED
  BY <1>1, <1>2, <1>3, <1>4, <1>5, <1>6

\* One list after another.
LEMMA Joined ==
  ASSUME NEW s, NEW t, Sequence(s), Sequence(t)
  PROVE  /\ Sequence(s \o t) /\ Len(s \o t) = Len(s) + Len(t)
         /\ \A i \in 1..Len(s) : (s \o t)[i] = s[i]
         /\ \A i \in 1..Len(t) : (s \o t)[Len(s) + i] = t[i]
         /\ Range(s \o t) = Range(s) \cup Range(t)
<1> DEFINE S == Range(s) \cup Range(t)
           u == s \o t
<1>1. s \in Seq(S) /\ t \in Seq(S)
  <2>1. s \in [1..Len(s) -> Range(s)] /\ Len(s) \in Nat /\ t \in [1..Len(t) -> Range(t)] /\ Len(t) \in Nat
    BY DEF Sequence
  <2>2. s \in [1..Len(s) -> S] /\ t \in [1..Len(t) -> S]
    BY <2>1
  <2> QED
    BY <2>1, <2>2
<1> HIDE DEF S
<1>2. /\ u \in Seq(S) /\ Len(u) = Len(s) + Len(t)
      /\ \A i \in 1..(Len(s) + Len(t)) : u[i] = IF i <= Len(s) THEN s[i] ELSE t[i - Len(s)]
  BY <1>1, ConcatProperties
<1> HIDE DEF u
<1>3. Len(s) \in Nat /\ Len(t) \in Nat /\ DOMAIN s = 1..Len(s) /\ DOMAIN t = 1..Len(t)
  BY <1>1
<1>4. \A i \in 1..Len(s) : u[i] = s[i]
  BY <1>2, <1>3
<1>5. \A i \in 1..Len(t) : u[Len(s) + i] = t[i]
  <2> SUFFICES ASSUME NEW i \in 1..Len(t) PROVE u[Len(s) + i] = t[i]
    OBVIOUS
  <2>1. Len(s) + i \in 1..(Len(s) + Len(t)) /\ ~(Len(s) + i <= Len(s)) /\ (Len(s) + i) - Len(s) = i
    BY <1>3
  <2> QED
    BY <1>2, <2>1
<1>6. DOMAIN u = 1..(Len(s) + Len(t)) /\ u = [i \in 1..(Len(s) + Len(t)) |-> u[i]]
  BY <1>2, <1>3
<1>7. Sequence(u)
  BY <1>3, <1>6, IsSequence
<1>8. Range(u) = Range(s) \cup Range(t)
  <2>1. \A i \in DOMAIN u : u[i] \in Range(s) \cup Range(t)
    <3> SUFFICES ASSUME NEW i \in DOMAIN u PROVE u[i] \in Range(s) \cup Range(t)
      OBVIOUS
    <3>1. CASE i <= Len(s)
      <4>1. i \in DOMAIN s
        BY <1>3, <1>6, <3>1
      <4> QED
        BY <1>3, <1>4, <4>1 DEF Range
    <3>2. CASE ~(i <= Len(s))
      <4>1. i - Len(s) \in 1..Len(t) /\ Len(s) + (i - Len(s)) = i
        BY <1>3, <1>6, <3>2
      <4>2. u[i] = t[i - Len(s)]
        BY <1>5, <4>1
      <4> QED
        BY <1>3, <4>1, <4>2 DEF Range
    <3> QED
      BY <3>1, <3>2
  <2>2. \A i \in DOMAIN s : s[i] \in Range(u)
    <3> SUFFICES ASSUME NEW i \in DOMAIN s PROVE s[i] \in Range(u)
      OBVIOUS
    <3>1. i \in DOMAIN u
      BY <1>3, <1>6
    <3> QED
      BY <1>3, <1>4, <3>1 DEF Range
  <2>3. \A i \in DOMAIN t : t[i] \in Range(u)
    <3> SUFFICES ASSUME NEW i \in DOMAIN t PROVE t[i] \in Range(u)
      OBVIOUS
    <3>1. Len(s) + i \in DOMAIN u
      BY <1>3, <1>6
    <3> QED
      BY <1>3, <1>5, <3>1 DEF Range
  <2> QED
    BY <2>1, <2>2, <2>3 DEF Range
<1> QED
  BY <1>2, <1>4, <1>5, <1>7, <1>8 DEF u

\* Where the elements of the first m lists are when these are joined to f: each place is a
\* place in one of the lists, in order, and none is missing.
Places(f, ss, m, block, spot) ==
  /\ \A p \in DOMAIN f : /\ block[p] \in 1..m /\ spot[p] \in DOMAIN ss[block[p]]
                         /\ f[p] = ss[block[p]][spot[p]]
  /\ \A i \in 1..m : \A j \in DOMAIN ss[i] : \E p \in DOMAIN f : block[p] = i /\ spot[p] = j
  /\ \A p, q \in DOMAIN f : p < q => \/ block[p] < block[q]
                                     \/ block[p] = block[q] /\ spot[p] < spot[q]

\* The recursion of FlattenSeq, on the first m lists.
Flat(ss, m, g) == g = [i \in 1..m |-> IF i = 1 THEN ss[i] ELSE g[i - 1] \o ss[i]]

LEMMA FlatExists ==
  ASSUME NEW ss, NEW n \in Nat
  PROVE  \E g : Flat(ss, n, g)
<1> DEFINE B == {m \in Nat : ~\E g : Flat(ss, m, g)}
<1> SUFFICES ASSUME B # {} PROVE FALSE
  OBVIOUS
<1>1. PICK m \in B : \A k \in B : m <= k
  <2>1. B \in SUBSET Nat
    OBVIOUS
  <2> HIDE DEF B
  <2> QED
    BY <2>1, LeastNatural
<1>2. CASE m = 0
  <2>1. Flat(ss, 0, [i \in 1..0 |-> i])
    BY DEF Flat
  <2> QED
    BY <1>2, <2>1
<1>3. CASE m # 0
  <2>1. m - 1 \in Nat /\ m - 1 \notin B
    BY <1>1, <1>3
  <2>2. PICK g : Flat(ss, m - 1, g)
    BY <2>1
  <2> DEFINE h == [i \in 1..m |-> IF i = 1 THEN ss[i] ELSE g[i - 1] \o ss[i]]
  <2>3. \A i \in 1..(m - 1) : h[i] = g[i]
    <3> SUFFICES ASSUME NEW i \in 1..(m - 1) PROVE h[i] = g[i]
      OBVIOUS
    <3>1. g[i] = IF i = 1 THEN ss[i] ELSE g[i - 1] \o ss[i]
      BY <2>2 DEF Flat
    <3>2. i \in 1..m
      BY <2>1
    <3> QED
      BY <3>1, <3>2
  <2>4. h = [i \in 1..m |-> IF i = 1 THEN ss[i] ELSE h[i - 1] \o ss[i]]
    <3>1. \A i \in 1..m : i # 1 => i - 1 \in 1..(m - 1)
      BY <2>1
    <3>2. \A i \in 1..m : i # 1 => h[i - 1] = g[i - 1]
      <4> HIDE DEF h
      <4> QED
        BY <2>3, <3>1
    <3> DEFINE H(i) == IF i = 1 THEN ss[i] ELSE h[i - 1] \o ss[i]
    <3>3. \A i \in 1..m : H(i) = IF i = 1 THEN ss[i] ELSE g[i - 1] \o ss[i]
      <4> HIDE DEF h
      <4> QED
        BY <3>2
    <3> HIDE DEF H
    <3>4. h = [i \in 1..m |-> H(i)]
      BY <3>3
    <3> QED
      BY <3>4 DEF H
  <2>5. Flat(ss, m, h)
    BY <2>4 DEF Flat
  <2> QED
    BY <2>5
<1> QED
  BY <1>2, <1>3

LEMMA FlatIs ==
  ASSUME NEW ss, NEW n \in Nat, NEW g, Flat(ss, n, g), \A i \in 1..n : Sequence(ss[i])
  PROVE  \A m \in 1..n : Sequence(g[m]) /\ \E block, spot : Places(g[m], ss, m, block, spot)
<1> DEFINE B == {m \in 1..n : ~(Sequence(g[m]) /\ \E block, spot : Places(g[m], ss, m, block, spot))}
<1> SUFFICES ASSUME B # {} PROVE FALSE
  OBVIOUS
<1>1. PICK m \in B : \A k \in B : m <= k
  <2>1. B \in SUBSET Nat
    OBVIOUS
  <2> HIDE DEF B
  <2> QED
    BY <2>1, LeastNatural
<1>2. m \in 1..n /\ ~(Sequence(g[m]) /\ \E block, spot : Places(g[m], ss, m, block, spot))
  OBVIOUS
<1>3. \A k \in 1..n : k < m => Sequence(g[k]) /\ \E block, spot : Places(g[k], ss, k, block, spot)
  BY <1>1
<1> HIDE DEF B
<1>4. Sequence(ss[m]) /\ Len(ss[m]) \in Nat /\ DOMAIN ss[m] = 1..Len(ss[m])
  BY <1>2, SequenceIs
<1>5. CASE m = 1
  <2>1. g[m] = ss[m]
    BY <1>2, <1>5 DEF Flat
  <2> DEFINE block == [p \in DOMAIN ss[m] |-> 1]
             spot == [p \in DOMAIN ss[m] |-> p]
  <2>2. \A p \in DOMAIN ss[m] : block[p] = 1 /\ spot[p] = p /\ p \in Nat
    BY <1>4
  <2> HIDE DEF block, spot
  <2>3. \A i \in 1..m : i = m
    BY <1>5
  <2>4. 1 \in 1..m /\ \A p \in DOMAIN ss[m] : p \in DOMAIN ss[1] /\ ss[m][p] = ss[1][p]
    BY <1>5
  <2>5. \A i \in 1..m : \A j \in DOMAIN ss[i] : \E p \in DOMAIN ss[m] : block[p] = i /\ spot[p] = j
    BY <1>5, <2>2, <2>3
  <2>6. Places(ss[m], ss, m, block, spot)
    BY <2>2, <2>4, <2>5 DEF Places
  <2> QED
    BY <1>2, <1>4, <2>1, <2>6
<1>6. CASE m # 1
  <2>1. m - 1 \in 1..n /\ m - 1 < m /\ m - 1 \in Nat /\ m \in Nat
    BY <1>2, <1>6
  <2> DEFINE f == g[m - 1]
             t == ss[m]
             L == Len(f)
  <2>2. Sequence(f)
    BY <1>3, <2>1
  <2>3. PICK r, c : Places(f, ss, m - 1, r, c)
    BY <1>3, <2>1
  <2>4. g[m] = f \o t
    BY <1>2, <1>6 DEF Flat
  <2>5. L \in Nat /\ DOMAIN f = 1..L
    BY <2>2, SequenceIs
  <2> HIDE DEF f
  <2> DEFINE u == f \o t
             block == [p \in DOMAIN u |-> IF p <= L THEN r[p] ELSE m]
             spot == [p \in DOMAIN u |-> IF p <= L THEN c[p] ELSE p - L]
  <2>6. /\ Sequence(u) /\ Len(u) = L + Len(t)
        /\ \A i \in 1..L : u[i] = f[i]
        /\ \A i \in 1..Len(t) : u[L + i] = t[i]
    BY <1>4, <2>2, Joined
  <2>7. DOMAIN u = 1..(L + Len(t))
    BY <2>6, SequenceIs
  <2> HIDE DEF u, L
  <2>8. ASSUME NEW p \in DOMAIN u
        PROVE  /\ block[p] \in 1..m /\ spot[p] \in DOMAIN ss[block[p]]
               /\ u[p] = ss[block[p]][spot[p]]
               /\ p <= L => p \in DOMAIN f /\ block[p] = r[p] /\ spot[p] = c[p] /\ r[p] \in 1..(m - 1)
               /\ ~(p <= L) => block[p] = m /\ spot[p] = p - L
    <3>1. CASE p <= L
      <4>1. p \in DOMAIN f
        BY <2>5, <2>7, <3>1
      <4>2. r[p] \in 1..(m - 1) /\ c[p] \in DOMAIN ss[r[p]] /\ f[p] = ss[r[p]][c[p]]
        BY <2>3, <4>1 DEF Places
      <4> QED
        BY <2>1, <2>5, <2>6, <3>1, <4>1, <4>2
    <3>2. CASE ~(p <= L)
      <4>1. p - L \in 1..Len(t) /\ L + (p - L) = p
        BY <1>4, <2>5, <2>7, <3>2
      <4>2. u[p] = t[p - L]
        BY <2>6, <4>1
      <4> QED
        BY <1>4, <2>1, <3>2, <4>1, <4>2
    <3> QED
      BY <3>1, <3>2
  <2>9. ASSUME NEW i \in 1..m, NEW j \in DOMAIN ss[i]
        PROVE  \E p \in DOMAIN u : block[p] = i /\ spot[p] = j
    <3>1. CASE i = m
      <4>1. j \in 1..Len(t)
        BY <1>4, <3>1
      <4>2. L + j \in DOMAIN u /\ ~(L + j <= L) /\ (L + j) - L = j
        BY <1>4, <2>5, <2>7, <4>1
      <4> QED
        BY <3>1, <4>2
    <3>2. CASE i # m
      <4>1. i \in 1..(m - 1)
        BY <2>1, <3>2
      <4>2. PICK p \in DOMAIN f : r[p] = i /\ c[p] = j
        BY <2>3, <4>1 DEF Places
      <4>3. p \in DOMAIN u /\ p <= L
        BY <1>4, <2>5, <2>7
      <4> QED
        BY <4>2, <4>3
    <3> QED
      BY <3>1, <3>2
  <2>10. ASSUME NEW p \in DOMAIN u, NEW q \in DOMAIN u, p < q
         PROVE  block[p] < block[q] \/ (block[p] = block[q] /\ spot[p] < spot[q])
    <3>1. p \in Nat /\ q \in Nat
      BY <1>4, <2>5, <2>7
    <3>2. CASE q <= L
      <4>1. p <= L
        BY <2>5, <2>10, <3>1, <3>2
      <4>2. p \in DOMAIN f /\ q \in DOMAIN f /\ block[p] = r[p] /\ spot[p] = c[p] /\ block[q] = r[q] /\ spot[q] = c[q]
        BY <2>8, <3>2, <4>1
      <4> QED
        BY <2>3, <2>10, <4>2 DEF Places
    <3>3. CASE ~(q <= L) /\ p <= L
      <4>1. block[p] \in 1..(m - 1) /\ block[q] = m
        BY <2>8, <3>3
      <4> QED
        BY <2>1, <4>1
    <3>4. CASE ~(q <= L) /\ ~(p <= L)
      <4>1. block[p] = m /\ block[q] = m /\ spot[p] = p - L /\ spot[q] = q - L
        BY <2>8, <3>4
      <4> QED
        BY <2>5, <2>10, <3>1, <4>1
    <3> QED
      BY <3>2, <3>3, <3>4
  <2> HIDE DEF block, spot
  <2>11. Places(u, ss, m, block, spot)
    BY <2>8, <2>9, <2>10 DEF Places
  <2> QED
    BY <1>2, <2>4, <2>6, <2>11 DEF u
<1> QED
  BY <1>5, <1>6

\* FlattenSeq of a list of lists.
LEMMA FlattenIs ==
  ASSUME NEW ss, Sequence(ss), \A i \in DOMAIN ss : Sequence(ss[i])
  PROVE  /\ Sequence(FlattenSeq(ss))
         /\ \E block, spot : Places(FlattenSeq(ss), ss, Len(ss), block, spot)
<1> DEFINE n == Len(ss)
<1>1. n \in Nat /\ DOMAIN ss = 1..n
  BY SequenceIs
<1>2. CASE n = 0
  <2>1. FlattenSeq(ss) = ss /\ DOMAIN ss = {}
    BY <1>1, <1>2 DEF FlattenSeq
  <2>2. Places(ss, ss, n, ss, ss)
    BY <1>1, <1>2, <2>1 DEF Places
  <2> QED
    BY <2>1, <2>2
<1>3. CASE n # 0
  <2> DEFINE g == CHOOSE h : Flat(ss, n, h)
  <2>1. Flat(ss, n, g)
    BY <1>1, FlatExists
  <2>2. FlattenSeq(ss) = g[n]
    BY <1>3 DEF FlattenSeq, Flat
  <2> HIDE DEF g
  <2>3. Sequence(g[n]) /\ \E block, spot : Places(g[n], ss, n, block, spot)
    BY <1>1, <1>3, <2>1, FlatIs
  <2> QED
    BY <2>2, <2>3
<1> QED
  BY <1>2, <1>3

-----------------------------------------------------------------------------
(* Pieces of a file: what they declare, and what they refer to.               *)

IdSet(s) == {r.id : r \in Range(s)}

\* Each resource refers only to D, to resources before it and to itself.
Binds(s, D) ==
  /\ Sequence(s)
  /\ \A i \in DOMAIN s : s[i].refs \subseteq D \cup {s[j].id : j \in 1..i}

\* No identifier is declared twice, and all are of the kinds K.
Fresh(s, K) ==
  /\ \A i, j \in DOMAIN s : s[i].id = s[j].id => i = j
  /\ \A x \in IdSet(s) : x[1] \in K

LEMMA MapIs ==
  ASSUME NEW s, Sequence(s), NEW f, f = [i \in DOMAIN s |-> f[i]]
  PROVE  Sequence(f) /\ Len(f) = Len(s) /\ DOMAIN f = DOMAIN s
<1>1. Len(s) \in Nat /\ DOMAIN s = 1..Len(s)
  BY SequenceIs
<1>2. f = [i \in 1..Len(s) |-> f[i]]
  BY <1>1
<1> QED
  BY <1>1, <1>2, IsSequence

LEMMA RangeIs ==
  ASSUME NEW s
  PROVE  /\ \A i \in DOMAIN s : s[i] \in Range(s) /\ s[i].id \in IdSet(s)
         /\ \A r \in Range(s) : (\E i \in DOMAIN s : s[i] = r) /\ r.id \in IdSet(s)
         /\ \A x \in IdSet(s) : \E i \in DOMAIN s : s[i].id = x
  BY DEF Range, IdSet

LEMMA FlattenRange ==
  ASSUME NEW ss, Sequence(ss), \A i \in DOMAIN ss : Sequence(ss[i])
  PROVE  /\ Sequence(FlattenSeq(ss))
         /\ Range(FlattenSeq(ss)) = UNION {Range(ss[i]) : i \in DOMAIN ss}
         /\ IdSet(FlattenSeq(ss)) = UNION {IdSet(ss[i]) : i \in DOMAIN ss}
<1> DEFINE f == FlattenSeq(ss)
<1>1. Sequence(f) /\ DOMAIN ss = 1..Len(ss)
  BY FlattenIs, SequenceIs
<1>2. PICK block, spot : Places(f, ss, Len(ss), block, spot)
  BY FlattenIs
<1> HIDE DEF f
<1>3. \A p \in DOMAIN f : block[p] \in DOMAIN ss /\ f[p] \in Range(ss[block[p]])
  BY <1>1, <1>2 DEF Places, Range
<1>4. \A i \in DOMAIN ss : \A j \in DOMAIN ss[i] : ss[i][j] \in Range(f)
  BY <1>1, <1>2 DEF Places, Range
<1>5. Range(f) = UNION {Range(ss[i]) : i \in DOMAIN ss}
  <2>1. \A r \in Range(f) : \E i \in DOMAIN ss : r \in Range(ss[i])
    BY <1>3 DEF Range
  <2>2. \A i \in DOMAIN ss : \A r \in Range(ss[i]) : r \in Range(f)
    BY <1>4 DEF Range
  <2> QED
    BY <2>1, <2>2
<1>6. IdSet(f) = UNION {IdSet(ss[i]) : i \in DOMAIN ss}
  BY <1>5 DEF IdSet
<1> QED
  BY <1>1, <1>5, <1>6 DEF f

LEMMA FlattenBinds ==
  ASSUME NEW ss, Sequence(ss), NEW D, \A i \in DOMAIN ss : Binds(ss[i], D)
  PROVE  Binds(FlattenSeq(ss), D)
<1> DEFINE f == FlattenSeq(ss)
<1>1. \A i \in DOMAIN ss : Sequence(ss[i])
  BY DEF Binds
<1>2. Sequence(f) /\ DOMAIN ss = 1..Len(ss)
  BY <1>1, FlattenIs, SequenceIs
<1>3. PICK block, spot : Places(f, ss, Len(ss), block, spot)
  BY <1>1, FlattenIs
<1> HIDE DEF f
<1>4. Len(f) \in Nat /\ DOMAIN f = 1..Len(f)
  BY <1>2, SequenceIs
<1>5. ASSUME NEW p \in DOMAIN f, NEW x \in f[p].refs, x \notin D
      PROVE  \E q \in 1..p : f[q].id = x
  <2> DEFINE i == block[p]
             c == spot[p]
  <2>1. i \in DOMAIN ss /\ i \in Nat /\ c \in DOMAIN ss[i] /\ f[p] = ss[i][c]
    BY <1>2, <1>3 DEF Places
  <2>2. Binds(ss[i], D)
    BY <2>1
  <2>3. PICK j \in 1..c : ss[i][j].id = x
    BY <1>5, <2>1, <2>2 DEF Binds
  <2>4. Len(ss[i]) \in Nat /\ DOMAIN ss[i] = 1..Len(ss[i])
    BY <1>1, <2>1, SequenceIs
  <2>5. j \in DOMAIN ss[i] /\ c \in Nat /\ j \in Nat /\ j <= c
    BY <2>1, <2>3, <2>4
  <2>6. PICK q \in DOMAIN f : block[q] = i /\ spot[q] = j
    BY <1>2, <1>3, <2>1, <2>5 DEF Places
  <2>7. f[q] = ss[i][j]
    BY <1>3, <2>6 DEF Places
  <2>8. p \in Nat /\ q \in Nat /\ 1 <= q
    BY <1>4
  <2>9. ~(p < q)
    <3> SUFFICES ASSUME p < q PROVE FALSE
      OBVIOUS
    <3>1. block[p] < block[q] \/ (block[p] = block[q] /\ spot[p] < spot[q])
      BY <1>3, <2>6 DEF Places
    <3>2. i < i \/ c < j
      BY <2>6, <3>1
    <3> HIDE DEF i, c
    <3> QED
      BY <2>1, <2>5, <3>2
  <2>10. q \in 1..p
    BY <2>8, <2>9
  <2> QED
    BY <2>3, <2>7, <2>10
<1>6. \A p \in DOMAIN f : f[p].refs \subseteq D \cup {f[q].id : q \in 1..p}
  BY <1>5
<1> QED
  BY <1>2, <1>6 DEF f, Binds

LEMMA FlattenFresh ==
  ASSUME NEW ss, Sequence(ss), NEW K, \A i \in DOMAIN ss : Sequence(ss[i]) /\ Fresh(ss[i], K),
         \A i, j \in DOMAIN ss : i # j => IdSet(ss[i]) \cap IdSet(ss[j]) = {}
  PROVE  Fresh(FlattenSeq(ss), K)
<1> DEFINE f == FlattenSeq(ss)
<1>2. Sequence(f) /\ DOMAIN ss = 1..Len(ss)
  BY FlattenIs, SequenceIs
<1>3. PICK block, spot : Places(f, ss, Len(ss), block, spot)
  BY FlattenIs
<1>4. \A x \in IdSet(f) : x[1] \in K
  BY FlattenRange DEF Fresh
<1> HIDE DEF f
<1>5. Len(f) \in Nat /\ DOMAIN f = 1..Len(f)
  BY <1>2, SequenceIs
<1>6. ASSUME NEW p \in DOMAIN f, NEW q \in DOMAIN f, f[p].id = f[q].id, p < q
      PROVE  FALSE
  <2>1. /\ block[p] \in DOMAIN ss /\ spot[p] \in DOMAIN ss[block[p]] /\ f[p] = ss[block[p]][spot[p]]
        /\ block[q] \in DOMAIN ss /\ spot[q] \in DOMAIN ss[block[q]] /\ f[q] = ss[block[q]][spot[q]]
    BY <1>2, <1>3 DEF Places
  <2>2. f[p].id \in IdSet(ss[block[p]]) /\ f[q].id \in IdSet(ss[block[q]])
    BY <2>1, RangeIs
  <2>3. block[p] = block[q]
    BY <1>6, <2>1, <2>2
  <2>4. spot[p] = spot[q]
    BY <1>6, <2>1, <2>3 DEF Fresh
  <2>5. block[p] < block[q] \/ (block[p] = block[q] /\ spot[p] < spot[q])
    BY <1>3, <1>6 DEF Places
  <2>6. block[p] \in Nat /\ spot[p] \in Nat
    <3>1. block[p] \in Nat
      BY <1>2, <2>1
    <3>2. DOMAIN ss[block[p]] = 1..Len(ss[block[p]])
      BY <2>1, SequenceIs
    <3>3. spot[p] \in Nat
      BY <2>1, <3>2
    <3> QED
      BY <3>1, <3>3
  <2> QED
    BY <2>3, <2>4, <2>5, <2>6
<1>7. \A p, q \in DOMAIN f : f[p].id = f[q].id => p = q
  <2> SUFFICES ASSUME NEW p \in DOMAIN f, NEW q \in DOMAIN f, f[p].id = f[q].id, p # q PROVE FALSE
    OBVIOUS
  <2>1. p < q \/ q < p
    BY <1>5
  <2> QED
    BY <1>6, <2>1
<1> QED
  BY <1>4, <1>7 DEF f, Fresh

LEMMA JoinBinds ==
  ASSUME NEW s, NEW t, NEW D, NEW E, Binds(s, D), Binds(t, E), E \subseteq D \cup IdSet(s)
  PROVE  /\ Binds(s \o t, D) /\ Sequence(s \o t)
         /\ IdSet(s \o t) = IdSet(s) \cup IdSet(t)
         /\ Range(s \o t) = Range(s) \cup Range(t)
<1> DEFINE u == s \o t
           m == Len(s)
           n == Len(t)
<1>1. Sequence(s) /\ Sequence(t)
  BY DEF Binds
<1>2. m \in Nat /\ n \in Nat /\ DOMAIN s = 1..m /\ DOMAIN t = 1..n
  BY <1>1, SequenceIs
<1>3. /\ Sequence(u) /\ Len(u) = m + n
      /\ \A i \in 1..m : u[i] = s[i]
      /\ \A i \in 1..n : u[m + i] = t[i]
      /\ Range(u) = Range(s) \cup Range(t)
  BY <1>1, Joined
<1>4. DOMAIN u = 1..(m + n)
  BY <1>3, SequenceIs
<1>5. IdSet(u) = IdSet(s) \cup IdSet(t)
  BY <1>3 DEF IdSet
<1> HIDE DEF u, m, n
<1>6. ASSUME NEW p \in DOMAIN u, NEW x \in u[p].refs, x \notin D
      PROVE  \E q \in 1..p : u[q].id = x
  <2>1. CASE p <= m
    <3>1. p \in DOMAIN s /\ u[p] = s[p] /\ p \in 1..m
      BY <1>2, <1>3, <1>4, <2>1
    <3>2. PICK q \in 1..p : s[q].id = x
      BY <1>6, <3>1 DEF Binds
    <3>3. q \in 1..m
      BY <1>2, <3>1
    <3> QED
      BY <1>3, <3>2, <3>3
  <2>2. CASE ~(p <= m)
    <3> DEFINE k == p - m
    <3>1. k \in 1..n /\ m + k = p
      BY <1>2, <1>4, <2>2
    <3>2. u[p] = t[k]
      BY <1>3, <3>1
    <3>3. CASE x \in E
      <4>1. x \in IdSet(s)
        BY <1>6, <3>3
      <4>2. PICK q \in DOMAIN s : s[q].id = x
        BY <4>1, RangeIs
      <4>3. q \in 1..p /\ q \in 1..m
        BY <1>2, <1>4, <2>2
      <4> QED
        BY <1>3, <4>2, <4>3
    <3>4. CASE x \notin E
      <4>1. k \in DOMAIN t
        BY <1>2, <3>1
      <4>2. PICK j \in 1..k : t[j].id = x
        BY <1>6, <3>2, <3>4, <4>1 DEF Binds
      <4>3. j \in 1..n /\ m + j \in 1..p
        BY <1>2, <3>1
      <4> QED
        BY <1>3, <4>2, <4>3
    <3> QED
      BY <3>3, <3>4
  <2> QED
    BY <2>1, <2>2
<1>7. \A p \in DOMAIN u : u[p].refs \subseteq D \cup {u[q].id : q \in 1..p}
  BY <1>6
<1> QED
  BY <1>3, <1>5, <1>7 DEF u, Binds

LEMMA JoinFresh ==
  ASSUME NEW s, NEW t, NEW K, NEW M, Sequence(s), Sequence(t), Fresh(s, K), Fresh(t, M),
         IdSet(s) \cap IdSet(t) = {}
  PROVE  Fresh(s \o t, K \cup M)
<1> DEFINE u == s \o t
           m == Len(s)
           n == Len(t)
<1>2. m \in Nat /\ n \in Nat /\ DOMAIN s = 1..m /\ DOMAIN t = 1..n
  BY SequenceIs
<1>3. /\ Sequence(u) /\ Len(u) = m + n
      /\ \A i \in 1..m : u[i] = s[i]
      /\ \A i \in 1..n : u[m + i] = t[i]
      /\ Range(u) = Range(s) \cup Range(t)
  BY Joined
<1>4. DOMAIN u = 1..(m + n)
  BY <1>3, SequenceIs
<1>5. \A x \in IdSet(u) : x[1] \in K \cup M
  BY <1>3 DEF IdSet, Fresh
<1> HIDE DEF u, m, n
<1>6. \A p \in DOMAIN u : \/ p \in DOMAIN s /\ u[p] = s[p]
                          \/ p - m \in DOMAIN t /\ u[p] = t[p - m] /\ ~(p <= m)
  <2> SUFFICES ASSUME NEW p \in DOMAIN u
      PROVE \/ p \in DOMAIN s /\ u[p] = s[p]
            \/ p - m \in DOMAIN t /\ u[p] = t[p - m] /\ ~(p <= m)
    OBVIOUS
  <2>1. CASE p <= m
    BY <1>2, <1>3, <1>4, <2>1
  <2>2. CASE ~(p <= m)
    <3>1. p - m \in 1..n /\ m + (p - m) = p
      BY <1>2, <1>4, <2>2
    <3>2. u[p] = t[p - m]
      BY <1>3, <3>1
    <3> QED
      BY <1>2, <2>2, <3>1, <3>2
  <2> QED
    BY <2>1, <2>2
<1>7. ASSUME NEW p \in DOMAIN u, NEW q \in DOMAIN u, u[p].id = u[q].id
      PROVE  p = q
  <2>1. p \in Nat /\ q \in Nat
    BY <1>2, <1>4
  <2>2. CASE p \in DOMAIN s /\ q \in DOMAIN s /\ u[p] = s[p] /\ u[q] = s[q]
    BY <1>7, <2>2 DEF Fresh
  <2>3. CASE p - m \in DOMAIN t /\ q - m \in DOMAIN t /\ u[p] = t[p - m] /\ u[q] = t[q - m]
    <3>1. p - m = q - m
      BY <1>7, <2>3 DEF Fresh
    <3> QED
      BY <1>2, <2>1, <3>1
  <2>4. CASE \/ p \in DOMAIN s /\ u[p] = s[p] /\ q - m \in DOMAIN t /\ u[q] = t[q - m]
             \/ q \in DOMAIN s /\ u[q] = s[q] /\ p - m \in DOMAIN t /\ u[p] = t[p - m]
    <3>1. u[p].id \in IdSet(s) /\ u[p].id \in IdSet(t)
      BY <1>7, <2>4, RangeIs
    <3> QED
      BY <3>1
  <2> QED
    BY <1>6, <2>2, <2>3, <2>4
<1> QED
  BY <1>5, <1>7 DEF u, Fresh

LEMMA MoreBinds ==
  ASSUME NEW s, NEW D, NEW E, Binds(s, D), D \subseteq E
  PROVE  Binds(s, E)
  BY DEF Binds

LEMMA MoreKinds ==
  ASSUME NEW s, NEW K, NEW M, Fresh(s, K), K \subseteq M
  PROVE  Fresh(s, M)
  BY DEF Fresh

\* Identifiers of different kinds are different.
LEMMA JoinKinds ==
  ASSUME NEW s, NEW t, NEW K, NEW M, Sequence(s), Sequence(t), Fresh(s, K), Fresh(t, M), K \cap M = {}
  PROVE  Fresh(s \o t, K \cup M)
<1>1. IdSet(s) \cap IdSet(t) = {}
  BY DEF Fresh
<1> QED
  BY <1>1, JoinFresh

LEMMA OneIs ==
  ASSUME NEW x, NEW D, NEW K
  PROVE  /\ Sequence(<<x>>) /\ Range(<<x>>) = {x} /\ IdSet(<<x>>) = {x.id}
         /\ x.refs \subseteq D \cup {x.id} => Binds(<<x>>, D)
         /\ x.id[1] \in K => Fresh(<<x>>, K)
<1>1. Sequence(<<x>>) /\ Range(<<x>>) = {x} /\ DOMAIN <<x>> = {1} /\ <<x>>[1] = x
  BY NoneAndOne
<1>2. IdSet(<<x>>) = {x.id}
  BY <1>1 DEF IdSet
<1>3. 1..1 = {1}
  OBVIOUS
<1> DEFINE s == <<x>>
<1>4. s[1] = x /\ DOMAIN s = {1} /\ Sequence(s) /\ IdSet(s) = {x.id}
  BY <1>1, <1>2
<1> HIDE DEF s
<1>5. x.refs \subseteq D \cup {x.id} => Binds(s, D)
  <2>1. {s[j].id : j \in 1..1} = {x.id}
    BY <1>3, <1>4
  <2> QED
    BY <1>4, <2>1 DEF Binds
<1>6. x.id[1] \in K => Fresh(s, K)
  BY <1>4 DEF Fresh
<1> QED
  BY <1>1, <1>2, <1>5, <1>6 DEF s

LEMMA EmptyIs ==
  ASSUME NEW D, NEW K
  PROVE  Sequence(<<>>) /\ Range(<<>>) = {} /\ IdSet(<<>>) = {} /\ Binds(<<>>, D) /\ Fresh(<<>>, K)
<1>1. Sequence(<<>>) /\ Range(<<>>) = {} /\ DOMAIN <<>> = {}
  BY NoneAndOne
<1>2. IdSet(<<>>) = {}
  BY <1>1 DEF IdSet
<1> DEFINE s == <<>>
<1>3. DOMAIN s = {} /\ Sequence(s) /\ IdSet(s) = {}
  BY <1>1, <1>2
<1> HIDE DEF s
<1>4. Binds(s, D) /\ Fresh(s, K)
  BY <1>3 DEF Binds, Fresh
<1> QED
  BY <1>1, <1>2, <1>4 DEF s

LEMMA Literals ==
  ASSUME NEW x, NEW y, NEW z, NEW w
  PROVE  /\ <<x, y>> = <<x>> \o <<y>>
         /\ <<x, y, z>> = <<x>> \o <<y, z>>
         /\ <<x, y, z, w>> = <<x, y>> \o <<z, w>>
<1>1. <<x, y>> = <<x>> \o <<y>>
  <2> DEFINE s == <<x>>
             t == <<y>>
             u == s \o t
  <2>1. Len(s) = 1 /\ s[1] = x /\ Len(t) = 1 /\ t[1] = y /\ Sequence(s) /\ Sequence(t)
    BY NoneAndOne
  <2> HIDE DEF s, t
  <2>2. Sequence(u) /\ Len(u) = 1 + 1 /\ u[1] = x /\ u[1 + 1] = y
    BY <2>1, Joined
  <2> HIDE DEF u
  <2>3. u = [i \in 1..2 |-> u[i]] /\ u[1] = x /\ u[2] = y
    BY <2>2, SequenceIs
  <2>4. u = <<x, y>>
    BY <2>3
  <2> QED
    BY <2>4 DEF u, s, t
<1>2. <<x, y, z>> = <<x>> \o <<y, z>>
  OBVIOUS
<1>3. <<x, y, z, w>> = <<x, y>> \o <<z, w>>
  OBVIOUS
<1> QED
  BY <1>1, <1>2, <1>3

LEMMA TwoIs ==
  ASSUME NEW x, NEW y, NEW D, NEW K
  PROVE  /\ Sequence(<<x, y>>) /\ Range(<<x, y>>) = {x, y} /\ IdSet(<<x, y>>) = {x.id, y.id}
         /\ x.refs \subseteq D \cup {x.id} /\ y.refs \subseteq D \cup {x.id, y.id} => Binds(<<x, y>>, D)
         /\ x.id[1] \in K /\ y.id[1] \in K /\ x.id # y.id => Fresh(<<x, y>>, K)
<1> DEFINE s == <<x>>
           t == <<y>>
<1>1. <<x, y>> = s \o t
  BY Literals
<1>2. Sequence(s) /\ Sequence(t) /\ Range(s) = {x} /\ Range(t) = {y} /\ IdSet(s) = {x.id} /\ IdSet(t) = {y.id}
  BY OneIs
<1>3. x.refs \subseteq D \cup {x.id} => Binds(s, D)
  BY OneIs
<1>4. y.refs \subseteq D \cup {x.id, y.id} => Binds(t, D \cup {x.id})
  <2>1. y.refs \subseteq D \cup {x.id, y.id} => y.refs \subseteq (D \cup {x.id}) \cup {y.id}
    OBVIOUS
  <2> DEFINE E == D \cup {x.id}
  <2> HIDE DEF E
  <2>2. y.refs \subseteq E \cup {y.id} => Binds(t, E)
    BY OneIs
  <2> QED
    BY <2>1, <2>2 DEF E
<1>5. (x.id[1] \in K => Fresh(s, K)) /\ (y.id[1] \in K => Fresh(t, K))
  BY OneIs
<1> HIDE DEF s, t
<1>6. Sequence(s \o t) /\ Range(s \o t) = {x, y}
  BY <1>2, Joined
<1>7. IdSet(s \o t) = {x.id, y.id}
  BY <1>6 DEF IdSet
<1>8. x.refs \subseteq D \cup {x.id} /\ y.refs \subseteq D \cup {x.id, y.id} => Binds(s \o t, D)
  BY <1>2, <1>3, <1>4, JoinBinds
<1>9. x.id[1] \in K /\ y.id[1] \in K /\ x.id # y.id => Fresh(s \o t, K)
  <2>1. K \cup K = K
    OBVIOUS
  <2> SUFFICES ASSUME x.id[1] \in K, y.id[1] \in K, x.id # y.id PROVE Fresh(s \o t, K)
    OBVIOUS
  <2>2. Fresh(s \o t, K \cup K)
    BY <1>2, <1>5, JoinFresh
  <2> QED
    BY <2>1, <2>2
<1> QED
  BY <1>1, <1>6, <1>7, <1>8, <1>9

LEMMA ThreeIs ==
  ASSUME NEW x, NEW y, NEW z, NEW D, NEW K
  PROVE  /\ Sequence(<<x, y, z>>) /\ Range(<<x, y, z>>) = {x, y, z} /\ IdSet(<<x, y, z>>) = {x.id, y.id, z.id}
         /\ x.refs \subseteq D \cup {x.id} /\ y.refs \subseteq D \cup {x.id, y.id}
            /\ z.refs \subseteq D \cup {x.id, y.id, z.id} => Binds(<<x, y, z>>, D)
         /\ x.id[1] \in K /\ y.id[1] \in K /\ z.id[1] \in K /\ x.id # y.id /\ x.id # z.id /\ y.id # z.id
            => Fresh(<<x, y, z>>, K)
<1> DEFINE s == <<x>>
           t == <<y, z>>
<1>1. <<x, y, z>> = s \o t
  BY Literals
<1>2. /\ Sequence(s) /\ Sequence(t) /\ Range(s) = {x} /\ Range(t) = {y, z}
      /\ IdSet(s) = {x.id} /\ IdSet(t) = {y.id, z.id}
  BY OneIs, TwoIs
<1>3. x.refs \subseteq D \cup {x.id} => Binds(s, D)
  BY OneIs
<1>4. y.refs \subseteq D \cup {x.id, y.id} /\ z.refs \subseteq D \cup {x.id, y.id, z.id} => Binds(t, D \cup {x.id})
  <2> DEFINE E == D \cup {x.id}
  <2>1. /\ y.refs \subseteq D \cup {x.id, y.id} => y.refs \subseteq E \cup {y.id}
        /\ z.refs \subseteq D \cup {x.id, y.id, z.id} => z.refs \subseteq E \cup {y.id, z.id}
    OBVIOUS
  <2> HIDE DEF E
  <2>2. y.refs \subseteq E \cup {y.id} /\ z.refs \subseteq E \cup {y.id, z.id} => Binds(t, E)
    BY TwoIs
  <2> QED
    BY <2>1, <2>2 DEF E
<1>5. /\ x.id[1] \in K => Fresh(s, K)
      /\ y.id[1] \in K /\ z.id[1] \in K /\ y.id # z.id => Fresh(t, K)
  BY OneIs, TwoIs
<1> HIDE DEF s, t
<1>6. Sequence(s \o t) /\ Range(s \o t) = {x, y, z}
  <2>1. Sequence(s \o t) /\ Range(s \o t) = Range(s) \cup Range(t)
    BY <1>2, Joined
  <2> QED
    BY <1>2, <2>1
<1>7. IdSet(s \o t) = {x.id, y.id, z.id}
  BY <1>6 DEF IdSet
<1>8. x.refs \subseteq D \cup {x.id} /\ y.refs \subseteq D \cup {x.id, y.id}
      /\ z.refs \subseteq D \cup {x.id, y.id, z.id} => Binds(s \o t, D)
  BY <1>2, <1>3, <1>4, JoinBinds
<1>9. x.id[1] \in K /\ y.id[1] \in K /\ z.id[1] \in K /\ x.id # y.id /\ x.id # z.id /\ y.id # z.id
      => Fresh(s \o t, K)
  <2>1. K \cup K = K
    OBVIOUS
  <2> SUFFICES ASSUME x.id[1] \in K, y.id[1] \in K, z.id[1] \in K, x.id # y.id, x.id # z.id, y.id # z.id
      PROVE Fresh(s \o t, K)
    OBVIOUS
  <2>2. Fresh(s \o t, K \cup K)
    BY <1>2, <1>5, JoinFresh
  <2> QED
    BY <2>1, <2>2
<1> QED
  BY <1>1, <1>6, <1>7, <1>8, <1>9

\* A resource for each element of a list.
LEMMA SinglesAre ==
  ASSUME NEW s, Sequence(s), NEW f, DOMAIN f = DOMAIN s
  PROVE  LET u == FlattenSeq([i \in DOMAIN s |-> <<f[i]>>]) IN
         /\ Sequence(u) /\ Range(u) = {f[i] : i \in DOMAIN s} /\ IdSet(u) = {f[i].id : i \in DOMAIN s}
         /\ \A D : (\A i \in DOMAIN s : f[i].refs \subseteq D) => Binds(u, D)
         /\ \A K : (\A i \in DOMAIN s : f[i].id[1] \in K) /\ (\A i, j \in DOMAIN s : f[i].id = f[j].id => i = j)
                   => Fresh(u, K)
<1> DEFINE ss == [i \in DOMAIN s |-> <<f[i]>>]
           u == FlattenSeq(ss)
<1>1. \A i \in DOMAIN s : ss[i] = <<f[i]>> /\ Sequence(ss[i]) /\ Range(ss[i]) = {f[i]} /\ IdSet(ss[i]) = {f[i].id}
  BY OneIs
<1>2. DOMAIN ss = DOMAIN s /\ ss = [i \in DOMAIN s |-> ss[i]]
  OBVIOUS
<1> HIDE DEF ss
<1>3. Sequence(ss)
  BY <1>2, MapIs
<1>4. /\ Sequence(u)
      /\ Range(u) = UNION {Range(ss[i]) : i \in DOMAIN ss}
      /\ IdSet(u) = UNION {IdSet(ss[i]) : i \in DOMAIN ss}
  BY <1>1, <1>2, <1>3, FlattenRange
<1>5. Range(u) = {f[i] : i \in DOMAIN s} /\ IdSet(u) = {f[i].id : i \in DOMAIN s}
  BY <1>1, <1>2, <1>4
<1>6. ASSUME NEW D, \A i \in DOMAIN s : f[i].refs \subseteq D
      PROVE  Binds(u, D)
  <2>1. \A i \in DOMAIN ss : Binds(ss[i], D)
    <3> SUFFICES ASSUME NEW i \in DOMAIN ss PROVE Binds(ss[i], D)
      OBVIOUS
    <3>1. f[i].refs \subseteq D \cup {f[i].id}
      BY <1>2, <1>6
    <3>2. Binds(<<f[i]>>, D)
      BY <3>1, OneIs
    <3> QED
      BY <1>1, <1>2, <3>2
  <2> QED
    BY <1>3, <2>1, FlattenBinds
<1>7. ASSUME NEW K, \A i \in DOMAIN s : f[i].id[1] \in K, \A i, j \in DOMAIN s : f[i].id = f[j].id => i = j
      PROVE  Fresh(u, K)
  <2>1. \A i \in DOMAIN ss : Sequence(ss[i]) /\ Fresh(ss[i], K)
    BY <1>1, <1>2, <1>7, OneIs, SMTT(30)
  <2>2. \A i, j \in DOMAIN ss : i # j => IdSet(ss[i]) \cap IdSet(ss[j]) = {}
    BY <1>1, <1>2, <1>7
  <2> QED
    BY <1>3, <2>1, <2>2, FlattenFresh
<1> QED
  BY <1>4, <1>5, <1>6, <1>7 DEF ss

Once(s) == \A i, j \in DOMAIN s : s[i] = s[j] => i = j

LEMMA FlattenOnce ==
  ASSUME NEW ss, Sequence(ss), \A i \in DOMAIN ss : Sequence(ss[i]) /\ Once(ss[i]),
         \A i, j \in DOMAIN ss : i # j => Range(ss[i]) \cap Range(ss[j]) = {}
  PROVE  Once(FlattenSeq(ss))
<1> DEFINE f == FlattenSeq(ss)
<1>2. Sequence(f) /\ DOMAIN ss = 1..Len(ss)
  BY FlattenIs, SequenceIs
<1>3. PICK block, spot : Places(f, ss, Len(ss), block, spot)
  BY FlattenIs
<1> HIDE DEF f
<1>5. Len(f) \in Nat /\ DOMAIN f = 1..Len(f)
  BY <1>2, SequenceIs
<1>6. ASSUME NEW p \in DOMAIN f, NEW q \in DOMAIN f, f[p] = f[q], p < q
      PROVE  FALSE
  <2>1. /\ block[p] \in DOMAIN ss /\ spot[p] \in DOMAIN ss[block[p]] /\ f[p] = ss[block[p]][spot[p]]
        /\ block[q] \in DOMAIN ss /\ spot[q] \in DOMAIN ss[block[q]] /\ f[q] = ss[block[q]][spot[q]]
    BY <1>2, <1>3 DEF Places
  <2>2. f[p] \in Range(ss[block[p]]) /\ f[q] \in Range(ss[block[q]])
    BY <2>1, RangeIs
  <2>3. block[p] = block[q]
    BY <1>6, <2>1, <2>2
  <2>4. spot[p] = spot[q]
    BY <1>6, <2>1, <2>3 DEF Once
  <2>5. block[p] < block[q] \/ (block[p] = block[q] /\ spot[p] < spot[q])
    BY <1>3, <1>6 DEF Places
  <2>6. block[p] \in Nat /\ spot[p] \in Nat
    <3>1. block[p] \in Nat
      BY <1>2, <2>1
    <3>2. DOMAIN ss[block[p]] = 1..Len(ss[block[p]])
      BY <2>1, SequenceIs
    <3>3. spot[p] \in Nat
      BY <2>1, <3>2
    <3> QED
      BY <3>1, <3>3
  <2> QED
    BY <2>3, <2>4, <2>5, <2>6
<1>7. \A p, q \in DOMAIN f : f[p] = f[q] => p = q
  <2> SUFFICES ASSUME NEW p \in DOMAIN f, NEW q \in DOMAIN f, f[p] = f[q], p # q PROVE FALSE
    OBVIOUS
  <2>1. p < q \/ q < p
    BY <1>5
  <2> QED
    BY <1>6, <2>1
<1> QED
  BY <1>7 DEF f, Once

\* Only: the elements of s that are in T.
LEMMA ChosenAre ==
  ASSUME NEW s, Sequence(s), NEW T
  PROVE  LET u == FlattenSeq([i \in DOMAIN s |-> IF s[i] \in T THEN <<s[i]>> ELSE <<>>]) IN
         /\ Sequence(u) /\ Range(u) = Range(s) \cap T
         /\ Once(s) => Once(u)
<1> DEFINE ss == [i \in DOMAIN s |-> IF s[i] \in T THEN <<s[i]>> ELSE <<>>]
           u == FlattenSeq(ss)
<1>1. \A i \in DOMAIN s : Sequence(ss[i]) /\ Range(ss[i]) = {s[i]} \cap T /\ Once(ss[i])
  <2> SUFFICES ASSUME NEW i \in DOMAIN s PROVE Sequence(ss[i]) /\ Range(ss[i]) = {s[i]} \cap T /\ Once(ss[i])
    OBVIOUS
  <2> DEFINE x == s[i]
  <2>1. CASE x \in T
    <3>1. ss[i] = <<x>>
      BY <2>1
    <3>2. Sequence(<<x>>) /\ Range(<<x>>) = {x} /\ DOMAIN <<x>> = {1}
      BY NoneAndOne
    <3> HIDE DEF ss, x
    <3>3. Once(<<x>>)
      BY <3>2 DEF Once
    <3> QED
      BY <2>1, <3>1, <3>2, <3>3 DEF x
  <2>2. CASE x \notin T
    <3>1. ss[i] = <<>>
      BY <2>2
    <3>2. Sequence(<<>>) /\ Range(<<>>) = {} /\ DOMAIN <<>> = {}
      BY NoneAndOne
    <3> HIDE DEF ss, x
    <3>3. Once(<<>>)
      BY <3>2 DEF Once
    <3> QED
      BY <2>2, <3>1, <3>2, <3>3 DEF x
  <2> QED
    BY <2>1, <2>2
<1>2. DOMAIN ss = DOMAIN s /\ ss = [i \in DOMAIN s |-> ss[i]]
  OBVIOUS
<1> HIDE DEF ss
<1>3. Sequence(ss)
  BY <1>2, MapIs
<1>4. Sequence(u) /\ Range(u) = UNION {Range(ss[i]) : i \in DOMAIN ss}
  BY <1>1, <1>2, <1>3, FlattenRange
<1>5. Range(u) = Range(s) \cap T
  <2>1. \A x \in Range(u) : x \in Range(s) /\ x \in T
    BY <1>1, <1>2, <1>4, RangeIs
  <2>2. \A x \in Range(s) : x \in T => x \in Range(u)
    BY <1>1, <1>2, <1>4, RangeIs
  <2> HIDE DEF u
  <2> QED
    BY <2>1, <2>2
<1>6. ASSUME Once(s) PROVE Once(u)
  <2>1. \A i, j \in DOMAIN ss : i # j => Range(ss[i]) \cap Range(ss[j]) = {}
    BY <1>1, <1>2, <1>6 DEF Once
  <2> QED
    BY <1>1, <1>2, <1>3, <2>1, FlattenOnce
<1> QED
  BY <1>4, <1>5, <1>6 DEF ss

LEMMA FiniteRange ==
  ASSUME NEW s, Sequence(s)
  PROVE  IsFiniteSet(Range(s))
<1>1. Len(s) \in Nat /\ DOMAIN s = 1..Len(s) /\ s = [i \in 1..Len(s) |-> s[i]]
  BY SequenceIs
<1>2. s \in Surjection(1..Len(s), Range(s))
  BY <1>1 DEF Surjection, Range
<1>3. IsFiniteSet(1..Len(s))
  BY <1>1, FS_Interval
<1> QED
  BY <1>2, <1>3, FS_Surjection

\* SetToSeq of a finite set lists it.
LEMMA ListIs ==
  ASSUME NEW S, IsFiniteSet(S)
  PROVE  Sequence(SetToSeq(S)) /\ Range(SetToSeq(S)) = S /\ Once(SetToSeq(S))
<1> DEFINE n == Cardinality(S)
           f == SetToSeq(S)
<1>1. n \in Nat /\ ExistsBijection(1..n, S)
  BY FS_CardinalityType
<1>2. PICK g : g \in Bijection(1..n, S)
  BY <1>1 DEF ExistsBijection
<1>3. g \in [1..n -> S] /\ IsInjective(g)
  BY <1>2 DEF Bijection, Injection, IsInjective
<1>4. f \in [1..n -> S] /\ IsInjective(f)
  BY <1>3 DEF SetToSeq
<1> HIDE DEF f
<1>5. f \in Injection(1..n, S)
  BY <1>4 DEF IsInjective, Injection
<1>6. IsFiniteSet(1..n) /\ Cardinality(1..n) = n
  BY <1>1, FS_Interval
<1>7. f \in Surjection(1..n, S)
  BY <1>5, <1>6, FS_Injection
<1>8. Range(f) = S
  BY <1>7 DEF Surjection, Range
<1>9. Sequence(f)
  <2>1. f = [i \in 1..n |-> f[i]]
    BY <1>4
  <2> QED
    BY <1>1, <2>1, IsSequence
<1>10. Once(f)
  BY <1>4 DEF IsInjective, Once
<1> QED
  BY <1>8, <1>9, <1>10 DEF f

-----------------------------------------------------------------------------
(* The plan and its network.                                                  *)

LEMMA EstateIs ==
  ASSUME compute \in Plans
  PROVE  /\ Sequence(compute) /\ Once(compute) /\ IsFiniteSet(Range(compute))
         /\ \A i, j \in DOMAIN compute : compute[i].vm = compute[j].vm => i = j
         /\ \A m \in Range(compute) : /\ m.vm \in DOMAIN LabelOf /\ m.tier \in DOMAIN SubnetTierOf
                                      /\ m.disks \in Nat /\ Machine(m.vm) = m
         /\ \A m, n \in Range(compute) : LabelOf[m.vm] = LabelOf[n.vm] => m = n
         /\ \A m, n \in Range(compute) : m.vm = n.vm => m = n
<1>1. Sequence(compute)
  BY RenderAssumption DEF Sequence
<1>2. \A i, j \in DOMAIN compute : compute[i].vm = compute[j].vm => i = j
  BY RenderAssumption
<1>3. Once(compute)
  BY <1>2 DEF Once
<1>4. \A m, n \in Range(compute) : m.vm = n.vm => m = n
  BY <1>2, RangeIs
<1>5. \A m \in Range(compute) : m.vm \in DOMAIN LabelOf /\ m.tier \in DOMAIN SubnetTierOf /\ m.disks \in Nat
  <2>1. \A i \in DOMAIN compute : /\ compute[i].vm \in DOMAIN LabelOf /\ compute[i].tier \in DOMAIN SubnetTierOf
                                  /\ compute[i].disks \in Nat
    BY RenderAssumption
  <2> QED
    BY <2>1, RangeIs
<1>6. \A v, w \in DOMAIN LabelOf : LabelOf[v] = LabelOf[w] => v = w
  BY RenderAssumption
<1>7. \A m, n \in Range(compute) : LabelOf[m.vm] = LabelOf[n.vm] => m = n
  BY <1>4, <1>5, <1>6
<1>8. \A m \in Range(compute) : Machine(m.vm) = m
  <2> SUFFICES ASSUME NEW m \in Range(compute) PROVE Machine(m.vm) = m
    OBVIOUS
  <2>1. PICK i \in DOMAIN compute : compute[i] = m
    BY RangeIs
  <2>2. (CHOOSE j \in DOMAIN compute : compute[j].vm = m.vm) = i
    BY <1>2, <2>1
  <2> QED
    BY <2>1, <2>2 DEF Machine
<1> QED
  BY <1>1, <1>2, <1>3, <1>4, <1>5, <1>7, <1>8, FiniteRange

LEMMA SubnetsAre ==
  /\ Sequence(Subnets) /\ Once(Subnets)
  /\ \A i, j \in DOMAIN Subnets : Subnets[i].name = Subnets[j].name => i = j
  /\ \A s, t \in Range(Subnets) : s.name = t.name => s = t
  /\ \A s \in Range(Subnets) : s.name # None /\ s.name # Nowhere
  /\ \A tier \in {"public", "private"} : \E s \in Range(Subnets) : s.tier = tier
<1>1. Sequence(Subnets)
  BY RenderAssumption DEF Sequence
<1>2. \A i, j \in DOMAIN Subnets : Subnets[i].name = Subnets[j].name => i = j
  BY RenderAssumption
<1>3. Once(Subnets)
  BY <1>2 DEF Once
<1>4. \A s, t \in Range(Subnets) : s.name = t.name => s = t
  BY <1>2, RangeIs
<1>5. \A i \in DOMAIN Subnets : Subnets[i].name # None /\ Subnets[i].name # Nowhere
  BY RenderAssumption
<1>6. \A s \in Range(Subnets) : s.name # None /\ s.name # Nowhere
  BY <1>5, RangeIs
<1>7. \A tier \in {"public", "private"} : \E i \in DOMAIN Subnets : Subnets[i].tier = tier
  BY RenderAssumption
<1>8. \A tier \in {"public", "private"} : \E s \in Range(Subnets) : s.tier = tier
  BY <1>7, RangeIs
<1> QED
  BY <1>1, <1>2, <1>3, <1>4, <1>6, <1>8

LEMMA SubnetsOfIs ==
  ASSUME NEW tier
  PROVE  /\ Sequence(SubnetsOf(tier)) /\ Once(SubnetsOf(tier))
         /\ Range(SubnetsOf(tier)) = {s \in Range(Subnets) : s.tier = tier}
         /\ \A i, j \in DOMAIN SubnetsOf(tier) : SubnetsOf(tier)[i].name = SubnetsOf(tier)[j].name => i = j
         /\ tier \in {"public", "private"} => /\ SubnetsOf(tier) # <<>>
                                              /\ 1 \in DOMAIN SubnetsOf(tier)
                                              /\ SubnetsOf(tier)[1] \in Range(SubnetsOf(tier))
<1> DEFINE T == {s \in Range(Subnets) : s.tier = tier}
           u == SubnetsOf(tier)
           ss == [i \in DOMAIN Subnets |-> IF Subnets[i] \in T THEN <<Subnets[i]>> ELSE <<>>]
<1>1. \A i \in DOMAIN Subnets : Subnets[i] \in T <=> Subnets[i].tier = tier
  BY RangeIs
<1>2. u = FlattenSeq([i \in DOMAIN Subnets |-> IF Subnets[i].tier = tier THEN <<Subnets[i]>> ELSE <<>>])
  BY DEF SubnetsOf, Only, Each, When
<1>3. ss = [i \in DOMAIN Subnets |-> IF Subnets[i].tier = tier THEN <<Subnets[i]>> ELSE <<>>]
  BY <1>1
<1>4. u = FlattenSeq(ss)
  BY <1>2, <1>3
<1> HIDE DEF T, u
<1>5. Sequence(u) /\ Range(u) = Range(Subnets) \cap T /\ Once(u)
  BY <1>4, SubnetsAre, ChosenAre
<1>6. Range(u) = {s \in Range(Subnets) : s.tier = tier}
  BY <1>5 DEF T
<1>7. \A i, j \in DOMAIN u : u[i].name = u[j].name => i = j
  <2> SUFFICES ASSUME NEW i \in DOMAIN u, NEW j \in DOMAIN u, u[i].name = u[j].name PROVE i = j
    OBVIOUS
  <2>1. u[i] \in Range(Subnets) /\ u[j] \in Range(Subnets)
    BY <1>5, RangeIs
  <2>2. u[i] = u[j]
    BY <2>1, SubnetsAre
  <2> QED
    BY <1>5, <2>2 DEF Once
<1>8. tier \in {"public", "private"} => u # <<>> /\ 1 \in DOMAIN u /\ u[1] \in Range(u)
  <2> SUFFICES ASSUME tier \in {"public", "private"} PROVE u # <<>> /\ 1 \in DOMAIN u /\ u[1] \in Range(u)
    OBVIOUS
  <2>1. PICK s \in Range(u) : TRUE
    BY <1>6, SubnetsAre
  <2>2. PICK i \in DOMAIN u : u[i] = s
    BY <2>1, RangeIs
  <2>3. Len(u) \in Nat /\ DOMAIN u = 1..Len(u) /\ (u = <<>> <=> Len(u) = 0)
    BY <1>5, SequenceIs
  <2>4. 1 \in DOMAIN u /\ Len(u) # 0
    BY <2>2, <2>3
  <2> QED
    BY <2>3, <2>4, RangeIs
<1> QED
  BY <1>5, <1>6, <1>7, <1>8 DEF u

LEMMA MembersIs ==
  ASSUME compute \in Plans, NEW t, NEW e
  PROVE  /\ Sequence(Members(t, e)) /\ Once(Members(t, e))
         /\ Range(Members(t, e)) = {m \in Range(compute) : m.tier = t /\ m.env = e}
<1> DEFINE T == {m \in Range(compute) : m.tier = t /\ m.env = e}
           u == Members(t, e)
           ss == [i \in DOMAIN compute |-> IF compute[i] \in T THEN <<compute[i]>> ELSE <<>>]
<1>1. \A i \in DOMAIN compute : compute[i] \in T <=> compute[i].tier = t /\ compute[i].env = e
  BY RangeIs
<1>2. u = FlattenSeq([i \in DOMAIN compute |-> IF compute[i].tier = t /\ compute[i].env = e THEN <<compute[i]>>
                                              ELSE <<>>])
  BY DEF Members, Only, Each, When
<1>3. ss = [i \in DOMAIN compute |-> IF compute[i].tier = t /\ compute[i].env = e THEN <<compute[i]>> ELSE <<>>]
  BY <1>1
<1>4. u = FlattenSeq(ss)
  BY <1>2, <1>3
<1> HIDE DEF T, u
<1>5. Sequence(u) /\ Range(u) = Range(compute) \cap T /\ Once(u)
  BY <1>4, EstateIs, ChosenAre
<1> QED
  BY <1>5 DEF T, u

LEMMA FiniteImage ==
  ASSUME NEW S, IsFiniteSet(S), NEW f, DOMAIN f = S
  PROVE  IsFiniteSet({f[x] : x \in S})
<1> DEFINE g == [x \in S |-> f[x]]
           T == {f[x] : x \in S}
<1>1. g \in Surjection(S, T)
  BY DEF Surjection
<1> HIDE DEF g, T
<1>2. IsFiniteSet(T)
  BY <1>1, FS_Surjection
<1> QED
  BY <1>2 DEF T

Tiers == {m.tier : m \in Range(compute)}
ImageKeys == {m.image : m \in Range(compute)}
Groups == {<<m.tier, m.env>> : m \in Range(compute)}

LEMMA FiniteParts ==
  ASSUME compute \in Plans
  PROVE  IsFiniteSet(Tiers) /\ IsFiniteSet(ImageKeys) /\ IsFiniteSet(Groups)
<1>1. IsFiniteSet(Range(compute))
  BY EstateIs
<1>2. IsFiniteSet(Tiers)
  <2> DEFINE f == [m \in Range(compute) |-> m.tier]
  <2>1. DOMAIN f = Range(compute) /\ Tiers = {f[m] : m \in Range(compute)}
    BY DEF Tiers
  <2> HIDE DEF f
  <2> QED
    BY <1>1, <2>1, FiniteImage
<1>3. IsFiniteSet(ImageKeys)
  <2> DEFINE f == [m \in Range(compute) |-> m.image]
  <2>1. DOMAIN f = Range(compute) /\ ImageKeys = {f[m] : m \in Range(compute)}
    BY DEF ImageKeys
  <2> HIDE DEF f
  <2> QED
    BY <1>1, <2>1, FiniteImage
<1>4. IsFiniteSet(Groups)
  <2> DEFINE f == [m \in Range(compute) |-> <<m.tier, m.env>>]
  <2>1. DOMAIN f = Range(compute) /\ Groups = {f[m] : m \in Range(compute)}
    BY DEF Groups
  <2> HIDE DEF f
  <2> QED
    BY <1>1, <2>1, FiniteImage
<1> QED
  BY <1>2, <1>3, <1>4

LEMMA GroupsAre ==
  ASSUME compute \in Plans
  PROVE  /\ Sequence(SecurityGroups) /\ Range(SecurityGroups) = Tiers /\ Once(SecurityGroups)
         /\ Sequence(Images) /\ Range(Images) = ImageKeys /\ Once(Images)
<1>1. SecurityGroups = SetToSeq(Tiers) /\ Images = SetToSeq(ImageKeys)
  BY DEF SecurityGroups, Images, Tiers, ImageKeys
<1> QED
  BY <1>1, FiniteParts, ListIs

Balancer(k) == [name |-> <<k[2], k[1], "lb">>, group |-> k[1], tier |-> SubnetTierOf[k[1]],
                ports |-> Ports[k[1]],
                targets |-> [i \in DOMAIN Members(k[1], k[2]) |-> Members(k[1], k[2])[i].vm]]

\* Everything the renderers need to know of a balancer.
Sound(lb) ==
  /\ \E e, t : lb.name = <<e, t, "lb">> /\ lb.group = t
  /\ lb.group \in Tiers /\ lb.tier \in {"public", "private"}
  /\ Sequence(lb.ports) /\ Once(lb.ports)
  /\ Sequence(lb.targets) /\ Once(lb.targets)
  /\ \A vm \in Range(lb.targets) : \E m \in Range(compute) : m.vm = vm

LEMMA BalancerIs ==
  ASSUME compute \in Plans, NEW k \in Groups
  PROVE  Sound(Balancer(k))
<1>1. PICK n \in Range(compute) : k = <<n.tier, n.env>>
  BY DEF Groups
<1>2. k[1] = n.tier /\ k[1] \in Tiers /\ k[1] \in DOMAIN SubnetTierOf
  BY <1>1, EstateIs DEF Tiers
<1> DEFINE t == k[1]
           e == k[2]
           M == Members(t, e)
           lb == Balancer(k)
           g == [i \in DOMAIN M |-> M[i].vm]
<1>3. Sequence(M) /\ Once(M) /\ Range(M) = {m \in Range(compute) : m.tier = t /\ m.env = e}
  BY MembersIs
<1>4. lb.name = <<e, t, "lb">> /\ lb.group = t /\ lb.tier = SubnetTierOf[t] /\ lb.ports = Ports[t]
  BY DEF Balancer
<1>5. lb.targets = g
  BY DEF Balancer
<1>6. lb.tier \in {"public", "private"} /\ lb.ports \in Seq(Nat)
  BY <1>2, <1>4, RenderAssumption
<1>7. Once(lb.ports)
  BY <1>2, <1>4, RenderAssumption DEF Once
<1>8. Sequence(lb.ports)
  <2> DEFINE p == lb.ports
  <2>1. Len(p) \in Nat /\ p \in [1..Len(p) -> Nat]
    BY <1>6
  <2> HIDE DEF p
  <2>2. p = [i \in 1..Len(p) |-> p[i]]
    BY <2>1
  <2>3. Sequence(p)
    BY <2>1, <2>2, IsSequence
  <2> QED
    BY <2>3 DEF p
<1>9. Sequence(lb.targets) /\ DOMAIN lb.targets = DOMAIN M /\ \A i \in DOMAIN M : lb.targets[i] = M[i].vm
  <2> HIDE DEF M, lb
  <2>1. g = [i \in DOMAIN M |-> g[i]] /\ \A i \in DOMAIN M : g[i] = M[i].vm
    OBVIOUS
  <2> HIDE DEF g
  <2> QED
    BY <1>3, <1>5, <2>1, MapIs
<1> HIDE DEF M, lb
<1>10. \A i \in DOMAIN M : M[i] \in Range(compute)
  BY <1>3, RangeIs
<1>11. Once(lb.targets)
  <2> SUFFICES ASSUME NEW i \in DOMAIN M, NEW j \in DOMAIN M, M[i].vm = M[j].vm PROVE i = j
    BY <1>9 DEF Once
  <2>1. M[i] = M[j]
    BY <1>10, EstateIs
  <2> QED
    BY <1>3, <2>1 DEF Once
<1>12. \A vm \in Range(lb.targets) : \E m \in Range(compute) : m.vm = vm
  <2> DEFINE v == lb.targets
  <2>1. DOMAIN v = DOMAIN M /\ \A i \in DOMAIN M : v[i] = M[i].vm
    BY <1>9
  <2> HIDE DEF v
  <2>2. \A x \in Range(v) : \E i \in DOMAIN M : x = M[i].vm
    BY <2>1, RangeIs
  <2>3. \A x \in Range(v) : \E m \in Range(compute) : m.vm = x
    BY <1>10, <2>2
  <2> QED
    BY <2>3 DEF v
<1>13. \E x, y : lb.name = <<x, y, "lb">> /\ lb.group = y
  BY <1>4
<1>14. lb.group \in Tiers
  BY <1>2, <1>4
<1> QED
  BY <1>6, <1>7, <1>8, <1>9, <1>11, <1>12, <1>13, <1>14 DEF Sound, lb

LEMMA BalancersAre ==
  ASSUME compute \in Plans
  PROVE  /\ Sequence(LoadBalancers)
         /\ \A lb \in Range(LoadBalancers) : Sound(lb)
         /\ \A i, j \in DOMAIN LoadBalancers : LoadBalancers[i].name = LoadBalancers[j].name => i = j
<1> DEFINE fronted == {k \in Groups : Len(Members(k[1], k[2])) > 1 /\ Ports[k[1]] # <<>>}
           s == SetToSeq(fronted)
           f == [i \in DOMAIN s |-> Balancer(s[i])]
           ss == [i \in DOMAIN s |-> <<f[i]>>]
           u == FlattenSeq(ss)
<1>1. LoadBalancers = FlattenSeq([i \in DOMAIN s |-> <<Balancer(s[i])>>])
  BY DEF LoadBalancers, Each, Groups, Balancer
<1>2. IsFiniteSet(fronted)
  BY FiniteParts, FS_Subset
<1> HIDE DEF fronted
<1>3. Sequence(s) /\ Range(s) = fronted /\ Once(s)
  BY <1>2, ListIs
<1>4. fronted \subseteq Groups
  BY DEF fronted
<1> HIDE DEF s
<1>5. ss = [i \in DOMAIN s |-> <<Balancer(s[i])>>]
  OBVIOUS
<1>6. LoadBalancers = u
  BY <1>1, <1>5
<1>7. DOMAIN f = DOMAIN s /\ \A i \in DOMAIN s : f[i] = Balancer(s[i]) /\ s[i] \in Groups
  BY <1>3, <1>4, RangeIs
<1> HIDE DEF f
<1>8. \A i \in DOMAIN s : Sequence(ss[i]) /\ Range(ss[i]) = {f[i]} /\ Once(ss[i])
  <2> SUFFICES ASSUME NEW i \in DOMAIN s PROVE Sequence(ss[i]) /\ Range(ss[i]) = {f[i]} /\ Once(ss[i])
    OBVIOUS
  <2> DEFINE x == f[i]
  <2>1. ss[i] = <<x>>
    OBVIOUS
  <2> HIDE DEF x, ss
  <2>2. Sequence(<<x>>) /\ Range(<<x>>) = {x} /\ DOMAIN <<x>> = {1}
    BY NoneAndOne
  <2>3. Once(<<x>>)
    BY <2>2 DEF Once
  <2> QED
    BY <2>1, <2>2, <2>3 DEF x
<1>9. DOMAIN ss = DOMAIN s /\ ss = [i \in DOMAIN s |-> ss[i]]
  OBVIOUS
<1> HIDE DEF ss
<1>10. Sequence(ss)
  BY <1>3, <1>9, MapIs
<1>11. \A i, j \in DOMAIN s : f[i].name = f[j].name => i = j
  <2> SUFFICES ASSUME NEW i \in DOMAIN s, NEW j \in DOMAIN s, f[i].name = f[j].name PROVE i = j
    OBVIOUS
  <2>1. <<s[i][2], s[i][1], "lb">> = <<s[j][2], s[j][1], "lb">>
    BY <1>7 DEF Balancer
  <2>2. s[i][2] = s[j][2] /\ s[i][1] = s[j][1]
    BY <2>1
  <2>3. s[i] = <<s[i][1], s[i][2]>> /\ s[j] = <<s[j][1], s[j][2]>>
    BY <1>7 DEF Groups
  <2>4. s[i] = s[j]
    BY <2>2, <2>3
  <2> QED
    BY <1>3, <2>4 DEF Once
<1>12. Sequence(u) /\ Range(u) = {f[i] : i \in DOMAIN s}
  <2>1. Sequence(u) /\ Range(u) = UNION {Range(ss[i]) : i \in DOMAIN ss}
    BY <1>8, <1>9, <1>10, FlattenRange
  <2> QED
    BY <1>8, <1>9, <2>1
<1>13. Once(u)
  <2>1. \A i, j \in DOMAIN ss : i # j => Range(ss[i]) \cap Range(ss[j]) = {}
    BY <1>8, <1>9, <1>11
  <2> QED
    BY <1>8, <1>9, <1>10, <2>1, FlattenOnce
<1> HIDE DEF u
<1>14. \A lb \in Range(u) : Sound(lb)
  BY <1>7, <1>12, BalancerIs
<1>15. \A i, j \in DOMAIN u : u[i].name = u[j].name => i = j
  <2> SUFFICES ASSUME NEW i \in DOMAIN u, NEW j \in DOMAIN u, u[i].name = u[j].name PROVE i = j
    OBVIOUS
  <2>1. u[i] \in Range(u) /\ u[j] \in Range(u)
    BY RangeIs
  <2>2. u[i] = u[j]
    BY <1>11, <1>12, <2>1
  <2> QED
    BY <1>13, <2>2 DEF Once
<1> QED
  BY <1>6, <1>12, <1>14, <1>15

LEMMA FrontedIs ==
  ASSUME compute \in Plans, NEW vm
  PROVE  /\ vm \in Fronted <=> \E lb \in Range(LoadBalancers) : vm \in Range(lb.targets)
         /\ vm \in Fronted => LoadBalancers[BalancerOf(vm)] \in Range(LoadBalancers)
<1>1. vm \in Fronted <=> \E i \in DOMAIN LoadBalancers : vm \in Range(LoadBalancers[i].targets)
  BY DEF Fronted
<1>2. vm \in Fronted <=> \E lb \in Range(LoadBalancers) : vm \in Range(lb.targets)
  BY <1>1, RangeIs
<1>3. vm \in Fronted => BalancerOf(vm) \in DOMAIN LoadBalancers
  BY <1>1 DEF BalancerOf
<1> QED
  BY <1>2, <1>3, RangeIs

\* assign_subnets gives a machine a subnet of its tier.
LEMMA PlaceIs ==
  ASSUME compute \in Plans, NEW m \in Range(compute)
  PROVE  /\ subnet_tier(m) \in {"public", "private"}
         /\ \E s \in Range(Subnets) : s.name = subnet_of(m.vm) /\ s.tier = subnet_tier(m)
         /\ subnet_of(m.vm) \in NamesOf(Subnets) /\ subnet_of(m.vm) # None /\ subnet_of(m.vm) # Nowhere
<1>1. PICK i \in DOMAIN compute : compute[i] = m
  BY RangeIs
<1>2. subnet_tier(m) \in {"public", "private"}
  BY EstateIs, RenderAssumption DEF subnet_tier
<1>3. subnet_of(m.vm) = assign_subnets(i)
  <2>1. (CHOOSE j \in DOMAIN compute : compute[j].vm = m.vm) = i
    BY <1>1, EstateIs
  <2> QED
    BY <2>1 DEF subnet_of
<1> DEFINE tier == subnet_tier(m)
           pool == SubnetsOf(tier)
           c == Cardinality({j \in 1..(i - 1) : subnet_tier(compute[j]) = tier})
<1>4. Sequence(pool) /\ pool # <<>> /\ Range(pool) = {s \in Range(Subnets) : s.tier = tier}
  BY <1>2, SubnetsOfIs
<1>5. assign_subnets(i) = pool[(c % Len(pool)) + 1].name
  BY <1>1, <1>4 DEF assign_subnets
<1>6. c \in Nat
  <2>1. Len(compute) \in Nat /\ DOMAIN compute = 1..Len(compute)
    BY EstateIs, SequenceIs
  <2>2. i \in Int
    BY <2>1
  <2>3. IsFiniteSet(1..(i - 1))
    BY <2>2, FS_Interval
  <2>4. IsFiniteSet({j \in 1..(i - 1) : subnet_tier(compute[j]) = tier})
    BY <2>3, FS_Subset
  <2> QED
    BY <2>4, FS_CardinalityType
<1>7. Len(pool) \in Nat /\ Len(pool) # 0 /\ DOMAIN pool = 1..Len(pool)
  BY <1>4, SequenceIs
<1> DEFINE p == (c % Len(pool)) + 1
<1>8. p \in DOMAIN pool
  <2> DEFINE L == Len(pool)
  <2>1. L \in Nat /\ L > 0 /\ DOMAIN pool = 1..L
    BY <1>7
  <2> HIDE DEF L, c, pool
  <2>2. c % L \in 0..(L - 1)
    BY <1>6, <2>1
  <2>3. (c % L) + 1 \in 1..L
    BY <2>1, <2>2
  <2> QED
    BY <2>1, <2>3 DEF L
<1> HIDE DEF p, pool, c
<1>9. pool[p] \in Range(pool)
  BY <1>8, RangeIs
<1>10. pool[p] \in Range(Subnets) /\ pool[p].tier = tier /\ pool[p].name = subnet_of(m.vm)
  BY <1>3, <1>4, <1>5, <1>9 DEF p
<1>11. subnet_of(m.vm) # None /\ subnet_of(m.vm) # Nowhere
  BY <1>10, SubnetsAre
<1> QED
  BY <1>2, <1>10, <1>11 DEF NamesOf

-----------------------------------------------------------------------------
(* Parts of a file: what they need, of which kinds and which their            *)
(* identifiers are, and the machines, disks and public addresses they write.  *)

Part(s, D, K, I) == Binds(s, D) /\ Fresh(s, K) /\ IdSet(s) = I

\* The same without uniqueness.
Loose(s, D, I) == Binds(s, D) /\ IdSet(s) = I

Apart(K, M) == K \cap M = {}
Covered(E, D, I) == E \subseteq D \cup I

MachineSet(s) == {[id |-> r.id, vm |-> r.vm, subnet |-> r.subnet] : r \in {r \in Range(s) : r.subnet # None}}
DiskSet(s) == UNION {{r.vm} \X r.disks : r \in Range(s)}
ShownSet(s) == {r.vm : r \in {r \in Range(s) : r.public}}

Yields(s, M, A, P) == Sequence(s) /\ MachineSet(s) = M /\ DiskSet(s) = A /\ ShownSet(s) = P

\* Neither machine nor disk nor public address.
Plain(s) == Sequence(s) /\ \A r \in Range(s) : r.subnet = None /\ r.disks = {} /\ ~r.public

LEMMA RIs ==
  ASSUME NEW id, NEW to
  PROVE  /\ R(id, to).id = id /\ R(id, to).refs = to /\ R(id, to).subnet = None
         /\ R(id, to).disks = {} /\ ~R(id, to).public
  BY DEF R

LEMMA VMIs ==
  ASSUME NEW id, NEW to, NEW m, NEW subnet, NEW disks, NEW public
  PROVE  LET r == VM(id, to, m, subnet, disks, public) IN
         /\ r.id = id /\ r.refs = to /\ r.vm = m.vm /\ r.subnet = subnet /\ r.disks = disks
         /\ r.public = public
  BY DEF VM

LEMMA PartIs ==
  ASSUME NEW s, NEW D, NEW K, NEW I, Part(s, D, K, I)
  PROVE  Binds(s, D) /\ Fresh(s, K) /\ Sequence(s) /\ IdSet(s) = I /\ Loose(s, D, I)
  BY DEF Part, Binds, Loose

LEMMA JoinLoose ==
  ASSUME NEW s, NEW t, NEW D, NEW E, NEW I, NEW J, Loose(s, D, I), Loose(t, E, J), Covered(E, D, I)
  PROVE  Loose(s \o t, D, I \cup J)
<1>1. Binds(s, D) /\ IdSet(s) = I /\ Binds(t, E) /\ IdSet(t) = J /\ E \subseteq D \cup IdSet(s)
  BY DEF Loose, Covered
<1>2. Binds(s \o t, D) /\ IdSet(s \o t) = IdSet(s) \cup IdSet(t)
  BY <1>1, JoinBinds
<1> QED
  BY <1>1, <1>2 DEF Loose

LEMMA JoinApart ==
  ASSUME NEW s, NEW t, NEW D, NEW E, NEW K, NEW M, NEW I, NEW J, Part(s, D, K, I), Part(t, E, M, J),
         Covered(E, D, I), Apart(I, J)
  PROVE  Part(s \o t, D, K \cup M, I \cup J)
<1>1. /\ Binds(s, D) /\ Fresh(s, K) /\ Sequence(s) /\ IdSet(s) = I /\ Loose(s, D, I)
      /\ Binds(t, E) /\ Fresh(t, M) /\ Sequence(t) /\ IdSet(t) = J /\ Loose(t, E, J)
  BY PartIs
<1>2. Loose(s \o t, D, I \cup J)
  BY <1>1, JoinLoose
<1>3. IdSet(s) \cap IdSet(t) = {}
  BY <1>1 DEF Apart
<1>4. Fresh(s \o t, K \cup M)
  BY <1>1, <1>3, JoinFresh
<1> QED
  BY <1>2, <1>4 DEF Part, Loose

LEMMA JoinParts ==
  ASSUME NEW s, NEW t, NEW D, NEW E, NEW K, NEW M, NEW I, NEW J, Part(s, D, K, I), Part(t, E, M, J),
         Covered(E, D, I), Apart(K, M)
  PROVE  Part(s \o t, D, K \cup M, I \cup J)
<1>1. \A x \in I : x[1] \in K
  BY DEF Part, Fresh
<1>2. \A x \in J : x[1] \in M
  BY DEF Part, Fresh
<1>3. Apart(I, J)
  BY <1>1, <1>2 DEF Apart
<1> QED
  BY <1>3, JoinApart

LEMMA MoreNeeded ==
  ASSUME NEW s, NEW D, NEW E, NEW K, NEW M, NEW I, Part(s, D, K, I), D \subseteq E, K \subseteq M
  PROVE  Part(s, E, M, I)
  BY MoreBinds, MoreKinds DEF Part

LEMMA JoinPlain ==
  ASSUME NEW s, NEW t, Plain(s), Plain(t)
  PROVE  Plain(s \o t)
<1>1. Sequence(s) /\ Sequence(t)
  BY DEF Plain
<1>2. Sequence(s \o t) /\ Range(s \o t) = Range(s) \cup Range(t)
  BY <1>1, Joined
<1> QED
  BY <1>2 DEF Plain

LEMMA JoinYields ==
  ASSUME NEW s, NEW t, NEW M, NEW N, NEW A, NEW B, NEW P, NEW Q, Yields(s, M, A, P), Yields(t, N, B, Q)
  PROVE  Yields(s \o t, M \cup N, A \cup B, P \cup Q)
<1>1. Sequence(s) /\ Sequence(t)
  BY DEF Yields
<1>2. Sequence(s \o t) /\ Range(s \o t) = Range(s) \cup Range(t)
  BY <1>1, Joined
<1> DEFINE u == s \o t
<1>3. Range(u) = Range(s) \cup Range(t)
  BY <1>2
<1> HIDE DEF u
<1>4. MachineSet(u) = MachineSet(s) \cup MachineSet(t)
  BY <1>3 DEF MachineSet
<1>5. DiskSet(u) = DiskSet(s) \cup DiskSet(t)
  BY <1>3 DEF DiskSet
<1>6. ShownSet(u) = ShownSet(s) \cup ShownSet(t)
  BY <1>3 DEF ShownSet
<1> QED
  BY <1>2, <1>4, <1>5, <1>6 DEF Yields, u

LEMMA PlainYields ==
  ASSUME NEW s, Plain(s)
  PROVE  Yields(s, {}, {}, {})
<1>1. Sequence(s)
  BY DEF Plain
<1>2. MachineSet(s) = {}
  BY DEF Plain, MachineSet
<1>3. DiskSet(s) = {}
  BY DEF Plain, DiskSet
<1>4. ShownSet(s) = {}
  BY DEF Plain, ShownSet
<1> QED
  BY <1>1, <1>2, <1>3, <1>4 DEF Yields

\* Plain parts add nothing.
LEMMA PlainAround ==
  ASSUME NEW s, NEW t, NEW M, NEW A, NEW P, Plain(s), Yields(t, M, A, P)
  PROVE  Yields(s \o t, M, A, P) /\ Yields(t \o s, M, A, P)
<1>1. Yields(s, {}, {}, {})
  BY PlainYields
<1>2. Yields(s \o t, {} \cup M, {} \cup A, {} \cup P) /\ Yields(t \o s, M \cup {}, A \cup {}, P \cup {})
  BY <1>1, JoinYields
<1>3. {} \cup M = M /\ {} \cup A = A /\ {} \cup P = P /\ M \cup {} = M /\ A \cup {} = A /\ P \cup {} = P
  OBVIOUS
<1> QED
  BY <1>2, <1>3

LEMMA PlainOne ==
  ASSUME NEW id, NEW to, NEW D, to \subseteq D
  PROVE  Plain(<<R(id, to)>>) /\ Part(<<R(id, to)>>, D, {id[1]}, {id})
<1> DEFINE x == R(id, to)
           K == {id[1]}
<1>1. x.id = id /\ x.refs = to /\ x.subnet = None /\ x.disks = {} /\ ~x.public
  BY RIs
<1> HIDE DEF x
<1>2. x.refs \subseteq D \cup {x.id} /\ x.id[1] \in K
  BY <1>1
<1> HIDE DEF K
<1>3. /\ Sequence(<<x>>) /\ Range(<<x>>) = {x} /\ IdSet(<<x>>) = {x.id}
      /\ Binds(<<x>>, D) /\ Fresh(<<x>>, K)
  BY <1>2, OneIs
<1>4. Plain(<<x>>)
  BY <1>1, <1>3 DEF Plain
<1> QED
  BY <1>1, <1>3, <1>4 DEF Part, x, K

\* A part for each element of a list.
LEMMA DisjointParts ==
  ASSUME NEW s, Sequence(s), NEW ss, ss = [i \in DOMAIN s |-> ss[i]], NEW D, NEW K,
         \A i \in DOMAIN s : Part(ss[i], D, K, IdSet(ss[i])),
         \A i, j \in DOMAIN s : i # j => Apart(IdSet(ss[i]), IdSet(ss[j]))
  PROVE  Part(FlattenSeq(ss), D, K, UNION {IdSet(ss[i]) : i \in DOMAIN s})
<1>1. \A i \in DOMAIN s : Binds(ss[i], D) /\ Fresh(ss[i], K) /\ Sequence(ss[i])
  BY PartIs
<1>2. Sequence(ss) /\ DOMAIN ss = DOMAIN s
  BY MapIs
<1>3. IdSet(FlattenSeq(ss)) = UNION {IdSet(ss[i]) : i \in DOMAIN s}
  BY <1>1, <1>2, FlattenRange
<1>4. Binds(FlattenSeq(ss), D)
  BY <1>1, <1>2, FlattenBinds
<1>5. \A i, j \in DOMAIN ss : i # j => IdSet(ss[i]) \cap IdSet(ss[j]) = {}
  BY <1>2 DEF Apart
<1>6. Fresh(FlattenSeq(ss), K)
  BY <1>1, <1>2, <1>5, FlattenFresh
<1> QED
  BY <1>3, <1>4, <1>6 DEF Part

LEMMA LooseParts ==
  ASSUME NEW s, Sequence(s), NEW ss, ss = [i \in DOMAIN s |-> ss[i]], NEW D,
         \A i \in DOMAIN s : Loose(ss[i], D, IdSet(ss[i]))
  PROVE  Loose(FlattenSeq(ss), D, UNION {IdSet(ss[i]) : i \in DOMAIN s})
<1>1. \A i \in DOMAIN s : Binds(ss[i], D) /\ Sequence(ss[i])
  BY DEF Loose, Binds
<1>2. Sequence(ss) /\ DOMAIN ss = DOMAIN s
  BY MapIs
<1>3. IdSet(FlattenSeq(ss)) = UNION {IdSet(ss[i]) : i \in DOMAIN s}
  BY <1>1, <1>2, FlattenRange
<1>4. Binds(FlattenSeq(ss), D)
  BY <1>1, <1>2, FlattenBinds
<1> QED
  BY <1>3, <1>4 DEF Loose

LEMMA PlainParts ==
  ASSUME NEW s, Sequence(s), NEW ss, ss = [i \in DOMAIN s |-> ss[i]], \A i \in DOMAIN s : Plain(ss[i])
  PROVE  Plain(FlattenSeq(ss))
<1>1. \A i \in DOMAIN s : Sequence(ss[i])
  BY DEF Plain
<1>2. Sequence(ss) /\ DOMAIN ss = DOMAIN s
  BY MapIs
<1>3. Sequence(FlattenSeq(ss)) /\ Range(FlattenSeq(ss)) = UNION {Range(ss[i]) : i \in DOMAIN s}
  BY <1>1, <1>2, FlattenRange
<1> QED
  BY <1>3 DEF Plain

LEMMA YieldParts ==
  ASSUME NEW s, Sequence(s), NEW ss, ss = [i \in DOMAIN s |-> ss[i]], NEW M, NEW A, NEW P,
         \A i \in DOMAIN s : Yields(ss[i], M[i], A[i], P[i])
  PROVE  Yields(FlattenSeq(ss), UNION {M[i] : i \in DOMAIN s}, UNION {A[i] : i \in DOMAIN s},
                UNION {P[i] : i \in DOMAIN s})
<1>1. \A i \in DOMAIN s : Sequence(ss[i])
  BY DEF Yields
<1>2. Sequence(ss) /\ DOMAIN ss = DOMAIN s
  BY MapIs
<1> DEFINE u == FlattenSeq(ss)
<1>3. Sequence(u) /\ Range(u) = UNION {Range(ss[i]) : i \in DOMAIN s}
  BY <1>1, <1>2, FlattenRange
<1> HIDE DEF u
<1>4. MachineSet(u) = UNION {MachineSet(ss[i]) : i \in DOMAIN s}
  BY <1>3 DEF MachineSet
<1>5. DiskSet(u) = UNION {DiskSet(ss[i]) : i \in DOMAIN s}
  BY <1>3 DEF DiskSet
<1>6. ShownSet(u) = UNION {ShownSet(ss[i]) : i \in DOMAIN s}
  BY <1>3 DEF ShownSet
<1>7. \A i \in DOMAIN s : MachineSet(ss[i]) = M[i] /\ DiskSet(ss[i]) = A[i] /\ ShownSet(ss[i]) = P[i]
  BY DEF Yields
<1> QED
  BY <1>3, <1>4, <1>5, <1>6, <1>7 DEF Yields, u

\* A single resource for each element.
Row(s, f) == FlattenSeq([i \in DOMAIN s |-> <<f[i]>>])

LEMMA RowIs ==
  ASSUME NEW s, Sequence(s), NEW f, DOMAIN f = DOMAIN s
  PROVE  /\ Sequence(Row(s, f)) /\ Range(Row(s, f)) = {f[i] : i \in DOMAIN s}
         /\ IdSet(Row(s, f)) = {f[i].id : i \in DOMAIN s}
         /\ \A D : (\A i \in DOMAIN s : f[i].refs \subseteq D) => Binds(Row(s, f), D)
         /\ \A K : (\A i \in DOMAIN s : f[i].id[1] \in K) /\ (\A i, j \in DOMAIN s : f[i].id = f[j].id => i = j)
                   => Fresh(Row(s, f), K)
         /\ (\A i \in DOMAIN s : f[i].subnet = None /\ f[i].disks = {} /\ ~f[i].public) => Plain(Row(s, f))
<1>1. /\ Sequence(Row(s, f)) /\ Range(Row(s, f)) = {f[i] : i \in DOMAIN s}
      /\ IdSet(Row(s, f)) = {f[i].id : i \in DOMAIN s}
      /\ \A D : (\A i \in DOMAIN s : f[i].refs \subseteq D) => Binds(Row(s, f), D)
      /\ \A K : (\A i \in DOMAIN s : f[i].id[1] \in K) /\ (\A i, j \in DOMAIN s : f[i].id = f[j].id => i = j)
                => Fresh(Row(s, f), K)
  BY SinglesAre DEF Row
<1>2. (\A i \in DOMAIN s : f[i].subnet = None /\ f[i].disks = {} /\ ~f[i].public) => Plain(Row(s, f))
  BY <1>1 DEF Plain
<1> QED
  BY <1>1, <1>2

\* The identifiers that a list of names gives.
LEMMA IdsAre ==
  ASSUME NEW x
  PROVE  /\ \A kind, S : x \in Ids(kind, S) <=> \E n \in S : x = <<kind, n>>
         /\ \A s : x \in NamesOf(s) <=> \E i \in DOMAIN s : x = s[i].name
<1>1. \A kind, S : x \in Ids(kind, S) <=> \E n \in S : x = <<kind, n>>
  BY DEF Ids
<1>2. \A s : x \in NamesOf(s) <=> \E i \in DOMAIN s : x = s[i].name
  BY DEF NamesOf, Range
<1> QED
  BY <1>1, <1>2

ListPart(s, kind, to) == FlattenSeq([i \in DOMAIN s |-> <<R(<<kind, s[i]>>, to)>>])

LEMMA ListPartIs ==
  ASSUME NEW s, Sequence(s), Once(s), NEW kind, NEW to
  PROVE  /\ Part(ListPart(s, kind, to), to, {kind}, Ids(kind, Range(s)))
         /\ Plain(ListPart(s, kind, to))
<1> DEFINE f == [i \in DOMAIN s |-> R(<<kind, s[i]>>, to)]
           u == Row(s, f)
           K == {kind}
<1>1. ListPart(s, kind, to) = u
  BY DEF ListPart, Row
<1>2. DOMAIN f = DOMAIN s /\ \A i \in DOMAIN s : /\ f[i].id = <<kind, s[i]>> /\ f[i].refs = to
                                                 /\ f[i].subnet = None /\ f[i].disks = {} /\ ~f[i].public
  BY RIs
<1> HIDE DEF f
<1>3. \A i, j \in DOMAIN s : f[i].id = f[j].id => i = j
  BY <1>2 DEF Once
<1>4. \A i \in DOMAIN s : f[i].refs \subseteq to /\ f[i].id[1] \in K
  BY <1>2
<1> HIDE DEF K
<1>5. Binds(u, to) /\ Fresh(u, K) /\ IdSet(u) = {f[i].id : i \in DOMAIN s} /\ Plain(u)
  BY <1>2, <1>3, <1>4, RowIs
<1> HIDE DEF u
<1>7. \A i \in DOMAIN s : f[i].id \in Ids(kind, Range(s))
  BY <1>2, RangeIs, IdsAre, ZenonT(60)
<1>8. \A x \in Ids(kind, Range(s)) : \E i \in DOMAIN s : x = f[i].id
  <2> SUFFICES ASSUME NEW x \in Ids(kind, Range(s)) PROVE \E i \in DOMAIN s : x = f[i].id
    OBVIOUS
  <2>1. PICK n \in Range(s) : x = <<kind, n>>
    BY IdsAre
  <2>2. PICK i \in DOMAIN s : s[i] = n
    BY RangeIs
  <2> QED
    BY <1>2, <2>1, <2>2
<1>9. IdSet(u) = Ids(kind, Range(s))
  BY <1>5, <1>7, <1>8
<1> QED
  BY <1>1, <1>5, <1>9 DEF Part, K

\* A resource for each subnet of a list.
SubnetPart(s, kind, to) == FlattenSeq([i \in DOMAIN s |-> <<R(<<kind, s[i].name>>, to)>>])
SubnetIds == Ids("subnet", NamesOf(Subnets))

LEMMA SubnetPartIs ==
  ASSUME NEW s, Sequence(s), \A i, j \in DOMAIN s : s[i].name = s[j].name => i = j, NEW kind, NEW to
  PROVE  /\ Part(SubnetPart(s, kind, to), to, {kind}, Ids(kind, NamesOf(s)))
         /\ Plain(SubnetPart(s, kind, to))
<1> DEFINE f == [i \in DOMAIN s |-> R(<<kind, s[i].name>>, to)]
           u == Row(s, f)
           K == {kind}
<1>1. SubnetPart(s, kind, to) = u
  BY DEF SubnetPart, Row
<1>2. DOMAIN f = DOMAIN s /\ \A i \in DOMAIN s : /\ f[i].id = <<kind, s[i].name>> /\ f[i].refs = to
                                                 /\ f[i].subnet = None /\ f[i].disks = {} /\ ~f[i].public
  BY RIs
<1> HIDE DEF f
<1>3. \A i, j \in DOMAIN s : f[i].id = f[j].id => i = j
  BY <1>2
<1>4. \A i \in DOMAIN s : f[i].refs \subseteq to /\ f[i].id[1] \in K
  BY <1>2
<1> HIDE DEF K
<1>5. Binds(u, to) /\ Fresh(u, K) /\ IdSet(u) = {f[i].id : i \in DOMAIN s} /\ Plain(u)
  BY <1>2, <1>3, <1>4, RowIs
<1> HIDE DEF u
<1>6. \A i \in DOMAIN s : s[i].name \in NamesOf(s)
  BY IdsAre
<1>7. \A i \in DOMAIN s : f[i].id \in Ids(kind, NamesOf(s))
  <2> SUFFICES ASSUME NEW i \in DOMAIN s PROVE f[i].id \in Ids(kind, NamesOf(s))
    OBVIOUS
  <2>1. \E n \in NamesOf(s) : f[i].id = <<kind, n>>
    BY <1>2, <1>6
  <2> QED
    BY <2>1, IdsAre
<1>8. \A x \in Ids(kind, NamesOf(s)) : \E i \in DOMAIN s : x = f[i].id
  <2> SUFFICES ASSUME NEW x \in Ids(kind, NamesOf(s)) PROVE \E i \in DOMAIN s : x = f[i].id
    OBVIOUS
  <2>1. PICK n \in NamesOf(s) : x = <<kind, n>>
    BY IdsAre
  <2>2. PICK i \in DOMAIN s : n = s[i].name
    BY IdsAre
  <2> QED
    BY <1>2, <2>1, <2>2
<1>9. IdSet(u) = Ids(kind, NamesOf(s))
  BY <1>5, <1>7, <1>8
<1> QED
  BY <1>1, <1>5, <1>9 DEF Part, K

TierIds(kind) == Ids(kind, Tiers)

\* The lists that every network has.
LEMMA NetworkParts ==
  ASSUME compute \in Plans, NEW kind, NEW to
  PROVE  /\ Part(SubnetPart(Subnets, "subnet", to), to, {"subnet"}, SubnetIds)
         /\ Plain(SubnetPart(Subnets, "subnet", to))
         /\ Part(ListPart(SecurityGroups, kind, to), to, {kind}, TierIds(kind))
         /\ Plain(ListPart(SecurityGroups, kind, to))
         /\ Part(ListPart(Images, kind, {}), {}, {kind}, Ids(kind, ImageKeys))
         /\ Plain(ListPart(Images, kind, {}))
<1>1. /\ Part(SubnetPart(Subnets, "subnet", to), to, {"subnet"}, SubnetIds)
      /\ Plain(SubnetPart(Subnets, "subnet", to))
  BY SubnetsAre, SubnetPartIs DEF SubnetIds
<1>2. /\ Part(ListPart(SecurityGroups, kind, to), to, {kind}, TierIds(kind))
      /\ Plain(ListPart(SecurityGroups, kind, to))
  BY GroupsAre, ListPartIs DEF TierIds
<1>3. /\ Part(ListPart(Images, kind, {}), {}, {kind}, Ids(kind, ImageKeys))
      /\ Plain(ListPart(Images, kind, {}))
  BY GroupsAre, ListPartIs
<1> QED
  BY <1>1, <1>2, <1>3

LEMMA PlainTwo ==
  ASSUME NEW i, NEW to, NEW j, NEW tu, NEW D, to \subseteq D, tu \subseteq D \cup {i}, i[1] # j[1]
  PROVE  /\ Plain(<<R(i, to), R(j, tu)>>)
         /\ Part(<<R(i, to), R(j, tu)>>, D, {i[1], j[1]}, {i, j})
<1> DEFINE x == R(i, to)
           y == R(j, tu)
           s == <<x, y>>
           K == {i[1], j[1]}
<1>1. /\ x.id = i /\ x.refs = to /\ x.subnet = None /\ x.disks = {} /\ ~x.public
      /\ y.id = j /\ y.refs = tu /\ y.subnet = None /\ y.disks = {} /\ ~y.public
  BY RIs
<1> HIDE DEF x, y
<1>2. /\ x.refs \subseteq D \cup {x.id} /\ y.refs \subseteq D \cup {x.id, y.id}
      /\ x.id[1] \in K /\ y.id[1] \in K /\ x.id # y.id
  BY <1>1
<1> HIDE DEF K
<1>3. Sequence(s) /\ Range(s) = {x, y} /\ IdSet(s) = {x.id, y.id} /\ Binds(s, D) /\ Fresh(s, K)
  BY <1>2, TwoIs
<1>4. Plain(s)
  BY <1>1, <1>3 DEF Plain
<1> QED
  BY <1>1, <1>3, <1>4 DEF Part, x, y, K

-----------------------------------------------------------------------------
(* A part for each machine, for each balancer, and for each port of one.      *)

Listing(c) == Sequence(c) /\ Once(c) /\ Range(c) = Range(compute)
LabelIds(kind) == {<<kind, LabelOf[m.vm]>> : m \in Range(compute)}

LEMMA MachineParts ==
  ASSUME compute \in Plans, NEW c, Listing(c), NEW ss, ss = [i \in DOMAIN c |-> ss[i]], NEW D, NEW K,
         \A i \in DOMAIN c : Part(ss[i], D, K, IdSet(ss[i])),
         \A i \in DOMAIN c : \A x \in IdSet(ss[i]) : x[2] = LabelOf[c[i].vm]
  PROVE  Part(FlattenSeq(ss), D, K, UNION {IdSet(ss[i]) : i \in DOMAIN c})
<1>1. Sequence(c) /\ Once(c) /\ \A i \in DOMAIN c : c[i] \in Range(compute)
  BY RangeIs DEF Listing
<1>2. \A i, j \in DOMAIN c : LabelOf[c[i].vm] = LabelOf[c[j].vm] => i = j
  BY <1>1, EstateIs DEF Once
<1>3. \A i, j \in DOMAIN c : i # j => Apart(IdSet(ss[i]), IdSet(ss[j]))
  BY <1>2 DEF Apart
<1> QED
  BY <1>1, <1>3, DisjointParts

LEMMA BalancerParts ==
  ASSUME compute \in Plans, NEW ss, ss = [i \in DOMAIN LoadBalancers |-> ss[i]], NEW D, NEW K,
         \A i \in DOMAIN LoadBalancers : Part(ss[i], D, K, IdSet(ss[i])),
         \A i \in DOMAIN LoadBalancers : \A x \in IdSet(ss[i]) : x[2] = LoadBalancers[i].name
  PROVE  Part(FlattenSeq(ss), D, K, UNION {IdSet(ss[i]) : i \in DOMAIN LoadBalancers})
<1>1. /\ Sequence(LoadBalancers)
      /\ \A i, j \in DOMAIN LoadBalancers : LoadBalancers[i].name = LoadBalancers[j].name => i = j
  BY BalancersAre
<1>2. \A i, j \in DOMAIN LoadBalancers : i # j => Apart(IdSet(ss[i]), IdSet(ss[j]))
  BY <1>1 DEF Apart
<1> QED
  BY <1>1, <1>2, DisjointParts

LEMMA PortParts ==
  ASSUME NEW p, Sequence(p), Once(p), NEW ss, ss = [k \in DOMAIN p |-> ss[k]], NEW D, NEW K,
         \A k \in DOMAIN p : Part(ss[k], D, K, IdSet(ss[k])),
         \A k \in DOMAIN p : \A x \in IdSet(ss[k]) : x[3] = p[k]
  PROVE  Part(FlattenSeq(ss), D, K, UNION {IdSet(ss[k]) : k \in DOMAIN p})
<1>1. \A i, j \in DOMAIN p : i # j => Apart(IdSet(ss[i]), IdSet(ss[j]))
  BY DEF Once, Apart
<1> QED
  BY <1>1, DisjointParts

\* What one machine adds.
LEMMA OneMachine ==
  ASSUME NEW id, NEW to, NEW m, NEW subnet, NEW disks, NEW public \in BOOLEAN, subnet # None
  PROVE  Yields(<<VM(id, to, m, subnet, disks, public)>>, {[id |-> id, vm |-> m.vm, subnet |-> subnet]},
                {m.vm} \X disks, IF public THEN {m.vm} ELSE {})
<1> DEFINE r == VM(id, to, m, subnet, disks, public)
           s == <<r>>
<1>1. r.id = id /\ r.vm = m.vm /\ r.subnet = subnet /\ r.disks = disks /\ (r.public <=> public)
  BY DEF VM
<1> HIDE DEF r
<1>2. Sequence(s) /\ Range(s) = {r}
  BY OneIs
<1> HIDE DEF s
<1>3. MachineSet(s) = {[id |-> id, vm |-> m.vm, subnet |-> subnet]}
  BY <1>1, <1>2 DEF MachineSet
<1>4. DiskSet(s) = {m.vm} \X disks
  BY <1>1, <1>2 DEF DiskSet
<1>5. ShownSet(s) = IF public THEN {m.vm} ELSE {}
  BY <1>1, <1>2 DEF ShownSet
<1> QED
  BY <1>2, <1>3, <1>4, <1>5 DEF Yields, s, r

\* The resource of a machine, and what it refers to.
LEMMA OnePart ==
  ASSUME NEW id, NEW to, NEW m, NEW subnet, NEW disks, NEW public, NEW D, to \subseteq D
  PROVE  Part(<<VM(id, to, m, subnet, disks, public)>>, D, {id[1]}, {id})
<1> DEFINE x == VM(id, to, m, subnet, disks, public)
           K == {id[1]}
<1>1. x.id = id /\ x.refs = to
  BY DEF VM
<1> HIDE DEF x
<1>2. x.refs \subseteq D \cup {x.id} /\ x.id[1] \in K
  BY <1>1
<1> HIDE DEF K
<1>3. IdSet(<<x>>) = {x.id} /\ Binds(<<x>>, D) /\ Fresh(<<x>>, K)
  BY <1>2, OneIs
<1> QED
  BY <1>1, <1>3 DEF Part, x, K

\* The machines as a renderer calls and places them, their disks, and those that it shows.
MachineRecords(id, at) == {[id |-> id[m], vm |-> m.vm, subnet |-> at[m]] : m \in Range(compute)}
Disks(n) == UNION {{m.vm} \X n[m] : m \in Range(compute)}
Exposed(pub) == {m.vm : m \in {m \in Range(compute) : pub[m]}}

\* The part s adds the machine m.
Adds(s, m, id, at, n, pub) ==
  Yields(s, {[id |-> id[m], vm |-> m.vm, subnet |-> at[m]]}, {m.vm} \X n[m], IF pub[m] THEN {m.vm} ELSE {})

LEMMA MachineYields ==
  ASSUME NEW c, Listing(c), NEW ss, ss = [i \in DOMAIN c |-> ss[i]], NEW id, NEW at, NEW n, NEW pub,
         \A i \in DOMAIN c : Adds(ss[i], c[i], id, at, n, pub)
  PROVE  Yields(FlattenSeq(ss), MachineRecords(id, at), Disks(n), Exposed(pub))
<1> DEFINE M == [i \in DOMAIN c |-> {[id |-> id[c[i]], vm |-> c[i].vm, subnet |-> at[c[i]]]}]
           A == [i \in DOMAIN c |-> {c[i].vm} \X n[c[i]]]
           P == [i \in DOMAIN c |-> IF pub[c[i]] THEN {c[i].vm} ELSE {}]
<1>1. Sequence(c) /\ Range(c) = Range(compute)
  BY DEF Listing
<1>2. \A i \in DOMAIN c : Yields(ss[i], M[i], A[i], P[i])
  BY DEF Adds
<1>3. UNION {M[i] : i \in DOMAIN c} = MachineRecords(id, at)
  BY <1>1 DEF MachineRecords, Range
<1>4. UNION {A[i] : i \in DOMAIN c} = Disks(n)
  BY <1>1 DEF Disks, Range
<1>5. UNION {P[i] : i \in DOMAIN c} = Exposed(pub)
  <2>1. \A i \in DOMAIN c : P[i] = IF pub[c[i]] THEN {c[i].vm} ELSE {}
    OBVIOUS
  <2> HIDE DEF P
  <2>2. \A i \in DOMAIN c : \A v \in P[i] : v \in Exposed(pub)
    <3> SUFFICES ASSUME NEW i \in DOMAIN c, NEW v \in P[i] PROVE v \in Exposed(pub)
      OBVIOUS
    <3>1. pub[c[i]] /\ v = c[i].vm
      BY <2>1
    <3>2. c[i] \in Range(compute)
      BY <1>1, RangeIs
    <3> QED
      BY <3>1, <3>2 DEF Exposed
  <2>3. \A v \in Exposed(pub) : \E i \in DOMAIN c : v \in P[i]
    <3> SUFFICES ASSUME NEW v \in Exposed(pub) PROVE \E i \in DOMAIN c : v \in P[i]
      OBVIOUS
    <3>1. PICK m \in Range(compute) : pub[m] /\ v = m.vm
      BY DEF Exposed
    <3>2. PICK i \in DOMAIN c : c[i] = m
      BY <1>1, RangeIs
    <3>3. v \in P[i]
      BY <2>1, <3>1, <3>2
    <3> QED
      BY <3>3
  <2> QED
    BY <2>2, <2>3
<1> HIDE DEF M, A, P
<1>6. Yields(FlattenSeq(ss), UNION {M[i] : i \in DOMAIN c}, UNION {A[i] : i \in DOMAIN c},
             UNION {P[i] : i \in DOMAIN c})
  BY <1>1, <1>2, YieldParts
<1> QED
  BY <1>3, <1>4, <1>5, <1>6

-----------------------------------------------------------------------------
(* The networks.                                                              *)

LEMMA PulumiAwsNetworkIs ==
  ASSUME compute \in Plans
  PROVE  /\ Part(PulumiAwsNetwork, {}, {"vpc", "igw", "subnet", "sg"},
                 (({<<"vpc">>} \cup {<<"igw">>}) \cup SubnetIds) \cup TierIds("sg"))
         /\ Plain(PulumiAwsNetwork)
<1> DEFINE V == {<<"vpc">>}
           a == <<R(<<"vpc">>, {})>>
           b == <<R(<<"igw">>, V)>>
           c == SubnetPart(Subnets, "subnet", V)
           d == ListPart(SecurityGroups, "sg", V)
<1>1. PulumiAwsNetwork = ((a \o b) \o c) \o d
  BY Literals DEF PulumiAwsNetwork, Each, SubnetPart, ListPart
<1>2. Part(a, {}, {"vpc"}, {<<"vpc">>}) /\ Plain(a)
  BY PlainOne
<1>3. Part(b, V, {"igw"}, {<<"igw">>}) /\ Plain(b)
  BY PlainOne
<1>4. Part(c, V, {"subnet"}, SubnetIds) /\ Plain(c)
  BY NetworkParts
<1>5. Part(d, V, {"sg"}, TierIds("sg")) /\ Plain(d)
  BY NetworkParts
<1>6. /\ Covered(V, {}, {<<"vpc">>}) /\ Covered(V, {}, {<<"vpc">>} \cup {<<"igw">>})
      /\ Covered(V, {}, ({<<"vpc">>} \cup {<<"igw">>}) \cup SubnetIds)
  BY DEF Covered
<1>7. /\ Apart({"vpc"}, {"igw"}) /\ Apart({"vpc"} \cup {"igw"}, {"subnet"})
      /\ Apart(({"vpc"} \cup {"igw"}) \cup {"subnet"}, {"sg"})
  BY DEF Apart
<1> HIDE DEF V, a, b, c, d
<1>8. Part(a \o b, {}, {"vpc"} \cup {"igw"},
           {<<"vpc">>} \cup {<<"igw">>})
  BY <1>2, <1>3, <1>6, <1>7, JoinParts
<1>9. Part((a \o b) \o c, {}, ({"vpc"} \cup {"igw"}) \cup {"subnet"},
           ({<<"vpc">>} \cup {<<"igw">>}) \cup SubnetIds)
  BY <1>8, <1>4, <1>6, <1>7, JoinParts
<1>10. Part(((a \o b) \o c) \o d, {}, (({"vpc"} \cup {"igw"}) \cup {"subnet"}) \cup {"sg"},
           (({<<"vpc">>} \cup {<<"igw">>}) \cup SubnetIds) \cup TierIds("sg"))
  BY <1>9, <1>5, <1>6, <1>7, JoinParts
<1>11. Plain(((a \o b) \o c) \o d)
  BY <1>2, <1>3, <1>4, <1>5, JoinPlain
<1>12. (({"vpc"} \cup {"igw"}) \cup {"subnet"}) \cup {"sg"} = {"vpc", "igw", "subnet", "sg"}
  OBVIOUS
<1> QED
  BY <1>1, <1>10, <1>11, <1>12

LEMMA PulumiAzureNetworkIs ==
  ASSUME compute \in Plans
  PROVE  /\ Part(PulumiAzureNetwork, {}, {"rg", "vnet", "subnet", "nsg"},
                 (({<<"rg">>} \cup {<<"vnet">>}) \cup SubnetIds) \cup TierIds("nsg"))
         /\ Plain(PulumiAzureNetwork)
<1> DEFINE V == {<<"rg">>}
           W == {<<"rg">>, <<"vnet">>}
           a == <<R(<<"rg">>, {})>>
           b == <<R(<<"vnet">>, V)>>
           c == SubnetPart(Subnets, "subnet", W)
           d == ListPart(SecurityGroups, "nsg", V)
<1>1. PulumiAzureNetwork = ((a \o b) \o c) \o d
  BY Literals DEF PulumiAzureNetwork, Each, SubnetPart, ListPart
<1>2. Part(a, {}, {"rg"}, {<<"rg">>}) /\ Plain(a)
  BY PlainOne
<1>3. Part(b, V, {"vnet"}, {<<"vnet">>}) /\ Plain(b)
  BY PlainOne
<1>4. Part(c, W, {"subnet"}, SubnetIds) /\ Plain(c)
  BY NetworkParts
<1>5. Part(d, V, {"nsg"}, TierIds("nsg")) /\ Plain(d)
  BY NetworkParts
<1>6. /\ Covered(V, {}, {<<"rg">>}) /\ Covered(W, {}, {<<"rg">>} \cup {<<"vnet">>})
      /\ Covered(V, {}, ({<<"rg">>} \cup {<<"vnet">>}) \cup SubnetIds)
  BY DEF Covered
<1>7. /\ Apart({"rg"}, {"vnet"}) /\ Apart({"rg"} \cup {"vnet"}, {"subnet"})
      /\ Apart(({"rg"} \cup {"vnet"}) \cup {"subnet"}, {"nsg"})
  BY DEF Apart
<1> HIDE DEF V, W, a, b, c, d
<1>8. Part(a \o b, {}, {"rg"} \cup {"vnet"},
           {<<"rg">>} \cup {<<"vnet">>})
  BY <1>2, <1>3, <1>6, <1>7, JoinParts
<1>9. Part((a \o b) \o c, {}, ({"rg"} \cup {"vnet"}) \cup {"subnet"},
           ({<<"rg">>} \cup {<<"vnet">>}) \cup SubnetIds)
  BY <1>8, <1>4, <1>6, <1>7, JoinParts
<1>10. Part(((a \o b) \o c) \o d, {}, (({"rg"} \cup {"vnet"}) \cup {"subnet"}) \cup {"nsg"},
           (({<<"rg">>} \cup {<<"vnet">>}) \cup SubnetIds) \cup TierIds("nsg"))
  BY <1>9, <1>5, <1>6, <1>7, JoinParts
<1>11. Plain(((a \o b) \o c) \o d)
  BY <1>2, <1>3, <1>4, <1>5, JoinPlain
<1>12. (({"rg"} \cup {"vnet"}) \cup {"subnet"}) \cup {"nsg"} = {"rg", "vnet", "subnet", "nsg"}
  OBVIOUS
<1> QED
  BY <1>1, <1>10, <1>11, <1>12

LEMMA PulumiGcpNetworkIs ==
  ASSUME compute \in Plans
  PROVE  /\ Part(PulumiGcpNetwork, {}, {"network", "subnet", "fw"},
                 ({<<"network">>} \cup SubnetIds) \cup TierIds("fw"))
         /\ Plain(PulumiGcpNetwork)
<1> DEFINE V == {<<"network">>}
           a == <<R(<<"network">>, {})>>
           c == SubnetPart(Subnets, "subnet", V)
           d == ListPart(SecurityGroups, "fw", V)
<1>1. PulumiGcpNetwork = (a \o c) \o d
  BY DEF PulumiGcpNetwork, Each, SubnetPart, ListPart
<1>2. Part(a, {}, {"network"}, {<<"network">>}) /\ Plain(a)
  BY PlainOne
<1>3. Part(c, V, {"subnet"}, SubnetIds) /\ Plain(c)
  BY NetworkParts
<1>4. Part(d, V, {"fw"}, TierIds("fw")) /\ Plain(d)
  BY NetworkParts
<1>5. Covered(V, {}, {<<"network">>}) /\ Covered(V, {}, {<<"network">>} \cup SubnetIds)
  BY DEF Covered
<1>6. Apart({"network"}, {"subnet"}) /\ Apart({"network"} \cup {"subnet"}, {"fw"})
  BY DEF Apart
<1> HIDE DEF V, a, c, d
<1>7. Part(a \o c, {}, {"network"} \cup {"subnet"},
           {<<"network">>} \cup SubnetIds)
  BY <1>2, <1>3, <1>5, <1>6, JoinParts
<1>8. Part((a \o c) \o d, {}, ({"network"} \cup {"subnet"}) \cup {"fw"},
           ({<<"network">>} \cup SubnetIds) \cup TierIds("fw"))
  BY <1>7, <1>4, <1>5, <1>6, JoinParts
<1>9. Plain((a \o c) \o d)
  BY <1>2, <1>3, <1>4, JoinPlain
<1>10. ({"network"} \cup {"subnet"}) \cup {"fw"} = {"network", "subnet", "fw"}
  OBVIOUS
<1> QED
  BY <1>1, <1>8, <1>9, <1>10

LEMMA BicepNetworkIs ==
  ASSUME compute \in Plans
  PROVE  /\ Part(BicepNetwork, {}, {"vnet", "subnet", "nsg"},
                 ({<<"vnet">>} \cup SubnetIds) \cup TierIds("nsg"))
         /\ Plain(BicepNetwork)
<1> DEFINE V == {<<"vnet">>}
           a == <<R(<<"vnet">>, {})>>
           c == SubnetPart(Subnets, "subnet", V)
           d == ListPart(SecurityGroups, "nsg", {})
<1>1. BicepNetwork = (a \o c) \o d
  BY DEF BicepNetwork, Each, SubnetPart, ListPart
<1>2. Part(a, {}, {"vnet"}, {<<"vnet">>}) /\ Plain(a)
  BY PlainOne
<1>3. Part(c, V, {"subnet"}, SubnetIds) /\ Plain(c)
  BY NetworkParts
<1>4. Part(d, {}, {"nsg"}, TierIds("nsg")) /\ Plain(d)
  BY NetworkParts
<1>5. Covered(V, {}, {<<"vnet">>}) /\ Covered({}, {}, {<<"vnet">>} \cup SubnetIds)
  BY DEF Covered
<1>6. Apart({"vnet"}, {"subnet"}) /\ Apart({"vnet"} \cup {"subnet"}, {"nsg"})
  BY DEF Apart
<1> HIDE DEF V, a, c, d
<1>7. Part(a \o c, {}, {"vnet"} \cup {"subnet"},
           {<<"vnet">>} \cup SubnetIds)
  BY <1>2, <1>3, <1>5, <1>6, JoinParts
<1>8. Part((a \o c) \o d, {}, ({"vnet"} \cup {"subnet"}) \cup {"nsg"},
           ({<<"vnet">>} \cup SubnetIds) \cup TierIds("nsg"))
  BY <1>7, <1>4, <1>5, <1>6, JoinParts
<1>9. Plain((a \o c) \o d)
  BY <1>2, <1>3, <1>4, JoinPlain
<1>10. ({"vnet"} \cup {"subnet"}) \cup {"nsg"} = {"vnet", "subnet", "nsg"}
  OBVIOUS
<1> QED
  BY <1>1, <1>8, <1>9, <1>10

LEMMA KubernetesPoliciesIs ==
  ASSUME compute \in Plans
  PROVE  /\ Part(KubernetesPolicies, {}, {"namespace", "policy"},
                 {<<"namespace">>} \cup TierIds("policy"))
         /\ Plain(KubernetesPolicies)
<1> DEFINE V == {<<"namespace">>}
           a == <<R(<<"namespace">>, {})>>
           d == ListPart(SecurityGroups, "policy", V)
<1>1. KubernetesPolicies = a \o d
  BY DEF KubernetesPolicies, Each, SubnetPart, ListPart
<1>2. Part(a, {}, {"namespace"}, {<<"namespace">>}) /\ Plain(a)
  BY PlainOne
<1>3. Part(d, V, {"policy"}, TierIds("policy")) /\ Plain(d)
  BY NetworkParts
<1>4. Covered(V, {}, {<<"namespace">>})
  BY DEF Covered
<1>5. Apart({"namespace"}, {"policy"})
  BY DEF Apart
<1> HIDE DEF V, a, d
<1>6. Part(a \o d, {}, {"namespace"} \cup {"policy"},
           {<<"namespace">>} \cup TierIds("policy"))
  BY <1>2, <1>3, <1>4, <1>5, JoinParts
<1>7. Plain(a \o d)
  BY <1>2, <1>3, JoinPlain
<1>8. {"namespace"} \cup {"policy"} = {"namespace", "policy"}
  OBVIOUS
<1> QED
  BY <1>1, <1>6, <1>7, <1>8


-----------------------------------------------------------------------------
(* Lists of machines.                                                         *)

MachineList(c, id, to, at, n, pub) ==
  FlattenSeq([i \in DOMAIN c |-> <<VM(id[c[i]], to[c[i]], c[i], at[c[i]], n[c[i]], pub[c[i]])>>])

LEMMA MachineListYields ==
  ASSUME compute \in Plans, NEW c, Listing(c), NEW id, NEW to, NEW at, NEW n, NEW pub,
         \A m \in Range(compute) : at[m] # None /\ pub[m] \in BOOLEAN
  PROVE  Yields(MachineList(c, id, to, at, n, pub), MachineRecords(id, at), Disks(n), Exposed(pub))
<1> DEFINE ss == [i \in DOMAIN c |-> <<VM(id[c[i]], to[c[i]], c[i], at[c[i]], n[c[i]], pub[c[i]])>>]
<1>1. \A i \in DOMAIN c : c[i] \in Range(compute)
  BY RangeIs DEF Listing
<1>2. \A i \in DOMAIN c : Adds(ss[i], c[i], id, at, n, pub)
  <2> SUFFICES ASSUME NEW i \in DOMAIN c PROVE Adds(ss[i], c[i], id, at, n, pub)
    OBVIOUS
  <2> DEFINE m == c[i]
             a == id[m]
             b == to[m]
             d == at[m]
             e == n[m]
             f == pub[m]
  <2>1. ss[i] = <<VM(a, b, m, d, e, f)>> /\ d # None /\ f \in BOOLEAN
    BY <1>1
  <2> HIDE DEF a, b, d, e, f, m
  <2>2. Yields(<<VM(a, b, m, d, e, f)>>, {[id |-> a, vm |-> m.vm, subnet |-> d]}, {m.vm} \X e,
               IF f THEN {m.vm} ELSE {})
    BY <2>1, OneMachine
  <2> QED
    BY <2>1, <2>2 DEF Adds, a, b, d, e, f, m
<1>3. ss = [i \in DOMAIN c |-> ss[i]]
  OBVIOUS
<1>4. MachineList(c, id, to, at, n, pub) = FlattenSeq(ss)
  BY DEF MachineList
<1> HIDE DEF ss
<1> QED
  BY <1>2, <1>3, <1>4, MachineYields

LEMMA MachineListLoose ==
  ASSUME compute \in Plans, NEW c, Listing(c), NEW id, NEW to, NEW at, NEW n, NEW pub, NEW D,
         \A m \in Range(compute) : to[m] \subseteq D
  PROVE  Loose(MachineList(c, id, to, at, n, pub), D, {id[m] : m \in Range(compute)})
<1> DEFINE f == [i \in DOMAIN c |-> VM(id[c[i]], to[c[i]], c[i], at[c[i]], n[c[i]], pub[c[i]])]
           u == Row(c, f)
<1>1. MachineList(c, id, to, at, n, pub) = u
  BY DEF MachineList, Row
<1>2. DOMAIN f = DOMAIN c /\ \A i \in DOMAIN c : f[i].id = id[c[i]] /\ f[i].refs = to[c[i]]
  BY DEF VM
<1> HIDE DEF f
<1>3. Sequence(c) /\ Range(c) = Range(compute) /\ \A i \in DOMAIN c : c[i] \in Range(compute)
  BY RangeIs DEF Listing
<1>4. \A i \in DOMAIN c : f[i].refs \subseteq D
  BY <1>2, <1>3
<1>5. Binds(u, D) /\ IdSet(u) = {f[i].id : i \in DOMAIN c}
  BY <1>2, <1>3, <1>4, RowIs
<1> HIDE DEF u
<1>6. \A m \in Range(compute) : \E i \in DOMAIN c : id[m] = f[i].id
  BY <1>2, <1>3, RangeIs
<1>7. IdSet(u) = {id[m] : m \in Range(compute)}
  BY <1>2, <1>3, <1>5, <1>6
<1> QED
  BY <1>1, <1>5, <1>7 DEF Loose

LEMMA MachineListPart ==
  ASSUME compute \in Plans, NEW c, Listing(c), NEW id, NEW to, NEW at, NEW n, NEW pub, NEW D, NEW kind,
         \A m \in Range(compute) : to[m] \subseteq D /\ id[m] = <<kind, LabelOf[m.vm]>>
  PROVE  Part(MachineList(c, id, to, at, n, pub), D, {kind}, LabelIds(kind))
<1> DEFINE f == [i \in DOMAIN c |-> VM(id[c[i]], to[c[i]], c[i], at[c[i]], n[c[i]], pub[c[i]])]
           u == Row(c, f)
           K == {kind}
<1>1. MachineList(c, id, to, at, n, pub) = u
  BY DEF MachineList, Row
<1>2. DOMAIN f = DOMAIN c /\ \A i \in DOMAIN c : f[i].id = id[c[i]]
  BY DEF VM
<1> HIDE DEF f
<1>3. Sequence(c) /\ Once(c) /\ \A i \in DOMAIN c : c[i] \in Range(compute)
  BY RangeIs DEF Listing
<1>4. Loose(u, D, {id[m] : m \in Range(compute)})
  BY <1>1, MachineListLoose
<1>5. \A i, j \in DOMAIN c : f[i].id = f[j].id => i = j
  <2> SUFFICES ASSUME NEW i \in DOMAIN c, NEW j \in DOMAIN c, f[i].id = f[j].id PROVE i = j
    OBVIOUS
  <2>1. <<kind, LabelOf[c[i].vm]>> = <<kind, LabelOf[c[j].vm]>>
    BY <1>2, <1>3
  <2>2. c[i] = c[j]
    BY <1>3, <2>1, EstateIs
  <2> QED
    BY <1>3, <2>2 DEF Once
<1>6. \A i \in DOMAIN c : f[i].id[1] \in K
  <2>1. \A i \in DOMAIN c : f[i].id = <<kind, LabelOf[c[i].vm]>>
    BY <1>2, <1>3
  <2> QED
    BY <2>1
<1> HIDE DEF K
<1>7. Fresh(u, K)
  BY <1>2, <1>3, <1>5, <1>6, RowIs
<1> HIDE DEF u
<1>8. {id[m] : m \in Range(compute)} = LabelIds(kind)
  BY DEF LabelIds
<1> QED
  BY <1>1, <1>4, <1>7, <1>8 DEF Loose, Part, K

LEMMA ComputeIsListing ==
  ASSUME compute \in Plans
  PROVE  Listing(compute) /\ \A i \in DOMAIN compute : compute[i] \in Range(compute)
  BY EstateIs, RangeIs DEF Listing

\* What the machines of a target are called, where they are put, and which are shown.
InstId == [m \in Range(compute) |-> <<"inst", LabelOf[m.vm]>>]
Place == [m \in Range(compute) |-> subnet_of(m.vm)]
NoDisks == [m \in Range(compute) |-> {}]
AllDisks == [m \in Range(compute) |-> 1..m.disks]
IsPublic == [m \in Range(compute) |-> Public(m)]
IsOwn == [m \in Range(compute) |-> OwnAddress(m)]
AwsRefs(extra) ==
  [m \in Range(compute) |-> {<<"ami", m.image>>, <<"subnet", subnet_of(m.vm)>>, <<"sg", m.tier>>} \cup extra[m]]

LEMMA PlacesAre ==
  ASSUME compute \in Plans, NEW m \in Range(compute)
  PROVE  /\ <<"subnet", subnet_of(m.vm)>> \in SubnetIds
         /\ \A kind : <<kind, m.tier>> \in TierIds(kind) /\ <<kind, m.image>> \in Ids(kind, ImageKeys)
         /\ \A kind : <<kind, LabelOf[m.vm]>> \in LabelIds(kind)
         /\ Place[m] # None
  BY PlaceIs, IdsAre DEF SubnetIds, TierIds, Tiers, ImageKeys, LabelIds, Place

AwsNeeds == SubnetIds \cup TierIds("sg")

LEMMA AwsMachinesAre ==
  ASSUME compute \in Plans, NEW c, Listing(c), NEW extra, NEW E, \A m \in Range(compute) : extra[m] \subseteq E
  PROVE  LET u == MachineList(c, InstId, AwsRefs(extra), Place, NoDisks, IsPublic)
         IN  /\ Part(u, (AwsNeeds \cup Ids("ami", ImageKeys)) \cup E, {"inst"}, LabelIds("inst"))
             /\ Yields(u, MachineRecords(InstId, Place), Disks(NoDisks), Exposed(IsPublic))
<1> DEFINE D == (AwsNeeds \cup Ids("ami", ImageKeys)) \cup E
           to == AwsRefs(extra)
<1>1. \A m \in Range(compute) : to[m] \subseteq D
  BY PlacesAre, ZenonT(60) DEF AwsRefs, AwsNeeds
<1>2. \A m \in Range(compute) : InstId[m] = <<"inst", LabelOf[m.vm]>>
  BY DEF InstId
<1>3. \A m \in Range(compute) : Place[m] # None /\ IsPublic[m] \in BOOLEAN
  BY PlacesAre DEF IsPublic, Public
<1> HIDE DEF D, to
<1>4. Part(MachineList(c, InstId, to, Place, NoDisks, IsPublic), D, {"inst"}, LabelIds("inst"))
  BY <1>1, <1>2, MachineListPart
<1>5. Yields(MachineList(c, InstId, to, Place, NoDisks, IsPublic), MachineRecords(InstId, Place), Disks(NoDisks),
             Exposed(IsPublic))
  BY <1>3, MachineListYields
<1> QED
  BY <1>4, <1>5 DEF D, to

-----------------------------------------------------------------------------
(* AWS.                                                                       *)

NoRoles == [m \in Range(compute) |-> {}]

LEMMA PulumiAwsInstancesAre ==
  ASSUME compute \in Plans
  PROVE  /\ Part(PulumiAwsInstances, AwsNeeds, {"ami", "inst"}, Ids("ami", ImageKeys) \cup LabelIds("inst"))
         /\ Yields(PulumiAwsInstances, MachineRecords(InstId, Place), Disks(NoDisks), Exposed(IsPublic))
<1> DEFINE a == ListPart(Images, "ami", {})
           to == AwsRefs(NoRoles)
           b == MachineList(compute, InstId, to, Place, NoDisks, IsPublic)
           c == compute
           D == (AwsNeeds \cup Ids("ami", ImageKeys)) \cup {}
<1>1. PulumiAwsInstances = a \o b
  <2>1. \A i \in DOMAIN c :
           /\ InstId[c[i]] = <<"inst", LabelOf[c[i].vm]>> /\ Place[c[i]] = subnet_of(c[i].vm)
           /\ NoDisks[c[i]] = {} /\ IsPublic[c[i]] = Public(c[i])
           /\ to[c[i]] = {<<"ami", c[i].image>>, <<"subnet", subnet_of(c[i].vm)>>, <<"sg", c[i].tier>>}
    BY ComputeIsListing DEF InstId, Place, NoDisks, IsPublic, AwsRefs, NoRoles
  <2> HIDE DEF to
  <2>2. b = FlattenSeq([i \in DOMAIN c |->
              <<VM(<<"inst", LabelOf[c[i].vm]>>,
                   {<<"ami", c[i].image>>, <<"subnet", subnet_of(c[i].vm)>>, <<"sg", c[i].tier>>},
                   c[i], subnet_of(c[i].vm), {}, Public(c[i]))>>])
    BY <2>1 DEF MachineList
  <2>3. a = FlattenSeq([i \in DOMAIN Images |-> <<R(<<"ami", Images[i]>>, {})>>])
    BY DEF ListPart
  <2> HIDE DEF a, b
  <2> QED
    BY <2>2, <2>3 DEF PulumiAwsInstances, Each, Images
<1>2. Part(a, {}, {"ami"}, Ids("ami", ImageKeys)) /\ Plain(a)
  BY NetworkParts
<1>3. /\ Part(b, D, {"inst"}, LabelIds("inst"))
      /\ Yields(b, MachineRecords(InstId, Place), Disks(NoDisks), Exposed(IsPublic))
  <2>1. \A m \in Range(compute) : NoRoles[m] \subseteq {}
    BY DEF NoRoles
  <2> QED
    BY <2>1, ComputeIsListing, AwsMachinesAre
<1>4. Part(a, AwsNeeds, {"ami"}, Ids("ami", ImageKeys))
  BY <1>2, MoreNeeded
<1>5. Covered(D, AwsNeeds, Ids("ami", ImageKeys)) /\ Apart({"ami"}, {"inst"})
  BY DEF Covered, Apart
<1> HIDE DEF a, b, D, to
<1>6. Part(a \o b, AwsNeeds, {"ami"} \cup {"inst"}, Ids("ami", ImageKeys) \cup LabelIds("inst"))
  BY <1>3, <1>4, <1>5, JoinParts
<1>7. Yields(a \o b, MachineRecords(InstId, Place), Disks(NoDisks), Exposed(IsPublic))
  BY <1>2, <1>3, PlainAround
<1>8. {"ami"} \cup {"inst"} = {"ami", "inst"}
  OBVIOUS
<1> QED
  BY <1>1, <1>6, <1>7, <1>8

Attachments(lb, p) ==
  FlattenSeq([k \in DOMAIN lb.targets |->
      <<R(<<"attachment", lb.name, p, LabelOf[lb.targets[k]]>>,
          {<<"tg", lb.name, p>>, <<"inst", LabelOf[lb.targets[k]]>>})>>])

LEMMA AttachmentsAre ==
  ASSUME compute \in Plans, NEW lb, Sound(lb), NEW p
  PROVE  LET u == Attachments(lb, p) IN
         /\ Part(u, LabelIds("inst") \cup {<<"tg", lb.name, p>>}, {"attachment"}, IdSet(u)) /\ Plain(u)
         /\ \A x \in IdSet(u) : x[2] = lb.name /\ x[3] = p
<1> DEFINE s == lb.targets
           f == [k \in DOMAIN s |-> R(<<"attachment", lb.name, p, LabelOf[s[k]]>>,
                                      {<<"tg", lb.name, p>>, <<"inst", LabelOf[s[k]]>>})]
           u == Row(s, f)
           D == LabelIds("inst") \cup {<<"tg", lb.name, p>>}
           K == {"attachment"}
<1>1. Attachments(lb, p) = u
  BY DEF Attachments, Row
<1>2. Sequence(s) /\ Once(s) /\ \A vm \in Range(s) : \E m \in Range(compute) : m.vm = vm
  BY DEF Sound
<1> HIDE DEF s
<1>3. DOMAIN f = DOMAIN s /\ \A k \in DOMAIN s :
         /\ f[k].id = <<"attachment", lb.name, p, LabelOf[s[k]]>>
         /\ f[k].refs = {<<"tg", lb.name, p>>, <<"inst", LabelOf[s[k]]>>}
         /\ f[k].subnet = None /\ f[k].disks = {} /\ ~f[k].public
  BY RIs
<1> HIDE DEF f
<1>4. \A k \in DOMAIN s : \E m \in Range(compute) : m.vm = s[k]
  BY <1>2, RangeIs
<1>5. \A k \in DOMAIN s : f[k].refs \subseteq D
  <2> SUFFICES ASSUME NEW k \in DOMAIN s PROVE f[k].refs \subseteq D
    OBVIOUS
  <2>1. PICK m \in Range(compute) : m.vm = s[k]
    BY <1>4
  <2>2. <<"inst", LabelOf[s[k]]>> \in LabelIds("inst")
    BY <2>1, PlacesAre
  <2> QED
    BY <1>3, <2>2
<1>6. \A k \in DOMAIN s : f[k].id[1] \in K /\ f[k].id[2] = lb.name /\ f[k].id[3] = p
  BY <1>3
<1>7. \A k, l \in DOMAIN s : f[k].id = f[l].id => k = l
  <2> SUFFICES ASSUME NEW k \in DOMAIN s, NEW l \in DOMAIN s, f[k].id = f[l].id PROVE k = l
    OBVIOUS
  <2>1. LabelOf[s[k]] = LabelOf[s[l]]
    BY <1>3
  <2>2. s[k] = s[l]
    BY <1>4, <2>1, EstateIs
  <2> QED
    BY <1>2, <2>2 DEF Once
<1> HIDE DEF D, K
<1>8. Binds(u, D) /\ Fresh(u, K) /\ IdSet(u) = {f[k].id : k \in DOMAIN s} /\ Plain(u)
  BY <1>2, <1>3, <1>5, <1>6, <1>7, RowIs
<1>9. \A x \in IdSet(u) : x[2] = lb.name /\ x[3] = p
  BY <1>6, <1>8
<1> QED
  BY <1>1, <1>8, <1>9 DEF Part, D, K

AwsPort(lb, p) ==
  (<<R(<<"tg", lb.name, p>>, {<<"vpc">>})>> \o Attachments(lb, p))
  \o <<R(<<"listener", lb.name, p>>, {<<"lb", lb.name>>, <<"tg", lb.name, p>>})>>

LEMMA AwsPortIs ==
  ASSUME compute \in Plans, NEW lb, Sound(lb), NEW p
  PROVE  LET u == AwsPort(lb, p) IN
         /\ Part(u, {<<"vpc">>, <<"lb", lb.name>>} \cup LabelIds("inst"), {"tg", "attachment", "listener"}, IdSet(u))
         /\ Plain(u)
         /\ \A x \in IdSet(u) : x[2] = lb.name /\ x[3] = p
<1> DEFINE i == <<"tg", lb.name, p>>
           j == <<"listener", lb.name, p>>
           V == {<<"vpc">>}
           T == {<<"lb", lb.name>>, i}
           a == <<R(i, V)>>
           b == Attachments(lb, p)
           c == <<R(j, T)>>
           D == {<<"vpc">>, <<"lb", lb.name>>} \cup LabelIds("inst")
           B == LabelIds("inst") \cup {i}
           u == (a \o b) \o c
<1>1. AwsPort(lb, p) = u
  BY DEF AwsPort
<1>2. Part(a, D, {"tg"}, {i}) /\ Plain(a)
  <2>1. V \subseteq D /\ i[1] = "tg"
    OBVIOUS
  <2> HIDE DEF i, V, D
  <2> QED
    BY <2>1, PlainOne
<1>3. Part(b, B, {"attachment"}, IdSet(b)) /\ Plain(b) /\ \A x \in IdSet(b) : x[2] = lb.name /\ x[3] = p
  BY AttachmentsAre
<1>4. Part(c, T, {"listener"}, {j}) /\ Plain(c)
  <2>1. T \subseteq T /\ j[1] = "listener"
    OBVIOUS
  <2> HIDE DEF j, T
  <2> QED
    BY <2>1, PlainOne
<1>5. Covered(B, D, {i}) /\ Covered(T, D, {i} \cup IdSet(b))
  BY DEF Covered
<1>6. Apart({"tg"}, {"attachment"}) /\ Apart({"tg"} \cup {"attachment"}, {"listener"})
  BY DEF Apart
<1>7. i[2] = lb.name /\ i[3] = p /\ j[2] = lb.name /\ j[3] = p
  OBVIOUS
<1> HIDE DEF i, j, V, T, a, b, c, D, B
<1>8. Part(a \o b, D, {"tg"} \cup {"attachment"}, {i} \cup IdSet(b))
  BY <1>2, <1>3, <1>5, <1>6, JoinParts
<1>9. Part(u, D, ({"tg"} \cup {"attachment"}) \cup {"listener"}, ({i} \cup IdSet(b)) \cup {j})
  BY <1>4, <1>5, <1>6, <1>8, JoinParts
<1>10. Plain(u)
  BY <1>2, <1>3, <1>4, JoinPlain
<1>11. ({"tg"} \cup {"attachment"}) \cup {"listener"} = {"tg", "attachment", "listener"}
  OBVIOUS
<1>12. IdSet(u) = ({i} \cup IdSet(b)) \cup {j}
  BY <1>9, PartIs
<1>13. \A x \in IdSet(u) : x[2] = lb.name /\ x[3] = p
  BY <1>3, <1>7, <1>12
<1> QED
  BY <1>1, <1>9, <1>10, <1>11, <1>12, <1>13 DEF D

AwsBalancer(lb) ==
  <<R(<<"lb", lb.name>>, {<<"sg", lb.group>>} \cup Ids("subnet", NamesOf(SubnetsOf(lb.tier))))>>
  \o FlattenSeq([k \in DOMAIN lb.ports |-> AwsPort(lb, lb.ports[k])])

AwsFronts == ({<<"vpc">>} \cup AwsNeeds) \cup LabelIds("inst")

\* The subnets and the group that a balancer names.
LEMMA BalancerNeeds ==
  ASSUME compute \in Plans, NEW lb, Sound(lb)
  PROVE  /\ \A kind : <<kind, lb.group>> \in TierIds(kind)
         /\ Ids("subnet", NamesOf(SubnetsOf(lb.tier))) \subseteq SubnetIds
         /\ <<"subnet", SubnetsOf(lb.tier)[1].name>> \in SubnetIds
<1>1. lb.group \in Tiers /\ lb.tier \in {"public", "private"}
  BY DEF Sound
<1>2. Range(SubnetsOf(lb.tier)) \subseteq Range(Subnets) /\ SubnetsOf(lb.tier)[1] \in Range(SubnetsOf(lb.tier))
  BY <1>1, SubnetsOfIs
<1>3. NamesOf(SubnetsOf(lb.tier)) \subseteq NamesOf(Subnets) /\ SubnetsOf(lb.tier)[1].name \in NamesOf(Subnets)
  BY <1>2 DEF NamesOf
<1> QED
  BY <1>1, <1>3 DEF Ids, TierIds, SubnetIds

LEMMA AwsBalancerIs ==
  ASSUME compute \in Plans, NEW lb, Sound(lb)
  PROVE  LET u == AwsBalancer(lb) IN
         /\ Part(u, AwsFronts, {"lb", "tg", "attachment", "listener"}, IdSet(u)) /\ Plain(u)
         /\ \A x \in IdSet(u) : x[2] = lb.name
<1> DEFINE i == <<"lb", lb.name>>
           T == {<<"sg", lb.group>>} \cup Ids("subnet", NamesOf(SubnetsOf(lb.tier)))
           a == <<R(i, T)>>
           p == lb.ports
           ss == [k \in DOMAIN p |-> AwsPort(lb, p[k])]
           b == FlattenSeq(ss)
           E == {<<"vpc">>, i} \cup LabelIds("inst")
           K == {"tg", "attachment", "listener"}
           u == a \o b
<1>1. AwsBalancer(lb) = u
  BY DEF AwsBalancer
<1>2. Part(a, AwsFronts, {"lb"}, {i}) /\ Plain(a)
  <2>1. T \subseteq AwsFronts /\ i[1] = "lb"
    BY BalancerNeeds, ZenonT(60) DEF AwsFronts, AwsNeeds
  <2> HIDE DEF i, T
  <2> QED
    BY <2>1, PlainOne
<1>3. Sequence(p) /\ Once(p)
  BY DEF Sound
<1>4. \A k \in DOMAIN p : /\ Part(ss[k], E, K, IdSet(ss[k])) /\ Plain(ss[k])
                          /\ \A x \in IdSet(ss[k]) : x[2] = lb.name /\ x[3] = p[k]
  BY AwsPortIs
<1>5. ss = [k \in DOMAIN p |-> ss[k]]
  OBVIOUS
<1>6. Covered(E, AwsFronts, {i}) /\ Apart({"lb"}, K)
  BY DEF Covered, Apart, AwsFronts
<1>7. {"lb"} \cup K = {"lb", "tg", "attachment", "listener"} /\ i[2] = lb.name
  OBVIOUS
<1> HIDE DEF i, T, a, p, ss, E, K
<1>8. Part(b, E, K, UNION {IdSet(ss[k]) : k \in DOMAIN p})
  BY <1>3, <1>4, <1>5, PortParts
<1>9. Plain(b)
  BY <1>3, <1>4, <1>5, PlainParts
<1>10. \A x \in UNION {IdSet(ss[k]) : k \in DOMAIN p} : x[2] = lb.name
  BY <1>4
<1> DEFINE J == UNION {IdSet(ss[k]) : k \in DOMAIN p}
<1> HIDE DEF J, b
<1>11. Part(u, AwsFronts, {"lb"} \cup K, {i} \cup J)
  BY <1>2, <1>6, <1>8, JoinParts DEF J
<1>12. Plain(u)
  BY <1>2, <1>9, JoinPlain
<1>13. IdSet(u) = {i} \cup J
  BY <1>11, PartIs
<1>14. \A x \in IdSet(u) : x[2] = lb.name
  BY <1>7, <1>10, <1>13 DEF J
<1> QED
  BY <1>1, <1>7, <1>11, <1>12, <1>13, <1>14

LEMMA PulumiAwsBalancersAre ==
  ASSUME compute \in Plans
  PROVE  /\ Part(PulumiAwsBalancers, AwsFronts, {"lb", "tg", "attachment", "listener"}, IdSet(PulumiAwsBalancers))
         /\ Plain(PulumiAwsBalancers)
<1> DEFINE ss == [i \in DOMAIN LoadBalancers |-> AwsBalancer(LoadBalancers[i])]
           K == {"lb", "tg", "attachment", "listener"}
<1>1. PulumiAwsBalancers = FlattenSeq(ss)
  BY DEF PulumiAwsBalancers, AwsBalancer, AwsPort, Attachments, Each, Listeners
<1>2. \A i \in DOMAIN LoadBalancers :
         /\ Part(ss[i], AwsFronts, K, IdSet(ss[i])) /\ Plain(ss[i])
         /\ \A x \in IdSet(ss[i]) : x[2] = LoadBalancers[i].name
  <2>1. \A i \in DOMAIN LoadBalancers : Sound(LoadBalancers[i])
    BY BalancersAre, RangeIs
  <2> QED
    BY <2>1, AwsBalancerIs
<1>3. ss = [i \in DOMAIN LoadBalancers |-> ss[i]]
  OBVIOUS
<1> HIDE DEF ss, K
<1>4. Part(FlattenSeq(ss), AwsFronts, K, UNION {IdSet(ss[i]) : i \in DOMAIN LoadBalancers})
  BY <1>2, <1>3, BalancerParts
<1>5. Plain(FlattenSeq(ss))
  BY <1>2, <1>3, BalancersAre, PlainParts
<1>6. IdSet(FlattenSeq(ss)) = UNION {IdSet(ss[i]) : i \in DOMAIN LoadBalancers}
  BY <1>4, PartIs
<1> QED
  BY <1>1, <1>4, <1>5, <1>6 DEF K

LEMMA PulumiAwsIs ==
  ASSUME compute \in Plans
  PROVE  /\ Part(PulumiAws, {}, {"vpc", "igw", "subnet", "sg"} \cup {"ami", "inst"}
                                \cup {"lb", "tg", "attachment", "listener"}, IdSet(PulumiAws))
         /\ Yields(PulumiAws, MachineRecords(InstId, Place), Disks(NoDisks), Exposed(IsPublic))
<1> DEFINE a == PulumiAwsNetwork
           b == PulumiAwsInstances
           c == PulumiAwsBalancers
           K == {"vpc", "igw", "subnet", "sg"}
           L == {"ami", "inst"}
           M == {"lb", "tg", "attachment", "listener"}
           I == (({<<"vpc">>} \cup {<<"igw">>}) \cup SubnetIds) \cup TierIds("sg")
           J == Ids("ami", ImageKeys) \cup LabelIds("inst")
           u == (a \o b) \o c
           O == {}
<1>1. PulumiAws = u
  BY DEF PulumiAws
<1>2. Part(a, O, K, I) /\ Plain(a)
  BY PulumiAwsNetworkIs
<1>3. Part(b, AwsNeeds, L, J) /\ Yields(b, MachineRecords(InstId, Place), Disks(NoDisks), Exposed(IsPublic))
  BY PulumiAwsInstancesAre
<1>4. Part(c, AwsFronts, M, IdSet(c)) /\ Plain(c)
  BY PulumiAwsBalancersAre
<1>5. Covered(AwsNeeds, O, I) /\ Covered(AwsFronts, O, I \cup J) /\ Apart(K, L) /\ Apart(K \cup L, M)
  BY DEF Covered, Apart, AwsNeeds, AwsFronts
<1> HIDE DEF a, b, c, K, L, M, I, J, O
<1>6. Part(a \o b, O, K \cup L, I \cup J)
  BY <1>2, <1>3, <1>5, JoinParts
<1>7. Part(u, O, (K \cup L) \cup M, (I \cup J) \cup IdSet(c))
  BY <1>4, <1>5, <1>6, JoinParts
<1>8. Yields(u, MachineRecords(InstId, Place), Disks(NoDisks), Exposed(IsPublic))
  BY <1>2, <1>3, <1>4, PlainAround
<1>9. IdSet(u) = (I \cup J) \cup IdSet(c)
  BY <1>7, PartIs
<1> QED
  BY <1>1, <1>7, <1>8, <1>9 DEF K, L, M, O

-----------------------------------------------------------------------------
(* What a renderer writes for one balancer, and for all.                      *)

FrontPart(lb, u, D, K) == Part(u, D, K, IdSet(u)) /\ Plain(u) /\ \A x \in IdSet(u) : x[2] = lb.name

LEMMA WithPorts ==
  ASSUME NEW lb, Sound(lb), NEW a, NEW D, NEW K, FrontPart(lb, a, D, K), NEW ss,
         ss = [k \in DOMAIN lb.ports |-> ss[k]], NEW E, NEW L,
         \A k \in DOMAIN lb.ports : FrontPart(lb, ss[k], E, L) /\ \A x \in IdSet(ss[k]) : x[3] = lb.ports[k],
         Covered(E, D, IdSet(a)), Apart(K, L)
  PROVE  FrontPart(lb, a \o FlattenSeq(ss), D, K \cup L) /\ IdSet(a) \subseteq IdSet(a \o FlattenSeq(ss))
<1> DEFINE p == lb.ports
           b == FlattenSeq(ss)
           J == UNION {IdSet(ss[k]) : k \in DOMAIN p}
           u == a \o b
<1>1. Sequence(p) /\ Once(p)
  BY DEF Sound
<1>2. \A k \in DOMAIN p : /\ Part(ss[k], E, L, IdSet(ss[k])) /\ Plain(ss[k])
                          /\ \A x \in IdSet(ss[k]) : x[2] = lb.name /\ x[3] = p[k]
  BY DEF FrontPart
<1>3. ss = [k \in DOMAIN p |-> ss[k]]
  OBVIOUS
<1>4. Part(a, D, K, IdSet(a)) /\ Plain(a) /\ \A x \in IdSet(a) : x[2] = lb.name
  BY DEF FrontPart
<1> HIDE DEF p
<1>5. Part(b, E, L, J)
  <2>1. \A k \in DOMAIN p : Part(ss[k], E, L, IdSet(ss[k]))
    BY <1>2
  <2>2. \A k \in DOMAIN p : \A x \in IdSet(ss[k]) : x[3] = p[k]
    BY <1>2
  <2> QED
    BY <1>1, <1>3, <2>1, <2>2, PortParts
<1>6. Plain(b)
  BY <1>1, <1>2, <1>3, PlainParts
<1>7. \A x \in J : x[2] = lb.name
  BY <1>2
<1> HIDE DEF b, J
<1>8. Part(u, D, K \cup L, IdSet(a) \cup J)
  BY <1>4, <1>5, JoinParts
<1>9. Plain(u)
  BY <1>4, <1>6, JoinPlain
<1>10. IdSet(u) = IdSet(a) \cup J
  BY <1>8, PartIs
<1> HIDE DEF u
<1>11. FrontPart(lb, u, D, K \cup L)
  BY <1>4, <1>7, <1>8, <1>9, <1>10 DEF FrontPart
<1> QED
  BY <1>10, <1>11 DEF u, b

LEMMA AllFronts ==
  ASSUME compute \in Plans, NEW ss, ss = [i \in DOMAIN LoadBalancers |-> ss[i]], NEW D, NEW K,
         \A i \in DOMAIN LoadBalancers : FrontPart(LoadBalancers[i], ss[i], D, K)
  PROVE  LET u == FlattenSeq(ss) IN
         /\ Part(u, D, K, IdSet(u)) /\ Plain(u)
         /\ \A i \in DOMAIN LoadBalancers : IdSet(ss[i]) \subseteq IdSet(u)
         /\ \A x \in IdSet(u) : \E lb \in Range(LoadBalancers) : x[2] = lb.name
<1> DEFINE u == FlattenSeq(ss)
           c == LoadBalancers
           I == UNION {IdSet(ss[i]) : i \in DOMAIN c}
<1>1. \A i \in DOMAIN c : Part(ss[i], D, K, IdSet(ss[i])) /\ Plain(ss[i]) /\ \A x \in IdSet(ss[i]) : x[2] = c[i].name
  BY DEF FrontPart
<1>2. Sequence(c)
  BY BalancersAre
<1>3. Part(u, D, K, I)
  BY <1>1, BalancerParts
<1>4. Plain(u)
  BY <1>1, <1>2, PlainParts
<1>5. IdSet(u) = I
  BY <1>3, PartIs
<1> HIDE DEF u
<1>6. \A x \in I : \E lb \in Range(c) : x[2] = lb.name
  <2>1. \A i \in DOMAIN c : c[i] \in Range(c)
    BY RangeIs
  <2> HIDE DEF c
  <2> QED
    BY <1>1, <2>1
<1> QED
  BY <1>3, <1>4, <1>5, <1>6 DEF u

\* No machine is called like a balancer.
LEMMA LabelsApart ==
  ASSUME compute \in Plans, NEW lb \in Range(LoadBalancers), NEW m \in Range(compute)
  PROVE  lb.name # LabelOf[m.vm]
<1>1. PICK e, t : lb.name = <<e, t, "lb">>
  BY BalancersAre DEF Sound
<1>2. Last(<<e, t, "lb">>) = "lb"
  BY DEF Last
<1>3. Last(LabelOf[m.vm]) # "lb"
  BY EstateIs, RenderAssumption
<1> QED
  BY <1>1, <1>2, <1>3

LEMMA JoinedTwice ==
  ASSUME NEW s, NEW t, NEW w, Sequence(s), Sequence(t), Sequence(w)
  PROVE  s \o (t \o w) = (s \o t) \o w
<1> DEFINE S == (Range(s) \cup Range(t)) \cup Range(w)
<1>1. s \in Seq(S) /\ t \in Seq(S) /\ w \in Seq(S)
  BY SequenceIs, RangeIs
<1> HIDE DEF S
<1> QED
  BY <1>1, ConcatAssociative

LEMMA EmptyPart ==
  ASSUME NEW D, NEW K
  PROVE  Part(<<>>, D, K, {}) /\ Plain(<<>>)
  BY EmptyIs DEF Part, Plain

\* A resource that is written on a condition.
LEMMA WhenPart ==
  ASSUME NEW b \in BOOLEAN, NEW id, NEW to, NEW D, b => to \subseteq D
  PROVE  LET u == When(b, <<R(id, to)>>) IN
         Part(u, D, {id[1]}, IF b THEN {id} ELSE {}) /\ Plain(u)
<1>1. CASE b
  <2>1. When(b, <<R(id, to)>>) = <<R(id, to)>>
    BY <1>1 DEF When
  <2>2. Plain(<<R(id, to)>>) /\ Part(<<R(id, to)>>, D, {id[1]}, {id})
    BY <1>1, PlainOne
  <2> QED
    BY <1>1, <2>1, <2>2
<1>2. CASE ~b
  <2>1. When(b, <<R(id, to)>>) = <<>>
    BY <1>2 DEF When
  <2>2. Part(<<>>, D, {id[1]}, {}) /\ Plain(<<>>)
    BY EmptyPart
  <2> QED
    BY <1>2, <2>1, <2>2
<1> QED
  BY <1>1, <1>2

LEMMA JoinThree ==
  ASSUME NEW a, NEW b, NEW c, NEW D, NEW E, NEW F, NEW K, NEW L, NEW M, NEW I, NEW J, NEW H,
         Part(a, D, K, I), Part(b, E, L, J), Part(c, F, M, H), Covered(E, D, I), Covered(F, D, I \cup J),
         Apart(K, L), Apart(K \cup L, M)
  PROVE  Part((a \o b) \o c, D, (K \cup L) \cup M, (I \cup J) \cup H)
<1>1. Part(a \o b, D, K \cup L, I \cup J)
  BY JoinParts
<1> QED
  BY <1>1, JoinParts

-----------------------------------------------------------------------------
(* Azure.                                                                     *)

AzureNeeds == {<<"rg">>} \cup SubnetIds
PoolIds == {<<"pool", lb.name>> : lb \in Range(LoadBalancers)}

AzureHead(lb) ==
  When(lb.tier = "public", <<R(<<"pip", lb.name>>, {<<"rg">>})>>)
  \o <<R(<<"lb", lb.name>>, {<<"rg">>} \cup
          IF lb.tier = "public" THEN {<<"pip", lb.name>>} ELSE {<<"subnet", SubnetsOf(lb.tier)[1].name>>}),
       R(<<"pool", lb.name>>, {<<"rg">>, <<"lb", lb.name>>})>>

AzurePort(lb, p) ==
  <<R(<<"probe", lb.name, p>>, {<<"rg">>, <<"lb", lb.name>>}),
    R(<<"rule", lb.name, p>>, {<<"rg">>, <<"lb", lb.name>>, <<"pool", lb.name>>, <<"probe", lb.name, p>>})>>

LEMMA AzureHeadIs ==
  ASSUME compute \in Plans, NEW lb, Sound(lb)
  PROVE  /\ FrontPart(lb, AzureHead(lb), AzureNeeds, {"pip"} \cup {"lb", "pool"})
         /\ {<<"lb", lb.name>>, <<"pool", lb.name>>} \subseteq IdSet(AzureHead(lb))
<1> DEFINE b == lb.tier = "public"
           i == <<"pip", lb.name>>
           j == <<"lb", lb.name>>
           k == <<"pool", lb.name>>
           V == {<<"rg">>}
           W == {<<"rg">>} \cup IF b THEN {i} ELSE {<<"subnet", SubnetsOf(lb.tier)[1].name>>}
           X == {<<"rg">>, j}
           P == IF b THEN {i} ELSE {}
           s == When(b, <<R(i, V)>>)
           t == <<R(j, W), R(k, X)>>
           E == AzureNeeds \cup P
           u == s \o t
<1>1. AzureHead(lb) = u
  BY DEF AzureHead
<1>2. V \subseteq AzureNeeds /\ i[1] = "pip" /\ b \in BOOLEAN
  BY DEF AzureNeeds
<1>3. W \subseteq E /\ X \subseteq E \cup {j} /\ j[1] = "lb" /\ k[1] = "pool" /\ j[1] # k[1]
  BY BalancerNeeds DEF AzureNeeds
<1>4. Covered(E, AzureNeeds, P) /\ Apart({"pip"}, {"lb", "pool"})
  BY DEF Covered, Apart
<1>5. \A x \in P \cup {j, k} : x[2] = lb.name
  OBVIOUS
<1> HIDE DEF i, j, k, V, W, X, E
<1>6. Part(s, AzureNeeds, {"pip"}, P) /\ Plain(s)
  <2> HIDE DEF b
  <2> QED
    BY <1>2, WhenPart
<1>7. Part(t, E, {"lb", "pool"}, {j, k}) /\ Plain(t)
  BY <1>3, PlainTwo
<1> HIDE DEF P, s, t
<1>8. Part(u, AzureNeeds, {"pip"} \cup {"lb", "pool"}, P \cup {j, k})
  BY <1>4, <1>6, <1>7, JoinParts
<1>9. Plain(u)
  BY <1>6, <1>7, JoinPlain
<1>10. IdSet(u) = P \cup {j, k}
  BY <1>8, PartIs
<1> HIDE DEF u
<1>11. FrontPart(lb, u, AzureNeeds, {"pip"} \cup {"lb", "pool"})
  BY <1>5, <1>8, <1>9, <1>10 DEF FrontPart
<1> QED
  BY <1>1, <1>10, <1>11 DEF j, k

LEMMA AzurePortIs ==
  ASSUME NEW lb, NEW p
  PROVE  /\ FrontPart(lb, AzurePort(lb, p), {<<"rg">>, <<"lb", lb.name>>, <<"pool", lb.name>>}, {"probe", "rule"})
         /\ \A x \in IdSet(AzurePort(lb, p)) : x[3] = p
<1> DEFINE i == <<"probe", lb.name, p>>
           j == <<"rule", lb.name, p>>
           D == {<<"rg">>, <<"lb", lb.name>>, <<"pool", lb.name>>}
           V == {<<"rg">>, <<"lb", lb.name>>}
           W == {<<"rg">>, <<"lb", lb.name>>, <<"pool", lb.name>>, <<"probe", lb.name, p>>}
           u == <<R(i, V), R(j, W)>>
<1>1. AzurePort(lb, p) = u
  BY DEF AzurePort
<1>2. V \subseteq D /\ W \subseteq D \cup {i} /\ i[1] = "probe" /\ j[1] = "rule" /\ i[1] # j[1]
  OBVIOUS
<1>3. i[2] = lb.name /\ j[2] = lb.name /\ i[3] = p /\ j[3] = p
  OBVIOUS
<1> HIDE DEF i, j, D, V, W
<1>4. Part(u, D, {"probe", "rule"}, {i, j}) /\ Plain(u)
  BY <1>2, PlainTwo
<1>5. IdSet(u) = {i, j}
  BY <1>4, PartIs
<1> HIDE DEF u
<1> QED
  BY <1>1, <1>3, <1>4, <1>5 DEF FrontPart, D

AzureKinds == ({"pip"} \cup {"lb", "pool"}) \cup {"probe", "rule"}

LEMMA PulumiAzureBalancersAre ==
  ASSUME compute \in Plans
  PROVE  LET u == PulumiAzureBalancers IN
         /\ Part(u, AzureNeeds, AzureKinds, IdSet(u)) /\ Plain(u)
         /\ PoolIds \subseteq IdSet(u)
         /\ \A x \in IdSet(u) : \E lb \in Range(LoadBalancers) : x[2] = lb.name
<1> DEFINE c == LoadBalancers
           g == [i \in DOMAIN c |-> [k \in DOMAIN c[i].ports |-> AzurePort(c[i], c[i].ports[k])]]
           ss == [i \in DOMAIN c |-> AzureHead(c[i]) \o FlattenSeq(g[i])]
<1>1. PulumiAzureBalancers = FlattenSeq(ss)
  BY DEF PulumiAzureBalancers, AzureHead, AzurePort, Each, Listeners
<1>2. \A i \in DOMAIN c : FrontPart(c[i], ss[i], AzureNeeds, AzureKinds) /\ <<"pool", c[i].name>> \in IdSet(ss[i])
  <2> SUFFICES ASSUME NEW i \in DOMAIN c
               PROVE  FrontPart(c[i], ss[i], AzureNeeds, AzureKinds) /\ <<"pool", c[i].name>> \in IdSet(ss[i])
    OBVIOUS
  <2> DEFINE lb == c[i]
             a == AzureHead(lb)
             gg == [k \in DOMAIN lb.ports |-> AzurePort(lb, lb.ports[k])]
             E == {<<"rg">>, <<"lb", lb.name>>, <<"pool", lb.name>>}
             K == {"pip"} \cup {"lb", "pool"}
             L == {"probe", "rule"}
  <2>1. Sound(lb)
    BY BalancersAre, RangeIs
  <2>2. ss[i] = a \o FlattenSeq(gg)
    OBVIOUS
  <2> HIDE DEF c
  <2>3. FrontPart(lb, a, AzureNeeds, K) /\ {<<"lb", lb.name>>, <<"pool", lb.name>>} \subseteq IdSet(a)
    BY <2>1, AzureHeadIs
  <2>4. \A k \in DOMAIN lb.ports : FrontPart(lb, gg[k], E, L) /\ \A x \in IdSet(gg[k]) : x[3] = lb.ports[k]
    BY AzurePortIs
  <2>5. gg = [k \in DOMAIN lb.ports |-> gg[k]]
    OBVIOUS
  <2>6. Covered(E, AzureNeeds, IdSet(a)) /\ Apart(K, L)
    BY <2>3 DEF Covered, Apart, AzureNeeds
  <2> HIDE DEF lb, a, gg, E, K, L, ss
  <2>7. FrontPart(lb, a \o FlattenSeq(gg), AzureNeeds, K \cup L) /\ IdSet(a) \subseteq IdSet(a \o FlattenSeq(gg))
    BY <2>1, <2>3, <2>4, <2>5, <2>6, WithPorts
  <2> QED
    BY <2>2, <2>3, <2>7 DEF K, L, AzureKinds, lb
<1>3. ss = [i \in DOMAIN c |-> ss[i]]
  OBVIOUS
<1> HIDE DEF ss
<1>4. LET u == FlattenSeq(ss) IN
      /\ Part(u, AzureNeeds, AzureKinds, IdSet(u)) /\ Plain(u)
      /\ \A i \in DOMAIN c : IdSet(ss[i]) \subseteq IdSet(u)
      /\ \A x \in IdSet(u) : \E lb \in Range(c) : x[2] = lb.name
  BY <1>2, <1>3, AllFronts
<1>5. \A x \in PoolIds : \E i \in DOMAIN c : x \in IdSet(ss[i])
  <2>1. \A lb \in Range(c) : \E i \in DOMAIN c : c[i] = lb
    BY RangeIs
  <2> HIDE DEF c
  <2>2. \A x \in PoolIds : \E lb \in Range(c) : x = <<"pool", lb.name>>
    BY DEF PoolIds, c
  <2> QED
    BY <1>2, <2>1, <2>2
<1> QED
  BY <1>1, <1>4, <1>5

AzureMachineNeeds == (AzureNeeds \cup TierIds("nsg")) \cup PoolIds
AzureMachineKinds == ((({"pip"} \cup {"nic", "nsgassoc"}) \cup {"poolassoc"})) \cup {"inst"}

LEMMA AzureMachineIs ==
  ASSUME compute \in Plans, NEW m \in Range(compute), NEW roles, NEW E, roles \subseteq E
  PROVE  LET u == AzureMachine(m, roles) IN
         /\ Part(u, AzureMachineNeeds \cup E, AzureMachineKinds, IdSet(u))
         /\ Adds(u, m, InstId, Place, NoDisks, IsOwn)
         /\ <<"inst", LabelOf[m.vm]>> \in IdSet(u)
         /\ \A x \in IdSet(u) : x[2] = LabelOf[m.vm]
<1> DEFINE l == LabelOf[m.vm]
           b == OwnAddress(m)
           f == m.vm \in Fronted
           q == <<"pool", LoadBalancers[BalancerOf(m.vm)].name>>
           i == <<"pip", l>>
           j == <<"nic", l>>
           k == <<"nsgassoc", l>>
           n == <<"poolassoc", l>>
           o == <<"inst", l>>
           V == {<<"rg">>}
           W == {<<"rg">>, <<"subnet", subnet_of(m.vm)>>} \cup IF b THEN {i} ELSE {}
           X == {j, <<"nsg", m.tier>>}
           Y == {j, q}
           Z == {<<"rg">>, j} \cup roles
           P == IF b THEN {i} ELSE {}
           Q == IF f THEN {n} ELSE {}
           s == When(b, <<R(i, V)>>)
           t == <<R(j, W), R(k, X)>>
           v == When(f, <<R(n, Y)>>)
           at == subnet_of(m.vm)
           w == <<VM(o, Z, m, at, {}, b)>>
           D == AzureMachineNeeds \cup E
           B == D \cup P
           C == D \cup {j}
           u == ((s \o t) \o v) \o w
<1>1. AzureMachine(m, roles) = u
  BY DEF AzureMachine
<1>2. /\ <<"subnet", subnet_of(m.vm)>> \in D /\ <<"nsg", m.tier>> \in D /\ <<"rg">> \in D /\ roles \subseteq D
      /\ at # None /\ b \in BOOLEAN
  BY PlacesAre DEF AzureMachineNeeds, AzureNeeds, Place, OwnAddress, Public
<1>3. f => q \in D
  <2>1. f => LoadBalancers[BalancerOf(m.vm)] \in Range(LoadBalancers)
    BY FrontedIs
  <2>2. f => q \in PoolIds
    BY <2>1 DEF PoolIds
  <2> QED
    BY <2>2 DEF AzureMachineNeeds
<1> HIDE DEF D, q, at
<1>4. V \subseteq D /\ W \subseteq B /\ X \subseteq B \cup {j} /\ Z \subseteq C
  BY <1>2 DEF at
<1>5. f => Y \subseteq C
  BY <1>3
<1>6. i[1] = "pip" /\ j[1] = "nic" /\ k[1] = "nsgassoc" /\ n[1] = "poolassoc" /\ o[1] = "inst" /\ j[1] # k[1]
  OBVIOUS
<1>7. \A x \in ((P \cup {j, k}) \cup Q) \cup {o} : x[2] = l
  OBVIOUS
<1>8. InstId[m] = o /\ Place[m] = at /\ NoDisks[m] = {} /\ IsOwn[m] = b
  BY DEF InstId, Place, NoDisks, IsOwn, at
<1>9. Covered(B, D, P) /\ Covered(C, D, P \cup {j, k}) /\ Covered(C, D, (P \cup {j, k}) \cup Q)
  BY DEF Covered
<1>10. /\ Apart({"pip"}, {"nic", "nsgassoc"}) /\ Apart({"pip"} \cup {"nic", "nsgassoc"}, {"poolassoc"})
       /\ Apart(({"pip"} \cup {"nic", "nsgassoc"}) \cup {"poolassoc"}, {"inst"})
  BY DEF Apart
<1> HIDE DEF i, j, k, n, o, V, W, X, Y, Z, B, C, l
<1>11. Part(s, D, {"pip"}, P) /\ Plain(s)
  <2> HIDE DEF b
  <2> QED
    BY <1>2, <1>4, <1>6, WhenPart
<1>12. Part(t, B, {"nic", "nsgassoc"}, {j, k}) /\ Plain(t)
  BY <1>4, <1>6, PlainTwo
<1>13. Part(v, C, {"poolassoc"}, Q) /\ Plain(v)
  <2>1. f \in BOOLEAN
    OBVIOUS
  <2> HIDE DEF f
  <2> QED
    BY <1>5, <1>6, <2>1, WhenPart
<1> HIDE DEF b, f
<1>14. Part(w, C, {"inst"}, {o})
  <2>1. Part(w, C, {o[1]}, {o})
    BY <1>4, OnePart
  <2> QED
    BY <1>6, <2>1
<1>15. Yields(w, {[id |-> o, vm |-> m.vm, subnet |-> at]}, {m.vm} \X {}, IF b THEN {m.vm} ELSE {})
  BY <1>2, OneMachine
<1> HIDE DEF s, t, v, w, P, Q
<1>16. Part((s \o t) \o v, D, ({"pip"} \cup {"nic", "nsgassoc"}) \cup {"poolassoc"}, (P \cup {j, k}) \cup Q)
  BY <1>9, <1>10, <1>11, <1>12, <1>13, JoinThree
<1>17. Part(u, D, AzureMachineKinds, ((P \cup {j, k}) \cup Q) \cup {o})
  BY <1>9, <1>10, <1>14, <1>16, JoinParts DEF AzureMachineKinds
<1>18. Plain((s \o t) \o v)
  BY <1>11, <1>12, <1>13, JoinPlain
<1>19. Adds(u, m, InstId, Place, NoDisks, IsOwn)
  <2>1. Yields(u, {[id |-> o, vm |-> m.vm, subnet |-> at]}, {m.vm} \X {}, IF b THEN {m.vm} ELSE {})
    BY <1>15, <1>18, PlainAround
  <2> QED
    BY <1>8, <2>1 DEF Adds
<1>20. IdSet(u) = ((P \cup {j, k}) \cup Q) \cup {o}
  BY <1>17, PartIs
<1> HIDE DEF u
<1> QED
  BY <1>1, <1>7, <1>17, <1>19, <1>20 DEF D, o, l

AzureMachines(c, roles) == FlattenSeq([i \in DOMAIN c |-> AzureMachine(c[i], roles[c[i]])])

\* All of the part is called after the machine.
Called(s, kind, m) == <<kind, LabelOf[m.vm]>> \in IdSet(s) /\ \A x \in IdSet(s) : x[2] = LabelOf[m.vm]

\* A list of machines, of several resources each.
LEMMA MachinesAre ==
  ASSUME compute \in Plans, NEW c, Listing(c), NEW ss, ss = [i \in DOMAIN c |-> ss[i]], NEW D, NEW K,
         NEW kind, NEW id, NEW at, NEW n, NEW pub,
         \A i \in DOMAIN c : Part(ss[i], D, K, IdSet(ss[i])),
         \A i \in DOMAIN c : Adds(ss[i], c[i], id, at, n, pub),
         \A i \in DOMAIN c : Called(ss[i], kind, c[i])
  PROVE  LET u == FlattenSeq(ss) IN
         /\ Part(u, D, K, IdSet(u)) /\ Yields(u, MachineRecords(id, at), Disks(n), Exposed(pub))
         /\ LabelIds(kind) \subseteq IdSet(u)
         /\ \A x \in IdSet(u) : \E m \in Range(compute) : x[2] = LabelOf[m.vm]
<1> DEFINE u == FlattenSeq(ss)
           I == UNION {IdSet(ss[i]) : i \in DOMAIN c}
<1>1. \A i \in DOMAIN c : c[i] \in Range(compute)
  BY RangeIs DEF Listing
<1>2. \A m \in Range(compute) : \E i \in DOMAIN c : c[i] = m
  BY RangeIs DEF Listing
<1>3. \A i \in DOMAIN c : \A x \in IdSet(ss[i]) : x[2] = LabelOf[c[i].vm]
  BY DEF Called
<1>4. \A i \in DOMAIN c : <<kind, LabelOf[c[i].vm]>> \in IdSet(ss[i])
  BY DEF Called
<1>5. Part(u, D, K, I)
  BY <1>3, MachineParts
<1>6. Yields(u, MachineRecords(id, at), Disks(n), Exposed(pub))
  BY MachineYields
<1>7. IdSet(u) = I
  BY <1>5, PartIs
<1> HIDE DEF u
<1>8. LabelIds(kind) \subseteq I
  BY <1>2, <1>4 DEF LabelIds
<1>9. \A x \in I : \E m \in Range(compute) : x[2] = LabelOf[m.vm]
  BY <1>1, <1>3
<1> QED
  BY <1>5, <1>6, <1>7, <1>8, <1>9 DEF u

LEMMA AzureMachinesAre ==
  ASSUME compute \in Plans, NEW c, Listing(c), NEW roles, NEW E, \A m \in Range(compute) : roles[m] \subseteq E
  PROVE  LET u == AzureMachines(c, roles) IN
         /\ Part(u, AzureMachineNeeds \cup E, AzureMachineKinds, IdSet(u))
         /\ Yields(u, MachineRecords(InstId, Place), Disks(NoDisks), Exposed(IsOwn))
         /\ LabelIds("inst") \subseteq IdSet(u)
         /\ \A x \in IdSet(u) : \E m \in Range(compute) : x[2] = LabelOf[m.vm]
<1> DEFINE ss == [i \in DOMAIN c |-> AzureMachine(c[i], roles[c[i]])]
           D == AzureMachineNeeds \cup E
<1>1. \A i \in DOMAIN c : c[i] \in Range(compute)
  BY RangeIs DEF Listing
<1>2. \A i \in DOMAIN c : /\ Part(ss[i], D, AzureMachineKinds, IdSet(ss[i]))
                          /\ Adds(ss[i], c[i], InstId, Place, NoDisks, IsOwn)
                          /\ Called(ss[i], "inst", c[i])
  BY <1>1, AzureMachineIs DEF Called
<1>3. ss = [i \in DOMAIN c |-> ss[i]] /\ AzureMachines(c, roles) = FlattenSeq(ss)
  BY DEF AzureMachines
<1> HIDE DEF ss, D
<1>4. \A i \in DOMAIN c : Part(ss[i], D, AzureMachineKinds, IdSet(ss[i]))
  BY <1>2
<1>5. \A i \in DOMAIN c : Adds(ss[i], c[i], InstId, Place, NoDisks, IsOwn)
  BY <1>2
<1>6. \A i \in DOMAIN c : Called(ss[i], "inst", c[i])
  BY <1>2
<1>7. LET u == FlattenSeq(ss) IN
      /\ Part(u, D, AzureMachineKinds, IdSet(u)) /\ Yields(u, MachineRecords(InstId, Place), Disks(NoDisks), Exposed(IsOwn))
      /\ LabelIds("inst") \subseteq IdSet(u)
      /\ \A x \in IdSet(u) : \E m \in Range(compute) : x[2] = LabelOf[m.vm]
  BY <1>3, <1>4, <1>5, <1>6, MachinesAre
<1> QED
  BY <1>3, <1>7 DEF D

\* What is written for a balancer and for a machine never has the same identifier.
LEMMA FrontsApart ==
  ASSUME compute \in Plans, NEW I, NEW J, \A x \in I : \E lb \in Range(LoadBalancers) : x[2] = lb.name,
         \A x \in J : \E m \in Range(compute) : x[2] = LabelOf[m.vm]
  PROVE  Apart(I, J)
  BY LabelsApart DEF Apart

AzureNetworkIds == (({<<"rg">>} \cup {<<"vnet">>}) \cup SubnetIds) \cup TierIds("nsg")

LEMMA PulumiAzureIs ==
  ASSUME compute \in Plans
  PROVE  /\ Part(PulumiAzure, {}, ({"rg", "vnet", "subnet", "nsg"} \cup AzureKinds) \cup AzureMachineKinds,
                 IdSet(PulumiAzure))
         /\ Yields(PulumiAzure, MachineRecords(InstId, Place), Disks(NoDisks), Exposed(IsOwn))
<1> DEFINE a == PulumiAzureNetwork
           b == PulumiAzureBalancers
           c == AzureMachines(compute, NoRoles)
           K == {"rg", "vnet", "subnet", "nsg"}
           I == AzureNetworkIds
           O == {}
           D == AzureMachineNeeds \cup O
           u == (a \o b) \o c
<1>1. PulumiAzure = u
  <2>1. \A i \in DOMAIN compute : NoRoles[compute[i]] = {}
    BY ComputeIsListing DEF NoRoles
  <2>2. PulumiAzureInstances = c
    BY <2>1 DEF PulumiAzureInstances, AzureMachines, Each
  <2> HIDE DEF c
  <2> QED
    BY <2>2 DEF PulumiAzure
<1>2. Part(a, O, K, I) /\ Plain(a)
  BY PulumiAzureNetworkIs DEF AzureNetworkIds
<1>3. /\ Part(b, AzureNeeds, AzureKinds, IdSet(b)) /\ Plain(b) /\ PoolIds \subseteq IdSet(b)
      /\ \A x \in IdSet(b) : \E lb \in Range(LoadBalancers) : x[2] = lb.name
  BY PulumiAzureBalancersAre
<1>4. /\ Part(c, D, AzureMachineKinds, IdSet(c))
      /\ Yields(c, MachineRecords(InstId, Place), Disks(NoDisks), Exposed(IsOwn))
      /\ \A x \in IdSet(c) : \E m \in Range(compute) : x[2] = LabelOf[m.vm]
  <2>1. \A m \in Range(compute) : NoRoles[m] \subseteq O
    BY DEF NoRoles
  <2> QED
    BY <2>1, ComputeIsListing, AzureMachinesAre
<1>5. Covered(AzureNeeds, O, I) /\ Apart(K, AzureKinds) /\ Apart(K, AzureMachineKinds)
  BY DEF Covered, Apart, AzureNeeds, AzureNetworkIds, AzureKinds, AzureMachineKinds
<1>6. Covered(D, O, I \cup IdSet(b))
  BY <1>3 DEF Covered, AzureMachineNeeds, AzureNeeds, AzureNetworkIds
<1> HIDE DEF a, b, c, K, I, O, D
<1>7. Apart(IdSet(b), IdSet(c))
  BY <1>3, <1>4, FrontsApart
<1>8. Apart(I, IdSet(c))
  <2>1. \A x \in I : x[1] \in K
    BY <1>2 DEF Part, Fresh
  <2>2. \A x \in IdSet(c) : x[1] \in AzureMachineKinds
    BY <1>4 DEF Part, Fresh
  <2> QED
    BY <1>5, <2>1, <2>2 DEF Apart
<1>9. Apart(I \cup IdSet(b), IdSet(c))
  BY <1>7, <1>8 DEF Apart
<1>10. Part(a \o b, O, K \cup AzureKinds, I \cup IdSet(b))
  BY <1>2, <1>3, <1>5, JoinParts
<1>11. Part(u, O, (K \cup AzureKinds) \cup AzureMachineKinds, (I \cup IdSet(b)) \cup IdSet(c))
  BY <1>4, <1>6, <1>9, <1>10, JoinApart
<1>12. Yields(u, MachineRecords(InstId, Place), Disks(NoDisks), Exposed(IsOwn))
  BY <1>2, <1>3, <1>4, JoinPlain, PlainAround
<1>13. IdSet(u) = (I \cup IdSet(b)) \cup IdSet(c)
  BY <1>11, PartIs
<1> QED
  BY <1>1, <1>11, <1>12, <1>13 DEF K, O

-----------------------------------------------------------------------------
(* Google Cloud.                                                              *)

GcpRefs(roles) == [m \in Range(compute) |-> {<<"subnet", subnet_of(m.vm)>>} \cup roles[m]]
GcpMachines(c, roles) == MachineList(c, InstId, GcpRefs(roles), Place, NoDisks, IsOwn)

LEMMA GcpMachinesAre ==
  ASSUME compute \in Plans, NEW c, Listing(c), NEW roles, NEW E, \A m \in Range(compute) : roles[m] \subseteq E
  PROVE  /\ Part(GcpMachines(c, roles), SubnetIds \cup E, {"inst"}, LabelIds("inst"))
         /\ Yields(GcpMachines(c, roles), MachineRecords(InstId, Place), Disks(NoDisks), Exposed(IsOwn))
         /\ GcpMachines(c, roles) = FlattenSeq([i \in DOMAIN c |-> GcpMachine(c[i], roles[c[i]])])
<1> DEFINE D == SubnetIds \cup E
           to == GcpRefs(roles)
<1>1. \A m \in Range(compute) : to[m] \subseteq D
  BY PlacesAre DEF GcpRefs
<1>2. \A m \in Range(compute) : InstId[m] = <<"inst", LabelOf[m.vm]>>
  BY DEF InstId
<1>3. \A m \in Range(compute) : Place[m] # None /\ IsOwn[m] \in BOOLEAN
  BY PlacesAre DEF IsOwn, OwnAddress, Public
<1>4. GcpMachines(c, roles) = FlattenSeq([i \in DOMAIN c |-> GcpMachine(c[i], roles[c[i]])])
  <2>1. \A i \in DOMAIN c : c[i] \in Range(compute)
    BY RangeIs DEF Listing
  <2>2. \A i \in DOMAIN c :
           /\ InstId[c[i]] = <<"inst", LabelOf[c[i].vm]>> /\ Place[c[i]] = subnet_of(c[i].vm)
           /\ NoDisks[c[i]] = {} /\ IsOwn[c[i]] = OwnAddress(c[i])
           /\ to[c[i]] = {<<"subnet", subnet_of(c[i].vm)>>} \cup roles[c[i]]
    BY <2>1 DEF InstId, Place, NoDisks, IsOwn, GcpRefs
  <2> HIDE DEF to
  <2> QED
    BY <2>2 DEF GcpMachines, MachineList, GcpMachine, to
<1> HIDE DEF D, to
<1>5. Part(MachineList(c, InstId, to, Place, NoDisks, IsOwn), D, {"inst"}, LabelIds("inst"))
  BY <1>1, <1>2, MachineListPart
<1>6. Yields(MachineList(c, InstId, to, Place, NoDisks, IsOwn), MachineRecords(InstId, Place), Disks(NoDisks), Exposed(IsOwn))
  BY <1>3, MachineListYields
<1> QED
  BY <1>4, <1>5, <1>6 DEF D, to, GcpMachines

GcpFronts == ({<<"network">>} \cup SubnetIds) \cup LabelIds("inst")
FrontedBy(lb) == {<<"inst", LabelOf[vm]>> : vm \in Range(lb.targets)}

GcpHead(lb) ==
  IF lb.tier = "public"
  THEN <<R(<<"hc", lb.name>>, {}), R(<<"pool", lb.name>>, FrontedBy(lb) \cup {<<"hc", lb.name>>})>>
  ELSE <<R(<<"ig", lb.name>>, FrontedBy(lb)), R(<<"hc", lb.name>>, {}),
         R(<<"bes", lb.name>>, {<<"hc", lb.name>>, <<"ig", lb.name>>})>>

GcpPort(lb, p) ==
  IF lb.tier = "public" THEN <<R(<<"forward", lb.name, p>>, {<<"pool", lb.name>>})>>
  ELSE <<R(<<"forward", lb.name, p>>, {<<"network">>, <<"bes", lb.name>>,
                                       <<"subnet", SubnetsOf(lb.tier)[1].name>>})>>

GcpEntry(lb) == IF lb.tier = "public" THEN <<"pool", lb.name>> ELSE <<"bes", lb.name>>
GcpHeadKinds == {"hc", "pool", "ig", "bes"}

LEMMA FrontedByIs ==
  ASSUME compute \in Plans, NEW lb, Sound(lb)
  PROVE  FrontedBy(lb) \subseteq LabelIds("inst")
<1> SUFFICES ASSUME NEW vm \in Range(lb.targets) PROVE <<"inst", LabelOf[vm]>> \in LabelIds("inst")
  BY DEF FrontedBy
<1>1. PICK m \in Range(compute) : m.vm = vm
  BY DEF Sound
<1> QED
  BY <1>1, PlacesAre

LEMMA GcpHeadIs ==
  ASSUME compute \in Plans, NEW lb, Sound(lb)
  PROVE  FrontPart(lb, GcpHead(lb), GcpFronts, GcpHeadKinds) /\ GcpEntry(lb) \in IdSet(GcpHead(lb))
<1> DEFINE i == <<"hc", lb.name>>
           j == <<"pool", lb.name>>
           k == <<"ig", lb.name>>
           l == <<"bes", lb.name>>
           F == FrontedBy(lb)
           O == {}
           u == GcpHead(lb)
<1>1. F \subseteq GcpFronts
  BY FrontedByIs DEF GcpFronts
<1>2. i[1] = "hc" /\ j[1] = "pool" /\ k[1] = "ig" /\ l[1] = "bes" /\ i[1] # j[1] /\ i[1] # l[1]
  OBVIOUS
<1>3. i[2] = lb.name /\ j[2] = lb.name /\ k[2] = lb.name /\ l[2] = lb.name
  OBVIOUS
<1>4. CASE lb.tier = "public"
  <2> DEFINE X == F \cup {i}
             v == <<R(i, O), R(j, X)>>
  <2>1. u = v /\ GcpEntry(lb) = j
    BY <1>4 DEF GcpHead, GcpEntry
  <2>2. O \subseteq GcpFronts /\ X \subseteq GcpFronts \cup {i}
    BY <1>1
  <2> HIDE DEF i, j, O, X, F
  <2>3. Part(v, GcpFronts, {"hc", "pool"}, {i, j}) /\ Plain(v)
    BY <1>2, <2>2, PlainTwo
  <2>4. GcpFronts \subseteq GcpFronts /\ {"hc", "pool"} \subseteq GcpHeadKinds
    BY DEF GcpHeadKinds
  <2>5. Part(v, GcpFronts, GcpHeadKinds, {i, j})
    BY <2>3, <2>4, MoreNeeded
  <2>6. IdSet(v) = {i, j}
    BY <2>5, PartIs
  <2> HIDE DEF u, v
  <2> QED
    BY <1>3, <2>1, <2>3, <2>5, <2>6 DEF FrontPart, u
<1>5. CASE lb.tier # "public"
  <2> DEFINE X == {i, k}
             a == <<R(k, F)>>
             b == <<R(i, O), R(l, X)>>
             v == a \o b
             D == GcpFronts \cup {k}
  <2>1. u = v /\ GcpEntry(lb) = l
    BY <1>5, Literals DEF GcpHead, GcpEntry
  <2>2. O \subseteq D /\ X \subseteq D \cup {i}
    OBVIOUS
  <2>3. Covered(D, GcpFronts, {k}) /\ Apart({"ig"}, {"hc", "bes"})
    BY DEF Covered, Apart
  <2> HIDE DEF i, k, l, O, X, F, D
  <2>4. Part(a, GcpFronts, {"ig"}, {k}) /\ Plain(a)
    BY <1>1, <1>2, PlainOne
  <2>5. Part(b, D, {"hc", "bes"}, {i, l}) /\ Plain(b)
    BY <1>2, <2>2, PlainTwo
  <2> HIDE DEF a, b
  <2>6. Part(v, GcpFronts, {"ig"} \cup {"hc", "bes"}, {k} \cup {i, l})
    BY <2>3, <2>4, <2>5, JoinParts
  <2>7. GcpFronts \subseteq GcpFronts /\ {"ig"} \cup {"hc", "bes"} \subseteq GcpHeadKinds
    BY DEF GcpHeadKinds
  <2>8. Part(v, GcpFronts, GcpHeadKinds, {k} \cup {i, l})
    BY <2>6, <2>7, MoreNeeded
  <2>9. IdSet(v) = {k} \cup {i, l}
    BY <2>8, PartIs
  <2>10. Plain(v)
    BY <2>4, <2>5, JoinPlain
  <2> HIDE DEF u, v
  <2> QED
    BY <1>3, <2>1, <2>8, <2>9, <2>10 DEF FrontPart, u
<1> QED
  BY <1>4, <1>5

\* A list of one resource that is called after the balancer and the port.
LEMMA OnePort ==
  ASSUME NEW lb, NEW kind, NEW p, NEW to, NEW D, to \subseteq D
  PROVE  LET u == <<R(<<kind, lb.name, p>>, to)>> IN
         FrontPart(lb, u, D, {kind}) /\ \A x \in IdSet(u) : x[3] = p
<1> DEFINE i == <<kind, lb.name, p>>
           u == <<R(i, to)>>
<1>1. i[1] = kind /\ i[2] = lb.name /\ i[3] = p
  OBVIOUS
<1> HIDE DEF i
<1>2. Part(u, D, {kind}, {i}) /\ Plain(u)
  BY <1>1, PlainOne
<1>3. IdSet(u) = {i}
  BY <1>2, PartIs
<1> HIDE DEF u
<1> QED
  BY <1>1, <1>2, <1>3 DEF FrontPart, u, i

LEMMA GcpPortIs ==
  ASSUME compute \in Plans, NEW lb, Sound(lb), NEW p
  PROVE  /\ FrontPart(lb, GcpPort(lb, p), GcpFronts \cup {GcpEntry(lb)}, {"forward"})
         /\ \A x \in IdSet(GcpPort(lb, p)) : x[3] = p
<1> DEFINE D == GcpFronts \cup {GcpEntry(lb)}
           V == IF lb.tier = "public" THEN {<<"pool", lb.name>>}
                ELSE {<<"network">>, <<"bes", lb.name>>, <<"subnet", SubnetsOf(lb.tier)[1].name>>}
<1>1. GcpPort(lb, p) = <<R(<<"forward", lb.name, p>>, V)>>
  BY DEF GcpPort
<1>2. V \subseteq D
  BY BalancerNeeds DEF GcpFronts, GcpEntry
<1> HIDE DEF V, D
<1> QED
  BY <1>1, <1>2, OnePort DEF D

GcpKinds == GcpHeadKinds \cup {"forward"}

LEMMA PulumiGcpBalancersAre ==
  ASSUME compute \in Plans
  PROVE  LET u == PulumiGcpBalancers IN Part(u, GcpFronts, GcpKinds, IdSet(u)) /\ Plain(u)
<1> DEFINE c == LoadBalancers
           g == [i \in DOMAIN c |-> [k \in DOMAIN c[i].ports |-> GcpPort(c[i], c[i].ports[k])]]
           ss == [i \in DOMAIN c |-> GcpHead(c[i]) \o FlattenSeq(g[i])]
<1>1. PulumiGcpBalancers = FlattenSeq(ss)
  BY DEF PulumiGcpBalancers, GcpHead, GcpPort, FrontedBy, Each, Listeners
<1>2. \A i \in DOMAIN c : FrontPart(c[i], ss[i], GcpFronts, GcpKinds)
  <2> SUFFICES ASSUME NEW i \in DOMAIN c PROVE FrontPart(c[i], ss[i], GcpFronts, GcpKinds)
    OBVIOUS
  <2> DEFINE lb == c[i]
             a == GcpHead(lb)
             gg == [k \in DOMAIN lb.ports |-> GcpPort(lb, lb.ports[k])]
             E == GcpFronts \cup {GcpEntry(lb)}
             L == {"forward"}
  <2>1. Sound(lb)
    BY BalancersAre, RangeIs
  <2>2. ss[i] = a \o FlattenSeq(gg)
    OBVIOUS
  <2> HIDE DEF c
  <2>3. FrontPart(lb, a, GcpFronts, GcpHeadKinds) /\ GcpEntry(lb) \in IdSet(a)
    BY <2>1, GcpHeadIs
  <2>4. \A k \in DOMAIN lb.ports : FrontPart(lb, gg[k], E, L) /\ \A x \in IdSet(gg[k]) : x[3] = lb.ports[k]
    BY <2>1, GcpPortIs
  <2>5. gg = [k \in DOMAIN lb.ports |-> gg[k]]
    OBVIOUS
  <2>6. Covered(E, GcpFronts, IdSet(a)) /\ Apart(GcpHeadKinds, L)
    BY <2>3 DEF Covered, Apart, GcpHeadKinds
  <2> HIDE DEF lb, a, gg, E, L, ss
  <2>7. FrontPart(lb, a \o FlattenSeq(gg), GcpFronts, GcpHeadKinds \cup L)
    BY <2>1, <2>3, <2>4, <2>5, <2>6, WithPorts
  <2> QED
    BY <2>2, <2>7 DEF L, GcpKinds, lb
<1>3. ss = [i \in DOMAIN c |-> ss[i]]
  OBVIOUS
<1> HIDE DEF ss
<1>4. LET u == FlattenSeq(ss) IN Part(u, GcpFronts, GcpKinds, IdSet(u)) /\ Plain(u)
  BY <1>2, <1>3, AllFronts
<1> QED
  BY <1>1, <1>4

GcpNetworkIds == ({<<"network">>} \cup SubnetIds) \cup TierIds("fw")

LEMMA PulumiGcpIs ==
  ASSUME compute \in Plans
  PROVE  /\ Part(PulumiGcp, {}, ({"network", "subnet", "fw"} \cup {"inst"}) \cup GcpKinds, IdSet(PulumiGcp))
         /\ Yields(PulumiGcp, MachineRecords(InstId, Place), Disks(NoDisks), Exposed(IsOwn))
<1> DEFINE a == PulumiGcpNetwork
           b == GcpMachines(compute, NoRoles)
           c == PulumiGcpBalancers
           K == {"network", "subnet", "fw"}
           L == {"inst"}
           I == GcpNetworkIds
           J == LabelIds("inst")
           O == {}
           D == SubnetIds \cup O
           u == (a \o b) \o c
<1>1. PulumiGcp = u
  <2>1. \A i \in DOMAIN compute : NoRoles[compute[i]] = {}
    BY ComputeIsListing DEF NoRoles
  <2>2. b = FlattenSeq([i \in DOMAIN compute |-> GcpMachine(compute[i], NoRoles[compute[i]])])
    <3>1. \A m \in Range(compute) : NoRoles[m] \subseteq O
      BY DEF NoRoles
    <3> QED
      BY <3>1, ComputeIsListing, GcpMachinesAre
  <2>3. PulumiGcpInstances = FlattenSeq([i \in DOMAIN compute |-> GcpMachine(compute[i], NoRoles[compute[i]])])
    BY <2>1 DEF PulumiGcpInstances, Each
  <2> HIDE DEF b
  <2> QED
    BY <2>2, <2>3 DEF PulumiGcp
<1>2. Part(a, O, K, I) /\ Plain(a)
  BY PulumiGcpNetworkIs DEF GcpNetworkIds
<1>3. Part(b, D, L, J) /\ Yields(b, MachineRecords(InstId, Place), Disks(NoDisks), Exposed(IsOwn))
  <2>1. \A m \in Range(compute) : NoRoles[m] \subseteq O
    BY DEF NoRoles
  <2> QED
    BY <2>1, ComputeIsListing, GcpMachinesAre
<1>4. Part(c, GcpFronts, GcpKinds, IdSet(c)) /\ Plain(c)
  BY PulumiGcpBalancersAre
<1>5. Covered(D, O, I) /\ Covered(GcpFronts, O, I \cup J) /\ Apart(K, L) /\ Apart(K \cup L, GcpKinds)
  BY DEF Covered, Apart, GcpFronts, GcpNetworkIds, GcpKinds, GcpHeadKinds
<1> HIDE DEF a, b, c, K, L, I, J, O, D
<1>6. Part(u, O, (K \cup L) \cup GcpKinds, (I \cup J) \cup IdSet(c))
  BY <1>2, <1>3, <1>4, <1>5, JoinThree
<1>7. Yields(u, MachineRecords(InstId, Place), Disks(NoDisks), Exposed(IsOwn))
  BY <1>2, <1>3, <1>4, PlainAround
<1>8. IdSet(u) = (I \cup J) \cup IdSet(c)
  BY <1>6, PartIs
<1> QED
  BY <1>1, <1>6, <1>7, <1>8 DEF K, L, O

-----------------------------------------------------------------------------
(* The graph: what its edges say of a machine and of a balancer.              *)

MachineEdge(e) ==
  \E m \in Range(compute) : \/ e = Edge(InstanceId(m), <<"subnet", subnet_of(m.vm)>>, "placed_in")
                            \/ e = Edge(InstanceId(m), <<"sg", m.tier>>, "secured_by")

FrontEdge(e) ==
  \E lb \in Range(LoadBalancers) :
     \/ \E s \in Range(SubnetsOf(lb.tier)) : e = Edge(LbId(lb), <<"subnet", s.name>>, "placed_in")
     \/ e = Edge(LbId(lb), <<"sg", lb.group>>, "secured_by")
     \/ \E vm \in Range(lb.targets) : e = Edge(LbId(lb), InstanceId(Machine(vm)), "fronts")

\* Lists of one element each.
LEMMA RowRange ==
  ASSUME NEW s, Sequence(s), NEW f, DOMAIN f = DOMAIN s
  PROVE  /\ Sequence(FlattenSeq([i \in DOMAIN s |-> <<f[i]>>]))
         /\ Range(FlattenSeq([i \in DOMAIN s |-> <<f[i]>>])) = {f[i] : i \in DOMAIN s}
  BY RowIs DEF Row

LEMMA BalancerEdgesAre ==
  ASSUME compute \in Plans, NEW lb, Sound(lb)
  PROVE  /\ Sequence(BalancerEdges(lb))
         /\ \A e : e \in Range(BalancerEdges(lb)) <=>
               \/ \E s \in Range(SubnetsOf(lb.tier)) : e = Edge(LbId(lb), <<"subnet", s.name>>, "placed_in")
               \/ e = Edge(LbId(lb), <<"sg", lb.group>>, "secured_by")
               \/ \E vm \in Range(lb.targets) : e = Edge(LbId(lb), InstanceId(Machine(vm)), "fronts")
<1> DEFINE s == SubnetsOf(lb.tier)
           v == lb.targets
           f == [i \in DOMAIN s |-> Edge(LbId(lb), <<"subnet", s[i].name>>, "placed_in")]
           g == [i \in DOMAIN v |-> Edge(LbId(lb), InstanceId(Machine(v[i])), "fronts")]
           x == Edge(LbId(lb), <<"sg", lb.group>>, "secured_by")
           a == FlattenSeq([i \in DOMAIN s |-> <<f[i]>>])
           b == <<x>>
           c == FlattenSeq([i \in DOMAIN v |-> <<g[i]>>])
           u == (a \o b) \o c
<1>1. BalancerEdges(lb) = u
  BY DEF BalancerEdges, Each
<1>2. Sequence(s) /\ Sequence(v)
  BY SubnetsOfIs DEF Sound
<1>3. /\ DOMAIN f = DOMAIN s /\ \A i \in DOMAIN s : f[i] = Edge(LbId(lb), <<"subnet", s[i].name>>, "placed_in")
      /\ DOMAIN g = DOMAIN v /\ \A i \in DOMAIN v : g[i] = Edge(LbId(lb), InstanceId(Machine(v[i])), "fronts")
  OBVIOUS
<1> HIDE DEF f, g, x, s, v
<1>4. Sequence(a) /\ Range(a) = {f[i] : i \in DOMAIN s}
  BY <1>2, <1>3, RowRange
<1>5. Sequence(c) /\ Range(c) = {g[i] : i \in DOMAIN v}
  BY <1>2, <1>3, RowRange
<1>6. Sequence(b) /\ Range(b) = {x}
  BY NoneAndOne
<1> HIDE DEF a, b, c
<1>7. Sequence(a \o b) /\ Range(a \o b) = Range(a) \cup Range(b)
  BY <1>4, <1>6, Joined
<1>8. Sequence(u) /\ Range(u) = Range(a \o b) \cup Range(c)
  BY <1>5, <1>7, Joined
<1> HIDE DEF u
<1>9. \A e : e \in Range(a) <=> \E t \in Range(s) : e = Edge(LbId(lb), <<"subnet", t.name>>, "placed_in")
  <2>1. \A i \in DOMAIN s : s[i] \in Range(s)
    BY RangeIs
  <2>2. \A t \in Range(s) : \E i \in DOMAIN s : s[i] = t
    BY RangeIs
  <2>3. ASSUME NEW e, e \in Range(a) PROVE \E t \in Range(s) : e = Edge(LbId(lb), <<"subnet", t.name>>, "placed_in")
    <3>1. PICK i \in DOMAIN s : e = f[i]
      BY <1>4, <2>3
    <3> QED
      BY <1>3, <2>1, <3>1
  <2>4. ASSUME NEW t \in Range(s) PROVE Edge(LbId(lb), <<"subnet", t.name>>, "placed_in") \in Range(a)
    <3>1. PICK i \in DOMAIN s : s[i] = t
      BY <2>2
    <3>2. f[i] = Edge(LbId(lb), <<"subnet", t.name>>, "placed_in")
      BY <1>3, <3>1
    <3> QED
      BY <1>4, <3>2
  <2> QED
    BY <2>3, <2>4
<1>10. \A e : e \in Range(c) <=> \E vm \in Range(v) : e = Edge(LbId(lb), InstanceId(Machine(vm)), "fronts")
  <2>1. \A i \in DOMAIN v : v[i] \in Range(v)
    BY RangeIs
  <2>2. \A vm \in Range(v) : \E i \in DOMAIN v : v[i] = vm
    BY RangeIs
  <2> QED
    BY <1>3, <1>5, <2>1, <2>2
<1> QED
  BY <1>1, <1>6, <1>7, <1>8, <1>9, <1>10 DEF s, v, x

LEMMA EdgesAre ==
  ASSUME compute \in Plans
  PROVE  /\ Sequence(build_graph.edges)
         /\ \A e : e \in Range(build_graph.edges) <=> MachineEdge(e) \/ FrontEdge(e)
<1> DEFINE c == compute
           d == LoadBalancers
           ss == [i \in DOMAIN c |-> InstanceEdges(c[i])]
           tt == [i \in DOMAIN d |-> BalancerEdges(d[i])]
           a == FlattenSeq(ss)
           b == FlattenSeq(tt)
           u == a \o b
<1>1. build_graph.edges = u
  BY DEF build_graph, Each
<1>2. Sequence(c) /\ Sequence(d) /\ \A i \in DOMAIN d : Sound(d[i]) /\ d[i] \in Range(d)
  BY EstateIs, BalancersAre, RangeIs
<1>3. \A i \in DOMAIN c : Sequence(ss[i]) /\ \A e : e \in Range(ss[i]) <=>
            \/ e = Edge(InstanceId(c[i]), <<"subnet", subnet_of(c[i].vm)>>, "placed_in")
            \/ e = Edge(InstanceId(c[i]), <<"sg", c[i].tier>>, "secured_by")
  <2> SUFFICES ASSUME NEW i \in DOMAIN c PROVE Sequence(ss[i]) /\ \A e : e \in Range(ss[i]) <=>
            \/ e = Edge(InstanceId(c[i]), <<"subnet", subnet_of(c[i].vm)>>, "placed_in")
            \/ e = Edge(InstanceId(c[i]), <<"sg", c[i].tier>>, "secured_by")
    OBVIOUS
  <2> DEFINE x == Edge(InstanceId(c[i]), <<"subnet", subnet_of(c[i].vm)>>, "placed_in")
             y == Edge(InstanceId(c[i]), <<"sg", c[i].tier>>, "secured_by")
  <2>1. ss[i] = <<x, y>>
    BY DEF InstanceEdges
  <2> HIDE DEF x, y, ss
  <2>2. Sequence(<<x, y>>) /\ Range(<<x, y>>) = {x, y}
    BY TwoIs
  <2> QED
    BY <2>1, <2>2 DEF x, y
<1>4. \A i \in DOMAIN d : tt[i] = BalancerEdges(d[i])
  OBVIOUS
<1>5. ss = [i \in DOMAIN c |-> ss[i]] /\ tt = [i \in DOMAIN d |-> tt[i]]
  OBVIOUS
<1> HIDE DEF ss, tt
<1>6. Sequence(ss) /\ DOMAIN ss = DOMAIN c /\ Sequence(tt) /\ DOMAIN tt = DOMAIN d
  BY <1>2, <1>5, MapIs
<1>7. \A i \in DOMAIN d : Sequence(tt[i])
  BY <1>2, <1>4, BalancerEdgesAre
<1>8. Sequence(a) /\ Range(a) = UNION {Range(ss[i]) : i \in DOMAIN c}
  BY <1>3, <1>6, FlattenRange
<1>9. Sequence(b) /\ Range(b) = UNION {Range(tt[i]) : i \in DOMAIN d}
  BY <1>6, <1>7, FlattenRange
<1> HIDE DEF a, b
<1>10. Sequence(u) /\ Range(u) = Range(a) \cup Range(b)
  BY <1>8, <1>9, Joined
<1> HIDE DEF u
<1>11. \A e : e \in Range(a) <=> MachineEdge(e)
  <2>1. \A e : e \in Range(a) <=> \E i \in DOMAIN c : e \in Range(ss[i])
    BY <1>8
  <2>2. \A m \in Range(c) : \E i \in DOMAIN c : c[i] = m
    BY RangeIs
  <2>3. \A i \in DOMAIN c : c[i] \in Range(c)
    BY RangeIs
  <2> HIDE DEF c
  <2>4. ASSUME NEW e, e \in Range(a) PROVE MachineEdge(e)
    <3>1. PICK i \in DOMAIN c : e \in Range(ss[i])
      BY <2>1, <2>4
    <3> DEFINE m == c[i]
    <3>2. /\ m \in Range(c)
          /\ \/ e = Edge(InstanceId(m), <<"subnet", subnet_of(m.vm)>>, "placed_in")
             \/ e = Edge(InstanceId(m), <<"sg", m.tier>>, "secured_by")
      BY <1>3, <2>3, <3>1
    <3> HIDE DEF m
    <3> QED
      BY <3>2 DEF MachineEdge, c
  <2>5. ASSUME NEW e, MachineEdge(e) PROVE e \in Range(a)
    <3>1. PICK m \in Range(c) : \/ e = Edge(InstanceId(m), <<"subnet", subnet_of(m.vm)>>, "placed_in")
                                \/ e = Edge(InstanceId(m), <<"sg", m.tier>>, "secured_by")
      BY <2>5 DEF MachineEdge, c
    <3>2. PICK i \in DOMAIN c : c[i] = m
      BY <2>2
    <3>3. e \in Range(ss[i])
      BY <1>3, <3>1, <3>2
    <3> QED
      BY <2>1, <3>3
  <2> QED
    BY <2>4, <2>5
<1>12. \A e : e \in Range(b) <=> FrontEdge(e)
  <2>1. \A e : e \in Range(b) <=> \E i \in DOMAIN d : e \in Range(tt[i])
    BY <1>9
  <2>2. \A lb \in Range(d) : \E i \in DOMAIN d : d[i] = lb
    BY RangeIs
  <2> HIDE DEF d
  <2>4. ASSUME NEW e, e \in Range(b) PROVE FrontEdge(e)
    <3>1. PICK i \in DOMAIN d : e \in Range(tt[i])
      BY <2>1, <2>4
    <3> DEFINE lb == d[i]
    <3>2. lb \in Range(d) /\ Sound(lb) /\ e \in Range(BalancerEdges(lb))
      BY <1>2, <1>4, <3>1
    <3> HIDE DEF lb
    <3>3. \/ \E s \in Range(SubnetsOf(lb.tier)) : e = Edge(LbId(lb), <<"subnet", s.name>>, "placed_in")
          \/ e = Edge(LbId(lb), <<"sg", lb.group>>, "secured_by")
          \/ \E vm \in Range(lb.targets) : e = Edge(LbId(lb), InstanceId(Machine(vm)), "fronts")
      BY <3>2, BalancerEdgesAre
    <3> QED
      BY <3>2, <3>3 DEF FrontEdge, d
  <2>5. ASSUME NEW e, FrontEdge(e) PROVE e \in Range(b)
    <3>1. PICK lb \in Range(d) :
             \/ \E s \in Range(SubnetsOf(lb.tier)) : e = Edge(LbId(lb), <<"subnet", s.name>>, "placed_in")
             \/ e = Edge(LbId(lb), <<"sg", lb.group>>, "secured_by")
             \/ \E vm \in Range(lb.targets) : e = Edge(LbId(lb), InstanceId(Machine(vm)), "fronts")
      BY <2>5 DEF FrontEdge, d
    <3>2. PICK i \in DOMAIN d : d[i] = lb
      BY <2>2
    <3>3. Sound(lb) /\ tt[i] = BalancerEdges(lb)
      BY <1>2, <1>4, <3>2
    <3>4. e \in Range(BalancerEdges(lb))
      BY <3>1, <3>3, BalancerEdgesAre
    <3> QED
      BY <2>1, <3>3, <3>4
  <2> QED
    BY <2>4, <2>5
<1> QED
  BY <1>1, <1>10, <1>11, <1>12

LEMMA OutEdgesAre ==
  ASSUME compute \in Plans, graph = build_graph, NEW id, NEW kind
  PROVE  LET es == out_edges(id, kind) IN
         /\ Sequence(es)
         /\ \A e : e \in Range(es) <=> (MachineEdge(e) \/ FrontEdge(e)) /\ e.source = id /\ e.kind = kind
<1> DEFINE s == graph.edges
           T == {e \in Range(s) : e.source = id /\ e.kind = kind}
           u == out_edges(id, kind)
           ss == [i \in DOMAIN s |-> IF s[i] \in T THEN <<s[i]>> ELSE <<>>]
<1>0. Sequence(s)
  BY EdgesAre
<1>1. \A e : e \in Range(s) <=> MachineEdge(e) \/ FrontEdge(e)
  BY EdgesAre
<1>2. \A i \in DOMAIN s : s[i] \in T <=> s[i].source = id /\ s[i].kind = kind
  BY RangeIs
<1>3. u = FlattenSeq([i \in DOMAIN s |-> IF s[i].source = id /\ s[i].kind = kind THEN <<s[i]>> ELSE <<>>])
  BY DEF out_edges, Only, Each, When
<1> HIDE DEF s
<1>4. ss = [i \in DOMAIN s |-> IF s[i].source = id /\ s[i].kind = kind THEN <<s[i]>> ELSE <<>>]
  BY <1>2
<1>5. u = FlattenSeq(ss)
  BY <1>3, <1>4
<1> HIDE DEF T, u
<1>6. Sequence(u) /\ Range(u) = Range(s) \cap T
  BY <1>0, <1>5, ChosenAre, ZenonT(60)
<1> QED
  BY <1>1, <1>6 DEF u, T

\* A list of edges that all say the same of an identifier.
LEMMA OneTarget ==
  ASSUME NEW es, Sequence(es), NEW x, \E e : e \in Range(es), \A e \in Range(es) : e.target[2] = x,
         NEW u, u = [i \in DOMAIN es |-> es[i].target[2]]
  PROVE  u[1] = x /\ Range(u) = {x} /\ u # <<>>
<1>1. \A i \in DOMAIN es : u[i] = x
  BY RangeIs
<1>2. Len(es) \in Nat /\ DOMAIN es = 1..Len(es) /\ DOMAIN u = DOMAIN es
  BY SequenceIs
<1>3. \E i : i \in DOMAIN es
  BY RangeIs
<1>4. 1 \in DOMAIN es
  BY <1>2, <1>3
<1>5. u[1] = x /\ Range(u) = {x}
  BY <1>1, <1>2, <1>4 DEF Range
<1>6. u # <<>>
  BY <1>2, <1>4, NoneAndOne
<1> QED
  BY <1>5, <1>6

LEMMA MachineEdgesAre ==
  ASSUME compute \in Plans, graph = build_graph, NEW m \in Range(compute)
  PROVE  /\ placed_in(InstanceId(m))[1] = subnet_of(m.vm) /\ Range(placed_in(InstanceId(m))) = {subnet_of(m.vm)}
         /\ secured_by(InstanceId(m))[1] = m.tier /\ Range(secured_by(InstanceId(m))) = {m.tier}
<1>1. \A e : MachineEdge(e) /\ e.source = InstanceId(m) /\ e.kind = "placed_in"
             => e = Edge(InstanceId(m), <<"subnet", subnet_of(m.vm)>>, "placed_in")
  <2> SUFFICES ASSUME NEW e, MachineEdge(e), e.source = InstanceId(m), e.kind = "placed_in"
               PROVE  e = Edge(InstanceId(m), <<"subnet", subnet_of(m.vm)>>, "placed_in")
    OBVIOUS
  <2>1. PICK n \in Range(compute) : \/ e = Edge(InstanceId(n), <<"subnet", subnet_of(n.vm)>>, "placed_in")
                                    \/ e = Edge(InstanceId(n), <<"sg", n.tier>>, "secured_by")
    BY DEF MachineEdge
  <2>2. e = Edge(InstanceId(n), <<"subnet", subnet_of(n.vm)>>, "placed_in")
    BY <2>1 DEF Edge
  <2>3. InstanceId(n) = InstanceId(m)
    BY <2>2 DEF Edge
  <2>4. n = m
    BY <2>3, EstateIs DEF InstanceId
  <2> QED
    BY <2>2, <2>4
<1>2. \A e : MachineEdge(e) /\ e.source = InstanceId(m) /\ e.kind = "secured_by"
             => e = Edge(InstanceId(m), <<"sg", m.tier>>, "secured_by")
  <2> SUFFICES ASSUME NEW e, MachineEdge(e), e.source = InstanceId(m), e.kind = "secured_by"
               PROVE  e = Edge(InstanceId(m), <<"sg", m.tier>>, "secured_by")
    OBVIOUS
  <2>1. PICK n \in Range(compute) : \/ e = Edge(InstanceId(n), <<"subnet", subnet_of(n.vm)>>, "placed_in")
                                    \/ e = Edge(InstanceId(n), <<"sg", n.tier>>, "secured_by")
    BY DEF MachineEdge
  <2>2. e = Edge(InstanceId(n), <<"sg", n.tier>>, "secured_by")
    BY <2>1 DEF Edge
  <2>3. InstanceId(n) = InstanceId(m)
    BY <2>2 DEF Edge
  <2>4. n = m
    BY <2>3, EstateIs DEF InstanceId
  <2> QED
    BY <2>2, <2>4
<1>3. \A e : FrontEdge(e) => e.source # InstanceId(m)
  BY DEF FrontEdge, Edge, InstanceId, LbId
<1> DEFINE x == subnet_of(m.vm)
           p == Edge(InstanceId(m), <<"subnet", subnet_of(m.vm)>>, "placed_in")
           q == Edge(InstanceId(m), <<"sg", m.tier>>, "secured_by")
           es == out_edges(InstanceId(m), "placed_in")
           fs == out_edges(InstanceId(m), "secured_by")
<1>4. /\ p.source = InstanceId(m) /\ p.kind = "placed_in" /\ p.target[2] = x /\ MachineEdge(p)
      /\ q.source = InstanceId(m) /\ q.kind = "secured_by" /\ q.target[2] = m.tier /\ MachineEdge(q)
  BY DEF MachineEdge, Edge
<1> HIDE DEF p, q, x
<1>5. Sequence(es) /\ (\E e : e \in Range(es)) /\ \A e \in Range(es) : e.target[2] = x
  BY <1>1, <1>3, <1>4, OutEdgesAre DEF p
<1>6. Sequence(fs) /\ (\E e : e \in Range(fs)) /\ \A e \in Range(fs) : e.target[2] = m.tier
  BY <1>2, <1>3, <1>4, OutEdgesAre DEF q
<1>7. /\ placed_in(InstanceId(m)) = [i \in DOMAIN es |-> es[i].target[2]]
      /\ secured_by(InstanceId(m)) = [i \in DOMAIN fs |-> fs[i].target[2]]
  BY DEF placed_in, secured_by
<1> HIDE DEF es, fs
<1>8. placed_in(InstanceId(m))[1] = x /\ Range(placed_in(InstanceId(m))) = {x}
  BY <1>5, <1>7, OneTarget
<1>9. secured_by(InstanceId(m))[1] = m.tier /\ Range(secured_by(InstanceId(m))) = {m.tier}
  <2> DEFINE y == m.tier
             u == secured_by(InstanceId(m))
  <2>1. u = [i \in DOMAIN fs |-> fs[i].target[2]] /\ \A e \in Range(fs) : e.target[2] = y
    BY <1>6, <1>7
  <2> HIDE DEF y, u
  <2>2. u[1] = y /\ Range(u) = {y}
    BY <1>6, <2>1, OneTarget, SMTT(30)
  <2> QED
    BY <2>2 DEF y, u
<1> QED
  BY <1>8, <1>9 DEF x

LEMMA FrontEdgesAre ==
  ASSUME compute \in Plans, graph = build_graph, NEW lb \in Range(LoadBalancers)
  PROVE  /\ Range(placed_in(LbId(lb))) = NamesOf(SubnetsOf(lb.tier)) /\ placed_in(LbId(lb)) # <<>>
         /\ <<"subnet", placed_in(LbId(lb))[1]>> \in SubnetIds
         /\ Range(secured_by(LbId(lb))) = {lb.group}
         /\ Range(fronts(LbId(lb))) = Range(lb.targets)
<1>0. Sound(lb)
  BY BalancersAre
<1>1. \A e : ~(MachineEdge(e) /\ e.source = LbId(lb))
  BY DEF MachineEdge, Edge, InstanceId, LbId
<1>2. \A a \in Range(LoadBalancers) : LbId(a) = LbId(lb) => a = lb
  <2> SUFFICES ASSUME NEW a \in Range(LoadBalancers), LbId(a) = LbId(lb) PROVE a = lb
    OBVIOUS
  <2>1. a.name = lb.name
    BY DEF LbId
  <2>2. PICK i \in DOMAIN LoadBalancers : LoadBalancers[i] = a
    BY RangeIs
  <2>3. PICK j \in DOMAIN LoadBalancers : LoadBalancers[j] = lb
    BY RangeIs
  <2> QED
    BY <2>1, <2>2, <2>3, BalancersAre
<1> DEFINE A(e) == \E s \in Range(SubnetsOf(lb.tier)) : e = Edge(LbId(lb), <<"subnet", s.name>>, "placed_in")
           B(e) == e = Edge(LbId(lb), <<"sg", lb.group>>, "secured_by")
           C(e) == \E vm \in Range(lb.targets) : e = Edge(LbId(lb), InstanceId(Machine(vm)), "fronts")
           ps == out_edges(LbId(lb), "placed_in")
           ss == out_edges(LbId(lb), "secured_by")
           fs == out_edges(LbId(lb), "fronts")
<1>3. ASSUME NEW e PROVE (A(e) => e.kind = "placed_in") /\ (B(e) => e.kind = "secured_by") /\ (C(e) => e.kind = "fronts")
  BY DEF Edge
<1>3a. ASSUME NEW e PROVE FrontEdge(e) /\ e.source = LbId(lb) <=> A(e) \/ B(e) \/ C(e)
  <2>1. ASSUME FrontEdge(e), e.source = LbId(lb) PROVE A(e) \/ B(e) \/ C(e)
    <3>1. PICK a \in Range(LoadBalancers) :
             \/ \E s \in Range(SubnetsOf(a.tier)) : e = Edge(LbId(a), <<"subnet", s.name>>, "placed_in")
             \/ e = Edge(LbId(a), <<"sg", a.group>>, "secured_by")
             \/ \E vm \in Range(a.targets) : e = Edge(LbId(a), InstanceId(Machine(vm)), "fronts")
      BY <2>1 DEF FrontEdge
    <3>2. e.source = LbId(a)
      BY <3>1 DEF Edge
    <3>3. a = lb
      BY <1>2, <2>1, <3>2
    <3> QED
      BY <3>1, <3>3
  <2>2. A(e) \/ B(e) \/ C(e) => FrontEdge(e)
    BY DEF FrontEdge
  <2>3. A(e) \/ B(e) \/ C(e) => e.source = LbId(lb)
    BY DEF Edge
  <2> QED
    BY <2>1, <2>2, <2>3
<1> HIDE DEF A, B, C
<1>4. Sequence(ps) /\ \A e : e \in Range(ps) <=> A(e)
  BY <1>1, <1>3, <1>3a, OutEdgesAre
<1>5. Sequence(ss) /\ \A e : e \in Range(ss) <=> B(e)
  BY <1>1, <1>3, <1>3a, OutEdgesAre
<1>6. Sequence(fs) /\ \A e : e \in Range(fs) <=> C(e)
  BY <1>1, <1>3, <1>3a, OutEdgesAre
<1>7. /\ placed_in(LbId(lb)) = [i \in DOMAIN ps |-> ps[i].target[2]]
      /\ secured_by(LbId(lb)) = [i \in DOMAIN ss |-> ss[i].target[2]]
      /\ fronts(LbId(lb)) = [i \in DOMAIN fs |-> node(fs[i].target).m.vm]
  BY DEF placed_in, secured_by, fronts
<1> HIDE DEF ps, ss, fs
<1>8. Range(placed_in(LbId(lb))) = NamesOf(SubnetsOf(lb.tier))
  <2>1. \A s : Edge(LbId(lb), <<"subnet", s.name>>, "placed_in").target[2] = s.name
    BY DEF Edge
  <2>2. Range(placed_in(LbId(lb))) = {e.target[2] : e \in Range(ps)}
    BY <1>7 DEF Range
  <2>3. \A x : x \in NamesOf(SubnetsOf(lb.tier)) <=> \E s \in Range(SubnetsOf(lb.tier)) : x = s.name
    BY DEF NamesOf
  <2>4. \A x \in NamesOf(SubnetsOf(lb.tier)) : x \in Range(placed_in(LbId(lb)))
    <3> SUFFICES ASSUME NEW x \in NamesOf(SubnetsOf(lb.tier)) PROVE x \in Range(placed_in(LbId(lb)))
      OBVIOUS
    <3>1. PICK s \in Range(SubnetsOf(lb.tier)) : x = s.name
      BY <2>3
    <3> DEFINE e == Edge(LbId(lb), <<"subnet", s.name>>, "placed_in")
    <3>2. A(e) /\ e.target[2] = x
      BY <2>1, <3>1 DEF A
    <3> HIDE DEF e
    <3>3. e \in Range(ps)
      BY <1>4, <3>2
    <3> QED
      BY <2>2, <3>2, <3>3
  <2>5. \A e \in Range(ps) : e.target[2] \in NamesOf(SubnetsOf(lb.tier))
    <3> SUFFICES ASSUME NEW e \in Range(ps) PROVE e.target[2] \in NamesOf(SubnetsOf(lb.tier))
      OBVIOUS
    <3>1. A(e)
      BY <1>4
    <3>2. PICK s \in Range(SubnetsOf(lb.tier)) : e = Edge(LbId(lb), <<"subnet", s.name>>, "placed_in")
      BY <3>1 DEF A
    <3> QED
      BY <2>1, <2>3, <3>2
  <2> QED
    BY <2>2, <2>4, <2>5
<1>9. placed_in(LbId(lb)) # <<>> /\ placed_in(LbId(lb))[1] \in NamesOf(SubnetsOf(lb.tier))
  <2>1. PICK s \in Range(SubnetsOf(lb.tier)) : TRUE
    BY <1>0, SubnetsOfIs DEF Sound
  <2>2. \E i : i \in DOMAIN ps
    BY <1>4, <2>1, RangeIs DEF A
  <2>3. 1 \in DOMAIN ps /\ DOMAIN placed_in(LbId(lb)) = DOMAIN ps
    BY <1>4, <1>7, <2>2, SequenceIs
  <2> QED
    BY <1>8, <2>3, NoneAndOne, RangeIs
<1>10. <<"subnet", placed_in(LbId(lb))[1]>> \in SubnetIds
  <2>1. <<"subnet", placed_in(LbId(lb))[1]>> \in Ids("subnet", NamesOf(SubnetsOf(lb.tier)))
    BY <1>9 DEF Ids
  <2> QED
    BY <1>0, <2>1, BalancerNeeds
<1>11. Range(secured_by(LbId(lb))) = {lb.group}
  <2>1. Edge(LbId(lb), <<"sg", lb.group>>, "secured_by").target[2] = lb.group
    BY DEF Edge
  <2>2. Range(secured_by(LbId(lb))) = {e.target[2] : e \in Range(ss)}
    BY <1>7 DEF Range
  <2> QED
    BY <1>5, <2>1, <2>2 DEF B
<1>12. Range(fronts(LbId(lb))) = Range(lb.targets)
  <2>1. \A vm \in Range(lb.targets) :
           node(Edge(LbId(lb), InstanceId(Machine(vm)), "fronts").target).m.vm = vm
    <3> SUFFICES ASSUME NEW vm \in Range(lb.targets) PROVE node(InstanceId(Machine(vm))).m.vm = vm
      BY DEF Edge
    <3>1. PICK m \in Range(compute) : m.vm = vm
      BY <1>0 DEF Sound
    <3>2. Machine(vm) = m
      BY <3>1, EstateIs
    <3>3. PICK i \in DOMAIN compute : compute[i] = m
      BY RangeIs
    <3> DEFINE ns == graph.nodes
    <3>4. DOMAIN ns = DOMAIN compute /\ \A j \in DOMAIN compute : ns[j].id = InstanceId(compute[j]) /\ ns[j].m = compute[j]
      BY DEF build_graph
    <3> HIDE DEF ns
    <3>5. \A j \in DOMAIN compute : ns[j].id = InstanceId(m) => j = i
      <4> SUFFICES ASSUME NEW j \in DOMAIN compute, InstanceId(compute[j]) = InstanceId(m) PROVE j = i
        BY <3>4
      <4>1. compute[j] = m
        BY EstateIs, RangeIs DEF InstanceId
      <4> QED
        BY <3>3, <4>1, EstateIs DEF Once
    <3>6. ns[i].id = InstanceId(m) /\ ns[i].m = m
      BY <3>3, <3>4
    <3>7. (CHOOSE j \in DOMAIN ns : ns[j].id = InstanceId(m)) = i
      BY <3>4, <3>5, <3>6
    <3>8. node(InstanceId(m)) = ns[i]
      BY <3>7 DEF node, ns
    <3> QED
      BY <3>1, <3>2, <3>6, <3>8
  <2>2. Range(fronts(LbId(lb))) = {node(e.target).m.vm : e \in Range(fs)}
    BY <1>7 DEF Range
  <2> QED
    BY <1>6, <2>1, <2>2 DEF C
<1> QED
  BY <1>8, <1>9, <1>10, <1>11, <1>12

-----------------------------------------------------------------------------
(* Bicep.                                                                     *)

LEMMA LooseMachines ==
  ASSUME compute \in Plans, NEW c, Listing(c), NEW ss, ss = [i \in DOMAIN c |-> ss[i]], NEW D,
         NEW id, NEW at, NEW n, NEW pub,
         \A i \in DOMAIN c : Loose(ss[i], D, IdSet(ss[i])),
         \A i \in DOMAIN c : Adds(ss[i], c[i], id, at, n, pub)
  PROVE  LET u == FlattenSeq(ss) IN
         Loose(u, D, IdSet(u)) /\ Yields(u, MachineRecords(id, at), Disks(n), Exposed(pub))
<1> DEFINE u == FlattenSeq(ss)
           I == UNION {IdSet(ss[i]) : i \in DOMAIN c}
<1>1. Sequence(c)
  BY DEF Listing
<1>2. Loose(u, D, I)
  BY <1>1, LooseParts
<1>3. Yields(u, MachineRecords(id, at), Disks(n), Exposed(pub))
  BY MachineYields
<1>4. IdSet(u) = I
  BY <1>2 DEF Loose
<1> HIDE DEF u, I
<1> QED
  BY <1>2, <1>3, <1>4 DEF u

BicepNeeds == {<<"vnet">>} \cup SubnetIds
BicepId == [m \in Range(compute) |-> <<"vm", CamelOf[LabelOf[m.vm]]>>]
BalancerIds == {<<"lb", lb.name>> : lb \in Range(LoadBalancers)}

BicepBalancer(lb) ==
  IF lb.tier = "public" THEN <<R(<<"pip", lb.name>>, {}), R(LbId(lb), {<<"pip", lb.name>>})>>
  ELSE <<R(LbId(lb), {IF placed_in(LbId(lb)) = <<>> THEN <<"vnet">> ELSE <<"subnet", placed_in(LbId(lb))[1]>>})>>

LEMMA BicepBalancersAre ==
  ASSUME compute \in Plans, graph = build_graph
  PROVE  LET u == BicepBalancers IN
         Part(u, BicepNeeds, {"pip", "lb"}, IdSet(u)) /\ Plain(u) /\ BalancerIds \subseteq IdSet(u)
<1> DEFINE c == LoadBalancers
           ss == [i \in DOMAIN c |-> BicepBalancer(c[i])]
           K == {"pip", "lb"}
<1>1. BicepBalancers = FlattenSeq(ss)
  BY DEF BicepBalancers, BicepBalancer, Each
<1>2. \A lb \in Range(c) : /\ FrontPart(lb, BicepBalancer(lb), BicepNeeds, K)
                           /\ <<"lb", lb.name>> \in IdSet(BicepBalancer(lb))
  <2> SUFFICES ASSUME NEW lb \in Range(c)
               PROVE  FrontPart(lb, BicepBalancer(lb), BicepNeeds, K) /\ <<"lb", lb.name>> \in IdSet(BicepBalancer(lb))
    OBVIOUS
  <2> DEFINE i == <<"pip", lb.name>>
             j == <<"lb", lb.name>>
             u == BicepBalancer(lb)
  <2>1. i[1] = "pip" /\ j[1] = "lb" /\ i[2] = lb.name /\ j[2] = lb.name /\ i[1] # j[1]
    OBVIOUS
  <2>2. CASE lb.tier = "public"
    <3> DEFINE O == {}
               X == {i}
               v == <<R(i, O), R(j, X)>>
    <3>1. u = v
      BY <2>2 DEF BicepBalancer, LbId
    <3>2. O \subseteq BicepNeeds /\ X \subseteq BicepNeeds \cup {i}
      OBVIOUS
    <3> HIDE DEF i, j, O, X
    <3>3. Part(v, BicepNeeds, K, {i, j}) /\ Plain(v)
      BY <2>1, <3>2, PlainTwo
    <3>4. IdSet(v) = {i, j}
      BY <3>3, PartIs
    <3> HIDE DEF u, v, K
    <3>5. FrontPart(lb, u, BicepNeeds, K) /\ j \in IdSet(u)
      BY <2>1, <3>1, <3>3, <3>4 DEF FrontPart
    <3> QED
      BY <3>5 DEF u, j
  <2>3. CASE lb.tier # "public"
    <3> DEFINE X == {IF placed_in(LbId(lb)) = <<>> THEN <<"vnet">> ELSE <<"subnet", placed_in(LbId(lb))[1]>>}
               v == <<R(j, X)>>
    <3>1. u = v
      BY <2>3 DEF BicepBalancer, LbId
    <3>2. X \subseteq BicepNeeds
      BY FrontEdgesAre DEF BicepNeeds
    <3> HIDE DEF i, j, X
    <3>3. Part(v, BicepNeeds, {"lb"}, {j}) /\ Plain(v)
      BY <2>1, <3>2, PlainOne
    <3>4. BicepNeeds \subseteq BicepNeeds /\ {"lb"} \subseteq K
      OBVIOUS
    <3>5. Part(v, BicepNeeds, K, {j})
      BY <3>3, <3>4, MoreNeeded
    <3>6. IdSet(v) = {j}
      BY <3>5, PartIs
    <3> HIDE DEF u, v, K
    <3>7. FrontPart(lb, u, BicepNeeds, K) /\ j \in IdSet(u)
      BY <2>1, <3>1, <3>3, <3>5, <3>6 DEF FrontPart
    <3> QED
      BY <3>7 DEF u, j
  <2> QED
    BY <2>2, <2>3
<1>3. ss = [i \in DOMAIN c |-> ss[i]] /\ \A i \in DOMAIN c : ss[i] = BicepBalancer(c[i]) /\ c[i] \in Range(c)
  BY RangeIs
<1> HIDE DEF ss, K
<1>4. \A i \in DOMAIN c : FrontPart(c[i], ss[i], BicepNeeds, K)
  BY <1>2, <1>3
<1>5. LET u == FlattenSeq(ss) IN
      /\ Part(u, BicepNeeds, K, IdSet(u)) /\ Plain(u)
      /\ \A i \in DOMAIN c : IdSet(ss[i]) \subseteq IdSet(u)
  BY <1>3, <1>4, AllFronts
<1>6. \A lb \in Range(c) : <<"lb", lb.name>> \in IdSet(FlattenSeq(ss))
  <2> SUFFICES ASSUME NEW lb \in Range(c) PROVE <<"lb", lb.name>> \in IdSet(FlattenSeq(ss))
    OBVIOUS
  <2>1. PICK i \in DOMAIN c : c[i] = lb
    BY RangeIs
  <2>2. <<"lb", lb.name>> \in IdSet(ss[i])
    BY <1>2, <1>3, <2>1
  <2> QED
    BY <1>5, <2>1, <2>2
<1> QED
  BY <1>1, <1>5, <1>6 DEF K, BalancerIds

LEMMA PoolsAre ==
  ASSUME compute \in Plans, graph = build_graph, NEW vm
  PROVE  Pools(vm) \subseteq BalancerIds /\ (Pools(vm) = {} <=> vm \notin Fronted)
<1>1. \A lb \in Range(LoadBalancers) : vm \in Range(fronts(LbId(lb))) <=> vm \in Range(lb.targets)
  BY FrontEdgesAre
<1>2. Pools(vm) = {<<"lb", lb.name>> : lb \in {b \in Range(LoadBalancers) : vm \in Range(b.targets)}}
  BY <1>1 DEF Pools
<1>3. vm \in Fronted <=> \E lb \in Range(LoadBalancers) : vm \in Range(lb.targets)
  BY FrontedIs
<1> QED
  BY <1>2, <1>3 DEF BalancerIds

BicepMachineNeeds == (SubnetIds \cup TierIds("nsg")) \cup BalancerIds

BicepMachine(m) ==
  When(OwnAddress(m), <<R(<<"pip", CamelOf[LabelOf[m.vm]]>>, {})>>)
  \o <<R(<<"nic", CamelOf[LabelOf[m.vm]]>>,
         {<<"subnet", subnet_of(m.vm)>>, <<"nsg", m.tier>>} \cup Pools(m.vm)
         \cup IF OwnAddress(m) THEN {<<"pip", CamelOf[LabelOf[m.vm]]>>} ELSE {}),
       VM(<<"vm", CamelOf[LabelOf[m.vm]]>>, {<<"nic", CamelOf[LabelOf[m.vm]]>>}, m, subnet_of(m.vm), {}, OwnAddress(m))>>

LEMMA BicepMachineIs ==
  ASSUME compute \in Plans, graph = build_graph, NEW m \in Range(compute)
  PROVE  LET u == BicepMachine(m) IN
         Loose(u, BicepMachineNeeds, IdSet(u)) /\ Adds(u, m, BicepId, Place, NoDisks, IsOwn)
<1> DEFINE l == CamelOf[LabelOf[m.vm]]
           b == OwnAddress(m)
           i == <<"pip", l>>
           j == <<"nic", l>>
           k == <<"vm", l>>
           O == {}
           X == {<<"subnet", subnet_of(m.vm)>>, <<"nsg", m.tier>>} \cup Pools(m.vm) \cup IF b THEN {i} ELSE {}
           Y == {j}
           P == IF b THEN {i} ELSE {}
           at == subnet_of(m.vm)
           s == When(b, <<R(i, O)>>)
           t == <<R(j, X)>>
           w == <<VM(k, Y, m, at, {}, b)>>
           D == BicepMachineNeeds
           E == D \cup P
           u == (s \o t) \o w
<1>1. BicepMachine(m) = u
  <2>1. BicepMachine(m) = s \o (t \o w)
    <3> DEFINE x == R(j, X)
               y == VM(k, Y, m, at, {}, b)
    <3>1. BicepMachine(m) = s \o <<x, y>>
      BY DEF BicepMachine
    <3>2. t = <<x>> /\ w = <<y>>
      OBVIOUS
    <3> HIDE DEF x, y, s, t, w
    <3>3. <<x, y>> = <<x>> \o <<y>>
      BY Literals
    <3> QED
      BY <3>1, <3>2, <3>3
  <2>2. b \in BOOLEAN
    BY DEF OwnAddress, Public
  <2> HIDE DEF b, i, O, X, Y, at, j, k
  <2>3. Sequence(s) /\ Sequence(t) /\ Sequence(w)
    BY <2>2, NoneAndOne DEF When
  <2> HIDE DEF s, t, w
  <2>4. s \o (t \o w) = (s \o t) \o w
    BY <2>3, JoinedTwice
  <2> QED
    BY <2>1, <2>4
<1>2. b \in BOOLEAN /\ at # None
  BY PlacesAre DEF OwnAddress, Public, Place
<1>3. O \subseteq D /\ X \subseteq E /\ Y \subseteq Y
  BY PlacesAre, PoolsAre, ZenonT(60) DEF BicepMachineNeeds
<1>4. i[1] = "pip" /\ j[1] = "nic" /\ k[1] = "vm"
  OBVIOUS
<1>5. BicepId[m] = k /\ Place[m] = at /\ NoDisks[m] = {} /\ IsOwn[m] = b
  BY DEF BicepId, Place, NoDisks, IsOwn
<1>6. Covered(E, D, P) /\ Covered(Y, D, P \cup {j})
  BY DEF Covered
<1>7. Apart({"pip"}, {"nic"}) /\ Apart({"pip"} \cup {"nic"}, {"vm"})
  BY DEF Apart
<1> HIDE DEF l, i, j, k, O, X, Y, D, E, b, at
<1>8. Part(s, D, {"pip"}, P) /\ Plain(s)
  BY <1>2, <1>3, <1>4, WhenPart
<1>9. Part(t, E, {"nic"}, {j}) /\ Plain(t)
  BY <1>3, <1>4, PlainOne
<1>10. Part(w, Y, {"vm"}, {k})
  BY <1>3, <1>4, OnePart
<1>11. Yields(w, {[id |-> k, vm |-> m.vm, subnet |-> at]}, {m.vm} \X {}, IF b THEN {m.vm} ELSE {})
  BY <1>2, OneMachine
<1> HIDE DEF s, t, w, P
<1>12. Part(u, D, ({"pip"} \cup {"nic"}) \cup {"vm"}, (P \cup {j}) \cup {k})
  BY <1>6, <1>7, <1>8, <1>9, <1>10, JoinThree
<1>13. Plain(s \o t)
  BY <1>8, <1>9, JoinPlain
<1>14. Adds(u, m, BicepId, Place, NoDisks, IsOwn)
  <2>1. Yields(u, {[id |-> k, vm |-> m.vm, subnet |-> at]}, {m.vm} \X {}, IF b THEN {m.vm} ELSE {})
    BY <1>11, <1>13, PlainAround
  <2> QED
    BY <1>5, <2>1 DEF Adds
<1>15. Loose(u, D, IdSet(u))
  BY <1>12, PartIs
<1> QED
  BY <1>1, <1>14, <1>15 DEF D

LEMMA BicepIs ==
  ASSUME compute \in Plans, graph = build_graph
  PROVE  Loose(Bicep, {}, IdSet(Bicep)) /\ Yields(Bicep, MachineRecords(BicepId, Place), Disks(NoDisks), Exposed(IsOwn))
<1> DEFINE ss == [i \in DOMAIN compute |-> BicepMachine(compute[i])]
           a == BicepNetwork
           b == BicepBalancers
           c == FlattenSeq(ss)
           I == ({<<"vnet">>} \cup SubnetIds) \cup TierIds("nsg")
           O == {}
           u == (a \o b) \o c
<1>1. BicepInstances = c
  <2>1. \A m \in Range(compute) :
           /\ placed_in(InstanceId(m))[1] = subnet_of(m.vm) /\ secured_by(InstanceId(m))[1] = m.tier
           /\ (Public(m) /\ Pools(m.vm) = {}) = OwnAddress(m)
    BY MachineEdgesAre, PoolsAre DEF OwnAddress, Public
  <2>2. \A i \in DOMAIN compute :
           /\ placed_in(InstanceId(compute[i]))[1] = subnet_of(compute[i].vm)
           /\ secured_by(InstanceId(compute[i]))[1] = compute[i].tier
           /\ (Public(compute[i]) /\ Pools(compute[i].vm) = {}) = OwnAddress(compute[i])
    BY <2>1, ComputeIsListing
  <2> QED
    BY <2>2 DEF BicepInstances, BicepMachine, Each
<1>2. Bicep = u
  BY <1>1 DEF Bicep
<1>3. Loose(a, O, I) /\ Plain(a)
  BY BicepNetworkIs, PartIs
<1>4. Loose(b, BicepNeeds, IdSet(b)) /\ Plain(b) /\ BalancerIds \subseteq IdSet(b)
  BY BicepBalancersAre, PartIs
<1>5. Loose(c, BicepMachineNeeds, IdSet(c)) /\ Yields(c, MachineRecords(BicepId, Place), Disks(NoDisks), Exposed(IsOwn))
  <2>1. \A i \in DOMAIN compute : Loose(ss[i], BicepMachineNeeds, IdSet(ss[i]))
    BY ComputeIsListing, BicepMachineIs
  <2>2. \A i \in DOMAIN compute : Adds(ss[i], compute[i], BicepId, Place, NoDisks, IsOwn)
    BY ComputeIsListing, BicepMachineIs
  <2>3. ss = [i \in DOMAIN compute |-> ss[i]]
    OBVIOUS
  <2> HIDE DEF ss
  <2> QED
    BY <2>1, <2>2, <2>3, ComputeIsListing, LooseMachines
<1>6. Covered(BicepNeeds, O, I) /\ Covered(BicepMachineNeeds, O, I \cup IdSet(b))
  BY <1>4 DEF Covered, BicepNeeds, BicepMachineNeeds
<1> HIDE DEF ss, a, b, c, I, O
<1>7. Loose(a \o b, O, I \cup IdSet(b))
  BY <1>3, <1>4, <1>6, JoinLoose
<1>8. Loose(u, O, (I \cup IdSet(b)) \cup IdSet(c))
  BY <1>5, <1>6, <1>7, JoinLoose
<1>9. Yields(u, MachineRecords(BicepId, Place), Disks(NoDisks), Exposed(IsOwn))
  BY <1>3, <1>4, <1>5, JoinPlain, PlainAround
<1>10. IdSet(u) = (I \cup IdSet(b)) \cup IdSet(c)
  BY <1>8 DEF Loose
<1> QED
  BY <1>2, <1>8, <1>9, <1>10 DEF O

-----------------------------------------------------------------------------
(* CloudFormation and the CDK.                                                *)

Foreign(I) == \A x \in I : x[1] # "inst"
Ground(s, D, I) == Loose(s, D, I) /\ Plain(s) /\ Foreign(I)

LEMMA JoinBase ==
  ASSUME NEW s, NEW t, NEW D, NEW E, NEW I, NEW J, Ground(s, D, I), Ground(t, E, J), Covered(E, D, I)
  PROVE  Ground(s \o t, D, I \cup J)
<1>1. Loose(s \o t, D, I \cup J) /\ Plain(s \o t)
  BY JoinLoose, JoinPlain DEF Ground
<1>2. Foreign(I \cup J)
  BY DEF Ground, Foreign
<1> QED
  BY <1>1, <1>2 DEF Ground

LEMMA BaseIs ==
  ASSUME NEW s, NEW D, NEW K, NEW I, Part(s, D, K, I), Plain(s), "inst" \notin K
  PROVE  Ground(s, D, I)
<1>1. \A x \in I : x[1] \in K
  BY DEF Part, Fresh
<1>2. Foreign(I)
  BY <1>1 DEF Foreign
<1> QED
  BY <1>2, PartIs DEF Ground

LEMMA BaseOne ==
  ASSUME NEW id, NEW to, id[1] # "inst"
  PROVE  Ground(<<R(id, to)>>, to, {id})
  BY PlainOne, BaseIs

LEMMA AssociationsAre ==
  ASSUME NEW tier
  PROVE  /\ Part(Associations(tier), SubnetIds \cup {<<"table", tier>>}, {"assoc"},
                 Ids("assoc", NamesOf(SubnetsOf(tier))))
         /\ Plain(Associations(tier))
<1> DEFINE s == SubnetsOf(tier)
           f == [i \in DOMAIN s |-> R(<<"assoc", s[i].name>>, {<<"subnet", s[i].name>>, <<"table", tier>>})]
           u == Row(s, f)
           D == SubnetIds \cup {<<"table", tier>>}
           K == {"assoc"}
<1>1. Associations(tier) = u
  BY DEF Associations, Each, Row
<1>2. /\ Sequence(s) /\ \A i, j \in DOMAIN s : s[i].name = s[j].name => i = j
      /\ Range(s) \subseteq Range(Subnets)
  BY SubnetsOfIs
<1> HIDE DEF s
<1>3. DOMAIN f = DOMAIN s /\ \A i \in DOMAIN s :
         /\ f[i].id = <<"assoc", s[i].name>> /\ f[i].refs = {<<"subnet", s[i].name>>, <<"table", tier>>}
         /\ f[i].subnet = None /\ f[i].disks = {} /\ ~f[i].public
  BY RIs
<1> HIDE DEF f
<1>4. \A i \in DOMAIN s : <<"subnet", s[i].name>> \in SubnetIds
  <2>1. \A i \in DOMAIN s : s[i] \in Range(Subnets)
    BY <1>2, RangeIs
  <2> QED
    BY <2>1 DEF SubnetIds, Ids, NamesOf
<1>5. \A i \in DOMAIN s : f[i].refs \subseteq D /\ f[i].id[1] \in K
  BY <1>3, <1>4
<1>6. \A i, j \in DOMAIN s : f[i].id = f[j].id => i = j
  BY <1>2, <1>3
<1> HIDE DEF D, K
<1>7. Binds(u, D) /\ Fresh(u, K) /\ IdSet(u) = {f[i].id : i \in DOMAIN s} /\ Plain(u)
  BY <1>2, <1>3, <1>5, <1>6, RowIs
<1> HIDE DEF u
<1>8. \A x : x \in Ids("assoc", NamesOf(s)) <=> \E i \in DOMAIN s : x = <<"assoc", s[i].name>>
  BY IdsAre
<1>9. IdSet(u) = Ids("assoc", NamesOf(s))
  <2> DEFINE J == Ids("assoc", NamesOf(s))
  <2>1. \A i \in DOMAIN s : f[i].id \in J
    BY <1>3, <1>8
  <2>2. \A x \in J : \E i \in DOMAIN s : x = f[i].id
    BY <1>3, <1>8
  <2> HIDE DEF J
  <2> QED
    BY <1>7, <2>1, <2>2 DEF J
<1> QED
  BY <1>1, <1>7, <1>9 DEF Part, D, K, s

StackIds == (({<<"vpc">>} \cup {<<"igw">>}) \cup {<<"attach">>}) \cup SubnetIds

LEMMA CloudFormationNetworkIs ==
  ASSUME compute \in Plans
  PROVE  Ground(CloudFormationNetwork, {}, StackIds)
<1> DEFINE O == {}
           V == {<<"vpc">>}
           W == {<<"vpc">>, <<"igw">>}
           i == <<"vpc">>
           j == <<"igw">>
           k == <<"attach">>
           a == <<R(i, O)>>
           b == <<R(j, O)>>
           c == <<R(k, W)>>
           d == SubnetPart(Subnets, "subnet", V)
           u == ((a \o b) \o c) \o d
<1>1. CloudFormationNetwork = u
  <2> DEFINE x == R(i, O)
             y == R(j, O)
             z == R(k, W)
  <2>1. CloudFormationNetwork = <<x, y, z>> \o d
    BY DEF CloudFormationNetwork, Each, SubnetPart
  <2>2. a = <<x>> /\ b = <<y>> /\ c = <<z>>
    OBVIOUS
  <2> HIDE DEF x, y, z, a, b, c, d
  <2>3. <<x, y, z>> = <<x>> \o (<<y>> \o <<z>>)
    <3>1. <<x, y, z>> = <<x>> \o <<y, z>>
      BY Literals
    <3>2. <<y, z>> = <<y>> \o <<z>>
      BY Literals
    <3> QED
      BY <3>1, <3>2
  <2>4. Sequence(<<x>>) /\ Sequence(<<y>>) /\ Sequence(<<z>>)
    BY NoneAndOne
  <2>5. <<x>> \o (<<y>> \o <<z>>) = (<<x>> \o <<y>>) \o <<z>>
    BY <2>4, JoinedTwice
  <2> QED
    BY <2>1, <2>2, <2>3, <2>5
<1>2. Ground(d, V, SubnetIds)
  BY NetworkParts, BaseIs
<1>3. Covered(O, O, {i}) /\ Covered(W, O, {i} \cup {j}) /\ Covered(V, O, ({i} \cup {j}) \cup {k})
  BY DEF Covered
<1>8. i[1] # "inst" /\ j[1] # "inst" /\ k[1] # "inst"
  OBVIOUS
<1> HIDE DEF i, j, k, O, V, W
<1>4. Ground(a, O, {i}) /\ Ground(b, O, {j}) /\ Ground(c, W, {k})
  BY <1>8, BaseOne
<1> HIDE DEF a, b, c, d
<1>5. Ground(a \o b, O, {i} \cup {j})
  BY <1>3, <1>4, JoinBase
<1>6. Ground((a \o b) \o c, O, ({i} \cup {j}) \cup {k})
  BY <1>3, <1>4, <1>5, JoinBase
<1>7. Ground(u, O, (({i} \cup {j}) \cup {k}) \cup SubnetIds)
  BY <1>2, <1>3, <1>6, JoinBase
<1> QED
  BY <1>1, <1>7 DEF i, j, k, O, StackIds

PublicRoutes ==
  <<R(<<"table", "public">>, {<<"vpc">>}), R(<<"route", "public">>, {<<"table", "public">>, <<"igw">>, <<"attach">>})>>
  \o Associations("public")

PrivateRoutes ==
  <<R(<<"eip">>, {}), R(<<"nat">>, {<<"eip">>, <<"subnet", SubnetsOf("public")[1].name>>}),
    R(<<"table", "private">>, {<<"vpc">>}), R(<<"route", "private">>, {<<"table", "private">>, <<"nat">>})>>
  \o Associations("private")

LEMMA FirstPublicSubnet ==
  <<"subnet", SubnetsOf("public")[1].name>> \in SubnetIds
<1>1. SubnetsOf("public")[1] \in Range(Subnets)
  BY SubnetsOfIs
<1> QED
  BY <1>1 DEF SubnetIds, Ids, NamesOf

LEMMA PublicRoutesAre ==
  ASSUME compute \in Plans
  PROVE  Ground(PublicRoutes, StackIds, IdSet(PublicRoutes))
<1> DEFINE i == <<"table", "public">>
           j == <<"route", "public">>
           V == {<<"vpc">>}
           W == {<<"table", "public">>, <<"igw">>, <<"attach">>}
           a == <<R(i, V), R(j, W)>>
           b == Associations("public")
           E == SubnetIds \cup {i}
           J == Ids("assoc", NamesOf(SubnetsOf("public")))
           u == a \o b
<1>1. PublicRoutes = u
  BY DEF PublicRoutes
<1>2. V \subseteq StackIds /\ W \subseteq StackIds \cup {i} /\ i[1] # j[1] /\ i[1] # "inst" /\ j[1] # "inst"
  BY DEF StackIds
<1>3. Ground(b, E, J)
  BY AssociationsAre, BaseIs
<1>4. Covered(E, StackIds, {i, j})
  BY DEF Covered, StackIds
<1> HIDE DEF i, j, V, W, E, J, b
<1>5. Ground(a, StackIds, {i, j})
  BY <1>2, PlainTwo, BaseIs
<1> HIDE DEF a
<1>6. Ground(u, StackIds, {i, j} \cup J)
  BY <1>3, <1>4, <1>5, JoinBase
<1>7. IdSet(u) = {i, j} \cup J
  BY <1>6 DEF Ground, Loose
<1> QED
  BY <1>1, <1>6, <1>7

LEMMA PrivateRoutesAre ==
  ASSUME compute \in Plans
  PROVE  Ground(PrivateRoutes, StackIds, IdSet(PrivateRoutes))
<1> DEFINE g == <<"eip">>
           h == <<"nat">>
           i == <<"table", "private">>
           j == <<"route", "private">>
           O == {}
           S == {<<"eip">>, <<"subnet", SubnetsOf("public")[1].name>>}
           V == {<<"vpc">>}
           W == {<<"table", "private">>, <<"nat">>}
           D == StackIds
           F == D \cup {h}
           a == <<R(g, O), R(h, S)>>
           b == <<R(i, V), R(j, W)>>
           c == Associations("private")
           E == SubnetIds \cup {i}
           J == Ids("assoc", NamesOf(SubnetsOf("private")))
           u == (a \o b) \o c
<1>1. PrivateRoutes = u
  <2> DEFINE w == R(g, O)
             x == R(h, S)
             y == R(i, V)
             z == R(j, W)
  <2>1. PrivateRoutes = <<w, x, y, z>> \o c
    BY DEF PrivateRoutes
  <2>2. a = <<w, x>> /\ b = <<y, z>>
    OBVIOUS
  <2> HIDE DEF w, x, y, z, a, b, c
  <2>3. <<w, x, y, z>> = <<w, x>> \o <<y, z>>
    BY Literals
  <2> QED
    BY <2>1, <2>2, <2>3
<1>2. /\ O \subseteq D /\ S \subseteq D \cup {g} /\ g[1] # h[1] /\ g[1] # "inst" /\ h[1] # "inst"
      /\ V \subseteq F /\ W \subseteq F \cup {i} /\ i[1] # j[1] /\ i[1] # "inst" /\ j[1] # "inst"
  BY FirstPublicSubnet DEF StackIds
<1>3. Ground(c, E, J)
  BY AssociationsAre, BaseIs
<1>4. Covered(F, D, {g, h}) /\ Covered(E, D, {g, h} \cup {i, j})
  BY DEF Covered, StackIds
<1> HIDE DEF g, h, i, j, O, S, V, W, D, E, F, J, c
<1>5. Ground(a, D, {g, h})
  BY <1>2, PlainTwo, BaseIs
<1>6. Ground(b, F, {i, j})
  BY <1>2, PlainTwo, BaseIs
<1> HIDE DEF a, b
<1>7. Ground(a \o b, D, {g, h} \cup {i, j})
  BY <1>4, <1>5, <1>6, JoinBase
<1>8. Ground(u, D, ({g, h} \cup {i, j}) \cup J)
  BY <1>3, <1>4, <1>7, JoinBase
<1>9. IdSet(u) = ({g, h} \cup {i, j}) \cup J
  BY <1>8 DEF Ground, Loose
<1> QED
  BY <1>1, <1>8, <1>9 DEF D

LEMMA CloudFormationRoutesAre ==
  ASSUME compute \in Plans
  PROVE  Ground(CloudFormationRoutes, StackIds, IdSet(CloudFormationRoutes))
<1> DEFINE c == NeedsNat /\ SubnetsOf("public") # <<>> /\ SubnetsOf("private") # <<>>
           b == When(c, PrivateRoutes)
           a == PublicRoutes
           u == a \o b
<1>1. CloudFormationRoutes = u
  <2>1. SubnetsOf("public") # <<>>
    BY SubnetsOfIs
  <2> QED
    BY <2>1 DEF CloudFormationRoutes, PublicRoutes, PrivateRoutes, When
<1>2. Ground(a, StackIds, IdSet(a))
  BY PublicRoutesAre
<1>3. Ground(b, StackIds, IdSet(b))
  <2>1. CASE c
    BY <2>1, PrivateRoutesAre DEF When
  <2>2. CASE ~c
    <3>1. b = <<>>
      BY <2>2 DEF When
    <3>2. Part(<<>>, StackIds, {}, {}) /\ Plain(<<>>)
      BY EmptyPart
    <3>3. Ground(<<>>, StackIds, {}) /\ IdSet(<<>>) = {}
      BY <3>2, BaseIs, PartIs
    <3> HIDE DEF b
    <3> QED
      BY <3>1, <3>3
  <2> QED
    BY <2>1, <2>2
<1>4. Covered(StackIds, StackIds, IdSet(a))
  BY DEF Covered
<1> HIDE DEF a, b, c
<1>5. Ground(u, StackIds, IdSet(a) \cup IdSet(b))
  BY <1>2, <1>3, <1>4, JoinBase
<1>6. IdSet(u) = IdSet(a) \cup IdSet(b)
  BY <1>5 DEF Ground, Loose
<1> QED
  BY <1>1, <1>5, <1>6

Parameters == ImageKeys \ SsmImages
StackGroups == TierIds("sg") \cup Ids("param", Parameters)

LEMMA CloudFormationGroupsAre ==
  ASSUME compute \in Plans
  PROVE  Ground(CloudFormationGroups, {<<"vpc">>}, StackGroups)
<1> DEFINE V == {<<"vpc">>}
           O == {}
           s == SetToSeq(Parameters)
           a == ListPart(SecurityGroups, "sg", V)
           b == ListPart(s, "param", O)
           I == TierIds("sg")
           J == Ids("param", Parameters)
<1>1. CloudFormationGroups = a \o b
  BY DEF CloudFormationGroups, Each, ListPart, Parameters, ImageKeys
<1>2. Ground(a, V, I)
  BY NetworkParts, BaseIs
<1>3. IsFiniteSet(Parameters)
  BY FiniteParts, FS_Subset DEF Parameters
<1>4. Sequence(s) /\ Range(s) = Parameters /\ Once(s)
  BY <1>3, ListIs
<1>5. Ground(b, O, J)
  BY <1>4, ListPartIs, BaseIs
<1>6. Covered(O, V, I)
  BY DEF Covered
<1> HIDE DEF V, O, a, b, I, J
<1>7. Ground(a \o b, V, I \cup J)
  BY <1>2, <1>5, <1>6, JoinBase
<1> QED
  BY <1>1, <1>7 DEF V, I, J, StackGroups

LEMMA CdkNetworkIs ==
  ASSUME compute \in Plans
  PROVE  Ground(CdkNetwork, {}, (StackIds \cup IdSet(CloudFormationRoutes)) \cup StackGroups)
<1> DEFINE a == CloudFormationNetwork
           b == CloudFormationRoutes
           c == CloudFormationGroups
           V == {<<"vpc">>}
           O == {}
<1>1. CdkNetwork = (a \o b) \o c
  BY DEF CdkNetwork
<1>2. Ground(a, O, StackIds) /\ Ground(b, StackIds, IdSet(b)) /\ Ground(c, V, StackGroups)
  BY CloudFormationNetworkIs, CloudFormationRoutesAre, CloudFormationGroupsAre
<1>3. Covered(StackIds, O, StackIds) /\ Covered(V, O, StackIds \cup IdSet(b))
  BY DEF Covered, StackIds
<1> HIDE DEF a, b, c, V, O
<1>4. Ground(a \o b, O, StackIds \cup IdSet(b))
  BY <1>2, <1>3, JoinBase
<1>5. Ground((a \o b) \o c, O, (StackIds \cup IdSet(b)) \cup StackGroups)
  BY <1>2, <1>3, <1>4, JoinBase
<1> QED
  BY <1>1, <1>5 DEF O, b

StackId(of) == [m \in Range(compute) |-> <<"inst", of[m.vm]>>]
StackRefs == [m \in Range(compute) |-> GraphRefs(m)]
StackInst(of) == {StackId(of)[m] : m \in Range(compute)}
StackNeeds == SubnetIds \cup StackGroups
StackMachines(of) == MachineList(compute, StackId(of), StackRefs, Place, AllDisks, IsPublic)

LEMMA StackMachinesAre ==
  ASSUME compute \in Plans, graph = build_graph, NEW of
  PROVE  /\ Loose(StackMachines(of), StackNeeds, StackInst(of))
         /\ Yields(StackMachines(of), MachineRecords(StackId(of), Place), Disks(AllDisks), Exposed(IsPublic))
<1>1. \A m \in Range(compute) : StackRefs[m] \subseteq StackNeeds
  <2> SUFFICES ASSUME NEW m \in Range(compute) PROVE GraphRefs(m) \subseteq StackNeeds
    BY DEF StackRefs
  <2>1. AmiRef(m) \subseteq StackNeeds
    BY DEF AmiRef, StackNeeds, StackGroups, Ids, Parameters, ImageKeys
  <2>2. Ids("subnet", Range(placed_in(InstanceId(m)))) = {<<"subnet", subnet_of(m.vm)>>}
    BY MachineEdgesAre DEF Ids
  <2>3. Ids("sg", Range(secured_by(InstanceId(m)))) = {<<"sg", m.tier>>}
    BY MachineEdgesAre DEF Ids
  <2>4. <<"subnet", subnet_of(m.vm)>> \in SubnetIds /\ <<"sg", m.tier>> \in TierIds("sg")
    BY PlacesAre
  <2> QED
    BY <2>1, <2>2, <2>3, <2>4 DEF GraphRefs, StackNeeds, StackGroups
<1>2. \A m \in Range(compute) : Place[m] # None /\ IsPublic[m] \in BOOLEAN
  BY PlacesAre DEF IsPublic, Public
<1>3. Loose(MachineList(compute, StackId(of), StackRefs, Place, AllDisks, IsPublic), StackNeeds,
            {StackId(of)[m] : m \in Range(compute)})
  BY <1>1, ComputeIsListing, MachineListLoose
<1>4. Yields(MachineList(compute, StackId(of), StackRefs, Place, AllDisks, IsPublic), MachineRecords(StackId(of), Place),
             Disks(AllDisks), Exposed(IsPublic))
  BY <1>2, ComputeIsListing, MachineListYields
<1> QED
  BY <1>3, <1>4 DEF StackMachines, StackInst

StackHead(lb) == <<R(LbId(lb), Ids("subnet", Range(placed_in(LbId(lb)))) \cup Ids("sg", Range(secured_by(LbId(lb)))))>>
StackPort(lb, of, p) ==
  <<R(<<"tg", lb.name, p>>, {<<"vpc">>} \cup {<<"inst", of[vm]>> : vm \in Range(fronts(LbId(lb)))}),
    R(<<"listener", lb.name, p>>, {LbId(lb), <<"tg", lb.name, p>>})>>
StackBalancer(lb, of) ==
  StackHead(lb) \o FlattenSeq([k \in DOMAIN lb.ports |-> StackPort(lb, of, lb.ports[k])])
StackBalancers(of) == FlattenSeq([i \in DOMAIN LoadBalancers |-> StackBalancer(LoadBalancers[i], of)])
StackFronts(of) == (StackNeeds \cup {<<"vpc">>}) \cup StackInst(of)

LEMMA StackHeadIs ==
  ASSUME compute \in Plans, graph = build_graph, NEW lb \in Range(LoadBalancers), NEW of
  PROVE  FrontPart(lb, StackHead(lb), StackFronts(of), {"lb"}) /\ LbId(lb) \in IdSet(StackHead(lb))
<1> DEFINE i == LbId(lb)
           V == Ids("subnet", Range(placed_in(LbId(lb)))) \cup Ids("sg", Range(secured_by(LbId(lb))))
           u == <<R(i, V)>>
<1>1. StackHead(lb) = u
  BY DEF StackHead
<1>2. Sound(lb)
  BY BalancersAre
<1>3. V \subseteq StackFronts(of)
  <2>1. Ids("subnet", Range(placed_in(LbId(lb)))) \subseteq SubnetIds
    BY <1>2, FrontEdgesAre, BalancerNeeds
  <2>2. Ids("sg", Range(secured_by(LbId(lb)))) = {<<"sg", lb.group>>}
    BY FrontEdgesAre DEF Ids
  <2>3. <<"sg", lb.group>> \in TierIds("sg")
    BY <1>2, BalancerNeeds
  <2> QED
    BY <2>1, <2>2, <2>3 DEF StackFronts, StackNeeds, StackGroups
<1>4. i[1] = "lb" /\ i[2] = lb.name
  BY DEF LbId
<1> HIDE DEF i, V
<1>5. Part(u, StackFronts(of), {"lb"}, {i}) /\ Plain(u)
  BY <1>3, <1>4, PlainOne
<1>6. IdSet(u) = {i}
  BY <1>5, PartIs
<1> HIDE DEF u
<1> QED
  BY <1>1, <1>4, <1>5, <1>6 DEF FrontPart, i

LEMMA StackPortIs ==
  ASSUME compute \in Plans, graph = build_graph, NEW lb \in Range(LoadBalancers), NEW of, NEW p
  PROVE  /\ FrontPart(lb, StackPort(lb, of, p), StackFronts(of) \cup {LbId(lb)}, {"tg", "listener"})
         /\ \A x \in IdSet(StackPort(lb, of, p)) : x[3] = p
<1> DEFINE i == <<"tg", lb.name, p>>
           j == <<"listener", lb.name, p>>
           F == {<<"inst", of[vm]>> : vm \in Range(fronts(LbId(lb)))}
           V == {<<"vpc">>} \cup F
           W == {LbId(lb), <<"tg", lb.name, p>>}
           D == StackFronts(of) \cup {LbId(lb)}
           u == <<R(i, V), R(j, W)>>
<1>1. StackPort(lb, of, p) = u
  BY DEF StackPort
<1>2. F \subseteq StackInst(of)
  <2>1. \A vm \in Range(fronts(LbId(lb))) : \E m \in Range(compute) : m.vm = vm
    BY FrontEdgesAre, BalancersAre DEF Sound
  <2>2. \A m \in Range(compute) : <<"inst", of[m.vm]>> \in StackInst(of)
    BY DEF StackInst, StackId
  <2> QED
    BY <2>1, <2>2
<1>3. V \subseteq D /\ W \subseteq D \cup {i} /\ i[1] = "tg" /\ j[1] = "listener" /\ i[1] # j[1]
  <2>1. V \subseteq D
    BY <1>2 DEF StackFronts
  <2> QED
    BY <2>1
<1>4. i[2] = lb.name /\ j[2] = lb.name /\ i[3] = p /\ j[3] = p
  OBVIOUS
<1> HIDE DEF i, j, V, W, D
<1>5. Part(u, D, {"tg", "listener"}, {i, j}) /\ Plain(u)
  BY <1>3, PlainTwo
<1>6. IdSet(u) = {i, j}
  BY <1>5, PartIs
<1> HIDE DEF u
<1> QED
  BY <1>1, <1>4, <1>5, <1>6 DEF FrontPart, D

LEMMA StackBalancersAre ==
  ASSUME compute \in Plans, graph = build_graph, NEW of
  PROVE  LET u == StackBalancers(of) IN Ground(u, StackFronts(of), IdSet(u)) /\ BalancerIds \subseteq IdSet(u)
<1> DEFINE c == LoadBalancers
           ss == [i \in DOMAIN c |-> StackBalancer(c[i], of)]
           D == StackFronts(of)
           K == {"lb"} \cup {"tg", "listener"}
<1>1. StackBalancers(of) = FlattenSeq(ss)
  BY DEF StackBalancers
<1>2. \A lb \in Range(c) : FrontPart(lb, StackBalancer(lb, of), D, K) /\ LbId(lb) \in IdSet(StackBalancer(lb, of))
  <2> SUFFICES ASSUME NEW lb \in Range(c)
               PROVE  FrontPart(lb, StackBalancer(lb, of), D, K) /\ LbId(lb) \in IdSet(StackBalancer(lb, of))
    OBVIOUS
  <2> DEFINE a == StackHead(lb)
             gg == [k \in DOMAIN lb.ports |-> StackPort(lb, of, lb.ports[k])]
             E == D \cup {LbId(lb)}
             L == {"tg", "listener"}
  <2>1. Sound(lb)
    BY BalancersAre
  <2>2. StackBalancer(lb, of) = a \o FlattenSeq(gg)
    BY DEF StackBalancer
  <2> HIDE DEF c
  <2>3. FrontPart(lb, a, D, {"lb"}) /\ LbId(lb) \in IdSet(a)
    BY StackHeadIs DEF c
  <2>4. \A k \in DOMAIN lb.ports : FrontPart(lb, gg[k], E, L) /\ \A x \in IdSet(gg[k]) : x[3] = lb.ports[k]
    BY StackPortIs DEF c
  <2>5. gg = [k \in DOMAIN lb.ports |-> gg[k]]
    OBVIOUS
  <2>6. Covered(E, D, IdSet(a)) /\ Apart({"lb"}, L)
    BY <2>3 DEF Covered, Apart
  <2> HIDE DEF a, gg, E, L, D
  <2>7. FrontPart(lb, a \o FlattenSeq(gg), D, {"lb"} \cup L) /\ IdSet(a) \subseteq IdSet(a \o FlattenSeq(gg))
    BY <2>1, <2>3, <2>4, <2>5, <2>6, WithPorts
  <2> QED
    BY <2>2, <2>3, <2>7 DEF L
<1>8. "inst" \notin K
  OBVIOUS
<1>3. ss = [i \in DOMAIN c |-> ss[i]] /\ \A i \in DOMAIN c : ss[i] = StackBalancer(c[i], of) /\ c[i] \in Range(c)
  BY RangeIs
<1> HIDE DEF ss, K, D
<1>4. \A i \in DOMAIN c : FrontPart(c[i], ss[i], D, K)
  BY <1>2, <1>3
<1>5. LET u == FlattenSeq(ss) IN
      /\ Part(u, D, K, IdSet(u)) /\ Plain(u)
      /\ \A i \in DOMAIN c : IdSet(ss[i]) \subseteq IdSet(u)
  BY <1>3, <1>4, AllFronts
<1>6. \A lb \in Range(c) : <<"lb", lb.name>> \in IdSet(FlattenSeq(ss))
  <2> SUFFICES ASSUME NEW lb \in Range(c) PROVE <<"lb", lb.name>> \in IdSet(FlattenSeq(ss))
    OBVIOUS
  <2>1. PICK i \in DOMAIN c : c[i] = lb
    BY RangeIs
  <2>2. <<"lb", lb.name>> \in IdSet(ss[i])
    BY <1>2, <1>3, <2>1 DEF LbId
  <2> QED
    BY <1>5, <2>1, <2>2
<1>7. Ground(FlattenSeq(ss), D, IdSet(FlattenSeq(ss)))
  BY <1>5, <1>8, BaseIs
<1> QED
  BY <1>1, <1>6, <1>7 DEF D, BalancerIds

\* A plain resource for each element of a list.
LEMMA BaseRow ==
  ASSUME NEW s, Sequence(s), NEW ids, NEW to, NEW D, \A i \in DOMAIN s : to[i] \subseteq D,
         \A i \in DOMAIN s : ids[i][1] # "inst"
  PROVE  LET u == FlattenSeq([i \in DOMAIN s |-> <<R(ids[i], to[i])>>]) IN
         Ground(u, D, {ids[i] : i \in DOMAIN s})
<1> DEFINE f == [i \in DOMAIN s |-> R(ids[i], to[i])]
           u == Row(s, f)
<1>1. FlattenSeq([i \in DOMAIN s |-> <<R(ids[i], to[i])>>]) = u
  BY DEF Row
<1>2. DOMAIN f = DOMAIN s /\ \A i \in DOMAIN s : /\ f[i].id = ids[i] /\ f[i].refs = to[i]
                                                 /\ f[i].subnet = None /\ f[i].disks = {} /\ ~f[i].public
  BY RIs
<1> HIDE DEF f
<1>3. Binds(u, D) /\ IdSet(u) = {f[i].id : i \in DOMAIN s} /\ Plain(u)
  <2>1. \A i \in DOMAIN s : f[i].refs \subseteq D
    BY <1>2
  <2> QED
    BY <1>2, <2>1, RowIs
<1> HIDE DEF u
<1>4. IdSet(u) = {ids[i] : i \in DOMAIN s}
  BY <1>2, <1>3
<1>5. Foreign({ids[i] : i \in DOMAIN s})
  BY DEF Foreign
<1> QED
  BY <1>1, <1>3, <1>4, <1>5 DEF Ground, Loose

LEMMA CloudFormationOutputsAre ==
  ASSUME compute \in Plans, graph = build_graph
  PROVE  LET u == CloudFormationOutputs IN Ground(u, (BalancerIds \cup {<<"vpc">>}) \cup StackInst(CidOf), IdSet(u))
<1> DEFINE c == LoadBalancers
           g == [i \in DOMAIN c |-> <<"dns", c[i].name>>]
           to == [i \in DOMAIN c |-> {LbId(c[i])}]
           e == compute
           h == [i \in DOMAIN e |-> <<"out", CidOf[e[i].vm]>>]
           tu == [i \in DOMAIN e |-> {<<"inst", CidOf[e[i].vm]>>}]
           x == <<"vpcid">>
           V == {<<"vpc">>}
           s == FlattenSeq([i \in DOMAIN c |-> <<R(g[i], to[i])>>])
           t == <<R(x, V)>>
           w == FlattenSeq([i \in DOMAIN e |-> <<R(h[i], tu[i])>>])
           D == (BalancerIds \cup V) \cup StackInst(CidOf)
           u == (s \o t) \o w
<1>1. CloudFormationOutputs = u
  <2>1. s = FlattenSeq([i \in DOMAIN c |-> <<R(<<"dns", c[i].name>>, {LbId(c[i])})>>])
    OBVIOUS
  <2>2. w = FlattenSeq([i \in DOMAIN e |-> <<R(<<"out", CidOf[e[i].vm]>>, {<<"inst", CidOf[e[i].vm]>>})>>])
    OBVIOUS
  <2>3. DOMAIN graph.nodes = DOMAIN e /\ \A i \in DOMAIN e : graph.nodes[i].m = e[i]
    BY DEF build_graph
  <2> HIDE DEF s, w, c, e
  <2>4. w = FlattenSeq([i \in DOMAIN graph.nodes |-> <<R(<<"out", CidOf[graph.nodes[i].m.vm]>>,
                                                       {<<"inst", CidOf[graph.nodes[i].m.vm]>>})>>])
    BY <2>2, <2>3
  <2> QED
    BY <2>1, <2>4 DEF CloudFormationOutputs, Each, c
<1>2. Sequence(c) /\ Sequence(e)
  BY EstateIs, BalancersAre
<1>3. \A i \in DOMAIN c : to[i] \subseteq D
  <2>1. \A lb \in Range(c) : LbId(lb) \in BalancerIds
    BY DEF BalancerIds, LbId
  <2> QED
    BY <2>1, RangeIs
<1>4. \A i \in DOMAIN e : tu[i] \subseteq D
  <2>1. \A m \in Range(compute) : <<"inst", CidOf[m.vm]>> \in StackInst(CidOf)
    BY DEF StackInst, StackId
  <2> QED
    BY <2>1, RangeIs
<1>5. V \subseteq D
  OBVIOUS
<1>13. x[1] # "inst" /\ (\A i \in DOMAIN c : g[i][1] # "inst") /\ (\A i \in DOMAIN e : h[i][1] # "inst")
  OBVIOUS
<1> HIDE DEF c, g, to, e, h, tu, x, V, D
<1>6. Ground(s, D, IdSet(s))
  <2>1. Ground(s, D, {g[i] : i \in DOMAIN c})
    BY <1>2, <1>3, <1>13, BaseRow
  <2> QED
    BY <2>1 DEF Ground, Loose
<1>7. Ground(w, D, IdSet(w))
  <2>1. Ground(w, D, {h[i] : i \in DOMAIN e})
    BY <1>2, <1>4, <1>13, BaseRow
  <2> QED
    BY <2>1 DEF Ground, Loose
<1>8. Ground(t, D, {x})
  BY <1>5, <1>13, PlainOne, BaseIs
<1>9. Covered(D, D, IdSet(s)) /\ Covered(D, D, IdSet(s) \cup {x})
  BY DEF Covered
<1> HIDE DEF s, t, w
<1>10. Ground(s \o t, D, IdSet(s) \cup {x})
  BY <1>6, <1>8, <1>9, JoinBase
<1>11. Ground(u, D, (IdSet(s) \cup {x}) \cup IdSet(w))
  BY <1>7, <1>9, <1>10, JoinBase
<1>12. IdSet(u) = (IdSet(s) \cup {x}) \cup IdSet(w)
  BY <1>11 DEF Ground, Loose
<1> QED
  BY <1>1, <1>11, <1>12 DEF D, V

\* The network, the machines and the balancers of a stack, whatever its machines are called.
LEMMA StackIs ==
  ASSUME compute \in Plans, graph = build_graph, NEW of
  PROVE  LET u == (CdkNetwork \o StackMachines(of)) \o StackBalancers(of) IN
         /\ Loose(u, {}, IdSet(u))
         /\ Yields(u, MachineRecords(StackId(of), Place), Disks(AllDisks), Exposed(IsPublic))
         /\ (BalancerIds \cup {<<"vpc">>}) \cup StackInst(of) \subseteq IdSet(u)
<1> DEFINE a == CdkNetwork
           b == StackMachines(of)
           c == StackBalancers(of)
           O == {}
           I == (StackIds \cup IdSet(CloudFormationRoutes)) \cup StackGroups
           J == StackInst(of)
           u == (a \o b) \o c
<1>1. Loose(a, O, I) /\ Plain(a)
  BY CdkNetworkIs DEF Ground
<1>2. Loose(b, StackNeeds, J) /\ Yields(b, MachineRecords(StackId(of), Place), Disks(AllDisks), Exposed(IsPublic))
  BY StackMachinesAre
<1>3. Loose(c, StackFronts(of), IdSet(c)) /\ Plain(c) /\ BalancerIds \subseteq IdSet(c)
  BY StackBalancersAre DEF Ground
<1>4. Covered(StackNeeds, O, I) /\ Covered(StackFronts(of), O, I \cup J) /\ <<"vpc">> \in I
  BY DEF Covered, StackNeeds, StackFronts, StackIds
<1> HIDE DEF a, b, c, O, I, J
<1>5. Loose(a \o b, O, I \cup J)
  BY <1>1, <1>2, <1>4, JoinLoose
<1>6. Loose(u, O, (I \cup J) \cup IdSet(c))
  BY <1>3, <1>4, <1>5, JoinLoose
<1>7. Yields(u, MachineRecords(StackId(of), Place), Disks(AllDisks), Exposed(IsPublic))
  BY <1>1, <1>2, <1>3, PlainAround
<1>8. IdSet(u) = (I \cup J) \cup IdSet(c)
  BY <1>6 DEF Loose
<1> HIDE DEF u
<1>9. (BalancerIds \cup {<<"vpc">>}) \cup J \subseteq IdSet(u)
  BY <1>3, <1>4, <1>8
<1> QED
  BY <1>6, <1>7, <1>8, <1>9 DEF u, a, b, c, O, J

LEMMA CdkIs ==
  ASSUME compute \in Plans, graph = build_graph
  PROVE  /\ Loose(Cdk, {}, IdSet(Cdk))
         /\ Yields(Cdk, MachineRecords(StackId(SafeOf), Place), Disks(AllDisks), Exposed(IsPublic))
<1> DEFINE c == compute
<1>1. CdkInstances = StackMachines(SafeOf)
  <2>1. \A i \in DOMAIN c :
           /\ StackId(SafeOf)[c[i]] = <<"inst", SafeOf[c[i].vm]>> /\ Place[c[i]] = placed_in(InstanceId(c[i]))[1]
           /\ AllDisks[c[i]] = 1..c[i].disks /\ IsPublic[c[i]] = Public(c[i]) /\ StackRefs[c[i]] = GraphRefs(c[i])
    BY ComputeIsListing, MachineEdgesAre DEF StackId, Place, AllDisks, IsPublic, StackRefs
  <2> QED
    BY <2>1 DEF CdkInstances, StackMachines, MachineList, Each
<1>2. CdkBalancers = StackBalancers(SafeOf)
  BY DEF CdkBalancers, StackBalancers, StackBalancer, StackHead, StackPort, Each, Listeners
<1> QED
  BY <1>1, <1>2, StackIs DEF Cdk

LEMMA CloudFormationParts ==
  ASSUME compute \in Plans, graph = build_graph
  PROVE  CloudFormation = ((CdkNetwork \o StackMachines(CidOf)) \o StackBalancers(CidOf)) \o CloudFormationOutputs
<1> DEFINE c == compute
           ns == graph.nodes
<1>1. CloudFormationInstances = StackMachines(CidOf)
  <2>1. DOMAIN ns = DOMAIN c /\ \A i \in DOMAIN c : ns[i].m = c[i] /\ ns[i].id = InstanceId(c[i])
    BY DEF build_graph
  <2>2. CloudFormationInstances = FlattenSeq([i \in DOMAIN ns |->
            <<VM(<<"inst", CidOf[ns[i].m.vm]>>, GraphRefs(ns[i].m), ns[i].m, placed_in(ns[i].id)[1], 1..ns[i].m.disks,
                 Public(ns[i].m))>>])
    BY DEF CloudFormationInstances, Each
  <2>3. \A i \in DOMAIN c :
           /\ StackId(CidOf)[c[i]] = <<"inst", CidOf[c[i].vm]>> /\ Place[c[i]] = placed_in(InstanceId(c[i]))[1]
           /\ AllDisks[c[i]] = 1..c[i].disks /\ IsPublic[c[i]] = Public(c[i]) /\ StackRefs[c[i]] = GraphRefs(c[i])
    BY ComputeIsListing, MachineEdgesAre DEF StackId, Place, AllDisks, IsPublic, StackRefs
  <2>4. StackMachines(CidOf) = FlattenSeq([i \in DOMAIN c |->
            <<VM(<<"inst", CidOf[c[i].vm]>>, GraphRefs(c[i]), c[i], placed_in(InstanceId(c[i]))[1], 1..c[i].disks,
                 Public(c[i]))>>])
    BY <2>3 DEF StackMachines, MachineList
  <2> HIDE DEF ns, c
  <2> QED
    BY <2>1, <2>2, <2>4
<1>2. CloudFormationBalancers = StackBalancers(CidOf)
  BY DEF CloudFormationBalancers, StackBalancers, StackBalancer, StackHead, StackPort, Each, Listeners
<1> QED
  BY <1>1, <1>2 DEF CloudFormation, CdkNetwork

LEMMA CloudFormationIs ==
  ASSUME compute \in Plans, graph = build_graph
  PROVE  /\ Loose(CloudFormation, {}, IdSet(CloudFormation))
         /\ Yields(CloudFormation, MachineRecords(StackId(CidOf), Place), Disks(AllDisks), Exposed(IsPublic))
<1> DEFINE s == (CdkNetwork \o StackMachines(CidOf)) \o StackBalancers(CidOf)
           t == CloudFormationOutputs
           O == {}
           D == (BalancerIds \cup {<<"vpc">>}) \cup StackInst(CidOf)
<1>3. CloudFormation = s \o t
  BY CloudFormationParts
<1>4. /\ Loose(s, O, IdSet(s)) /\ Yields(s, MachineRecords(StackId(CidOf), Place), Disks(AllDisks), Exposed(IsPublic))
      /\ D \subseteq IdSet(s)
  BY StackIs
<1>5. Loose(t, D, IdSet(t)) /\ Plain(t)
  BY CloudFormationOutputsAre DEF Ground
<1>6. Covered(D, O, IdSet(s))
  BY <1>4 DEF Covered
<1> HIDE DEF s, t, O, D
<1>7. Loose(s \o t, O, IdSet(s) \cup IdSet(t))
  BY <1>4, <1>5, <1>6, JoinLoose
<1>8. Yields(s \o t, MachineRecords(StackId(CidOf), Place), Disks(AllDisks), Exposed(IsPublic))
  BY <1>4, <1>5, PlainAround
<1>9. IdSet(s \o t) = IdSet(s) \cup IdSet(t)
  BY <1>7 DEF Loose
<1> QED
  BY <1>3, <1>7, <1>8, <1>9 DEF O

-----------------------------------------------------------------------------
(* Kubernetes.                                                                *)

KubeId == [m \in Range(compute) |-> <<"vm", LabelOf[m.vm]>>]
KubeRefs == [m \in Range(compute) |-> {<<"namespace">>} \cup Ids("policy", Range(secured_by(InstanceId(m))))]
NoPlace == [m \in Range(compute) |-> Nowhere]
Unshown == [m \in Range(compute) |-> FALSE]
Serviced(m) == m.vm \notin Fronted /\ Ports[m.tier] # <<>>
KubeShown == {m.vm : m \in {m \in Range(compute) : Serviced(m) /\ Public(m)}}

LEMMA KubernetesMachinesAre ==
  ASSUME compute \in Plans, graph = build_graph
  PROVE  /\ Part(KubernetesMachines, {<<"namespace">>} \cup TierIds("policy"), {"vm"}, LabelIds("vm"))
         /\ Yields(KubernetesMachines, MachineRecords(KubeId, NoPlace), Disks(AllDisks), {})
<1> DEFINE c == compute
           u == MachineList(c, KubeId, KubeRefs, NoPlace, AllDisks, Unshown)
           D == {<<"namespace">>} \cup TierIds("policy")
<1>1. KubernetesMachines = u
  <2>1. \A i \in DOMAIN c :
           /\ KubeId[c[i]] = <<"vm", LabelOf[c[i].vm]>> /\ NoPlace[c[i]] = Nowhere
           /\ AllDisks[c[i]] = 1..c[i].disks /\ Unshown[c[i]] = FALSE
           /\ KubeRefs[c[i]] = {<<"namespace">>} \cup Ids("policy", Range(secured_by(InstanceId(c[i]))))
    BY ComputeIsListing DEF KubeId, NoPlace, AllDisks, Unshown, KubeRefs
  <2> QED
    BY <2>1 DEF KubernetesMachines, MachineList, Each
<1>2. \A m \in Range(compute) : KubeRefs[m] \subseteq D
  <2> SUFFICES ASSUME NEW m \in Range(compute) PROVE KubeRefs[m] \subseteq D
    OBVIOUS
  <2>1. Ids("policy", Range(secured_by(InstanceId(m)))) = {<<"policy", m.tier>>}
    BY MachineEdgesAre DEF Ids
  <2>2. <<"policy", m.tier>> \in TierIds("policy")
    BY PlacesAre
  <2> QED
    BY <2>1, <2>2 DEF KubeRefs
<1>3. \A m \in Range(compute) : KubeId[m] = <<"vm", LabelOf[m.vm]>>
  BY DEF KubeId
<1>4. \A m \in Range(compute) : NoPlace[m] # None /\ Unshown[m] \in BOOLEAN
  BY RenderAssumption DEF NoPlace, Unshown
<1> HIDE DEF D
<1>5. Part(u, D, {"vm"}, LabelIds("vm"))
  BY <1>2, <1>3, ComputeIsListing, MachineListPart
<1>6. Yields(u, MachineRecords(KubeId, NoPlace), Disks(AllDisks), Exposed(Unshown))
  BY <1>4, ComputeIsListing, MachineListYields
<1>7. Exposed(Unshown) = {}
  BY DEF Exposed, Unshown
<1> QED
  BY <1>1, <1>5, <1>6, <1>7 DEF D

BalancerService(lb) ==
  <<R(<<"service", lb.name>>, {<<"vm", LabelOf[vm]>> : vm \in Range(fronts(LbId(lb)))})>>

LEMMA BalancerServicesAre ==
  ASSUME compute \in Plans, graph = build_graph
  PROVE  LET u == FlattenSeq([i \in DOMAIN LoadBalancers |-> BalancerService(LoadBalancers[i])]) IN
         /\ Part(u, LabelIds("vm"), {"service"}, IdSet(u)) /\ Plain(u)
         /\ \A x \in IdSet(u) : \E lb \in Range(LoadBalancers) : x[2] = lb.name
<1> DEFINE c == LoadBalancers
           ss == [i \in DOMAIN c |-> BalancerService(c[i])]
           D == LabelIds("vm")
<1>1. \A lb \in Range(c) : FrontPart(lb, BalancerService(lb), D, {"service"})
  <2> SUFFICES ASSUME NEW lb \in Range(c) PROVE FrontPart(lb, BalancerService(lb), D, {"service"})
    OBVIOUS
  <2> DEFINE i == <<"service", lb.name>>
             V == {<<"vm", LabelOf[vm]>> : vm \in Range(fronts(LbId(lb)))}
             u == <<R(i, V)>>
  <2>1. BalancerService(lb) = u
    BY DEF BalancerService
  <2>2. V \subseteq D
    <3>1. \A vm \in Range(fronts(LbId(lb))) : \E m \in Range(compute) : m.vm = vm
      BY FrontEdgesAre, BalancersAre DEF Sound
    <3>2. \A m \in Range(compute) : <<"vm", LabelOf[m.vm]>> \in D
      BY PlacesAre
    <3> QED
      BY <3>1, <3>2
  <2>3. i[1] = "service" /\ i[2] = lb.name
    OBVIOUS
  <2> HIDE DEF i, V, D
  <2>4. Part(u, D, {"service"}, {i}) /\ Plain(u)
    BY <2>2, <2>3, PlainOne
  <2>5. IdSet(u) = {i}
    BY <2>4, PartIs
  <2> HIDE DEF u
  <2> QED
    BY <2>1, <2>3, <2>4, <2>5 DEF FrontPart
<1>2. \A i \in DOMAIN c : FrontPart(c[i], ss[i], D, {"service"})
  BY <1>1, RangeIs
<1>3. ss = [i \in DOMAIN c |-> ss[i]]
  OBVIOUS
<1> HIDE DEF ss, D
<1>4. LET u == FlattenSeq(ss) IN
      /\ Part(u, D, {"service"}, IdSet(u)) /\ Plain(u)
      /\ \A x \in IdSet(u) : \E lb \in Range(c) : x[2] = lb.name
  BY <1>2, <1>3, AllFronts
<1> QED
  BY <1>4 DEF ss, D

OwnServices ==
  Each(Only(compute, LAMBDA m : m.vm \notin Fronted /\ Ports[m.tier] # <<>>), LAMBDA m :
       <<VM(<<"service", LabelOf[m.vm]>>, {<<"vm", LabelOf[m.vm]>>}, m, None, {}, Public(m))>>)

\* Some of the machines of the plan, in its order.
LEMMA SomeMachines ==
  ASSUME compute \in Plans, NEW T,
         NEW u, u = FlattenSeq([i \in DOMAIN compute |-> IF compute[i] \in T THEN <<compute[i]>> ELSE <<>>])
  PROVE  Sequence(u) /\ Once(u) /\ Range(u) = Range(compute) \cap T
  BY EstateIs, ChosenAre

LEMMA OwnServicesAre ==
  ASSUME compute \in Plans
  PROVE  /\ Part(OwnServices, LabelIds("vm"), {"service"}, IdSet(OwnServices))
         /\ Yields(OwnServices, {}, {}, KubeShown)
         /\ \A x \in IdSet(OwnServices) : \E m \in Range(compute) : x[2] = LabelOf[m.vm]
<1> DEFINE c == compute
           T == {m \in Range(c) : Serviced(m)}
           d == FlattenSeq([i \in DOMAIN c |-> IF c[i] \in T THEN <<c[i]>> ELSE <<>>])
           f == [i \in DOMAIN d |-> VM(<<"service", LabelOf[d[i].vm]>>, {<<"vm", LabelOf[d[i].vm]>>}, d[i], None, {},
                                       Public(d[i]))]
           u == Row(d, f)
           D == LabelIds("vm")
           K == {"service"}
<1>1. OwnServices = u
  <2>1. \A i \in DOMAIN c : (c[i] \in T) <=> (c[i].vm \notin Fronted /\ Ports[c[i].tier] # <<>>)
    BY RangeIs DEF Serviced
  <2>2. d = Only(compute, LAMBDA m : m.vm \notin Fronted /\ Ports[m.tier] # <<>>)
    <3>1. d = FlattenSeq([i \in DOMAIN c |-> IF c[i].vm \notin Fronted /\ Ports[c[i].tier] # <<>> THEN <<c[i]>> ELSE <<>>])
      BY <2>1
    <3> HIDE DEF d
    <3> QED
      BY <3>1 DEF Only, Each, When
  <2> DEFINE e == Only(compute, LAMBDA m : m.vm \notin Fronted /\ Ports[m.tier] # <<>>)
  <2>3. OwnServices = FlattenSeq([i \in DOMAIN e |->
            <<VM(<<"service", LabelOf[e[i].vm]>>, {<<"vm", LabelOf[e[i].vm]>>}, e[i], None, {}, Public(e[i]))>>])
    BY DEF OwnServices, Each
  <2>4. e = d
    BY <2>2
  <2> HIDE DEF d, e
  <2> QED
    BY <2>3, <2>4 DEF Row
<1>2. Sequence(d) /\ Once(d) /\ Range(d) = Range(compute) \cap T
  <2> HIDE DEF T
  <2> QED
    BY SomeMachines
<1> HIDE DEF d
<1>3. DOMAIN f = DOMAIN d /\ \A i \in DOMAIN d :
         /\ f[i].id = <<"service", LabelOf[d[i].vm]>> /\ f[i].refs = {<<"vm", LabelOf[d[i].vm]>>} /\ f[i].vm = d[i].vm
         /\ f[i].subnet = None /\ f[i].disks = {} /\ (f[i].public <=> Public(d[i]))
  BY DEF VM
<1> HIDE DEF f
<1>4. \A i \in DOMAIN d : d[i] \in Range(compute) /\ Serviced(d[i])
  BY <1>2, RangeIs
<1>5. \A i \in DOMAIN d : f[i].refs \subseteq D /\ f[i].id[1] \in K
  <2> SUFFICES ASSUME NEW i \in DOMAIN d PROVE f[i].refs \subseteq D /\ f[i].id[1] \in K
    OBVIOUS
  <2>1. d[i] \in Range(compute)
    BY <1>4
  <2>2. <<"vm", LabelOf[d[i].vm]>> \in D
    BY <2>1, PlacesAre
  <2> QED
    BY <1>3, <2>2
<1>6. \A i, j \in DOMAIN d : f[i].id = f[j].id => i = j
  <2> SUFFICES ASSUME NEW i \in DOMAIN d, NEW j \in DOMAIN d, f[i].id = f[j].id PROVE i = j
    OBVIOUS
  <2>1. LabelOf[d[i].vm] = LabelOf[d[j].vm]
    BY <1>3
  <2>2. d[i] = d[j]
    BY <1>4, <2>1, EstateIs
  <2> QED
    BY <1>2, <2>2 DEF Once
<1> HIDE DEF D, K
<1>7. /\ Sequence(u) /\ Range(u) = {f[i] : i \in DOMAIN d} /\ IdSet(u) = {f[i].id : i \in DOMAIN d}
      /\ Binds(u, D) /\ Fresh(u, K)
  BY <1>2, <1>3, <1>5, <1>6, RowIs
<1> HIDE DEF u
<1>8. \A x \in IdSet(u) : \E m \in Range(compute) : x[2] = LabelOf[m.vm]
  <2> SUFFICES ASSUME NEW x \in IdSet(u) PROVE \E m \in Range(compute) : x[2] = LabelOf[m.vm]
    OBVIOUS
  <2>1. PICK i \in DOMAIN d : x = f[i].id
    BY <1>7
  <2>2. x[2] = LabelOf[d[i].vm]
    BY <1>3, <2>1
  <2> QED
    BY <1>4, <2>2
<1>9. MachineSet(u) = {} /\ DiskSet(u) = {}
  <2>1. \A r \in Range(u) : r.subnet = None /\ r.disks = {}
    BY <1>3, <1>7
  <2> QED
    BY <2>1 DEF MachineSet, DiskSet
<1>10. ShownSet(u) = KubeShown
  <2>1. ASSUME NEW v \in ShownSet(u) PROVE v \in KubeShown
    <3>1. PICK r \in Range(u) : r.public /\ v = r.vm
      BY DEF ShownSet
    <3>2. PICK i \in DOMAIN d : r = f[i]
      BY <1>7
    <3>3. v = d[i].vm /\ Public(d[i])
      BY <1>3, <3>1, <3>2
    <3> QED
      BY <1>4, <3>3 DEF KubeShown
  <2>2. ASSUME NEW v \in KubeShown PROVE v \in ShownSet(u)
    <3>1. PICK m \in Range(compute) : Serviced(m) /\ Public(m) /\ v = m.vm
      BY DEF KubeShown
    <3>2. PICK i \in DOMAIN d : d[i] = m
      BY <1>2, <3>1, RangeIs
    <3>3. f[i] \in Range(u) /\ f[i].public /\ f[i].vm = v
      BY <1>3, <1>7, <3>1, <3>2
    <3> QED
      BY <3>3 DEF ShownSet
  <2> QED
    BY <2>1, <2>2
<1> QED
  BY <1>1, <1>7, <1>8, <1>9, <1>10 DEF Part, Yields, D, K

LEMMA KubernetesIs ==
  ASSUME compute \in Plans, graph = build_graph
  PROVE  /\ Part(Kubernetes, {}, ({"namespace", "policy"} \cup {"vm"}) \cup ({"service"} \cup {"service"}), IdSet(Kubernetes))
         /\ Yields(Kubernetes, MachineRecords(KubeId, NoPlace), Disks(AllDisks), KubeShown)
<1> DEFINE a == KubernetesPolicies
           b == KubernetesMachines
           c == FlattenSeq([i \in DOMAIN LoadBalancers |-> BalancerService(LoadBalancers[i])])
           d == OwnServices
           e == c \o d
           K == {"namespace", "policy"}
           L == {"vm"}
           M == {"service"} \cup {"service"}
           I == {<<"namespace">>} \cup TierIds("policy")
           J == LabelIds("vm")
           O == {}
           u == (a \o b) \o e
<1>1. Kubernetes = u
  <2>1. KubernetesServices = e
    BY DEF KubernetesServices, BalancerService, OwnServices, Each
  <2> HIDE DEF e
  <2> QED
    BY <2>1 DEF Kubernetes
<1>2. Part(a, O, K, I) /\ Plain(a)
  BY KubernetesPoliciesIs
<1>3. Part(b, I, L, J) /\ Yields(b, MachineRecords(KubeId, NoPlace), Disks(AllDisks), {})
  BY KubernetesMachinesAre
<1>4. /\ Part(c, J, {"service"}, IdSet(c)) /\ Plain(c)
      /\ \A x \in IdSet(c) : \E lb \in Range(LoadBalancers) : x[2] = lb.name
  BY BalancerServicesAre
<1>5. /\ Part(d, J, {"service"}, IdSet(d)) /\ Yields(d, {}, {}, KubeShown)
      /\ \A x \in IdSet(d) : \E m \in Range(compute) : x[2] = LabelOf[m.vm]
  BY OwnServicesAre
<1>6. /\ Covered(I, O, I) /\ Covered(J, O, I \cup J) /\ Covered(J, J, IdSet(c))
      /\ Apart(K, L) /\ Apart(K \cup L, M)
  BY DEF Covered, Apart
<1> HIDE DEF a, b, c, d, K, L, I, J, O
<1>7. Apart(IdSet(c), IdSet(d))
  BY <1>4, <1>5, FrontsApart
<1>8. Part(e, J, M, IdSet(c) \cup IdSet(d))
  BY <1>4, <1>5, <1>6, <1>7, JoinApart
<1>9. Yields(e, {}, {}, KubeShown)
  BY <1>4, <1>5, PlainAround
<1> HIDE DEF e, M
<1>10. Part(u, O, (K \cup L) \cup M, (I \cup J) \cup (IdSet(c) \cup IdSet(d)))
  BY <1>2, <1>3, <1>6, <1>8, JoinThree
<1>11. Yields(a \o b, MachineRecords(KubeId, NoPlace), Disks(AllDisks), {})
  BY <1>2, <1>3, PlainAround
<1>12. Yields(u, MachineRecords(KubeId, NoPlace) \cup {}, Disks(AllDisks) \cup {}, {} \cup KubeShown)
  BY <1>9, <1>11, JoinYields
<1>13. /\ MachineRecords(KubeId, NoPlace) \cup {} = MachineRecords(KubeId, NoPlace) /\ Disks(AllDisks) \cup {} = Disks(AllDisks)
       /\ {} \cup KubeShown = KubeShown
  OBVIOUS
<1>14. IdSet(u) = (I \cup J) \cup (IdSet(c) \cup IdSet(d))
  BY <1>10, PartIs
<1> QED
  BY <1>1, <1>10, <1>12, <1>13, <1>14 DEF K, L, M, O

-----------------------------------------------------------------------------
(* Terraform: networks, identities, volumes, imports and outputs.             *)

LEMMA WhenIs ==
  ASSUME NEW s, NEW D, NEW K, NEW I, Part(s, D, K, I), Plain(s), NEW b \in BOOLEAN
  PROVE  /\ Part(When(b, s), D, K, IdSet(When(b, s))) /\ Plain(When(b, s)) /\ IdSet(When(b, s)) \subseteq I
<1>1. CASE b
  <2>1. When(b, s) = s
    BY <1>1 DEF When
  <2> QED
    BY <2>1, PartIs
<1>2. CASE ~b
  <2>1. When(b, s) = <<>>
    BY <1>2 DEF When
  <2>2. Part(<<>>, D, K, {}) /\ Plain(<<>>)
    BY EmptyPart
  <2>3. IdSet(<<>>) = {}
    BY <2>2, PartIs
  <2> QED
    BY <2>1, <2>2, <2>3
<1> QED
  BY <1>1, <1>2

NatPart ==
  <<R(<<"eip">>, {}), R(<<"nat">>, {<<"eip">>, <<"igw">>, <<"subnet", SubnetsOf("public")[1].name>>}),
    R(<<"table", "private">>, {<<"vpc">>, <<"nat">>})>> \o Associations("private")

NatNeeds == {<<"vpc">>, <<"igw">>} \cup SubnetIds
NatIds == ({<<"eip">>, <<"nat">>} \cup {<<"table", "private">>}) \cup Ids("assoc", NamesOf(SubnetsOf("private")))

LEMMA NatPartIs ==
  Part(NatPart, NatNeeds, ({"eip", "nat"} \cup {"table"}) \cup {"assoc"}, NatIds) /\ Plain(NatPart)
<1> DEFINE g == <<"eip">>
           h == <<"nat">>
           i == <<"table", "private">>
           O == {}
           S == {<<"eip">>, <<"igw">>, <<"subnet", SubnetsOf("public")[1].name>>}
           V == {<<"vpc">>, <<"nat">>}
           D == NatNeeds
           a == <<R(g, O), R(h, S)>>
           b == <<R(i, V)>>
           c == Associations("private")
           E == SubnetIds \cup {i}
           J == Ids("assoc", NamesOf(SubnetsOf("private")))
           u == (a \o b) \o c
<1>1. NatPart = u
  <2> DEFINE x == R(g, O)
             y == R(h, S)
             z == R(i, V)
  <2>1. NatPart = <<x, y, z>> \o c
    BY DEF NatPart
  <2>2. a = <<x, y>> /\ b = <<z>>
    OBVIOUS
  <2> HIDE DEF x, y, z, a, b, c
  <2>3. <<x, y, z>> = <<x>> \o <<y, z>>
    BY Literals
  <2>4. <<y, z>> = <<y>> \o <<z>>
    BY Literals
  <2>5. <<x, y>> = <<x>> \o <<y>>
    BY Literals
  <2>6. Sequence(<<x>>) /\ Sequence(<<y>>) /\ Sequence(<<z>>)
    BY NoneAndOne
  <2>7. <<x>> \o (<<y>> \o <<z>>) = (<<x>> \o <<y>>) \o <<z>>
    BY <2>6, JoinedTwice
  <2> QED
    BY <2>1, <2>2, <2>3, <2>4, <2>5, <2>7
<1>2. /\ O \subseteq D /\ S \subseteq D \cup {g} /\ g[1] # h[1] /\ g[1] = "eip" /\ h[1] = "nat" /\ i[1] = "table"
  BY FirstPublicSubnet DEF NatNeeds
<1>3. Part(c, E, {"assoc"}, J) /\ Plain(c)
  BY AssociationsAre
<1>4. Covered(V, D, {g, h}) /\ Covered(E, D, {g, h} \cup {i})
  BY DEF Covered, NatNeeds
<1>5. Apart({"eip", "nat"}, {"table"}) /\ Apart({"eip", "nat"} \cup {"table"}, {"assoc"})
  BY DEF Apart
<1> HIDE DEF g, h, i, O, S, V, D, E, J, c
<1>6. Part(a, D, {"eip", "nat"}, {g, h}) /\ Plain(a)
  BY <1>2, PlainTwo
<1>7. Part(b, V, {"table"}, {i}) /\ Plain(b)
  BY <1>2, PlainOne
<1> HIDE DEF a, b
<1>8. Part(u, D, ({"eip", "nat"} \cup {"table"}) \cup {"assoc"}, ({g, h} \cup {i}) \cup J)
  BY <1>3, <1>4, <1>5, <1>6, <1>7, JoinThree
<1>9. Plain(u)
  BY <1>3, <1>6, <1>7, JoinPlain
<1> QED
  BY <1>1, <1>8, <1>9 DEF D, g, h, i, J, NatIds

NatKinds == ({"eip", "nat"} \cup {"table"}) \cup {"assoc"}
AwsBaseIds == ((({<<"vpc">>} \cup {<<"igw">>}) \cup SubnetIds) \cup {<<"table", "public">>})
              \cup Ids("assoc", NamesOf(SubnetsOf("public")))
AwsBaseKinds == ((({"vpc"} \cup {"igw"}) \cup {"subnet"}) \cup {"table"}) \cup {"assoc"}
AwsBase ==
  (((<<R(<<"vpc">>, {})>> \o <<R(<<"igw">>, {<<"vpc">>})>>) \o SubnetPart(Subnets, "subnet", {<<"vpc">>}))
   \o <<R(<<"table", "public">>, {<<"vpc">>, <<"igw">>})>>) \o Associations("public")

LEMMA AwsBaseIs ==
  ASSUME compute \in Plans
  PROVE  Part(AwsBase, {}, AwsBaseKinds, AwsBaseIds) /\ Plain(AwsBase)
<1> DEFINE i == <<"vpc">>
           j == <<"igw">>
           k == <<"table", "public">>
           O == {}
           V == {<<"vpc">>}
           W == {<<"vpc">>, <<"igw">>}
           E == SubnetIds \cup {k}
           J == Ids("assoc", NamesOf(SubnetsOf("public")))
           a == <<R(i, O)>>
           b == <<R(j, V)>>
           c == SubnetPart(Subnets, "subnet", V)
           d == <<R(k, W)>>
           e == Associations("public")
           u == (((a \o b) \o c) \o d) \o e
<1>1. AwsBase = u
  BY DEF AwsBase
<1>2. i[1] = "vpc" /\ j[1] = "igw" /\ k[1] = "table" /\ O \subseteq O /\ V \subseteq V /\ W \subseteq W
  OBVIOUS
<1>3. Part(c, V, {"subnet"}, SubnetIds) /\ Plain(c)
  BY NetworkParts
<1>4. Part(e, E, {"assoc"}, J) /\ Plain(e)
  BY AssociationsAre
<1>5. /\ Covered(V, O, {i}) /\ Covered(V, O, {i} \cup {j}) /\ Covered(W, O, ({i} \cup {j}) \cup SubnetIds)
      /\ Covered(E, O, (({i} \cup {j}) \cup SubnetIds) \cup {k})
  BY DEF Covered
<1>6. /\ Apart({"vpc"}, {"igw"}) /\ Apart({"vpc"} \cup {"igw"}, {"subnet"})
      /\ Apart(({"vpc"} \cup {"igw"}) \cup {"subnet"}, {"table"})
      /\ Apart((({"vpc"} \cup {"igw"}) \cup {"subnet"}) \cup {"table"}, {"assoc"})
  BY DEF Apart
<1> HIDE DEF i, j, k, O, V, W, E, J, c, e
<1>7. Part(a, O, {"vpc"}, {i}) /\ Plain(a)
  BY <1>2, PlainOne
<1>8. Part(b, V, {"igw"}, {j}) /\ Plain(b)
  BY <1>2, PlainOne
<1>9. Part(d, W, {"table"}, {k}) /\ Plain(d)
  BY <1>2, PlainOne
<1> HIDE DEF a, b, d
<1>10. Part((a \o b) \o c, O, ({"vpc"} \cup {"igw"}) \cup {"subnet"}, ({i} \cup {j}) \cup SubnetIds)
  BY <1>3, <1>5, <1>6, <1>7, <1>8, JoinThree
<1>11. Part(u, O, AwsBaseKinds, ((({i} \cup {j}) \cup SubnetIds) \cup {k}) \cup J)
  BY <1>4, <1>5, <1>6, <1>9, <1>10, JoinThree DEF AwsBaseKinds
<1>12. Plain(u)
  BY <1>3, <1>4, <1>7, <1>8, <1>9, JoinPlain
<1> QED
  BY <1>1, <1>11, <1>12 DEF AwsBaseIds, O, i, j, k, J

AwsNetworkIds == AwsBaseIds \cup IdSet(When(NeedsNat, NatPart))
TerraformAwsKinds == ((AwsBaseKinds \cup NatKinds) \cup {"sg"}) \cup {"ami"}

LEMMA TerraformAwsNetworkIs ==
  ASSUME compute \in Plans
  PROVE  /\ Part(TerraformAwsNetwork, {}, TerraformAwsKinds, (AwsNetworkIds \cup TierIds("sg")) \cup Ids("ami", ImageKeys))
         /\ Plain(TerraformAwsNetwork)
<1> DEFINE O == {}
           V == {<<"vpc">>}
           a == AwsBase
           b == When(NeedsNat, NatPart)
           c == ListPart(SecurityGroups, "sg", V)
           d == ListPart(Images, "ami", O)
           u == ((a \o b) \o c) \o d
<1>1. TerraformAwsNetwork = u
  <2> DEFINE x == R(<<"vpc">>, {})
             y == R(<<"igw">>, {<<"vpc">>})
             e == SubnetPart(Subnets, "subnet", V)
             f == <<R(<<"table", "public">>, {<<"vpc">>, <<"igw">>})>>
             g == Associations("public")
  <2>1. TerraformAwsNetwork = (((((<<x, y>> \o e) \o f) \o g) \o b) \o c) \o d
    BY DEF TerraformAwsNetwork, NatPart, SubnetPart, ListPart, Each
  <2>2. a = (((<<x>> \o <<y>>) \o e) \o f) \o g
    BY DEF AwsBase
  <2> HIDE DEF x, y, e, f, g, a, b, c, d
  <2>3. <<x, y>> = <<x>> \o <<y>>
    BY Literals
  <2> QED
    BY <2>1, <2>2, <2>3
<1>2. Part(a, O, AwsBaseKinds, AwsBaseIds) /\ Plain(a)
  BY AwsBaseIs
<1>3. Part(b, NatNeeds, NatKinds, IdSet(b)) /\ Plain(b) /\ IdSet(b) \subseteq NatIds
  <2>1. NeedsNat \in BOOLEAN
    BY DEF NeedsNat
  <2> QED
    BY <2>1, NatPartIs, WhenIs DEF NatKinds
<1>4. Part(c, V, {"sg"}, TierIds("sg")) /\ Plain(c)
  BY NetworkParts
<1>5. Part(d, O, {"ami"}, Ids("ami", ImageKeys)) /\ Plain(d)
  BY NetworkParts
<1>6. Covered(NatNeeds, O, AwsBaseIds)
  BY DEF Covered, NatNeeds, AwsBaseIds
<1>7. Apart(AwsBaseIds, IdSet(b))
  <2> DEFINE P == NamesOf(SubnetsOf("public"))
             Q == NamesOf(SubnetsOf("private"))
  <2>1. P \cap Q = {}
    <3> SUFFICES ASSUME NEW n, n \in P, n \in Q PROVE FALSE
      OBVIOUS
    <3>1. PICK s \in Range(SubnetsOf("public")) : n = s.name
      BY DEF NamesOf
    <3>2. PICK t \in Range(SubnetsOf("private")) : n = t.name
      BY DEF NamesOf
    <3>3. s \in Range(Subnets) /\ s.tier = "public" /\ t \in Range(Subnets) /\ t.tier = "private"
      BY SubnetsOfIs
    <3> QED
      BY <3>1, <3>2, <3>3, SubnetsAre
  <2> HIDE DEF P, Q
  <2>2. \A x \in AwsBaseIds : \/ x[1] \in {"vpc", "igw", "subnet"}
                              \/ x[1] = "table" /\ x[2] = "public"
                              \/ x[1] = "assoc" /\ x[2] \in P
    BY DEF AwsBaseIds, SubnetIds, Ids, P
  <2>3. \A x \in NatIds : \/ x[1] \in {"eip", "nat"}
                          \/ x[1] = "table" /\ x[2] = "private"
                          \/ x[1] = "assoc" /\ x[2] \in Q
    BY DEF NatIds, Ids, Q
  <2> QED
    BY <1>3, <2>1, <2>2, <2>3 DEF Apart
<1>8. Covered(V, O, AwsBaseIds \cup IdSet(b)) /\ Covered(O, O, (AwsBaseIds \cup IdSet(b)) \cup TierIds("sg"))
  BY DEF Covered, AwsBaseIds
<1>9. Apart(AwsBaseKinds \cup NatKinds, {"sg"}) /\ Apart((AwsBaseKinds \cup NatKinds) \cup {"sg"}, {"ami"})
  BY DEF Apart, AwsBaseKinds, NatKinds
<1> HIDE DEF O, V, a, b, c, d
<1>10. Part(a \o b, O, AwsBaseKinds \cup NatKinds, AwsBaseIds \cup IdSet(b))
  BY <1>2, <1>3, <1>6, <1>7, JoinApart
<1>11. Part(u, O, TerraformAwsKinds, ((AwsBaseIds \cup IdSet(b)) \cup TierIds("sg")) \cup Ids("ami", ImageKeys))
  BY <1>4, <1>5, <1>8, <1>9, <1>10, JoinThree DEF TerraformAwsKinds
<1>12. Plain(u)
  BY <1>2, <1>3, <1>4, <1>5, JoinPlain
<1> QED
  BY <1>1, <1>11, <1>12 DEF AwsNetworkIds, O, b

TerraformGcpIds == GcpNetworkIds \cup IdSet(When(NeedsNat, <<R(<<"router">>, {<<"network">>}), R(<<"nat">>, {<<"router">>})>>))

LEMMA TerraformGcpNetworkIs ==
  ASSUME compute \in Plans
  PROVE  /\ Part(TerraformGcpNetwork, {}, {"network", "subnet", "fw"} \cup {"router", "nat"}, TerraformGcpIds)
         /\ Plain(TerraformGcpNetwork)
<1> DEFINE i == <<"router">>
           j == <<"nat">>
           V == {<<"network">>}
           W == {<<"router">>}
           O == {}
           n == <<R(i, V), R(j, W)>>
           a == PulumiGcpNetwork
           b == When(NeedsNat, n)
           K == {"network", "subnet", "fw"}
           L == {"router", "nat"}
<1>1. TerraformGcpNetwork = a \o b
  BY DEF TerraformGcpNetwork
<1>2. Part(a, O, K, GcpNetworkIds) /\ Plain(a)
  BY PulumiGcpNetworkIs DEF GcpNetworkIds
<1>3. Covered(V, O, GcpNetworkIds) /\ Apart(K, L)
  BY DEF Covered, Apart, GcpNetworkIds
<1>4. V \subseteq V /\ W \subseteq V \cup {i} /\ i[1] # j[1] /\ i[1] = "router" /\ j[1] = "nat"
  OBVIOUS
<1>5. IdSet(b) = IdSet(When(NeedsNat, <<R(<<"router">>, {<<"network">>}), R(<<"nat">>, {<<"router">>})>>))
  OBVIOUS
<1> HIDE DEF i, j, V, W, O, a, K
<1>6. Part(n, V, L, {i, j}) /\ Plain(n)
  BY <1>4, PlainTwo
<1> HIDE DEF n, L
<1>7. Part(b, V, L, IdSet(b)) /\ Plain(b)
  <2>1. NeedsNat \in BOOLEAN
    BY DEF NeedsNat
  <2> QED
    BY <1>6, <2>1, WhenIs
<1> HIDE DEF b
<1>8. Part(a \o b, O, K \cup L, GcpNetworkIds \cup IdSet(b))
  BY <1>2, <1>3, <1>7, JoinParts
<1>9. Plain(a \o b)
  BY <1>2, <1>7, JoinPlain
<1> QED
  BY <1>1, <1>5, <1>8, <1>9 DEF O, K, L, TerraformGcpIds

\* compute.tf and its parts hold every machine once.
LEMMA ComputeFilesAre ==
  ASSUME compute \in Plans
  PROVE  Listing(ComputeFiles)
<1>1. CASE SplitAbove = 0 \/ Len(compute) <= SplitAbove
  BY <1>1, ComputeIsListing DEF ComputeFiles
<1>2. CASE ~(SplitAbove = 0 \/ Len(compute) <= SplitAbove)
  <2> DEFINE s == SetToSeq(Groups)
             ss == [i \in DOMAIN s |-> Members(s[i][1], s[i][2])]
             u == FlattenSeq(ss)
  <2>1. ComputeFiles = u
    BY <1>2 DEF ComputeFiles, Each, Groups
  <2>2. Sequence(s) /\ Range(s) = Groups /\ Once(s)
    BY FiniteParts, ListIs
  <2> HIDE DEF s
  <2>3. \A i \in DOMAIN s : /\ Sequence(ss[i]) /\ Once(ss[i])
                            /\ Range(ss[i]) = {m \in Range(compute) : m.tier = s[i][1] /\ m.env = s[i][2]}
    BY MembersIs
  <2>4. ss = [i \in DOMAIN s |-> ss[i]]
    OBVIOUS
  <2> HIDE DEF ss
  <2>5. Sequence(ss) /\ DOMAIN ss = DOMAIN s
    BY <2>2, <2>4, MapIs
  <2>6. \A i \in DOMAIN s : \E m \in Range(compute) : s[i] = <<m.tier, m.env>>
    BY <2>2, RangeIs DEF Groups
  <2>7. \A i, j \in DOMAIN ss : i # j => Range(ss[i]) \cap Range(ss[j]) = {}
    <3> SUFFICES ASSUME NEW i \in DOMAIN s, NEW j \in DOMAIN s, NEW m, m \in Range(ss[i]), m \in Range(ss[j])
                 PROVE  i = j
      BY <2>5
    <3>1. s[i][1] = s[j][1] /\ s[i][2] = s[j][2]
      BY <2>3
    <3>2. s[i] = <<s[i][1], s[i][2]>> /\ s[j] = <<s[j][1], s[j][2]>>
      BY <2>6
    <3>3. s[i] = s[j]
      BY <3>1, <3>2
    <3> QED
      BY <2>2, <3>3 DEF Once
  <2>8. Sequence(u) /\ Range(u) = UNION {Range(ss[i]) : i \in DOMAIN s}
    BY <2>3, <2>5, FlattenRange
  <2>9. Once(u)
    BY <2>3, <2>5, <2>7, FlattenOnce
  <2> HIDE DEF u
  <2>10. \A m \in Range(compute) : \E i \in DOMAIN s : m \in Range(ss[i])
    <3> SUFFICES ASSUME NEW m \in Range(compute) PROVE \E i \in DOMAIN s : m \in Range(ss[i])
      OBVIOUS
    <3>1. <<m.tier, m.env>> \in Range(s)
      BY <2>2 DEF Groups
    <3>2. PICK i \in DOMAIN s : s[i] = <<m.tier, m.env>>
      BY <3>1, RangeIs
    <3> QED
      BY <2>3, <3>2
  <2>11. \A i \in DOMAIN s : Range(ss[i]) \subseteq Range(compute)
    BY <2>3
  <2>12. Range(u) = Range(compute)
    BY <2>8, <2>10, <2>11
  <2> QED
    BY <2>1, <2>8, <2>9, <2>12 DEF Listing
<1> QED
  BY <1>1, <1>2

RoleKinds == {"role", "profile", "ssm"}
RoleNeeds == IF target = "azure" THEN {<<"rg">>} ELSE {}

Roles(t) ==
  IF target = "aws"
  THEN <<R(<<"role", t>>, {}), R(<<"profile", t>>, {<<"role", t>>})>> \o When(identity = "ssm", <<R(<<"ssm", t>>, {<<"role", t>>})>>)
  ELSE <<R(<<"profile", t>>, IF target = "azure" THEN {<<"rg">>} ELSE {})>>

LEMMA RolesAre ==
  ASSUME NEW t
  PROVE  LET u == Roles(t) IN
         /\ Part(u, RoleNeeds, RoleKinds, IdSet(u)) /\ Plain(u)
         /\ <<"profile", t>> \in IdSet(u) /\ \A x \in IdSet(u) : x[2] = t
<1> DEFINE i == <<"role", t>>
           j == <<"profile", t>>
           k == <<"ssm", t>>
           u == Roles(t)
<1>1. i[1] = "role" /\ j[1] = "profile" /\ k[1] = "ssm" /\ i[1] # j[1] /\ i[2] = t /\ j[2] = t /\ k[2] = t
  OBVIOUS
<1>2. CASE target = "aws"
  <2> DEFINE O == {}
             V == {i}
             b == identity = "ssm"
             P == IF b THEN {k} ELSE {}
             s == <<R(i, O), R(j, V)>>
             w == When(b, <<R(k, V)>>)
  <2>1. u = s \o w
    BY <1>2 DEF Roles
  <2>2. O \subseteq RoleNeeds /\ V \subseteq RoleNeeds \cup {i} /\ V \subseteq V /\ b \in BOOLEAN
    OBVIOUS
  <2>3. Covered(V, RoleNeeds, {i, j}) /\ Apart({"role", "profile"}, {"ssm"})
    BY DEF Covered, Apart
  <2>4. \A x \in {i, j} \cup P : x[2] = t
    OBVIOUS
  <2> HIDE DEF i, j, k, O, V, b, u
  <2>5. Part(s, RoleNeeds, {"role", "profile"}, {i, j}) /\ Plain(s)
    BY <1>1, <2>2, PlainTwo
  <2>6. Part(w, V, {"ssm"}, P) /\ Plain(w)
    BY <1>1, <2>2, WhenPart
  <2> HIDE DEF s, w, P
  <2>7. Part(s \o w, RoleNeeds, {"role", "profile"} \cup {"ssm"}, {i, j} \cup P)
    BY <2>3, <2>5, <2>6, JoinParts
  <2>8. {"role", "profile"} \cup {"ssm"} = RoleKinds
    BY DEF RoleKinds
  <2>9. Plain(s \o w)
    BY <2>5, <2>6, JoinPlain
  <2>10. IdSet(s \o w) = {i, j} \cup P
    BY <2>7, PartIs
  <2>11. /\ Part(u, RoleNeeds, RoleKinds, IdSet(u)) /\ Plain(u) /\ j \in IdSet(u)
         /\ \A x \in IdSet(u) : x[2] = t
    BY <2>1, <2>4, <2>7, <2>8, <2>9, <2>10
  <2> QED
    BY <2>11 DEF u, j
<1>3. CASE target # "aws"
  <2> DEFINE V == IF target = "azure" THEN {<<"rg">>} ELSE {}
             s == <<R(j, V)>>
  <2>1. u = s
    BY <1>3 DEF Roles
  <2>2. V \subseteq RoleNeeds
    BY DEF RoleNeeds
  <2> HIDE DEF i, j, V, u
  <2>3. Part(s, RoleNeeds, {"profile"}, {j}) /\ Plain(s)
    BY <1>1, <2>2, PlainOne
  <2>4. RoleNeeds \subseteq RoleNeeds /\ {"profile"} \subseteq RoleKinds
    BY DEF RoleKinds
  <2>5. Part(s, RoleNeeds, RoleKinds, {j})
    BY <2>3, <2>4, MoreNeeded
  <2>6. IdSet(s) = {j}
    BY <2>5, PartIs
  <2> HIDE DEF s
  <2>7. /\ Part(u, RoleNeeds, RoleKinds, IdSet(u)) /\ Plain(u) /\ j \in IdSet(u)
        /\ \A x \in IdSet(u) : x[2] = t
    BY <1>1, <2>1, <2>3, <2>5, <2>6
  <2> QED
    BY <2>7 DEF u, j
<1> QED
  BY <1>2, <1>3

LEMMA TerraformIdentityIs ==
  ASSUME compute \in Plans
  PROVE  LET u == TerraformIdentity IN
         /\ Part(u, RoleNeeds, RoleKinds, IdSet(u)) /\ Plain(u)
         /\ \A m \in Range(compute) : Profile(m) \subseteq IdSet(u)
<1> DEFINE s == SetToSeq(roles_for)
           ss == [i \in DOMAIN s |-> Roles(s[i])]
           u == FlattenSeq(ss)
<1>1. TerraformIdentity = u
  BY DEF TerraformIdentity, Roles, Each
<1>2. IsFiniteSet(roles_for)
  <2>1. roles_for \subseteq Tiers
    BY DEF roles_for, Tiers
  <2> QED
    BY <2>1, FiniteParts, FS_Subset
<1>3. Sequence(s) /\ Range(s) = roles_for /\ Once(s)
  BY <1>2, ListIs
<1> HIDE DEF s
<1>4. \A i \in DOMAIN s : Part(ss[i], RoleNeeds, RoleKinds, IdSet(ss[i]))
  BY RolesAre
<1>11. \A i \in DOMAIN s : Plain(ss[i])
  BY RolesAre
<1>12. \A i \in DOMAIN s : <<"profile", s[i]>> \in IdSet(ss[i])
  BY RolesAre
<1>13. \A i \in DOMAIN s : \A x \in IdSet(ss[i]) : x[2] = s[i]
  BY RolesAre
<1>5. ss = [i \in DOMAIN s |-> ss[i]]
  OBVIOUS
<1> HIDE DEF ss
<1>6. \A i, j \in DOMAIN s : i # j => Apart(IdSet(ss[i]), IdSet(ss[j]))
  <2> SUFFICES ASSUME NEW i \in DOMAIN s, NEW j \in DOMAIN s, NEW x, x \in IdSet(ss[i]), x \in IdSet(ss[j])
               PROVE  i = j
    BY DEF Apart
  <2>1. s[i] = s[j]
    BY <1>13
  <2> QED
    BY <1>3, <2>1 DEF Once
<1> DEFINE I == UNION {IdSet(ss[i]) : i \in DOMAIN s}
<1>7. Part(u, RoleNeeds, RoleKinds, I)
  BY <1>3, <1>4, <1>5, <1>6, DisjointParts
<1>8. Plain(u)
  BY <1>3, <1>5, <1>11, PlainParts
<1>9. IdSet(u) = I
  BY <1>7, PartIs
<1> HIDE DEF u
<1>10. \A m \in Range(compute) : Profile(m) \subseteq I
  <2> SUFFICES ASSUME NEW m \in Range(compute), roles_for # {} PROVE <<"profile", m.tier>> \in I
    BY DEF Profile
  <2>1. m.tier \in roles_for
    BY DEF roles_for
  <2>2. PICK i \in DOMAIN s : s[i] = m.tier
    BY <1>3, <2>1, RangeIs
  <2> QED
    BY <1>12, <2>2
<1> QED
  BY <1>1, <1>7, <1>8, <1>9, <1>10

Volumes(m) ==
  FlattenSeq([i \in DOMAIN [j \in 1..m.disks |-> j] |->
      <<VM(<<"volume", LabelOf[m.vm], [j \in 1..m.disks |-> j][i]>>, {<<"inst", LabelOf[m.vm]>>}, m, None,
           {[j \in 1..m.disks |-> j][i]}, FALSE)>>])

LEMMA VolumesAre ==
  ASSUME compute \in Plans, NEW m \in Range(compute)
  PROVE  LET u == Volumes(m) IN
         /\ Part(u, LabelIds("inst"), {"volume"}, IdSet(u)) /\ Yields(u, {}, {m.vm} \X (1..m.disks), {})
         /\ \A x \in IdSet(u) : x[2] = LabelOf[m.vm]
<1> DEFINE n == m.disks
           l == LabelOf[m.vm]
           s == [i \in 1..n |-> i]
           f == [i \in DOMAIN s |-> VM(<<"volume", l, s[i]>>, {<<"inst", l>>}, m, None, {s[i]}, FALSE)]
           u == Row(s, f)
           D == LabelIds("inst")
           K == {"volume"}
<1>1. Volumes(m) = u
  BY DEF Volumes, Row
<1>2. n \in Nat /\ <<"inst", l>> \in D
  BY EstateIs, PlacesAre
<1> HIDE DEF n, l, D
<1>3. Sequence(s) /\ DOMAIN s = 1..n /\ \A i \in 1..n : s[i] = i
  <2>1. s = [i \in 1..n |-> s[i]]
    OBVIOUS
  <2> HIDE DEF s
  <2>2. Sequence(s) /\ DOMAIN s = 1..n
    BY <1>2, <2>1, IsSequence
  <2> QED
    BY <2>2 DEF s
<1> HIDE DEF s
<1>4. DOMAIN f = DOMAIN s /\ \A i \in DOMAIN s :
         /\ f[i].id = <<"volume", l, i>> /\ f[i].refs = {<<"inst", l>>} /\ f[i].vm = m.vm
         /\ f[i].subnet = None /\ f[i].disks = {i} /\ ~f[i].public
  BY <1>3 DEF VM
<1> HIDE DEF f
<1>5. \A i \in DOMAIN s : f[i].refs \subseteq D /\ f[i].id[1] \in K
  BY <1>2, <1>4
<1>6. \A i, j \in DOMAIN s : f[i].id = f[j].id => i = j
  <2> SUFFICES ASSUME NEW i \in DOMAIN s, NEW j \in DOMAIN s, f[i].id = f[j].id PROVE i = j
    OBVIOUS
  <2>1. f[i].id[3] = i /\ f[j].id[3] = j
    BY <1>4
  <2> QED
    BY <2>1
<1> HIDE DEF K
<1>7. /\ Sequence(u) /\ Range(u) = {f[i] : i \in DOMAIN s} /\ IdSet(u) = {f[i].id : i \in DOMAIN s}
      /\ Binds(u, D) /\ Fresh(u, K)
  BY <1>3, <1>4, <1>5, <1>6, RowIs
<1> HIDE DEF u
<1>8. \A x \in IdSet(u) : x[2] = l
  BY <1>4, <1>7
<1>9. MachineSet(u) = {} /\ ShownSet(u) = {}
  <2>1. \A r \in Range(u) : r.subnet = None /\ ~r.public
    BY <1>4, <1>7
  <2> QED
    BY <2>1 DEF MachineSet, ShownSet
<1>10. DiskSet(u) = {m.vm} \X (1..n)
  <2>1. DiskSet(u) = UNION {{m.vm} \X {i} : i \in 1..n}
    BY <1>3, <1>4, <1>7 DEF DiskSet
  <2>2. UNION {{m.vm} \X {i} : i \in 1..n} = {m.vm} \X (1..n)
    OBVIOUS
  <2> QED
    BY <2>1, <2>2
<1> QED
  BY <1>1, <1>7, <1>8, <1>9, <1>10 DEF Part, Yields, D, K, n, l

LEMMA TerraformVolumesAre ==
  ASSUME compute \in Plans
  PROVE  /\ Part(TerraformVolumes, LabelIds("inst"), {"volume"}, IdSet(TerraformVolumes))
         /\ Yields(TerraformVolumes, {}, Disks(AllDisks), {})
<1> DEFINE c == compute
           ss == [i \in DOMAIN c |-> Volumes(c[i])]
           u == FlattenSeq(ss)
           D == LabelIds("inst")
           O == [i \in DOMAIN c |-> {}]
           A == [i \in DOMAIN c |-> {c[i].vm} \X (1..c[i].disks)]
<1>1. TerraformVolumes = u
  BY DEF TerraformVolumes, Volumes, Each
<1>2. \A i \in DOMAIN c : /\ Part(ss[i], D, {"volume"}, IdSet(ss[i]))
                          /\ Yields(ss[i], {}, {c[i].vm} \X (1..c[i].disks), {})
                          /\ \A x \in IdSet(ss[i]) : x[2] = LabelOf[c[i].vm]
  BY ComputeIsListing, VolumesAre
<1>3. ss = [i \in DOMAIN c |-> ss[i]]
  OBVIOUS
<1> HIDE DEF ss, D
<1>4. Part(u, D, {"volume"}, UNION {IdSet(ss[i]) : i \in DOMAIN c})
  <2>1. \A i \in DOMAIN c : Part(ss[i], D, {"volume"}, IdSet(ss[i]))
    BY <1>2
  <2>2. \A i \in DOMAIN c : \A x \in IdSet(ss[i]) : x[2] = LabelOf[c[i].vm]
    BY <1>2
  <2> QED
    BY <1>3, <2>1, <2>2, ComputeIsListing, MachineParts
<1>5. IdSet(u) = UNION {IdSet(ss[i]) : i \in DOMAIN c}
  BY <1>4, PartIs
<1>6. \A i \in DOMAIN c : Yields(ss[i], O[i], A[i], O[i])
  BY <1>2
<1>7. UNION {O[i] : i \in DOMAIN c} = {}
  OBVIOUS
<1>8. UNION {A[i] : i \in DOMAIN c} = Disks(AllDisks)
  <2>1. Disks(AllDisks) = UNION {{m.vm} \X (1..m.disks) : m \in Range(compute)}
    BY DEF Disks, AllDisks
  <2>2. \A m \in Range(c) : \E i \in DOMAIN c : c[i] = m
    BY RangeIs
  <2>3. \A i \in DOMAIN c : c[i] \in Range(c)
    BY RangeIs
  <2>4. \A i \in DOMAIN c : A[i] \subseteq Disks(AllDisks)
    BY <2>1, <2>3
  <2>5. \A x \in Disks(AllDisks) : \E i \in DOMAIN c : x \in A[i]
    BY <2>1, <2>2
  <2> HIDE DEF A
  <2> QED
    BY <2>4, <2>5
<1> HIDE DEF O, A
<1>9. Yields(u, UNION {O[i] : i \in DOMAIN c}, UNION {A[i] : i \in DOMAIN c}, UNION {O[i] : i \in DOMAIN c})
  BY <1>3, <1>6, EstateIs, YieldParts
<1> HIDE DEF u
<1> QED
  BY <1>1, <1>4, <1>5, <1>7, <1>8, <1>9 DEF D

\* A plain resource for each of some machines, all of one kind and each under a name of its own.
LEMMA PartRow ==
  ASSUME NEW s, Sequence(s), NEW kind, NEW nm, NEW to, NEW D,
         \A i \in DOMAIN s : to[i] \subseteq D, \A i, j \in DOMAIN s : nm[i] = nm[j] => i = j
  PROVE  LET u == FlattenSeq([i \in DOMAIN s |-> <<R(<<kind, nm[i]>>, to[i])>>]) IN
         Part(u, D, {kind}, IdSet(u)) /\ Plain(u)
<1> DEFINE f == [i \in DOMAIN s |-> R(<<kind, nm[i]>>, to[i])]
           u == Row(s, f)
           K == {kind}
<1>1. FlattenSeq([i \in DOMAIN s |-> <<R(<<kind, nm[i]>>, to[i])>>]) = u
  BY DEF Row
<1>2. DOMAIN f = DOMAIN s /\ \A i \in DOMAIN s : /\ f[i].id = <<kind, nm[i]>> /\ f[i].refs = to[i]
                                                 /\ f[i].subnet = None /\ f[i].disks = {} /\ ~f[i].public
  BY RIs
<1> HIDE DEF f
<1>3. \A i \in DOMAIN s : f[i].refs \subseteq D
  BY <1>2
<1>4. \A i \in DOMAIN s : f[i].id[1] \in K
  BY <1>2
<1>5. \A i, j \in DOMAIN s : f[i].id = f[j].id => i = j
  BY <1>2
<1> HIDE DEF K
<1>6. Binds(u, D) /\ Fresh(u, K) /\ Plain(u)
  BY <1>2, <1>3, <1>4, <1>5, RowIs
<1> HIDE DEF u
<1> QED
  BY <1>1, <1>6 DEF Part, K

LEMMA TerraformOutputsAre ==
  ASSUME compute \in Plans
  PROVE  Part(TerraformOutputs, LabelIds("inst"), {"output"}, IdSet(TerraformOutputs)) /\ Plain(TerraformOutputs)
<1> DEFINE c == compute
           nm == [i \in DOMAIN c |-> c[i].vm]
           to == [i \in DOMAIN c |-> {<<"inst", LabelOf[c[i].vm]>>}]
           D == LabelIds("inst")
<1>1. TerraformOutputs = FlattenSeq([i \in DOMAIN c |-> <<R(<<"output", nm[i]>>, to[i])>>])
  BY DEF TerraformOutputs, Each
<1>2. Sequence(c) /\ \A i, j \in DOMAIN c : nm[i] = nm[j] => i = j
  BY EstateIs
<1>3. \A i \in DOMAIN c : to[i] \subseteq D
  BY ComputeIsListing, PlacesAre
<1>4. \A i, j \in DOMAIN c : nm[i] = nm[j] => i = j
  BY <1>2
<1> DEFINE w == FlattenSeq([i \in DOMAIN c |-> <<R(<<"output", nm[i]>>, to[i])>>])
<1> HIDE DEF c, nm, to, D
<1>5. Part(w, D, {"output"}, IdSet(w)) /\ Plain(w)
  BY <1>2, <1>3, <1>4, PartRow, ZenonT(60)
<1> QED
  BY <1>1, <1>5 DEF D

LEMMA TerraformImportsAre ==
  ASSUME compute \in Plans
  PROVE  Part(TerraformImports, LabelIds("inst"), {"import"}, IdSet(TerraformImports)) /\ Plain(TerraformImports)
<1> DEFINE c == compute
           T == {m \in Range(c) : m.external}
           d == FlattenSeq([i \in DOMAIN c |-> IF c[i] \in T THEN <<c[i]>> ELSE <<>>])
           nm == [i \in DOMAIN d |-> LabelOf[d[i].vm]]
           to == [i \in DOMAIN d |-> {<<"inst", LabelOf[d[i].vm]>>}]
           D == LabelIds("inst")
<1>1. TerraformImports = FlattenSeq([i \in DOMAIN d |-> <<R(<<"import", nm[i]>>, to[i])>>])
  <2> DEFINE e == Only(compute, LAMBDA m : m.external)
  <2>1. \A i \in DOMAIN c : (c[i] \in T) <=> c[i].external
    BY RangeIs
  <2>2. d = e
    <3>1. d = FlattenSeq([i \in DOMAIN c |-> IF c[i].external THEN <<c[i]>> ELSE <<>>])
      BY <2>1
    <3> HIDE DEF d
    <3> QED
      BY <3>1 DEF Only, Each, When
  <2>3. TerraformImports = FlattenSeq([i \in DOMAIN e |-> <<R(<<"import", LabelOf[e[i].vm]>>, {<<"inst", LabelOf[e[i].vm]>>})>>])
    BY DEF TerraformImports, Each
  <2> HIDE DEF d, e
  <2>4. FlattenSeq([i \in DOMAIN d |-> <<R(<<"import", nm[i]>>, to[i])>>])
        = FlattenSeq([i \in DOMAIN d |-> <<R(<<"import", LabelOf[d[i].vm]>>, {<<"inst", LabelOf[d[i].vm]>>})>>])
    OBVIOUS
  <2> QED
    BY <2>2, <2>3, <2>4
<1>2. Sequence(d) /\ Once(d) /\ Range(d) = Range(compute) \cap T
  <2> HIDE DEF T
  <2> QED
    BY SomeMachines
<1> HIDE DEF d
<1>3. \A i \in DOMAIN d : d[i] \in Range(compute)
  BY <1>2, RangeIs
<1>4. \A i \in DOMAIN d : to[i] \subseteq D
  BY <1>3, PlacesAre
<1>5. \A i, j \in DOMAIN d : nm[i] = nm[j] => i = j
  <2> SUFFICES ASSUME NEW i \in DOMAIN d, NEW j \in DOMAIN d, LabelOf[d[i].vm] = LabelOf[d[j].vm] PROVE i = j
    OBVIOUS
  <2>1. d[i] = d[j]
    BY <1>3, EstateIs
  <2> QED
    BY <1>2, <2>1 DEF Once
<1> DEFINE w == FlattenSeq([i \in DOMAIN d |-> <<R(<<"import", nm[i]>>, to[i])>>])
<1> HIDE DEF nm, to, D
<1>7. Sequence(d)
  BY <1>2
<1>8. \A i \in DOMAIN d : to[i] \subseteq D
  BY <1>4
<1>9. \A i, j \in DOMAIN d : nm[i] = nm[j] => i = j
  BY <1>5
<1>6. Part(w, D, {"import"}, IdSet(w)) /\ Plain(w)
  BY <1>7, <1>8, <1>9, PartRow, ZenonT(60)
<1> QED
  BY <1>1, <1>6 DEF D

-----------------------------------------------------------------------------
(* Terraform: network and balancers, identities, machines, volumes, outputs.  *)

TerraformTail(base, mach) == (((base \o TerraformIdentity) \o mach) \o TerraformVolumes) \o TerraformOutputs

\* What the parts of a target have to do for the whole to be in order.
LEMMA TerraformWith ==
  ASSUME compute \in Plans, NEW base, NEW mach, NEW D, NEW K, NEW M, NEW I, NEW P,
         Part(base, LabelIds("inst"), K, I), Plain(base), Part(mach, D, M, IdSet(mach)),
         Yields(mach, MachineRecords(InstId, Place), Disks(NoDisks), P), LabelIds("inst") \subseteq IdSet(mach),
         Covered(RoleNeeds, LabelIds("inst"), I),
         Covered(D, LabelIds("inst"), I \cup IdSet(TerraformIdentity)),
         Apart(K, RoleKinds), Apart(I, IdSet(mach)), Apart(RoleKinds, M),
         Apart((K \cup RoleKinds) \cup M, {"volume"}),
         Apart(((K \cup RoleKinds) \cup M) \cup {"volume"}, {"output"})
  PROVE  LET u == TerraformTail(base, mach) IN
         /\ \E L : Part(u, LabelIds("inst"), L, IdSet(u))
         /\ LabelIds("inst") \subseteq IdSet(u)
         /\ Yields(u, MachineRecords(InstId, Place), Disks(AllDisks), P)
<1> DEFINE J == LabelIds("inst")
           b == TerraformIdentity
           v == TerraformVolumes
           w == TerraformOutputs
           a1 == base \o b
           a2 == a1 \o mach
           a3 == a2 \o v
           u == a3 \o w
           I1 == I \cup IdSet(b)
           I2 == I1 \cup IdSet(mach)
           I3 == I2 \cup IdSet(v)
           I4 == I3 \cup IdSet(w)
           V == {"volume"}
           W == {"output"}
<1>1. TerraformTail(base, mach) = u
  BY DEF TerraformTail
<1>2. Part(b, RoleNeeds, RoleKinds, IdSet(b)) /\ Plain(b)
  BY TerraformIdentityIs
<1>3. Part(v, J, V, IdSet(v)) /\ Yields(v, {}, Disks(AllDisks), {})
  BY TerraformVolumesAre
<1>4. Part(w, J, W, IdSet(w)) /\ Plain(w)
  BY TerraformOutputsAre
<1>5. Part(base, J, K, I) /\ Covered(RoleNeeds, J, I) /\ Covered(D, J, I1) /\ J \subseteq IdSet(mach)
  OBVIOUS
<1>6. Covered(J, J, I2) /\ Covered(J, J, I3)
  BY DEF Covered
<1>7. Apart((K \cup RoleKinds) \cup M, V) /\ Apart(((K \cup RoleKinds) \cup M) \cup V, W)
  OBVIOUS
<1> HIDE DEF J, b, v, w, V, W
<1>8. Part(a1, J, K \cup RoleKinds, I1)
  BY <1>2, <1>5, JoinParts
<1>9. Apart(I1, IdSet(mach))
  <2>1. \A x \in IdSet(b) : x[1] \in RoleKinds
    BY <1>2 DEF Part, Fresh
  <2>2. \A x \in IdSet(mach) : x[1] \in M
    BY DEF Part, Fresh
  <2> QED
    BY <2>1, <2>2 DEF Apart
<1> HIDE DEF a1, I1
<1>10. Part(a2, J, (K \cup RoleKinds) \cup M, I2)
  BY <1>5, <1>8, <1>9, JoinApart
<1>11. J \subseteq I2
  BY <1>5
<1> HIDE DEF a2, I2
<1>12. Part(a3, J, ((K \cup RoleKinds) \cup M) \cup V, I3)
  BY <1>3, <1>6, <1>7, <1>10, JoinParts
<1>13. J \subseteq I3
  BY <1>11
<1> HIDE DEF a3, I3
<1>14. Part(u, J, (((K \cup RoleKinds) \cup M) \cup V) \cup W, I4)
  BY <1>4, <1>6, <1>7, <1>12, JoinParts
<1>15. IdSet(u) = I4 /\ J \subseteq I4
  BY <1>13, <1>14, PartIs
<1>16. Yields(u, MachineRecords(InstId, Place), Disks(AllDisks), P)
  <2> DEFINE S == MachineRecords(InstId, Place)
             A == Disks(AllDisks)
  <2>1. Plain(base \o b)
    BY <1>2, JoinPlain
  <2>2. Yields((base \o b) \o mach, S, Disks(NoDisks), P)
    BY <2>1, PlainAround
  <2>3. Yields(a2, S, Disks(NoDisks), P)
    BY <2>2 DEF a2, a1
  <2>4. Yields(v, {}, A, {})
    BY <1>3
  <2> HIDE DEF S, A
  <2>5. Yields(a2 \o v, S \cup {}, Disks(NoDisks) \cup A, P \cup {})
    BY <2>3, <2>4, JoinYields
  <2>6. S \cup {} = S /\ Disks(NoDisks) \cup A = A /\ P \cup {} = P
    <3>1. Disks(NoDisks) = {}
      BY DEF Disks, NoDisks
    <3> QED
      BY <3>1
  <2>7. Yields(a3, S, A, P)
    BY <2>5, <2>6 DEF a3
  <2> QED
    BY <1>4, <2>7, PlainAround DEF S, A
<1> HIDE DEF u
<1> QED
  BY <1>1, <1>14, <1>15, <1>16 DEF J

ProfileOf == [m \in Range(compute) |-> Profile(m)]
AzureProfile == [m \in Range(compute) |-> IF m.image \in WindowsImages THEN Profile(m) ELSE {}]

LEMMA ProfilesAre ==
  ASSUME compute \in Plans
  PROVE  /\ \A m \in Range(compute) : ProfileOf[m] \subseteq IdSet(TerraformIdentity)
         /\ \A m \in Range(compute) : AzureProfile[m] \subseteq IdSet(TerraformIdentity)
  BY TerraformIdentityIs DEF ProfileOf, AzureProfile

\* A renderer that needs nothing but what it writes, and writes nothing twice.
Whole(s) ==
  /\ \E D, K : Part(s, D, K, IdSet(s)) /\ D \subseteq IdSet(s)

LEMMA TerraformGcpIs ==
  ASSUME compute \in Plans, target = "gcp"
  PROVE  Whole(Terraform) /\ Yields(Terraform, MachineRecords(InstId, Place), Disks(AllDisks), Exposed(IsOwn))
<1> DEFINE c == ComputeFiles
           mach == GcpMachines(c, ProfileOf)
           a == TerraformGcpNetwork
           b == PulumiGcpBalancers
           base == a \o b
           u == TerraformTail(base, mach)
           J == LabelIds("inst")
           H == IdSet(TerraformIdentity)
           K == {"network", "subnet", "fw"} \cup {"router", "nat"}
           L == {"inst"}
           D == SubnetIds \cup H
           I == TerraformGcpIds \cup IdSet(b)
           O == {}
           S == MachineRecords(InstId, Place)
           A == Disks(AllDisks)
           P == Exposed(IsOwn)
<1>1. Listing(c)
  BY ComputeFilesAre
<1>2. \A m \in Range(compute) : ProfileOf[m] \subseteq H
  BY ProfilesAre
<1>3. /\ Part(mach, D, L, J) /\ Yields(mach, S, Disks(NoDisks), P)
      /\ mach = FlattenSeq([i \in DOMAIN c |-> GcpMachine(c[i], ProfileOf[c[i]])])
  BY <1>1, <1>2, GcpMachinesAre
<1>4. Terraform = u
  <2>1. \A i \in DOMAIN c : ProfileOf[c[i]] = Profile(c[i])
    <3>1. \A i \in DOMAIN c : c[i] \in Range(compute)
      BY <1>1, RangeIs DEF Listing
    <3> QED
      BY <3>1 DEF ProfileOf
  <2>2. \A m : TerraformMachine(m) = GcpMachine(m, Profile(m))
    BY DEF TerraformMachine
  <2>3. Each(c, TerraformMachine) = FlattenSeq([i \in DOMAIN c |-> TerraformMachine(c[i])])
    BY DEF Each
  <2>4. [i \in DOMAIN c |-> TerraformMachine(c[i])] = [i \in DOMAIN c |-> GcpMachine(c[i], ProfileOf[c[i]])]
    BY <2>1, <2>2
  <2>5. Each(c, TerraformMachine) = mach
    BY <1>3, <2>3, <2>4
  <2>6. Terraform = (((base \o TerraformIdentity) \o Each(c, TerraformMachine)) \o TerraformVolumes) \o TerraformOutputs
    BY DEF Terraform
  <2> HIDE DEF mach, base, c
  <2> QED
    BY <2>5, <2>6 DEF TerraformTail
<1>5. Part(a, O, K, TerraformGcpIds) /\ Plain(a)
  BY TerraformGcpNetworkIs
<1>6. Part(b, GcpFronts, GcpKinds, IdSet(b)) /\ Plain(b)
  BY PulumiGcpBalancersAre
<1>7. Covered(GcpFronts, J, TerraformGcpIds) /\ Apart(K, GcpKinds) /\ O \subseteq J /\ K \subseteq K
  BY DEF Covered, Apart, GcpFronts, TerraformGcpIds, GcpNetworkIds, GcpKinds, GcpHeadKinds
<1>8. Covered(D, J, I \cup H) /\ Covered(RoleNeeds, J, I)
  BY DEF Covered, TerraformGcpIds, GcpNetworkIds, RoleNeeds
<1>9. /\ Apart(K \cup GcpKinds, RoleKinds) /\ Apart(K \cup GcpKinds, L) /\ Apart(RoleKinds, L)
      /\ Apart(((K \cup GcpKinds) \cup RoleKinds) \cup L, {"volume"})
      /\ Apart((((K \cup GcpKinds) \cup RoleKinds) \cup L) \cup {"volume"}, {"output"})
  BY DEF Apart, GcpKinds, GcpHeadKinds, RoleKinds
<1> HIDE DEF a, b, c, mach, K, L, D, O, S, A, P, J, H
<1>10. Part(a, J, K, TerraformGcpIds)
  BY <1>5, <1>7, MoreNeeded
<1>11. Part(base, J, K \cup GcpKinds, I)
  BY <1>6, <1>7, <1>10, JoinParts
<1>12. Plain(base)
  BY <1>5, <1>6, JoinPlain
<1> HIDE DEF base, I
<1>13. IdSet(mach) = J
  BY <1>3, PartIs
<1>14. Part(mach, D, L, IdSet(mach)) /\ J \subseteq IdSet(mach)
  BY <1>3, <1>13
<1>15. Apart(I, IdSet(mach))
  <2>1. \A x \in I : x[1] \in K \cup GcpKinds
    BY <1>11 DEF Part, Fresh
  <2>2. \A x \in IdSet(mach) : x[1] \in L
    BY <1>14 DEF Part, Fresh
  <2> QED
    BY <1>9, <2>1, <2>2 DEF Apart
<1>16. /\ \E M : Part(u, J, M, IdSet(u)) 
       /\ J \subseteq IdSet(u)
       /\ Yields(u, S, A, P)
  <2>1. /\ Part(base, LabelIds("inst"), K \cup GcpKinds, I) /\ LabelIds("inst") \subseteq IdSet(mach)
        /\ Covered(RoleNeeds, LabelIds("inst"), I)
        /\ Covered(D, LabelIds("inst"), I \cup IdSet(TerraformIdentity))
    BY <1>8, <1>11, <1>14 DEF J, H
  <2>2. Yields(mach, MachineRecords(InstId, Place), Disks(NoDisks), P)
    BY <1>3 DEF S
  <2>3. /\ \E M : Part(u, LabelIds("inst"), M, IdSet(u)) 
        /\ LabelIds("inst") \subseteq IdSet(u)
        /\ Yields(u, MachineRecords(InstId, Place), Disks(AllDisks), P)
    BY <1>9, <1>12, <1>14, <1>15, <2>1, <2>2, TerraformWith
  <2> QED
    BY <2>3 DEF J, S, A
<1> HIDE DEF u
<1>17. Whole(u)
  BY <1>16 DEF Whole
<1> QED
  BY <1>4, <1>16, <1>17 DEF S, A, P

LEMMA TerraformAzureIs ==
  ASSUME compute \in Plans, target = "azure"
  PROVE  Whole(Terraform) /\ Yields(Terraform, MachineRecords(InstId, Place), Disks(AllDisks), Exposed(IsOwn))
<1> DEFINE c == ComputeFiles
           mach == AzureMachines(c, AzureProfile)
           a == PulumiAzureNetwork
           b == PulumiAzureBalancers
           base == a \o b
           u == TerraformTail(base, mach)
           J == LabelIds("inst")
           H == IdSet(TerraformIdentity)
           K == {"rg", "vnet", "subnet", "nsg"}
           L == AzureMachineKinds
           D == AzureMachineNeeds \cup H
           I == AzureNetworkIds \cup IdSet(b)
           O == {}
           S == MachineRecords(InstId, Place)
           A == Disks(AllDisks)
           P == Exposed(IsOwn)
<1>1. Listing(c)
  BY ComputeFilesAre
<1>2. \A m \in Range(compute) : AzureProfile[m] \subseteq H
  BY ProfilesAre
<1>3. /\ Part(mach, D, L, IdSet(mach)) /\ Yields(mach, S, Disks(NoDisks), P)
      /\ J \subseteq IdSet(mach)
      /\ \A x \in IdSet(mach) : \E m \in Range(compute) : x[2] = LabelOf[m.vm]
  BY <1>1, <1>2, AzureMachinesAre
<1>4. Terraform = u
  <2>1. \A i \in DOMAIN c : AzureProfile[c[i]] = IF c[i].image \in WindowsImages THEN Profile(c[i]) ELSE {}
    <3>1. \A i \in DOMAIN c : c[i] \in Range(compute)
      BY <1>1, RangeIs DEF Listing
    <3> QED
      BY <3>1 DEF AzureProfile
  <2>2. \A m : TerraformMachine(m) = AzureMachine(m, IF m.image \in WindowsImages THEN Profile(m) ELSE {})
    BY DEF TerraformMachine
  <2>3. Each(c, TerraformMachine) = FlattenSeq([i \in DOMAIN c |-> TerraformMachine(c[i])])
    BY DEF Each
  <2>4. [i \in DOMAIN c |-> TerraformMachine(c[i])] = [i \in DOMAIN c |-> AzureMachine(c[i], AzureProfile[c[i]])]
    BY <2>1, <2>2
  <2>5. Each(c, TerraformMachine) = mach
    BY <2>3, <2>4 DEF AzureMachines
  <2>6. Terraform = (((base \o TerraformIdentity) \o Each(c, TerraformMachine)) \o TerraformVolumes) \o TerraformOutputs
    BY DEF Terraform
  <2> HIDE DEF mach, base, c
  <2> QED
    BY <2>5, <2>6 DEF TerraformTail
<1>5. Part(a, O, K, AzureNetworkIds) /\ Plain(a)
  BY PulumiAzureNetworkIs DEF AzureNetworkIds
<1>6. /\ Part(b, AzureNeeds, AzureKinds, IdSet(b)) /\ Plain(b) /\ PoolIds \subseteq IdSet(b)
      /\ \A x \in IdSet(b) : \E lb \in Range(LoadBalancers) : x[2] = lb.name
  BY PulumiAzureBalancersAre
<1>7. /\ Covered(AzureNeeds, J, AzureNetworkIds) /\ Apart(K, AzureKinds) /\ Apart(K, L)
      /\ O \subseteq J /\ K \subseteq K
  BY DEF Covered, Apart, AzureNeeds, AzureNetworkIds, AzureKinds, AzureMachineKinds
<1>8. Covered(D, J, I \cup H) /\ Covered(RoleNeeds, J, I)
  BY <1>6 DEF Covered, AzureMachineNeeds, AzureNeeds, AzureNetworkIds, RoleNeeds
<1>9. /\ Apart(K \cup AzureKinds, RoleKinds) /\ Apart(RoleKinds, L)
      /\ Apart(((K \cup AzureKinds) \cup RoleKinds) \cup L, {"volume"})
      /\ Apart((((K \cup AzureKinds) \cup RoleKinds) \cup L) \cup {"volume"}, {"output"})
  BY DEF Apart, AzureKinds, AzureMachineKinds, RoleKinds
<1> HIDE DEF a, b, c, mach, K, L, D, O, S, A, P, J, H
<1>10. Part(a, J, K, AzureNetworkIds)
  BY <1>5, <1>7, MoreNeeded
<1>11. Part(base, J, K \cup AzureKinds, I)
  BY <1>6, <1>7, <1>10, JoinParts
<1>12. Plain(base)
  BY <1>5, <1>6, JoinPlain
<1>13. Apart(AzureNetworkIds, IdSet(mach))
  <2>1. \A x \in AzureNetworkIds : x[1] \in K
    BY <1>5 DEF Part, Fresh
  <2>2. \A x \in IdSet(mach) : x[1] \in L
    BY <1>3 DEF Part, Fresh
  <2> QED
    BY <1>7, <2>1, <2>2 DEF Apart
<1>14. Apart(IdSet(b), IdSet(mach))
  BY <1>3, <1>6, FrontsApart
<1>15. Apart(I, IdSet(mach))
  BY <1>13, <1>14 DEF Apart
<1> HIDE DEF base, I
<1>16. /\ \E M : Part(u, J, M, IdSet(u)) 
       /\ J \subseteq IdSet(u)
       /\ Yields(u, S, A, P)
  <2>1. /\ Part(base, LabelIds("inst"), K \cup AzureKinds, I) /\ LabelIds("inst") \subseteq IdSet(mach)
        /\ Covered(RoleNeeds, LabelIds("inst"), I)
        /\ Covered(D, LabelIds("inst"), I \cup IdSet(TerraformIdentity))
    BY <1>3, <1>8, <1>11 DEF J, H
  <2>2. Yields(mach, MachineRecords(InstId, Place), Disks(NoDisks), P) /\ Part(mach, D, L, IdSet(mach))
    BY <1>3 DEF S
  <2>3. /\ \E M : Part(u, LabelIds("inst"), M, IdSet(u)) 
        /\ LabelIds("inst") \subseteq IdSet(u)
        /\ Yields(u, MachineRecords(InstId, Place), Disks(AllDisks), P)
    BY <1>9, <1>12, <1>15, <2>1, <2>2, TerraformWith
  <2> QED
    BY <2>3 DEF J, S, A
<1> HIDE DEF u
<1>17. Whole(u)
  BY <1>16 DEF Whole
<1> QED
  BY <1>4, <1>16, <1>17 DEF S, A, P

LEMMA TerraformAwsIs ==
  ASSUME compute \in Plans, target = "aws"
  PROVE  Whole(Terraform) /\ Yields(Terraform, MachineRecords(InstId, Place), Disks(AllDisks), Exposed(IsPublic))
<1> DEFINE c == ComputeFiles
           mach == MachineList(c, InstId, AwsRefs(ProfileOf), Place, NoDisks, IsPublic)
           a == TerraformAwsNetwork
           b == PulumiAwsBalancers
           d == TerraformImports
           base == (a \o b) \o d
           u == TerraformTail(base, mach)
           J == LabelIds("inst")
           H == IdSet(TerraformIdentity)
           N == (AwsNetworkIds \cup TierIds("sg")) \cup Ids("ami", ImageKeys)
           K == TerraformAwsKinds
           G == {"lb", "tg", "attachment", "listener"}
           F == {"import"}
           L == {"inst"}
           T == (K \cup G) \cup F
           D == (AwsNeeds \cup Ids("ami", ImageKeys)) \cup H
           I == (N \cup IdSet(b)) \cup IdSet(d)
           O == {}
           S == MachineRecords(InstId, Place)
           A == Disks(AllDisks)
           P == Exposed(IsPublic)
<1>1. Listing(c)
  BY ComputeFilesAre
<1>2. \A m \in Range(compute) : ProfileOf[m] \subseteq H
  BY ProfilesAre
<1>3. Part(mach, D, L, J) /\ Yields(mach, S, Disks(NoDisks), P)
  BY <1>1, <1>2, AwsMachinesAre
<1>4. Terraform = u
  <2>1. \A i \in DOMAIN c : c[i] \in Range(compute)
    BY <1>1, RangeIs DEF Listing
  <2>2. \A m : TerraformMachine(m) =
            <<VM(<<"inst", LabelOf[m.vm]>>,
                 {<<"ami", m.image>>, <<"subnet", subnet_of(m.vm)>>, <<"sg", m.tier>>} \cup Profile(m), m,
                 subnet_of(m.vm), {}, Public(m))>>
    BY DEF TerraformMachine
  <2>3. Each(c, TerraformMachine) = FlattenSeq([i \in DOMAIN c |-> TerraformMachine(c[i])])
    BY DEF Each
  <2>4. \A m \in Range(compute) : TerraformMachine(m) =
            <<VM(InstId[m], AwsRefs(ProfileOf)[m], m, Place[m], NoDisks[m], IsPublic[m])>>
    <3> SUFFICES ASSUME NEW m \in Range(compute)
                 PROVE TerraformMachine(m) = <<VM(InstId[m], AwsRefs(ProfileOf)[m], m, Place[m], NoDisks[m], IsPublic[m])>>
      OBVIOUS
    <3>1. InstId[m] = <<"inst", LabelOf[m.vm]>> /\ Place[m] = subnet_of(m.vm) /\ NoDisks[m] = {} /\ IsPublic[m] = Public(m)
      BY DEF InstId, Place, NoDisks, IsPublic
    <3>2. AwsRefs(ProfileOf)[m] = {<<"ami", m.image>>, <<"subnet", subnet_of(m.vm)>>, <<"sg", m.tier>>} \cup Profile(m)
      BY DEF AwsRefs, ProfileOf
    <3> QED
      BY <2>2, <3>1, <3>2
  <2>5. [i \in DOMAIN c |-> TerraformMachine(c[i])] =
        [i \in DOMAIN c |-> <<VM(InstId[c[i]], AwsRefs(ProfileOf)[c[i]], c[i], Place[c[i]], NoDisks[c[i]], IsPublic[c[i]])>>]
    BY <2>1, <2>4
  <2>6. Each(c, TerraformMachine) = mach
    BY <2>3, <2>5 DEF MachineList
  <2>7. Terraform = (((base \o TerraformIdentity) \o Each(c, TerraformMachine)) \o TerraformVolumes) \o TerraformOutputs
    BY DEF Terraform
  <2> HIDE DEF mach, base, c
  <2> QED
    BY <2>6, <2>7 DEF TerraformTail
<1>5. Part(a, O, K, N) /\ Plain(a)
  BY TerraformAwsNetworkIs
<1>6. Part(b, AwsFronts, G, IdSet(b)) /\ Plain(b)
  BY PulumiAwsBalancersAre
<1>7. Part(d, J, F, IdSet(d)) /\ Plain(d)
  BY TerraformImportsAre
<1>8. /\ Covered(AwsFronts, J, N) /\ Covered(J, J, N \cup IdSet(b)) /\ Apart(K, G) /\ Apart(K \cup G, F)
      /\ O \subseteq J /\ K \subseteq K
  BY DEF Covered, Apart, AwsFronts, AwsNeeds, AwsNetworkIds, AwsBaseIds, TerraformAwsKinds, AwsBaseKinds, NatKinds
<1>9. Covered(D, J, I \cup H) /\ Covered(RoleNeeds, J, I)
  BY DEF Covered, AwsNeeds, AwsNetworkIds, AwsBaseIds, RoleNeeds
<1>10. /\ Apart(T, RoleKinds) /\ Apart(T, L) /\ Apart(RoleKinds, L)
       /\ Apart((T \cup RoleKinds) \cup L, {"volume"})
       /\ Apart(((T \cup RoleKinds) \cup L) \cup {"volume"}, {"output"})
  BY DEF Apart, TerraformAwsKinds, AwsBaseKinds, NatKinds, RoleKinds
<1> HIDE DEF a, b, c, d, mach, K, G, F, L, D, N, O, S, A, P, J, H
<1>11. Part(a, J, K, N)
  BY <1>5, <1>8, MoreNeeded
<1>12. Part(base, J, T, I)
  BY <1>6, <1>7, <1>8, <1>11, JoinThree
<1>13. Plain(base)
  BY <1>5, <1>6, <1>7, JoinPlain
<1> HIDE DEF base, I, T
<1>14. IdSet(mach) = J
  BY <1>3, PartIs
<1>15. Part(mach, D, L, IdSet(mach)) /\ J \subseteq IdSet(mach)
  BY <1>3, <1>14
<1>16. Apart(I, IdSet(mach))
  <2>1. \A x \in I : x[1] \in T
    BY <1>12 DEF Part, Fresh
  <2>2. \A x \in IdSet(mach) : x[1] \in L
    BY <1>15 DEF Part, Fresh
  <2> QED
    BY <1>10, <2>1, <2>2 DEF Apart
<1>17. /\ \E M : Part(u, J, M, IdSet(u)) 
       /\ J \subseteq IdSet(u)
       /\ Yields(u, S, A, P)
  <2>1. /\ Part(base, LabelIds("inst"), T, I) /\ LabelIds("inst") \subseteq IdSet(mach)
        /\ Covered(RoleNeeds, LabelIds("inst"), I)
        /\ Covered(D, LabelIds("inst"), I \cup IdSet(TerraformIdentity))
    BY <1>9, <1>12, <1>15 DEF J, H
  <2>2. Yields(mach, MachineRecords(InstId, Place), Disks(NoDisks), P)
    BY <1>3 DEF S
  <2>3. /\ \E M : Part(u, LabelIds("inst"), M, IdSet(u)) 
        /\ LabelIds("inst") \subseteq IdSet(u)
        /\ Yields(u, MachineRecords(InstId, Place), Disks(AllDisks), P)
    BY <1>10, <1>13, <1>15, <1>16, <2>1, <2>2, TerraformWith
  <2> QED
    BY <2>3 DEF J, S, A
<1> HIDE DEF u
<1>18. Whole(u)
  BY <1>17 DEF Whole
<1> QED
  BY <1>4, <1>17, <1>18 DEF S, A, P

-----------------------------------------------------------------------------
(* Writing a file resource by resource: what is written and what is still to  *)
(* be written make up the whole.                                              *)

RefSet(s) == UNION {r.refs : r \in Range(s)}
Distinct(s) == \A i, j \in DOMAIN s : s[i].id = s[j].id => i = j

LEMMA Cut ==
  ASSUME NEW s, Sequence(s), s # <<>>
  PROVE  /\ Sequence(Tail(s)) /\ Head(s) = s[1] /\ Range(s) = {Head(s)} \cup Range(Tail(s))
         /\ Len(s) \in Nat /\ Len(s) # 0 /\ DOMAIN s = 1..Len(s) /\ DOMAIN Tail(s) = 1..(Len(s) - 1)
         /\ \A i \in 1..(Len(s) - 1) : Tail(s)[i] = s[i + 1]
<1> DEFINE S == Range(s)
<1>1. s \in Seq(S) /\ s # <<>>
  BY DEF Sequence
<1>2. Len(s) \in Nat /\ DOMAIN s = 1..Len(s)
  BY SequenceIs
<1> HIDE DEF S
<1>3. Len(s) # 0
  BY <1>1
<1>4. Tail(s) \in Seq(S) /\ Len(Tail(s)) = Len(s) - 1 /\ Head(s) = s[1]
  BY <1>1
<1>5. \A i \in 1..(Len(s) - 1) : Tail(s)[i] = s[i + 1]
  BY <1>1
<1>6. DOMAIN Tail(s) = 1..(Len(s) - 1)
  BY <1>2, <1>3, <1>4
<1>8. Sequence(Tail(s))
  <2> DEFINE t == Tail(s)
             k == Len(t)
  <2>1. t \in Seq(S)
    BY <1>4
  <2> HIDE DEF t
  <2>2. k \in Nat /\ t \in [1..k -> S]
    BY <2>1
  <2> HIDE DEF k
  <2>3. t = [i \in 1..k |-> t[i]]
    BY <2>2
  <2>4. Sequence(t)
    BY <2>2, <2>3, IsSequence
  <2> QED
    BY <2>4 DEF t
<1>9. \A x \in Range(s) : x \in {Head(s)} \cup Range(Tail(s))
  <2> SUFFICES ASSUME NEW x \in Range(s), x # Head(s) PROVE x \in Range(Tail(s))
    OBVIOUS
  <2>1. PICK i \in 1..Len(s) : s[i] = x
    BY <1>2, RangeIs
  <2>2. i # 1
    BY <1>4, <2>1
  <2>3. i - 1 \in 1..(Len(s) - 1) /\ (i - 1) + 1 = i
    BY <1>2, <2>1, <2>2
  <2>4. Tail(s)[i - 1] = x
    BY <1>5, <2>1, <2>3
  <2> QED
    BY <1>6, <2>3, <2>4, RangeIs
<1>10. \A x \in Range(Tail(s)) : x \in Range(s)
  <2> SUFFICES ASSUME NEW x \in Range(Tail(s)) PROVE x \in Range(s)
    OBVIOUS
  <2>1. PICK i \in 1..(Len(s) - 1) : Tail(s)[i] = x
    BY <1>6, RangeIs
  <2>2. i + 1 \in 1..Len(s)
    BY <1>2, <2>1
  <2> QED
    BY <1>2, <1>5, <2>1, <2>2, RangeIs
<1>11. Head(s) \in Range(s)
  <2>1. 1 \in 1..Len(s)
    BY <1>2, <1>3
  <2> QED
    BY <1>2, <1>4, <2>1, RangeIs
<1> QED
  BY <1>2, <1>3, <1>4, <1>5, <1>6, <1>8, <1>9, <1>10, <1>11

LEMMA CutBinds ==
  ASSUME NEW s, s # <<>>, NEW D, Binds(s, D)
  PROVE  Head(s).refs \subseteq D \cup {Head(s).id} /\ Binds(Tail(s), D \cup {Head(s).id})
<1> DEFINE n == Len(s)
           t == Tail(s)
<1>1. /\ Sequence(t) /\ Head(s) = s[1] /\ n \in Nat /\ n # 0 /\ DOMAIN s = 1..n /\ DOMAIN t = 1..(n - 1)
      /\ \A i \in 1..(n - 1) : t[i] = s[i + 1]
  BY Cut DEF Binds
<1>2. \A i \in 1..n : s[i].refs \subseteq D \cup {s[j].id : j \in 1..i}
  BY <1>1 DEF Binds
<1> HIDE DEF n, t
<1>3. Head(s).refs \subseteq D \cup {Head(s).id}
  <2>1. 1 \in 1..n /\ \A j \in 1..1 : j = 1
    BY <1>1
  <2> QED
    BY <1>1, <1>2, <2>1
<1>4. \A i \in 1..(n - 1) : t[i].refs \subseteq (D \cup {Head(s).id}) \cup {t[j].id : j \in 1..i}
  <2> SUFFICES ASSUME NEW i \in 1..(n - 1), NEW x, x \in t[i].refs, x \notin D, x # Head(s).id
               PROVE  \E j \in 1..i : x = t[j].id
    OBVIOUS
  <2>1. i + 1 \in 1..n
    BY <1>1
  <2>2. PICK j \in 1..(i + 1) : x = s[j].id
    BY <1>1, <1>2, <2>1
  <2>3. j # 1
    BY <1>1, <2>2
  <2>4. j - 1 \in 1..i /\ j - 1 \in 1..(n - 1) /\ (j - 1) + 1 = j
    BY <1>1, <2>2, <2>3
  <2>5. t[j - 1] = s[j]
    BY <1>1, <2>4
  <2> QED
    BY <2>2, <2>4, <2>5
<1>5. Binds(t, D \cup {Head(s).id})
  BY <1>1, <1>4 DEF Binds
<1> QED
  BY <1>3, <1>5 DEF t

LEMMA CutDistinct ==
  ASSUME NEW s, Sequence(s), s # <<>>, Distinct(s)
  PROVE  Distinct(Tail(s)) /\ Head(s).id \notin IdSet(Tail(s))
<1> DEFINE n == Len(s)
           t == Tail(s)
<1>1. /\ Head(s) = s[1] /\ n \in Nat /\ n # 0 /\ DOMAIN s = 1..n /\ DOMAIN t = 1..(n - 1)
      /\ \A i \in 1..(n - 1) : t[i] = s[i + 1]
  BY Cut
<1>2. \A i, j \in 1..n : s[i].id = s[j].id => i = j
  BY <1>1 DEF Distinct
<1> HIDE DEF n, t
<1>3. \A i \in 1..(n - 1) : i + 1 \in 1..n /\ i + 1 # 1
  BY <1>1
<1>4. ASSUME NEW i \in 1..(n - 1), NEW j \in 1..(n - 1), t[i].id = t[j].id PROVE i = j
  <2>1. i + 1 = j + 1
    BY <1>1, <1>2, <1>3, <1>4
  <2> QED
    BY <2>1
<1>5. ASSUME s[1].id \in IdSet(t) PROVE FALSE
  <2>3. \A x \in IdSet(t) : \E i \in DOMAIN t : t[i].id = x
    BY RangeIs
  <2>1. PICK i \in 1..(n - 1) : t[i].id = s[1].id
    BY <1>1, <1>5, <2>3
  <2>2. 1 \in 1..n
    BY <1>1
  <2> QED
    BY <1>1, <1>2, <1>3, <2>1, <2>2
<1> QED
  BY <1>1, <1>4, <1>5 DEF Distinct, t

(* s is what renderer n has still to write; X, Y and Z are the machines,      *)
(* disks and public machines of the whole file.                               *)
Order(n, s, dec, tw, rf, ms, att, sh, X, Y, Z) ==
  /\ Sequence(s)
  /\ rf \cup RefSet(s) \subseteq dec \cup IdSet(s)
  /\ n \in {"pulumi", "cdk"} => rf \subseteq dec /\ Binds(s, dec)
  /\ n \in {"terraform", "pulumi", "kubernetes"} => tw = {} /\ Distinct(s) /\ Apart(dec, IdSet(s))
  /\ n # "cloudformation" => ms \cup MachineSet(s) = X
  /\ n \in {"terraform", "cdk", "kubernetes"} => att \cup DiskSet(s) = Y
  /\ sh \cup ShownSet(s) = Z

\* What writing a resource adds to the machines, the disks and the rest.
Grown(n, r, ms, mm, att, aa) ==
  n # "cloudformation" =>
    /\ mm = IF r.subnet = None THEN ms ELSE ms \cup {[id |-> r.id, vm |-> r.vm, subnet |-> r.subnet]}
    /\ aa = att \cup ({r.vm} \X r.disks)
Marked(r, dec, tw, w, sh, h) ==
  /\ w = IF r.id \in dec THEN tw \cup {r.id} ELSE tw
  /\ h = IF r.public THEN sh \cup {r.vm} ELSE sh

LEMMA OrderStep ==
  ASSUME NEW n, NEW s, NEW dec, NEW tw, NEW rf, NEW ms, NEW att, NEW sh, NEW X, NEW Y, NEW Z,
         Order(n, s, dec, tw, rf, ms, att, sh, X, Y, Z), s # <<>>, NEW r, r = Head(s), NEW t, t = Tail(s),
         NEW d, d = dec \cup {r.id}, NEW f, f = rf \cup r.refs, NEW w, NEW mm, NEW aa, NEW h,
         Grown(n, r, ms, mm, att, aa), Marked(r, dec, tw, w, sh, h)
  PROVE  Order(n, t, d, w, f, mm, aa, h, X, Y, Z)
<1>1. Sequence(s) /\ Sequence(t)
  BY Cut DEF Order
<1>2. /\ IdSet(s) = {r.id} \cup IdSet(t)
      /\ RefSet(s) = r.refs \cup RefSet(t)
      /\ MachineSet(s) = (IF r.subnet = None THEN {} ELSE {[id |-> r.id, vm |-> r.vm, subnet |-> r.subnet]})
                         \cup MachineSet(t)
      /\ DiskSet(s) = ({r.vm} \X r.disks) \cup DiskSet(t)
      /\ ShownSet(s) = (IF r.public THEN {r.vm} ELSE {}) \cup ShownSet(t)
  <2>1. Range(s) = {r} \cup Range(t)
    BY <1>1, Cut
  <2>2. IdSet(s) = {r.id} \cup IdSet(t)
    BY <2>1 DEF IdSet
  <2>3. RefSet(s) = r.refs \cup RefSet(t)
    BY <2>1 DEF RefSet
  <2>4. MachineSet(s) = (IF r.subnet = None THEN {} ELSE {[id |-> r.id, vm |-> r.vm, subnet |-> r.subnet]})
                        \cup MachineSet(t)
    BY <2>1 DEF MachineSet
  <2>5. DiskSet(s) = ({r.vm} \X r.disks) \cup DiskSet(t)
    BY <2>1 DEF DiskSet
  <2>6. ShownSet(s) = (IF r.public THEN {r.vm} ELSE {}) \cup ShownSet(t)
    BY <2>1 DEF ShownSet
  <2> QED
    BY <2>2, <2>3, <2>4, <2>5, <2>6
<1>3. f \cup RefSet(t) \subseteq d \cup IdSet(t)
  <2>1. rf \cup RefSet(s) \subseteq dec \cup IdSet(s)
    BY DEF Order
  <2> QED
    BY <1>2, <2>1
<1>4. n \in {"pulumi", "cdk"} => f \subseteq d /\ Binds(t, d)
  <2> SUFFICES ASSUME n \in {"pulumi", "cdk"} PROVE f \subseteq d /\ Binds(t, d)
    OBVIOUS
  <2>1. rf \subseteq dec /\ Binds(s, dec)
    BY DEF Order
  <2>2. r.refs \subseteq dec \cup {r.id} /\ Binds(t, dec \cup {r.id})
    BY <2>1, CutBinds
  <2> QED
    BY <2>1, <2>2
<1>5. n \in {"terraform", "pulumi", "kubernetes"} => w = {} /\ Distinct(t) /\ Apart(d, IdSet(t))
  <2> SUFFICES ASSUME n \in {"terraform", "pulumi", "kubernetes"} PROVE w = {} /\ Distinct(t) /\ Apart(d, IdSet(t))
    OBVIOUS
  <2>1. tw = {} /\ Distinct(s) /\ Apart(dec, IdSet(s))
    BY DEF Order
  <2>2. Distinct(t) /\ r.id \notin IdSet(t)
    BY <1>1, <2>1, CutDistinct
  <2>3. r.id \notin dec
    BY <1>2, <2>1 DEF Apart
  <2>4. Apart(d, IdSet(t))
    BY <1>2, <2>1, <2>2 DEF Apart
  <2> QED
    BY <2>1, <2>2, <2>3, <2>4 DEF Marked
<1>6. n # "cloudformation" => mm \cup MachineSet(t) = X
  <2> SUFFICES ASSUME n # "cloudformation" PROVE mm \cup MachineSet(t) = X
    OBVIOUS
  <2>1. ms \cup MachineSet(s) = X
    BY DEF Order
  <2> QED
    BY <1>2, <2>1 DEF Grown
<1>7. n \in {"terraform", "cdk", "kubernetes"} => aa \cup DiskSet(t) = Y
  <2> SUFFICES ASSUME n \in {"terraform", "cdk", "kubernetes"} PROVE aa \cup DiskSet(t) = Y
    OBVIOUS
  <2>1. att \cup DiskSet(s) = Y /\ aa = att \cup ({r.vm} \X r.disks)
    BY DEF Order, Grown
  <2>2. DiskSet(s) = ({r.vm} \X r.disks) \cup DiskSet(t)
    BY <1>2
  <2> DEFINE V == {r.vm} \X r.disks
  <2> HIDE DEF V
  <2>3. aa = att \cup V /\ DiskSet(s) = V \cup DiskSet(t)
    BY <2>1, <2>2 DEF V
  <2> QED
    BY <2>1, <2>3
<1>8. h \cup ShownSet(t) = Z
  <2>1. sh \cup ShownSet(s) = Z
    BY DEF Order
  <2> QED
    BY <1>2, <2>1 DEF Marked
<1> QED
  BY <1>1, <1>3, <1>4, <1>5, <1>6, <1>7, <1>8 DEF Order

-----------------------------------------------------------------------------
(* A CloudFormation template keeps the last of the machines of one name.      *)

DisksOf == [v \in Vms |-> 1..Machine(v).disks]

\* What a template adds is a machine with its disks, or nothing that a machine could be called.
Steady(s) ==
  \A r \in Range(s) : /\ r.subnet = None => r.disks = {} /\ r.id[1] # "inst"
                      /\ r.subnet # None => r.disks = DisksOf[r.vm]

LEMMA BaseSteady ==
  ASSUME NEW s, NEW D, NEW I, Ground(s, D, I)
  PROVE  Steady(s) /\ Sequence(s)
<1>1. \A r \in Range(s) : r.id \in I
  BY DEF Ground, Loose, IdSet
<1> QED
  BY <1>1 DEF Ground, Foreign, Plain, Steady

LEMMA JoinSteady ==
  ASSUME NEW s, NEW t, Steady(s) /\ Sequence(s), Steady(t) /\ Sequence(t)
  PROVE  Steady(s \o t) /\ Sequence(s \o t)
  BY Joined DEF Steady

LEMMA StackSteady ==
  ASSUME compute \in Plans, NEW of
  PROVE  Steady(StackMachines(of)) /\ Sequence(StackMachines(of))
<1> DEFINE c == compute
           f == [i \in DOMAIN c |-> VM(StackId(of)[c[i]], StackRefs[c[i]], c[i], Place[c[i]], AllDisks[c[i]], IsPublic[c[i]])]
           u == Row(c, f)
<1>1. StackMachines(of) = u
  BY DEF StackMachines, MachineList, Row
<1>2. Sequence(c) /\ \A i \in DOMAIN c : c[i] \in Range(compute)
  BY ComputeIsListing DEF Listing
<1>3. \A m \in Range(compute) : Place[m] # None /\ AllDisks[m] = DisksOf[m.vm]
  <2> SUFFICES ASSUME NEW m \in Range(compute) PROVE Place[m] # None /\ AllDisks[m] = DisksOf[m.vm]
    OBVIOUS
  <2>1. m.vm \in Vms /\ Machine(m.vm) = m
    BY EstateIs DEF Vms
  <2> QED
    BY <2>1, PlacesAre DEF AllDisks, DisksOf
<1>4. DOMAIN f = DOMAIN c /\ \A i \in DOMAIN c : f[i].subnet # None /\ f[i].disks = DisksOf[f[i].vm]
  BY <1>2, <1>3 DEF VM
<1> HIDE DEF f, c
<1>5. Sequence(u) /\ Range(u) = {f[i] : i \in DOMAIN c}
  BY <1>2, <1>4, RowRange DEF Row
<1> HIDE DEF u
<1> QED
  BY <1>1, <1>4, <1>5 DEF Steady

LEMMA CloudFormationSteady ==
  ASSUME compute \in Plans, graph = build_graph
  PROVE  Steady(CloudFormation)
<1> DEFINE a == CdkNetwork
           b == StackMachines(CidOf)
           c == StackBalancers(CidOf)
           d == CloudFormationOutputs
<1>1. CloudFormation = ((a \o b) \o c) \o d
  BY CloudFormationParts
<1>2. Steady(a) /\ Sequence(a)
  BY CdkNetworkIs, BaseSteady
<1>3. Steady(b) /\ Sequence(b)
  BY StackSteady
<1>4. Steady(c) /\ Sequence(c)
  BY StackBalancersAre, BaseSteady
<1>5. Steady(d) /\ Sequence(d)
  BY CloudFormationOutputsAre, BaseSteady
<1> HIDE DEF a, b, c, d
<1>6. Steady(a \o b) /\ Sequence(a \o b)
  BY <1>2, <1>3, JoinSteady
<1>7. Steady((a \o b) \o c) /\ Sequence((a \o b) \o c)
  BY <1>4, <1>6, JoinSteady
<1> QED
  BY <1>1, <1>5, <1>7, JoinSteady

(* s is what is still to be written of a template, X its machines.            *)
Template(s, ms, att, X, N) ==
  /\ Sequence(s)
  /\ ms \cup MachineSet(s) \subseteq X
  /\ \A r \in Range(s) : /\ r.subnet = None => r.disks = {} /\ r.id[1] # "inst"
                         /\ r.subnet # None => r.disks = N[r.vm]
  /\ att = UNION {{x.vm} \X N[x.vm] : x \in ms}

LEMMA TemplateStep ==
  ASSUME NEW s, NEW ms, NEW att, NEW X, NEW N, Template(s, ms, att, X, N), s # <<>>, NEW r, r = Head(s),
         \A x, y \in X : x.vm = y.vm => x.id = y.id, \A x \in X : x.id[1] = "inst",
         NEW mm, NEW aa, NEW old, old = {x \in ms : x.id = r.id},
         mm = (IF r.subnet = None THEN ms ELSE (ms \ old) \cup {[id |-> r.id, vm |-> r.vm, subnet |-> r.subnet]}),
         aa = {a \in att : a[1] \notin {x.vm : x \in old}} \cup {<<r.vm, i>> : i \in r.disks}
  PROVE  Template(Tail(s), mm, aa, X, N)
<1> DEFINE t == Tail(s)
           new == [id |-> r.id, vm |-> r.vm, subnet |-> r.subnet]
<1>1. Sequence(t) /\ Range(s) = {r} \cup Range(t)
  BY Cut DEF Template
<1> HIDE DEF t
<1>2. \A q \in Range(t) : /\ q.subnet = None => q.disks = {} /\ q.id[1] # "inst"
                          /\ q.subnet # None => q.disks = N[q.vm]
  BY <1>1 DEF Template
<1>3. MachineSet(t) \subseteq MachineSet(s) /\ (r.subnet # None => new \in MachineSet(s))
  BY <1>1 DEF MachineSet
<1>4. ms \subseteq X /\ MachineSet(s) \subseteq X
  BY DEF Template
<1>5. mm \cup MachineSet(t) \subseteq X
  BY <1>3, <1>4
<1>6. att = UNION {{x.vm} \X N[x.vm] : x \in ms}
  BY DEF Template
<1>7. aa = UNION {{x.vm} \X N[x.vm] : x \in mm}
  <2>1. CASE r.subnet = None
    <3>1. r.disks = {} /\ r.id[1] # "inst"
      BY <1>1, <2>1 DEF Template
    <3>2. old = {}
      BY <1>4, <3>1
    <3> QED
      BY <1>6, <2>1, <3>1, <3>2
  <2>2. CASE r.subnet # None
    <3>1. r.disks = N[r.vm] /\ new \in X /\ new.id = r.id /\ new.vm = r.vm
      BY <1>1, <1>3, <1>4, <2>2 DEF Template
    <3>2. mm = (ms \ old) \cup {new}
      BY <2>2
    <3> HIDE DEF new
    <3>3. \A x \in ms : x.vm \in {y.vm : y \in old} <=> x \in old
      BY <1>4
    <3>4. {a \in att : a[1] \notin {x.vm : x \in old}} = UNION {{x.vm} \X N[x.vm] : x \in ms \ old}
      <4>1. ASSUME NEW a, a \in att, a[1] \notin {x.vm : x \in old} PROVE \E x \in ms \ old : a \in {x.vm} \X N[x.vm]
        <5>1. PICK x \in ms : a \in {x.vm} \X N[x.vm]
          BY <1>6, <4>1
        <5>2. a[1] = x.vm
          BY <5>1
        <5> QED
          BY <4>1, <5>1, <5>2
      <4>2. ASSUME NEW x \in ms \ old, NEW a, a \in {x.vm} \X N[x.vm] PROVE a \in att /\ a[1] \notin {y.vm : y \in old}
        <5>1. a[1] = x.vm
          BY <4>2
        <5> QED
          BY <1>6, <3>3, <4>2, <5>1
      <4> QED
        BY <4>1, <4>2
    <3>5. {<<r.vm, i>> : i \in r.disks} = {new.vm} \X N[new.vm]
      BY <3>1
    <3>6. UNION {{x.vm} \X N[x.vm] : x \in mm} = (UNION {{x.vm} \X N[x.vm] : x \in ms \ old}) \cup ({new.vm} \X N[new.vm])
      BY <3>2
    <3> QED
      BY <3>4, <3>5, <3>6
  <2> QED
    BY <2>1, <2>2
<1> QED
  BY <1>1, <1>2, <1>5, <1>7 DEF Template, t

-----------------------------------------------------------------------------
(* The whole files.                                                           *)

Registered == {"terraform", "pulumi", "cloudformation", "bicep", "cdk", "kubernetes"}

IdOf(n) ==
  CASE n \in {"terraform", "pulumi"} -> InstId
    [] n = "cloudformation" -> StackId(CidOf)
    [] n = "bicep" -> BicepId
    [] n = "cdk" -> StackId(SafeOf)
    [] n = "kubernetes" -> KubeId
MachinesOf(n) == MachineRecords(IdOf(n), IF n = "kubernetes" THEN NoPlace ELSE Place)
ShownOf(n) == IF n = "kubernetes" THEN KubeShown ELSE IF target = "aws" THEN Exposed(IsPublic) ELSE Exposed(IsOwn)

LEMMA BindsResolve ==
  ASSUME NEW s, NEW D, Binds(s, D)
  PROVE  Sequence(s) /\ RefSet(s) \subseteq D \cup IdSet(s)
<1>1. Sequence(s) /\ Len(s) \in Nat /\ DOMAIN s = 1..Len(s)
  BY SequenceIs DEF Binds
<1> SUFFICES ASSUME NEW r \in Range(s) PROVE r.refs \subseteq D \cup IdSet(s)
  BY <1>1 DEF RefSet
<1>2. PICK i \in 1..Len(s) : s[i] = r
  BY <1>1, RangeIs
<1>3. r.refs \subseteq D \cup {s[j].id : j \in 1..i}
  BY <1>1, <1>2 DEF Binds
<1>4. \A j \in 1..i : j \in DOMAIN s
  BY <1>1, <1>2
<1>5. \A j \in 1..i : s[j].id \in IdSet(s)
  BY <1>4, RangeIs
<1> QED
  BY <1>3, <1>5

\* Which of them bind, which are distinct, which machines, disks and public machines they hold.
Complete(n, s, X, Y, Z) ==
  /\ Sequence(s)
  /\ RefSet(s) \subseteq IdSet(s)
  /\ n \in {"pulumi", "cdk"} => Binds(s, {})
  /\ n \in {"terraform", "pulumi", "kubernetes"} => Distinct(s)
  /\ MachineSet(s) = X
  /\ n \in {"terraform", "cdk", "kubernetes"} => DiskSet(s) = Y
  /\ ShownSet(s) = Z

LEMMA CompletePart ==
  ASSUME NEW n, NEW s, NEW D, NEW K, NEW X, NEW Y, NEW Z, NEW A, Part(s, D, K, IdSet(s)), D \subseteq IdSet(s),
         n \in {"pulumi", "cdk"} => D = {}, Yields(s, X, A, Z), n \in {"terraform", "cdk", "kubernetes"} => A = Y
  PROVE  Complete(n, s, X, Y, Z)
<1>1. Binds(s, D) /\ Distinct(s)
  BY DEF Part, Fresh, Distinct
<1>2. Sequence(s) /\ RefSet(s) \subseteq IdSet(s)
  BY <1>1, BindsResolve
<1> QED
  BY <1>1, <1>2 DEF Complete, Yields

LEMMA CompleteLoose ==
  ASSUME NEW n, NEW s, NEW X, NEW Y, NEW Z, NEW A, Loose(s, {}, IdSet(s)),
         n \notin {"terraform", "pulumi", "kubernetes"}, Yields(s, X, A, Z),
         n \in {"terraform", "cdk", "kubernetes"} => A = Y
  PROVE  Complete(n, s, X, Y, Z)
<1> DEFINE O == {}
<1>1. Binds(s, O)
  BY DEF Loose
<1> HIDE DEF O
<1>2. Sequence(s) /\ RefSet(s) \subseteq O \cup IdSet(s)
  BY <1>1, BindsResolve
<1> QED
  BY <1>1, <1>2 DEF Complete, Yields, O

LEMMA ResourcesAre ==
  ASSUME compute \in Plans, target \in Targets, graph = build_graph, NEW n \in Registered, supports(n)
  PROVE  Complete(n, Resources(n), MachinesOf(n), Disks(AllDisks), ShownOf(n))
<1> DEFINE Y == Disks(AllDisks)
<1>1. CASE n = "terraform"
  <2> DEFINE s == Terraform
             X == MachineRecords(InstId, Place)
             Z == ShownOf("terraform")
  <2>1. Resources(n) = s /\ MachinesOf(n) = X
    BY <1>1 DEF Resources, MachinesOf, IdOf
  <2>2. Whole(s) /\ Yields(s, X, Y, Z)
    BY TerraformAwsIs, TerraformAzureIs, TerraformGcpIs DEF Targets, ShownOf
  <2>3. PICK D, K : Part(s, D, K, IdSet(s)) /\ D \subseteq IdSet(s)
    BY <2>2 DEF Whole
  <2> HIDE DEF s, X, Y, Z
  <2>4. Complete("terraform", s, X, Y, Z)
    BY <2>2, <2>3, CompletePart
  <2> QED
    BY <1>1, <2>1, <2>4 DEF Z, Y
<1>2. CASE n = "pulumi"
  <2> DEFINE s == Pulumi
             X == MachineRecords(InstId, Place)
             Z == ShownOf("pulumi")
             O == {}
             A == Disks(NoDisks)
  <2>1. Resources(n) = s /\ MachinesOf(n) = X
    BY <1>2 DEF Resources, MachinesOf, IdOf
  <2>2. Yields(s, X, A, Z)
    BY PulumiAwsIs, PulumiAzureIs, PulumiGcpIs DEF Targets, ShownOf, Pulumi
  <2>3. \E K : Part(s, O, K, IdSet(s))
    <3>1. CASE target = "aws"
      BY <3>1, PulumiAwsIs DEF Pulumi
    <3>2. CASE target = "azure"
      BY <3>2, PulumiAzureIs DEF Pulumi
    <3>3. CASE target = "gcp"
      BY <3>3, PulumiGcpIs DEF Pulumi
    <3> QED
      BY <3>1, <3>2, <3>3 DEF Targets
  <2>4. PICK K : Part(s, O, K, IdSet(s))
    BY <2>3
  <2>5. O \subseteq IdSet(s)
    OBVIOUS
  <2> HIDE DEF s, X, Y, Z, A
  <2>6. Complete("pulumi", s, X, Y, Z)
    BY <2>2, <2>4, <2>5, CompletePart
  <2> QED
    BY <1>2, <2>1, <2>6 DEF Z, Y
<1>3. CASE n = "cloudformation"
  <2> DEFINE s == CloudFormation
             X == MachineRecords(StackId(CidOf), Place)
             Z == Exposed(IsPublic)
  <2>1. Resources(n) = s /\ MachinesOf(n) = X /\ ShownOf(n) = Z
    BY <1>3 DEF Resources, MachinesOf, IdOf, ShownOf, supports
  <2>2. Loose(s, {}, IdSet(s)) /\ Yields(s, X, Y, Z)
    BY CloudFormationIs
  <2> HIDE DEF s, X, Y, Z
  <2>3. Complete("cloudformation", s, X, Y, Z)
    BY <2>2, CompleteLoose
  <2> QED
    BY <1>3, <2>1, <2>3 DEF Y
<1>4. CASE n = "bicep"
  <2> DEFINE s == Bicep
             X == MachineRecords(BicepId, Place)
             Z == Exposed(IsOwn)
             A == Disks(NoDisks)
  <2>1. Resources(n) = s /\ MachinesOf(n) = X /\ ShownOf(n) = Z
    BY <1>4 DEF Resources, MachinesOf, IdOf, ShownOf, supports
  <2>2. Loose(s, {}, IdSet(s)) /\ Yields(s, X, A, Z)
    BY BicepIs
  <2> HIDE DEF s, X, Y, Z, A
  <2>3. Complete("bicep", s, X, Y, Z)
    BY <2>2, CompleteLoose
  <2> QED
    BY <1>4, <2>1, <2>3 DEF Y
<1>5. CASE n = "cdk"
  <2> DEFINE s == Cdk
             X == MachineRecords(StackId(SafeOf), Place)
             Z == Exposed(IsPublic)
  <2>1. Resources(n) = s /\ MachinesOf(n) = X /\ ShownOf(n) = Z
    BY <1>5 DEF Resources, MachinesOf, IdOf, ShownOf, supports
  <2>2. Loose(s, {}, IdSet(s)) /\ Yields(s, X, Y, Z)
    BY CdkIs
  <2> HIDE DEF s, X, Y, Z
  <2>3. Complete("cdk", s, X, Y, Z)
    BY <2>2, CompleteLoose
  <2> QED
    BY <1>5, <2>1, <2>3 DEF Y
<1>6. CASE n = "kubernetes"
  <2> DEFINE s == Kubernetes
             X == MachineRecords(KubeId, NoPlace)
             Z == KubeShown
             O == {}
             K == ({"namespace", "policy"} \cup {"vm"}) \cup ({"service"} \cup {"service"})
  <2>1. Resources(n) = s /\ MachinesOf(n) = X /\ ShownOf(n) = Z
    BY <1>6 DEF Resources, MachinesOf, IdOf, ShownOf
  <2>2. Part(s, O, K, IdSet(s)) /\ Yields(s, X, Y, Z) /\ O \subseteq IdSet(s)
    BY KubernetesIs
  <2> HIDE DEF s, X, Y, Z, O, K
  <2>3. Complete("kubernetes", s, X, Y, Z)
    BY <2>2, CompletePart
  <2> QED
    BY <1>6, <2>1, <2>3 DEF Y
<1> QED
  BY <1>1, <1>2, <1>3, <1>4, <1>5, <1>6 DEF Registered

\* A renderer begins with nothing written.
LEMMA OrderBegins ==
  ASSUME NEW n, NEW s, NEW X, NEW Y, NEW Z, Complete(n, s, X, Y, Z)
  PROVE  Order(n, s, {}, {}, {}, {}, {}, {}, X, Y, Z)
<1>1. Apart({}, IdSet(s)) /\ {} \subseteq {}
  BY DEF Apart
<1>2. {} \cup RefSet(s) = RefSet(s) /\ {} \cup IdSet(s) = IdSet(s) /\ {} \cup MachineSet(s) = MachineSet(s)
      /\ {} \cup DiskSet(s) = DiskSet(s) /\ {} \cup ShownSet(s) = ShownSet(s)
  OBVIOUS
<1> QED
  BY <1>1, <1>2 DEF Order, Complete

LEMMA TemplateBegins ==
  ASSUME compute \in Plans, graph = build_graph
  PROVE  Template(CloudFormation, {}, {}, MachinesOf("cloudformation"), DisksOf)
<1> DEFINE s == CloudFormation
           X == MachinesOf("cloudformation")
<1>1. X = MachineRecords(StackId(CidOf), Place)
  BY DEF MachinesOf, IdOf
<1>2. Sequence(s) /\ MachineSet(s) = X
  BY <1>1, CloudFormationIs DEF Yields
<1>3. Steady(s)
  BY CloudFormationSteady
<1> HIDE DEF s, X
<1> QED
  BY <1>2, <1>3 DEF Template, Steady, s, X

\* In a template a machine's name follows from the machine, and no other resource has one.
LEMMA TemplateNames ==
  /\ \A x, y \in MachinesOf("cloudformation") : x.vm = y.vm => x.id = y.id
  /\ \A x \in MachinesOf("cloudformation") : x.id[1] = "inst"
<1>1. \A x \in MachinesOf("cloudformation") : x.id = <<"inst", CidOf[x.vm]>>
  BY DEF MachinesOf, IdOf, MachineRecords, StackId
<1> QED
  BY <1>1

-----------------------------------------------------------------------------
(* The inductive invariant of the renderers.                                  *)

RenderTyped == target \in Targets /\ compute \in Plans /\ renderer \in Registered \cup {None} /\ turn \in Nat \ {0}
GraphBuilt == graph.nodes # <<>> => graph = build_graph
InOrder ==
  renderer # None => Order(renderer, unwritten, declared, twice, refs, machines, attached, shown,
                           MachinesOf(renderer), Disks(AllDisks), ShownOf(renderer))
Templated ==
  renderer = "cloudformation" => Template(unwritten, machines, attached, MachinesOf("cloudformation"), DisksOf)
Consistent ==
  /\ \A x \in machines : x.subnet \in {Nowhere, subnet_of(x.vm)}
  /\ \A p \in placed : p[2] = subnet_of(p[1])

RenderInv == RenderTyped /\ GraphBuilt /\ InOrder /\ Templated /\ Consistent

\* What a renderer has to write depends on the plan and nothing else.
LEMMA PlanFixed ==
  ASSUME compute' = compute, target' = target
  PROVE  /\ \A v : subnet_of(v)' = subnet_of(v)
         /\ build_graph' = build_graph
         /\ \A n : MachinesOf(n)' = MachinesOf(n)
         /\ Disks(AllDisks)' = Disks(AllDisks)
         /\ \A n : ShownOf(n)' = ShownOf(n)
         /\ DisksOf' = DisksOf
<1>1. \A v : subnet_of(v)' = subnet_of(v)
  BY DEF subnet_of, assign_subnets, SubnetsOf, subnet_tier, Only, Each, When
<1>2. build_graph' = build_graph
  BY DEF build_graph, InstanceEdges, BalancerEdges, InstanceId, LbId, Machine, LoadBalancers, Members, subnet_of, assign_subnets,
         SubnetsOf, subnet_tier, Only, Each, When, Edge
<1>3. \A n : MachinesOf(n)' = MachinesOf(n)
  BY DEF MachinesOf, MachineRecords, IdOf, NoPlace, Place, InstId, StackId, BicepId, KubeId, subnet_of, assign_subnets, SubnetsOf, subnet_tier, Only, Each, When
<1>4. Disks(AllDisks)' = Disks(AllDisks)
  BY DEF Disks, AllDisks
<1>5. \A n : ShownOf(n)' = ShownOf(n)
  BY SMTT(30) DEF ShownOf, KubeShown, Serviced, Exposed, IsPublic, IsOwn, OwnAddress, Public, subnet_tier, Fronted, LoadBalancers, Members, Only, Each, When
<1>6. DisksOf' = DisksOf
  BY DEF DisksOf, Vms, Machine
<1> QED
  BY <1>1, <1>2, <1>3, <1>4, <1>5, <1>6

LEMMA MachinesPlaced ==
  ASSUME NEW n, NEW x \in MachinesOf(n)
  PROVE  x.subnet \in {Nowhere, subnet_of(x.vm)}
  BY DEF MachinesOf, MachineRecords, NoPlace, Place

LEMMA RenderStep ==
  ASSUME RenderInv, [RenderNext]_renderVars
  PROVE  RenderInv'
<1>1. compute' = compute /\ target' = target
  BY DEF RenderNext, BuildGraph, Begin, Emit, Finish, renderVars
<1>2. /\ \A v : subnet_of(v)' = subnet_of(v)
      /\ build_graph' = build_graph
      /\ \A n : MachinesOf(n)' = MachinesOf(n)
      /\ Disks(AllDisks)' = Disks(AllDisks)
      /\ \A n : ShownOf(n)' = ShownOf(n)
      /\ DisksOf' = DisksOf
  BY <1>1, PlanFixed
<1>3. CASE BuildGraph
  <2>1. RenderTyped' /\ GraphBuilt'
    BY <1>2, <1>3 DEF RenderInv, RenderTyped, GraphBuilt, BuildGraph
  <2>2. InOrder' /\ Templated'
    BY <1>2, <1>3, RenderAssumption DEF InOrder, Templated, BuildGraph
  <2>3. Consistent'
    BY <1>2, <1>3 DEF RenderInv, Consistent, BuildGraph
  <2> QED
    BY <2>1, <2>2, <2>3 DEF RenderInv
<1>4. CASE Begin
  <2> DEFINE n == Renderers[turn]
  <2>1. n \in Registered /\ compute \in Plans /\ target \in Targets
    BY <1>4 DEF RenderInv, RenderTyped, Begin, Renderers, Registered
  <2>2. graph = build_graph /\ graph' = graph
    BY <1>4 DEF RenderInv, GraphBuilt, Begin
  <2>3. /\ declared' = {} /\ twice' = {} /\ refs' = {} /\ machines' = {} /\ attached' = {} /\ shown' = {}
        /\ placed' = placed /\ renderer = None
    BY <1>4 DEF Begin
  <2>4. Consistent'
    BY <1>2, <2>3 DEF RenderInv, Consistent
  <2>5. GraphBuilt'
    BY <1>2, <2>2 DEF GraphBuilt
  <2>6. CASE supports(n)
    <3>1. renderer' = n /\ unwritten' = Resources(n) /\ turn' = turn
      BY <1>4, <2>6 DEF Begin
    <3>2. RenderTyped'
      BY <1>1, <2>1, <3>1 DEF RenderInv, RenderTyped
    <3>3. Complete(n, Resources(n), MachinesOf(n), Disks(AllDisks), ShownOf(n))
      BY <2>1, <2>2, <2>6, ResourcesAre
    <3>4. Order(n, Resources(n), {}, {}, {}, {}, {}, {}, MachinesOf(n), Disks(AllDisks), ShownOf(n))
      BY <3>3, OrderBegins
    <3> HIDE DEF n
    <3>5. InOrder'
      BY <1>2, <2>3, <3>1, <3>4 DEF InOrder
    <3>6. Templated'
      <4> SUFFICES ASSUME n = "cloudformation"
                   PROVE  Template(Resources(n), {}, {}, MachinesOf("cloudformation"), DisksOf)
        BY <1>2, <2>3, <3>1 DEF Templated
      <4>1. Resources(n) = CloudFormation
        BY DEF Resources
      <4> QED
        BY <2>1, <2>2, <4>1, TemplateBegins
    <3> QED
      BY <2>4, <2>5, <3>2, <3>5, <3>6 DEF RenderInv
  <2>7. CASE ~supports(n)
    <3>1. renderer' = None /\ turn' = turn + 1
      BY <1>4, <2>3, <2>7 DEF Begin
    <3>2. RenderTyped'
      BY <1>1, <3>1 DEF RenderInv, RenderTyped
    <3>3. InOrder' /\ Templated'
      BY <3>1, RenderAssumption DEF InOrder, Templated
    <3> QED
      BY <2>4, <2>5, <3>2, <3>3 DEF RenderInv
  <2> QED
    BY <2>6, <2>7
<1>5. CASE Emit
  <2> DEFINE r == Head(unwritten)
             new == [id |-> r.id, vm |-> r.vm, subnet |-> r.subnet]
             X == MachinesOf(renderer)
             Y == Disks(AllDisks)
             Z == ShownOf(renderer)
             old == Replaced(r)
  <2>1. /\ declared' = declared \cup {r.id}
        /\ twice' = IF r.id \in declared THEN twice \cup {r.id} ELSE twice
        /\ refs' = refs \cup r.refs
        /\ machines' = IF r.subnet = None THEN machines ELSE (machines \ old) \cup {new}
        /\ attached' = {a \in attached : a[1] \notin {x.vm : x \in old}} \cup {<<r.vm, i>> : i \in r.disks}
        /\ shown' = IF r.public THEN shown \cup {r.vm} ELSE shown
        /\ unwritten' = Tail(unwritten)
    BY <1>5 DEF Emit
  <2>2. /\ renderer' = renderer /\ renderer # None /\ unwritten # <<>> /\ graph' = graph /\ turn' = turn
        /\ placed' = placed
    BY <1>5 DEF Emit
  <2>3. RenderTyped' /\ GraphBuilt'
    BY <1>1, <1>2, <2>2 DEF RenderInv, RenderTyped, GraphBuilt
  <2>4. Order(renderer, unwritten, declared, twice, refs, machines, attached, shown, X, Y, Z)
    BY <2>2 DEF RenderInv, InOrder
  <2>5. renderer # "cloudformation" => old = {}
    BY DEF Replaced
  <2>6. renderer # "cloudformation" => machines' = IF r.subnet = None THEN machines ELSE machines \cup {new}
    BY <2>1, <2>5
  <2>7. renderer # "cloudformation" => attached' = attached \cup ({r.vm} \X r.disks)
    <3> SUFFICES ASSUME renderer # "cloudformation" PROVE attached' = attached \cup ({r.vm} \X r.disks)
      OBVIOUS
    <3> HIDE DEF r, old
    <3>1. {a \in attached : a[1] \notin {x.vm : x \in old}} = attached
      BY <2>5
    <3>2. {<<r.vm, i>> : i \in r.disks} = {r.vm} \X r.disks
      OBVIOUS
    <3> QED
      BY <2>1, <3>1, <3>2
  <2>8. r = Head(unwritten)
    OBVIOUS
  <2> HIDE DEF r, X, Y, Z, old
  <2>9. Order(renderer, unwritten', declared', twice', refs', machines', attached', shown', X, Y, Z)
    <3>1. Grown(renderer, r, machines, machines', attached, attached')
      BY <2>6, <2>7 DEF Grown
    <3>2. Marked(r, declared, twice, twice', shown, shown')
      BY <2>1 DEF Marked
    <3>3. declared' = declared \cup {r.id} /\ refs' = refs \cup r.refs /\ unwritten' = Tail(unwritten)
      BY <2>1
    <3>4. unwritten # <<>>
      BY <2>2
    <3> QED
      BY <2>4, <2>8, <3>1, <3>2, <3>3, <3>4, OrderStep
  <2>10. InOrder'
    BY <1>2, <2>2, <2>9 DEF InOrder, X, Y, Z
  <2>11. renderer = "cloudformation" =>
           Template(unwritten', machines', attached', MachinesOf("cloudformation"), DisksOf)
    <3> SUFFICES ASSUME renderer = "cloudformation"
                 PROVE  Template(Tail(unwritten), machines', attached', MachinesOf("cloudformation"), DisksOf)
      BY <2>1
    <3>1. Template(unwritten, machines, attached, MachinesOf("cloudformation"), DisksOf)
      BY DEF RenderInv, Templated
    <3>2. old = {x \in machines : x.id = r.id}
      BY DEF old, Replaced
    <3> QED
      BY <2>1, <2>2, <2>8, <3>1, <3>2, TemplateNames, TemplateStep
  <2>12. Templated'
    BY <1>2, <2>2, <2>11 DEF Templated
  <2>13. machines' \subseteq X
    <3>1. CASE renderer = "cloudformation"
      BY <2>11, <3>1 DEF Template, X
    <3>2. CASE renderer # "cloudformation"
      BY <2>9, <3>2 DEF Order
    <3> QED
      BY <3>1, <3>2
  <2>14. \A x \in machines' : x.subnet \in {Nowhere, subnet_of(x.vm)}
    BY <2>13, MachinesPlaced DEF X
  <2>15. Consistent'
    BY <1>2, <2>2, <2>14 DEF RenderInv, Consistent
  <2> QED
    BY <2>3, <2>10, <2>12, <2>15 DEF RenderInv
<1>6. CASE Finish
  <2>1. renderer' = None /\ turn' = turn + 1 /\ graph' = graph /\ machines' = machines
    BY <1>6 DEF Finish
  <2>2. placed' = placed \cup {<<x.vm, x.subnet>> : x \in {x \in machines : x.subnet # Nowhere}}
    BY <1>6 DEF Finish
  <2>3. RenderTyped' /\ GraphBuilt'
    BY <1>1, <1>2, <2>1 DEF RenderInv, RenderTyped, GraphBuilt
  <2>4. InOrder' /\ Templated'
    BY <2>1, RenderAssumption DEF InOrder, Templated
  <2>5. \A p \in placed' : p[2] = subnet_of(p[1])
    BY <2>2 DEF RenderInv, Consistent
  <2>6. Consistent'
    BY <1>2, <2>1, <2>5 DEF RenderInv, Consistent
  <2> QED
    BY <2>3, <2>4, <2>6 DEF RenderInv
<1>7. CASE UNCHANGED renderVars
  <2>1. RenderTyped' /\ GraphBuilt'
    BY <1>1, <1>2, <1>7 DEF RenderInv, RenderTyped, GraphBuilt, renderVars
  <2>2. InOrder'
    BY <1>2, <1>7 DEF RenderInv, InOrder, renderVars
  <2>3. Templated'
    BY <1>2, <1>7 DEF RenderInv, Templated, renderVars
  <2>4. Consistent'
    BY <1>2, <1>7 DEF RenderInv, Consistent, renderVars
  <2> QED
    BY <2>1, <2>2, <2>3, <2>4 DEF RenderInv
<1> QED
  BY <1>3, <1>4, <1>5, <1>6, <1>7 DEF RenderNext

LEMMA RenderHolds == RenderSpec => []RenderInv
<1>1. RenderInit => RenderInv
  BY RenderAssumption DEF RenderInit, RenderInv, RenderTyped, GraphBuilt, InOrder, Templated, Consistent
<1> QED
  BY <1>1, RenderStep, PTL DEF RenderSpec

-----------------------------------------------------------------------------
(* What is on disk when a renderer has written its last resource.             *)

LEMMA WrittenIs ==
  ASSUME RenderInv, Written
  PROVE  /\ renderer \in Registered
         /\ refs \subseteq declared
         /\ renderer # "cloudformation" => machines = MachinesOf(renderer)
         /\ renderer \in {"terraform", "cdk", "kubernetes"} => attached = Disks(AllDisks)
         /\ shown = ShownOf(renderer)
<1>1. Range(<<>>) = {}
  BY NoneAndOne
<1>2. IdSet(<<>>) = {} /\ RefSet(<<>>) = {} /\ MachineSet(<<>>) = {} /\ DiskSet(<<>>) = {} /\ ShownSet(<<>>) = {}
  BY <1>1 DEF IdSet, RefSet, MachineSet, DiskSet, ShownSet
<1>3. Order(renderer, <<>>, declared, twice, refs, machines, attached, shown, MachinesOf(renderer), Disks(AllDisks),
            ShownOf(renderer))
  BY DEF RenderInv, InOrder, Written
<1> QED
  BY <1>2, <1>3 DEF Order, RenderInv, RenderTyped, Written

\* Whatever a generated resource refers to is there once the renderer is done, and in the Pulumi and CDK
\* programs it is bound before the line that uses it, for every plan, target and identity mode.
THEOREM ReferencesResolve == RenderSpec => []RefsResolve
<1>1. RenderInv => RefsResolve
  <2> SUFFICES ASSUME RenderInv, renderer \in {"pulumi", "cdk"} \/ Written PROVE refs \subseteq declared
    BY DEF RefsResolve
  <2>1. CASE renderer \in {"pulumi", "cdk"}
    BY <2>1, RenderAssumption DEF RenderInv, InOrder, Order
  <2>2. CASE Written
    BY <2>2, WrittenIs
  <2> QED
    BY <2>1, <2>2
<1> QED
  BY <1>1, RenderHolds, PTL

\* Outside AWS, and for Kubernetes, exactly the public machines that no balancer fronts have a way in of
\* their own (for Kubernetes, those of them whose group has ports).
THEOREM EachMachineHasOneWayIn == RenderSpec => []OneWayIn
<1>1. RenderInv => OneWayIn
  <2> SUFFICES ASSUME RenderInv, Written, target # "aws" \/ renderer = "kubernetes"
               PROVE  shown = {m.vm : m \in {m \in Range(compute) : Public(m) /\ m.vm \notin Fronted
                                   /\ (renderer = "kubernetes" => Ports[m.tier] # <<>>)}}
    BY DEF OneWayIn
  <2>1. shown = ShownOf(renderer)
    BY WrittenIs
  <2>2. CASE renderer = "kubernetes"
    BY <2>1, <2>2 DEF ShownOf, KubeShown, Serviced
  <2>3. CASE renderer # "kubernetes"
    <3>1. shown = Exposed(IsOwn)
      BY <2>1, <2>3 DEF ShownOf
    <3> QED
      BY <2>3, <3>1 DEF Exposed, IsOwn, OwnAddress
  <2> QED
    BY <2>2, <2>3
<1> QED
  BY <1>1, RenderHolds, PTL

LEMMA MachineRecordsAre ==
  ASSUME compute \in Plans, NEW n
  PROVE  /\ {x.vm : x \in MachinesOf(n)} = Vms
         /\ UNION {{x.vm} \X (1..Machine(x.vm).disks) : x \in MachinesOf(n)} = Disks(AllDisks)
<1> DEFINE X == MachinesOf(n)
<1>1. \A x \in X : \E m \in Range(compute) : x.vm = m.vm
  BY DEF MachinesOf, MachineRecords
<1>2. \A m \in Range(compute) : \E x \in X : x.vm = m.vm
  <2> SUFFICES ASSUME NEW m \in Range(compute) PROVE \E x \in X : x.vm = m.vm
    OBVIOUS
  <2> DEFINE at == IF n = "kubernetes" THEN NoPlace ELSE Place
             id == IdOf(n)
             x == [id |-> id[m], vm |-> m.vm, subnet |-> at[m]]
  <2>1. x \in X
    BY DEF MachinesOf, MachineRecords
  <2> QED
    BY <2>1
<1>3. \A m \in Range(compute) : Machine(m.vm) = m /\ AllDisks[m] = 1..m.disks
  BY EstateIs DEF AllDisks
<1> HIDE DEF X
<1>4. {x.vm : x \in X} = Vms
  BY <1>1, <1>2 DEF Vms
<1>5. \A x \in X : \E m \in Range(compute) : {x.vm} \X (1..Machine(x.vm).disks) = {m.vm} \X AllDisks[m]
  <2> SUFFICES ASSUME NEW x \in X
               PROVE  \E m \in Range(compute) : {x.vm} \X (1..Machine(x.vm).disks) = {m.vm} \X AllDisks[m]
    OBVIOUS
  <2>1. PICK m \in Range(compute) : x.vm = m.vm
    BY <1>1
  <2>2. Machine(x.vm) = m /\ AllDisks[m] = 1..Machine(x.vm).disks
    BY <1>3, <2>1
  <2> QED
    BY <2>1, <2>2
<1>6. \A m \in Range(compute) : \E x \in X : {x.vm} \X (1..Machine(x.vm).disks) = {m.vm} \X AllDisks[m]
  BY <1>2, <1>3, ZenonT(60)
<1>7. UNION {{x.vm} \X (1..Machine(x.vm).disks) : x \in X} = UNION {{m.vm} \X AllDisks[m] : m \in Range(compute)}
  BY <1>5, <1>6
<1> QED
  BY <1>4, <1>7 DEF Disks, X

\* The renderers that call a machine by its label declare nothing twice and write every machine, split
\* compute files included, and the renderers that write data disks leave none of them out.
THEOREM TheEstateIsWhole == RenderSpec => []EstateIsWhole
<1>1. ASSUME RenderInv, renderer \in {"terraform", "pulumi", "kubernetes"}
      PROVE  twice = {} /\ (Written => {x.vm : x \in machines} = Vms)
  <2>1. twice = {}
    BY <1>1, RenderAssumption DEF RenderInv, InOrder, Order
  <2>2. ASSUME Written PROVE {x.vm : x \in machines} = Vms
    <3>1. machines = MachinesOf(renderer)
      BY <1>1, <2>2, WrittenIs
    <3> QED
      BY <1>1, <3>1, MachineRecordsAre DEF RenderInv, RenderTyped
  <2> QED
    BY <2>1, <2>2
<1>2. ASSUME RenderInv, Written, renderer \in {"terraform", "cloudformation", "cdk", "kubernetes"}
      PROVE  attached = UNION {{x.vm} \X (1..Machine(x.vm).disks) : x \in machines}
  <2>1. CASE renderer = "cloudformation"
    <3>1. /\ attached = UNION {{x.vm} \X DisksOf[x.vm] : x \in machines}
          /\ machines \subseteq MachinesOf("cloudformation")
      BY <1>2, <2>1 DEF RenderInv, Templated, Template
    <3>2. \A x \in machines : x.vm \in Vms
      BY <1>2, <3>1, MachineRecordsAre DEF RenderInv, RenderTyped
    <3>3. \A x \in machines : DisksOf[x.vm] = 1..Machine(x.vm).disks
      BY <3>2 DEF DisksOf
    <3> QED
      BY <3>1, <3>3
  <2>2. CASE renderer # "cloudformation"
    <3>1. machines = MachinesOf(renderer) /\ attached = Disks(AllDisks)
      BY <1>2, <2>2, WrittenIs
    <3> QED
      BY <1>2, <3>1, MachineRecordsAre DEF RenderInv, RenderTyped
  <2> QED
    BY <2>1, <2>2
<1>3. RenderInv => EstateIsWhole
  BY <1>1, <1>2 DEF EstateIsWhole
<1> QED
  BY <1>3, RenderHolds, PTL

-----------------------------------------------------------------------------
(* Round robin: the members of a set of positions, dealt in turn, make shares *)
(* of which none has two members more than another.                           *)

LEMMA Remainder ==
  ASSUME NEW L \in Nat, L > 0, NEW q \in Nat, NEW r \in Nat, r < L
  PROVE  (L * q + r) % L = r
  OBVIOUS

LEMMA Division ==
  ASSUME NEW x \in Nat, NEW L \in Nat, L > 0
  PROVE  \E q \in Nat : x = L * q + (x % L)
<1> DEFINE S == {m \in Nat : \E q \in Nat : x = L * q + m}
<1>1. x \in S
  <2>1. x = L * 0 + x
    OBVIOUS
  <2> QED
    BY <2>1
<1>2. PICK m \in S : \A k \in S : m <= k
  BY <1>1, LeastNatural
<1>3. PICK q \in Nat : x = L * q + m
  BY <1>2
<1>4. m < L
  <2> SUFFICES ASSUME ~(m < L) PROVE FALSE
    OBVIOUS
  <2>1. m - L \in Nat
    BY <1>2
  <2>2. L * (q + 1) = L * q + L
    OBVIOUS
  <2>3. x = L * (q + 1) + (m - L) /\ q + 1 \in Nat
    BY <1>2, <1>3, <2>2
  <2>4. m - L \in S
    BY <2>1, <2>3
  <2>5. m <= m - L
    BY <1>2, <2>4
  <2>6. m \in Nat
    BY <1>2
  <2> HIDE DEF S
  <2> QED
    BY <2>5, <2>6
<1>5. x % L = m
  BY <1>2, <1>3, <1>4, Remainder
<1> HIDE DEF S
<1>6. x = L * q + (x % L)
  BY <1>3, <1>5
<1> QED
  BY <1>6

Below(G, i) == {j \in G : j < i}
Rank(G, i) == Cardinality(Below(G, i))
Share(G, L, a) == {i \in G : Rank(G, i) % L = a - 1}

LEMMA BelowIs ==
  ASSUME NEW n \in Nat, NEW G \in SUBSET (1..n), NEW i
  PROVE  IsFiniteSet(G) /\ IsFiniteSet(Below(G, i)) /\ Rank(G, i) \in Nat
<1>1. IsFiniteSet(1..n)
  BY FS_Interval
<1>2. IsFiniteSet(G)
  BY <1>1, FS_Subset
<1>3. IsFiniteSet(Below(G, i))
  BY <1>2, FS_Subset DEF Below
<1> QED
  BY <1>2, <1>3, FS_CardinalityType DEF Rank

LEMMA RankNext ==
  ASSUME NEW n \in Nat, NEW G \in SUBSET (1..n), NEW i \in G
  PROVE  IsFiniteSet(Below(G, i) \cup {i}) /\ Cardinality(Below(G, i) \cup {i}) = Rank(G, i) + 1
<1>1. i \notin Below(G, i)
  BY DEF Below
<1> QED
  BY <1>1, BelowIs, FS_AddElement DEF Rank

\* Ranks grow with the position,
LEMMA RankUp ==
  ASSUME NEW n \in Nat, NEW G \in SUBSET (1..n), NEW i \in G, NEW k \in G, i < k
  PROVE  Rank(G, i) < Rank(G, k)
<1>1. Below(G, i) \cup {i} \in SUBSET Below(G, k)
  <2> SUFFICES ASSUME NEW j \in Below(G, i) \cup {i} PROVE j \in Below(G, k)
    OBVIOUS
  <2>1. j \in G /\ (j < i \/ j = i)
    BY DEF Below
  <2>2. j \in 1..n /\ i \in 1..n /\ k \in 1..n
    BY <2>1
  <2>3. j < k
    BY <2>1, <2>2
  <2> QED
    BY <2>1, <2>3 DEF Below
<1>2. Cardinality(Below(G, i) \cup {i}) <= Rank(G, k)
  BY <1>1, BelowIs, FS_Subset DEF Rank
<1>3. Cardinality(Below(G, i) \cup {i}) = Rank(G, i) + 1
  BY RankNext
<1>4. Rank(G, i) \in Nat /\ Rank(G, k) \in Nat
  BY BelowIs
<1> QED
  BY <1>2, <1>3, <1>4

\* and no rank is left out.
LEMMA RankDown ==
  ASSUME NEW n \in Nat, NEW G \in SUBSET (1..n), NEW i \in G, NEW v \in Nat, v < Rank(G, i)
  PROVE  \E j \in G : Rank(G, j) = v
<1> DEFINE S == {j \in G : v < Rank(G, j)}
<1>1. S \in SUBSET Nat /\ S # {}
  <2>1. i \in S
    OBVIOUS
  <2>2. 1..n \in SUBSET Nat
    OBVIOUS
  <2> QED
    BY <2>1, <2>2
<1>2. PICK k \in S : \A j \in S : k <= j
  BY <1>1, LeastNatural
<1>3. k \in G /\ v < Rank(G, k) /\ IsFiniteSet(Below(G, k)) /\ Rank(G, k) \in Nat
  BY <1>2, BelowIs
<1>4. Below(G, k) # {}
  BY <1>3, FS_EmptySet DEF Rank
<1> DEFINE T == {n - j : j \in Below(G, k)}
<1>5. T \in SUBSET Nat /\ T # {}
  <2>1. ASSUME NEW j \in Below(G, k) PROVE n - j \in Nat
    <3>1. j \in 1..n
      BY DEF Below
    <3> QED
      BY <3>1
  <2> QED
    BY <1>4, <2>1
<1>6. PICK e \in T : \A f \in T : e <= f
  BY <1>5, LeastNatural
<1>7. PICK p \in Below(G, k) : e = n - p
  BY <1>6
<1>8. p \in G /\ p < k
  BY <1>7 DEF Below
<1>9. \A j \in Below(G, k) : j <= p
  <2> SUFFICES ASSUME NEW j \in Below(G, k) PROVE j <= p
    OBVIOUS
  <2>1. n - p <= n - j
    BY <1>6, <1>7
  <2>2. j \in 1..n /\ p \in 1..n
    BY <1>8 DEF Below
  <2> QED
    BY <2>1, <2>2
<1>10. Below(G, k) = Below(G, p) \cup {p}
  <2>1. ASSUME NEW j \in Below(G, k) PROVE j \in Below(G, p) \cup {p}
    <3>1. j \in G /\ j <= p
      BY <1>9 DEF Below
    <3>2. j \in 1..n /\ p \in 1..n
      BY <1>8, <3>1
    <3>3. j < p \/ j = p
      BY <3>1, <3>2
    <3> QED
      BY <3>1, <3>3 DEF Below
  <2>2. ASSUME NEW j \in Below(G, p) PROVE j \in Below(G, k)
    <3>1. j \in G /\ j < p
      BY DEF Below
    <3>2. j \in 1..n /\ p \in 1..n /\ k \in 1..n
      BY <1>3, <1>8, <3>1
    <3>3. j < k
      BY <1>8, <3>1, <3>2
    <3> QED
      BY <3>1, <3>3 DEF Below
  <2> QED
    BY <1>7, <2>1, <2>2
<1>11. Rank(G, k) = Rank(G, p) + 1
  BY <1>8, <1>10, RankNext DEF Rank
<1>12. ~(v < Rank(G, p))
  BY <1>2, <1>3, <1>8
<1>13. Rank(G, p) \in Nat
  BY BelowIs
<1>14. Rank(G, p) = v
  BY <1>3, <1>11, <1>12, <1>13
<1> QED
  BY <1>8, <1>14

LEMMA SharesAre ==
  ASSUME NEW n \in Nat, NEW G \in SUBSET (1..n), NEW L \in Nat, L > 0, NEW a \in 1..L, NEW b \in 1..L
  PROVE  /\ IsFiniteSet(Share(G, L, a)) /\ IsFiniteSet(Share(G, L, b))
         /\ Cardinality(Share(G, L, a)) <= Cardinality(Share(G, L, b)) + 1
<1> DEFINE A == Share(G, L, a)
           B == Share(G, L, b)
           P == {i \in A : L <= Rank(G, i)}
           F == A \ P
           h == [i \in P |-> CHOOSE j \in G : Rank(G, j) = (Rank(G, i) - L) + (b - a)]
<1>1. IsFiniteSet(A) /\ IsFiniteSet(B) /\ IsFiniteSet(P)
  BY BelowIs, FS_Subset DEF Share
<1>2. \A i \in G : Rank(G, i) \in Nat
  BY BelowIs
<1>3. \A i, j \in G : Rank(G, i) = Rank(G, j) => i = j
  <2> SUFFICES ASSUME NEW i \in G, NEW j \in G, Rank(G, i) = Rank(G, j), i # j PROVE FALSE
    OBVIOUS
  <2>1. i < j \/ j < i
    OBVIOUS
  <2>2. Rank(G, i) < Rank(G, j) \/ Rank(G, j) < Rank(G, i)
    BY <2>1, RankUp
  <2> QED
    BY <1>2, <2>2
<1>4. \A i \in P : /\ h[i] \in G /\ Rank(G, h[i]) = (Rank(G, i) - L) + (b - a) /\ Rank(G, h[i]) % L = b - 1
  <2> SUFFICES ASSUME NEW i \in P
               PROVE  /\ h[i] \in G /\ Rank(G, h[i]) = (Rank(G, i) - L) + (b - a) /\ Rank(G, h[i]) % L = b - 1
    OBVIOUS
  <2> DEFINE x == Rank(G, i)
             v == (x - L) + (b - a)
  <2>1. i \in G /\ x \in Nat /\ L <= x /\ x % L = a - 1
    BY <1>2 DEF Share
  <2> HIDE DEF x
  <2>2. PICK q \in Nat : x = L * q + (a - 1)
    BY <2>1, Division
  <2>3. q # 0
    BY <2>1, <2>2
  <2>4. q - 1 \in Nat /\ L * (q - 1) = L * q - L
    BY <2>3
  <2>5. v = L * (q - 1) + (b - 1) /\ b - 1 \in Nat /\ b - 1 < L
    BY <2>1, <2>2, <2>4
  <2>6. v % L = b - 1
    BY <2>4, <2>5, Remainder
  <2>7. L * (q - 1) \in Nat
    BY <2>4
  <2>8. v \in Nat /\ v < x
    BY <2>1, <2>5, <2>7
  <2> HIDE DEF v
  <2>9. \E j \in G : Rank(G, j) = v
    BY <2>1, <2>8, RankDown DEF x
  <2>10. h[i] \in G /\ Rank(G, h[i]) = v
    BY <2>9 DEF v, x
  <2> QED
    BY <2>6, <2>10 DEF v, x
<1>5. h \in Injection(P, B)
  <2>1. h \in [P -> B]
    BY <1>4 DEF Share
  <2>2. ASSUME NEW i \in P, NEW j \in P, h[i] = h[j] PROVE i = j
    <3>1. i \in G /\ j \in G
      BY DEF Share
    <3>2. (Rank(G, i) - L) + (b - a) = (Rank(G, j) - L) + (b - a)
      BY <1>4, <2>2
    <3>3. Rank(G, i) = Rank(G, j)
      BY <1>2, <3>1, <3>2
    <3> QED
      BY <1>3, <3>1, <3>3
  <2>3. \A i, j \in P : h[i] = h[j] => i = j
    BY <2>2
  <2> HIDE DEF h, P, B
  <2> QED
    BY <2>1, <2>3 DEF Injection, IsInjective
<1>6. Cardinality(P) <= Cardinality(B)
  BY <1>1, <1>5, FS_Injection
<1>7. \A i, j \in F : i = j
  <2> SUFFICES ASSUME NEW i \in F, NEW j \in F PROVE i = j
    OBVIOUS
  <2>1. i \in G /\ j \in G /\ Rank(G, i) % L = a - 1 /\ Rank(G, j) % L = a - 1
    BY DEF Share
  <2>2. Rank(G, i) \in Nat /\ Rank(G, j) \in Nat /\ Rank(G, i) < L /\ Rank(G, j) < L
    BY <1>2, <2>1
  <2>3. Rank(G, i) % L = Rank(G, i) /\ Rank(G, j) % L = Rank(G, j)
    <3>1. \A x \in Nat : x < L => x % L = x
      OBVIOUS
    <3> QED
      BY <2>2, <3>1
  <2> QED
    BY <1>3, <2>1, <2>3
<1>8. Cardinality(A) <= Cardinality(P) + 1
  <2>1. Cardinality(P) \in Nat
    BY <1>1, FS_CardinalityType
  <2>2. CASE F = {}
    <3>1. A = P
      BY <2>2
    <3> HIDE DEF A, P
    <3> QED
      BY <2>1, <3>1
  <2>3. CASE F # {}
    <3>1. PICK e \in F : TRUE
      BY <2>3
    <3>2. A = P \cup {e} /\ e \notin P
      BY <1>7, <3>1
    <3> HIDE DEF A, P
    <3>3. Cardinality(P \cup {e}) = Cardinality(P) + 1
      BY <1>1, <3>2, FS_AddElement
    <3> QED
      BY <2>1, <3>2, <3>3
  <2> QED
    BY <2>2, <2>3
<1>9. Cardinality(A) \in Nat /\ Cardinality(B) \in Nat /\ Cardinality(P) \in Nat
  BY <1>1, FS_CardinalityType
<1> HIDE DEF A, B, P
<1>10. Cardinality(A) <= Cardinality(B) + 1
  BY <1>6, <1>8, <1>9
<1> QED
  BY <1>1, <1>10 DEF A, B

-----------------------------------------------------------------------------
(* The machines of a tier, dealt over its subnets.                            *)

Peers(tier) == {i \in DOMAIN compute : subnet_tier(compute[i]) = tier}

LEMMA AssignedIs ==
  ASSUME compute \in Plans, NEW i \in DOMAIN compute, NEW tier, tier = subnet_tier(compute[i])
  PROVE  /\ subnet_of(compute[i].vm) = SubnetsOf(tier)[(Rank(Peers(tier), i) % Len(SubnetsOf(tier))) + 1].name
         /\ tier \in {"public", "private"}
<1>1. compute[i] \in Range(compute)
  BY RangeIs
<1>2. tier \in {"public", "private"}
  BY <1>1, PlaceIs
<1>3. subnet_of(compute[i].vm) = assign_subnets(i)
  <2>1. (CHOOSE j \in DOMAIN compute : compute[j].vm = compute[i].vm) = i
    BY EstateIs
  <2> QED
    BY <2>1 DEF subnet_of
<1>4. SubnetsOf(tier) # <<>>
  BY <1>2, SubnetsOfIs
<1>5. {j \in 1..(i - 1) : subnet_tier(compute[j]) = tier} = Below(Peers(tier), i)
  <2>1. Len(compute) \in Nat /\ DOMAIN compute = 1..Len(compute)
    BY EstateIs, SequenceIs
  <2>2. \A j : j \in 1..(i - 1) <=> j \in DOMAIN compute /\ j < i
    BY <2>1
  <2> QED
    BY <2>2 DEF Below, Peers
<1>6. assign_subnets(i) = SubnetsOf(tier)[(Rank(Peers(tier), i) % Len(SubnetsOf(tier))) + 1].name
  BY <1>4, <1>5 DEF assign_subnets, Rank
<1> QED
  BY <1>2, <1>3, <1>6

\* A subnet of the tier holds the machines of its share.
LEMMA DealtIs ==
  ASSUME compute \in Plans, NEW tier, NEW a \in 1..Len(SubnetsOf(tier)), NEW i \in DOMAIN compute
  PROVE  subnet_of(compute[i].vm) = SubnetsOf(tier)[a].name <=> i \in Share(Peers(tier), Len(SubnetsOf(tier)), a)
<1> DEFINE pool == SubnetsOf(tier)
           L == Len(pool)
           G == Peers(tier)
           k == Rank(G, i) % L
<1>1. Sequence(pool) /\ \A s \in Range(pool) : s \in Range(Subnets) /\ s.tier = tier
  BY SubnetsOfIs
<1>2. L \in Nat /\ DOMAIN pool = 1..L
  BY <1>1, SequenceIs
<1>3. L > 0 /\ a \in DOMAIN pool
  BY <1>2
<1>4. Rank(G, i) \in Nat
  <2>1. Len(compute) \in Nat /\ DOMAIN compute = 1..Len(compute)
    BY EstateIs, SequenceIs
  <2>2. G \in SUBSET (1..Len(compute))
    BY <2>1 DEF Peers
  <2> HIDE DEF G
  <2> QED
    BY <2>1, <2>2, BelowIs
<1>5. k \in 0..(L - 1)
  <2> HIDE DEF L, G
  <2> QED
    BY <1>2, <1>3, <1>4
<1>6. k + 1 \in DOMAIN pool
  <2> HIDE DEF L, k
  <2> QED
    BY <1>2, <1>5
<1>7. ASSUME i \in G PROVE subnet_of(compute[i].vm) = pool[k + 1].name
  BY <1>7, AssignedIs DEF Peers
<1>8. ASSUME subnet_of(compute[i].vm) = pool[a].name PROVE i \in G
  <2>1. compute[i] \in Range(compute)
    BY RangeIs
  <2>2. PICK s \in Range(Subnets) : s.name = subnet_of(compute[i].vm) /\ s.tier = subnet_tier(compute[i])
    BY <2>1, PlaceIs
  <2>3. pool[a] \in Range(pool)
    BY <1>3, RangeIs
  <2>4. pool[a] \in Range(Subnets) /\ pool[a].tier = tier
    BY <1>1, <2>3
  <2> HIDE DEF pool
  <2>5. s = pool[a]
    BY <1>8, <2>2, <2>4, SubnetsAre
  <2> QED
    BY <2>2, <2>4, <2>5 DEF Peers
<1>9. \A j \in DOMAIN pool : pool[j].name = pool[a].name => j = a
  BY <1>3, SubnetsOfIs
<1>10. k = a - 1 <=> k + 1 = a
  <2> HIDE DEF k, L
  <2> QED
    BY <1>2, <1>5
<1> HIDE DEF k, pool, G
<1>11. ASSUME subnet_of(compute[i].vm) = pool[a].name PROVE i \in G /\ k = a - 1
  BY <1>6, <1>7, <1>8, <1>9, <1>10, <1>11
<1>12. ASSUME i \in G, k = a - 1 PROVE subnet_of(compute[i].vm) = pool[a].name
  BY <1>7, <1>10, <1>12
<1>13. i \in Share(G, L, a) <=> i \in G /\ k = a - 1
  BY DEF Share, k
<1> QED
  BY <1>11, <1>12, <1>13 DEF pool, G

LEMMA HeldIs ==
  ASSUME compute \in Plans, NEW n, n # "kubernetes", NEW tier, NEW a \in 1..Len(SubnetsOf(tier)),
         IsFiniteSet(Share(Peers(tier), Len(SubnetsOf(tier)), a))
  PROVE  Cardinality({x \in MachinesOf(n) : x.subnet = SubnetsOf(tier)[a].name})
         = Cardinality(Share(Peers(tier), Len(SubnetsOf(tier)), a))
<1> DEFINE S == Share(Peers(tier), Len(SubnetsOf(tier)), a)
           name == SubnetsOf(tier)[a].name
           H == {x \in MachinesOf(n) : x.subnet = name}
           id == IdOf(n)
           rec(m) == [id |-> id[m], vm |-> m.vm, subnet |-> subnet_of(m.vm)]
           g == [i \in S |-> rec(compute[i])]
<1>1. MachinesOf(n) = {rec(m) : m \in Range(compute)}
  BY DEF MachinesOf, MachineRecords, Place
<1>2. \A i \in DOMAIN compute : subnet_of(compute[i].vm) = name <=> i \in S
  BY DealtIs
<1>3. \A i \in S : i \in DOMAIN compute
  BY DEF Share, Peers
<1> HIDE DEF S, name, id
<1>4. g \in [S -> H]
  <2> SUFFICES ASSUME NEW i \in S PROVE rec(compute[i]) \in H
    OBVIOUS
  <2>1. compute[i] \in Range(compute)
    BY <1>3, RangeIs
  <2> QED
    BY <1>1, <1>2, <1>3, <2>1
<1>5. \A i, j \in S : g[i] = g[j] => i = j
  BY <1>3, EstateIs
<1>6. \A x \in H : \E i \in S : g[i] = x
  <2> SUFFICES ASSUME NEW x \in H PROVE \E i \in S : g[i] = x
    OBVIOUS
  <2>1. PICK m \in Range(compute) : x = rec(m)
    BY <1>1
  <2>2. PICK i \in DOMAIN compute : compute[i] = m
    BY RangeIs
  <2>3. i \in S
    BY <1>2, <2>1, <2>2
  <2> QED
    BY <2>1, <2>2, <2>3
<1> HIDE DEF g, H
<1>7. g \in Injection(S, H)
  BY <1>4, <1>5 DEF Injection, IsInjective
<1>8. g \in Surjection(S, H)
  BY <1>4, <1>6 DEF Surjection
<1>9. IsFiniteSet(S)
  BY DEF S
<1>10. Cardinality(H) = Cardinality(S)
  BY <1>7, <1>8, <1>9, FS_Surjection
<1> QED
  BY <1>10 DEF H, S, name

LEMMA HeldEvenly ==
  ASSUME compute \in Plans, NEW n, n # "kubernetes", NEW s \in Range(Subnets), NEW t \in Range(Subnets), s.tier = t.tier
  PROVE  Cardinality({x \in MachinesOf(n) : x.subnet = s.name})
         <= Cardinality({x \in MachinesOf(n) : x.subnet = t.name}) + 1
<1> DEFINE tier == s.tier
           pool == SubnetsOf(tier)
           L == Len(pool)
           G == Peers(tier)
<1>1. s \in Range(pool) /\ t \in Range(pool) /\ Sequence(pool)
  BY SubnetsOfIs
<1>2. L \in Nat /\ DOMAIN pool = 1..L
  BY <1>1, SequenceIs
<1>3. PICK a \in 1..L : pool[a] = s
  BY <1>1, <1>2, RangeIs
<1>4. PICK b \in 1..L : pool[b] = t
  BY <1>1, <1>2, RangeIs
<1>5. Len(compute) \in Nat /\ DOMAIN compute = 1..Len(compute)
  BY EstateIs, SequenceIs
<1>6. G \in SUBSET (1..Len(compute))
  BY <1>5 DEF Peers
<1>7. L > 0
  BY <1>2, <1>3
<1>8. /\ IsFiniteSet(Share(G, L, a)) /\ IsFiniteSet(Share(G, L, b))
      /\ Cardinality(Share(G, L, a)) <= Cardinality(Share(G, L, b)) + 1
  <2> HIDE DEF G, L
  <2> QED
    BY <1>2, <1>5, <1>6, <1>7, SharesAre
<1>9. Cardinality({x \in MachinesOf(n) : x.subnet = pool[a].name}) = Cardinality(Share(G, L, a))
  <2>1. a \in 1..Len(SubnetsOf(tier)) /\ IsFiniteSet(Share(Peers(tier), Len(SubnetsOf(tier)), a))
    BY <1>8
  <2> HIDE DEF tier
  <2> QED
    BY <2>1, HeldIs, SMTT(30)
<1>10. Cardinality({x \in MachinesOf(n) : x.subnet = pool[b].name}) = Cardinality(Share(G, L, b))
  <2>1. b \in 1..Len(SubnetsOf(tier)) /\ IsFiniteSet(Share(Peers(tier), Len(SubnetsOf(tier)), b))
    BY <1>8
  <2> HIDE DEF tier
  <2> QED
    BY <2>1, HeldIs
<1> HIDE DEF pool, G, L
<1> QED
  BY <1>3, <1>4, <1>8, <1>9, <1>10

\* The renderers that ask assign_subnets and those that follow the edges of the graph put a machine into the
\* same subnet, it is one of the machine's tier, and round robin spreads a tier over its subnets to within one.
THEOREM PlacementsNeverDiffer == RenderSpec => []PlacementsAgree
<1>1. ASSUME RenderInv, NEW x \in machines, NEW p \in placed, x.vm = p[1], x.subnet # Nowhere
      PROVE  x.subnet = p[2]
  BY <1>1 DEF RenderInv, Consistent
<1>2. ASSUME RenderInv, Written, renderer # "kubernetes", NEW s \in Range(Subnets), NEW x \in machines, x.subnet = s.name
      PROVE  subnet_tier(Machine(x.vm)) = s.tier
  <2>1. compute \in Plans
    BY <1>2 DEF RenderInv, RenderTyped
  <2>2. x \in MachinesOf(renderer)
    <3>1. CASE renderer = "cloudformation"
      BY <1>2, <3>1 DEF RenderInv, Templated, Template
    <3>2. CASE renderer # "cloudformation"
      BY <1>2, <3>2, WrittenIs
    <3> QED
      BY <3>1, <3>2
  <2>3. PICK m \in Range(compute) : x.vm = m.vm /\ x.subnet = subnet_of(m.vm)
    BY <1>2, <2>2 DEF MachinesOf, MachineRecords, Place
  <2>4. Machine(x.vm) = m
    BY <2>1, <2>3, EstateIs
  <2>5. PICK t \in Range(Subnets) : t.name = subnet_of(m.vm) /\ t.tier = subnet_tier(m)
    BY <2>1, PlaceIs
  <2>6. t = s
    BY <1>2, <2>3, <2>5, SubnetsAre
  <2> QED
    BY <2>4, <2>5, <2>6
<1>3. ASSUME RenderInv, Written, renderer # "kubernetes", renderer # "cloudformation",
             NEW s \in Range(Subnets), NEW t \in Range(Subnets), s.tier = t.tier
      PROVE  Cardinality({x \in machines : x.subnet = s.name}) <= Cardinality({x \in machines : x.subnet = t.name}) + 1
  <2>1. compute \in Plans
    BY <1>3 DEF RenderInv, RenderTyped
  <2>2. machines = MachinesOf(renderer)
    BY <1>3, WrittenIs
  <2>3. Cardinality({x \in MachinesOf(renderer) : x.subnet = s.name})
        <= Cardinality({x \in MachinesOf(renderer) : x.subnet = t.name}) + 1
    BY <1>3, <2>1, HeldEvenly
  <2> QED
    BY <2>2, <2>3
<1>4. RenderInv => PlacementsAgree
  BY <1>1, <1>2, <1>3 DEF PlacementsAgree
<1> QED
  BY <1>4, RenderHolds, PTL
=============================================================================
