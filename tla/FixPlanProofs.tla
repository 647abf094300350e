--------------------------- MODULE FixPlanProofs ----------------------------
(***************************************************************************)
(* The edits of fix, for any report, any number of edits and any sequence  *)
(* of commands: what resolveConflicts applies and rejects, that a command  *)
(* leaves nothing out, that its suggestions help, and that splicing the    *)
(* edits one after another is putting all of them in place at once.        *)
(***************************************************************************)
EXTENDS FixPlan, Integers, FiniteSetTheorems, NaturalsInduction,
        WellFoundedInduction, TLAPS

\* Overlapping is symmetric: it does not matter which edit came first.
LEMMA OverlapSymmetric ==
  ASSUME NEW a, NEW b, RangesOverlap(a, b)
  PROVE  RangesOverlap(b, a)
BY DEF RangesOverlap

\* A step that leaves the edits alone and applies nothing new leaves the
\* applied edits pairwise compatible.
LEMMA NothingApplied ==
  ASSUME AppliedAreDisjoint, edits' = edits, applied' = applied
  PROVE  AppliedAreDisjoint'
BY DEF AppliedAreDisjoint

\* The edits applied by resolveConflicts never overlap one another.
THEOREM Disjoint == Spec => []AppliedAreDisjoint
<1>1. Init => AppliedAreDisjoint
  BY DEF Init, AppliedAreDisjoint
<1>2. AppliedAreDisjoint /\ [Next]_vars => AppliedAreDisjoint'
  <2> SUFFICES ASSUME AppliedAreDisjoint, [Next]_vars
               PROVE  AppliedAreDisjoint'
    OBVIOUS
  <2>1. CASE Orchestrate
    BY <2>1 DEF Orchestrate, AppliedAreDisjoint
  <2>2. ASSUME NEW i \in DOMAIN edits, ApplyEdit(i)
        PROVE  AppliedAreDisjoint'
    <3>1. applied' = applied \cup {i} /\ edits' = edits
      BY <2>2 DEF ApplyEdit
    <3>2. \A j \in applied : edits[j].file = edits[i].file =>
            ~RangesOverlap(edits[j], edits[i])
      BY <2>2 DEF ApplyEdit, Rivals
    <3>3. \A j \in applied : edits[j].file = edits[i].file =>
            ~RangesOverlap(edits[i], edits[j])
      BY <3>2, OverlapSymmetric
    <3>4. QED
      BY <3>1, <3>2, <3>3 DEF AppliedAreDisjoint
  <2>3. CASE edits' = edits /\ applied' = applied
    BY <2>3, NothingApplied
  <2>4. QED
    BY <2>1, <2>2, <2>3
       DEF Next, Invoke, RunAdvice, DropAdvice, Resolve, RejectEdit, Suggest,
           Accept, TakeAdvice, Write, resolverVars, userVars, vars
<1>3. QED
  BY <1>1, <1>2, PTL DEF Spec

\* Every rejected edit overlaps an applied edit of its file, the suggestion
\* names the rules of both, and all rejected edits are in one file.
THEOREM Explained == Spec => []RejectionsAreExplained
<1>1. Init => RejectionsAreExplained
  BY DEF Init, RejectionsAreExplained
<1>2. RejectionsAreExplained /\ [Next]_vars => RejectionsAreExplained'
  <2> SUFFICES ASSUME RejectionsAreExplained, [Next]_vars
               PROVE  RejectionsAreExplained'
    OBVIOUS
  <2>1. CASE Orchestrate
    BY <2>1 DEF Orchestrate, RejectionsAreExplained
  <2>2. ASSUME NEW i \in DOMAIN edits, ApplyEdit(i)
        PROVE  RejectionsAreExplained'
    <3>1. /\ applied' = applied \cup {i}
          /\ UNCHANGED <<edits, rejected, named>>
      BY <2>2 DEF ApplyEdit
    <3>2. \A k \in rejected : Rivals(k) \subseteq Rivals(k)'
      BY <3>1 DEF Rivals
    <3>3. QED
      BY <3>1, <3>2 DEF RejectionsAreExplained
  <2>3. ASSUME NEW i \in DOMAIN edits, RejectEdit(i)
        PROVE  RejectionsAreExplained'
    <3>1. /\ rejected' = rejected \cup {i}
          /\ UNCHANGED <<edits, applied>>
          /\ \A k \in rejected : edits[k].file = edits[i].file
      BY <2>3 DEF RejectEdit, InConflictingFile
    <3>2. PICK j \in Rivals(i) :
            named' = named \cup {edits[j].rule, edits[i].rule}
      BY <2>3 DEF RejectEdit
    <3>3. \A k \in rejected' : Rivals(k)' = Rivals(k)
      BY <3>1 DEF Rivals
    <3>4. ASSUME NEW k \in rejected'
          PROVE  /\ edits'[k].rule \in named'
                 /\ \E m \in Rivals(k)' : edits'[m].rule \in named'
      <4>1. CASE k = i
        BY <3>1, <3>2, <3>3, <4>1
      <4>2. CASE k \in rejected
        BY <3>1, <3>2, <3>3, <4>2 DEF RejectionsAreExplained
      <4>3. QED
        BY <3>1, <4>1, <4>2
    <3>5. \A k, m \in rejected' : edits'[k].file = edits'[m].file
      BY <3>1 DEF RejectionsAreExplained
    <3>6. QED
      BY <3>4, <3>5 DEF RejectionsAreExplained
  <2>4. CASE UNCHANGED <<edits, applied, rejected, named>>
    <3>1. \A k \in rejected : Rivals(k)' = Rivals(k)
      BY <2>4 DEF Rivals
    <3>2. QED
      BY <2>4, <3>1 DEF RejectionsAreExplained
  <2>5. QED
    BY <2>1, <2>2, <2>3, <2>4
       DEF Next, Invoke, RunAdvice, DropAdvice, Resolve, Suggest, Accept,
           TakeAdvice, Write, resolverVars, userVars, vars
<1>3. QED
  BY <1>1, <1>2, PTL DEF Spec

----------------------------------------------------------------------------
(* The order of the edits.                                                 *)

\* How many members of S have a smaller key than x.
RankBy(S, key, x) == Cardinality({y \in S : key[y] < key[x]})

\* The members of S, each after those with smaller keys.
Arranged(S, key) ==
  [k \in 1 .. Cardinality(S) |-> CHOOSE x \in S : RankBy(S, key, x) = k - 1]

\* A member with a larger key has more members below it, and all have fewer
\* below them than the set has members.
LEMMA RankGrows ==
  ASSUME NEW S, IsFiniteSet(S), NEW key \in [S -> Int], NEW x \in S
  PROVE  /\ RankBy(S, key, x) \in 0 .. Cardinality(S) - 1
         /\ \A z \in S : key[x] < key[z] => RankBy(S, key, x) < RankBy(S, key, z)
<1> DEFINE Small == {y \in S : key[y] < key[x]}
<1>1. /\ IsFiniteSet(Small)
      /\ Cardinality(Small) <= Cardinality(S)
      /\ Cardinality(S) = Cardinality(Small) => S = Small
  BY FS_Subset
<1>2. x \notin Small
  OBVIOUS
<1>3. Cardinality(Small) \in Nat /\ Cardinality(S) \in Nat
  BY <1>1, FS_CardinalityType
<1>4. RankBy(S, key, x) \in 0 .. Cardinality(S) - 1
  BY <1>1, <1>2, <1>3 DEF RankBy
<1>5. ASSUME NEW z \in S, key[x] < key[z]
      PROVE  RankBy(S, key, x) < RankBy(S, key, z)
  <2> DEFINE Big == {y \in S : key[y] < key[z]}
  <2>1. IsFiniteSet(Big) /\ Cardinality(Big) \in Nat
    BY FS_Subset, FS_CardinalityType
  <2>2. Small \in SUBSET Big
    <3>1. \A y \in S : key[y] < key[x] => key[y] < key[z]
      BY <1>5
    <3>2. QED
      BY <3>1
  <2>3. x \in Big /\ x \notin Small
    BY <1>5
  <2>4. Cardinality(Small) <= Cardinality(Big)
        /\ (Cardinality(Big) = Cardinality(Small) => Big = Small)
    <3> HIDE DEF Big, Small
    <3> QED
      BY <2>1, <2>2, FS_Subset
  <2>5. Cardinality(Small) # Cardinality(Big)
    BY <2>3, <2>4
  <2>6. Cardinality(Small) < Cardinality(Big)
    <3> HIDE DEF Big, Small
    <3> QED
      BY <1>3, <2>1, <2>4, <2>5
  <2>7. QED
    BY <2>6 DEF RankBy
<1>6. QED
  BY <1>4, <1>5

\* A finite set in the order of keys that tell its members apart: every
\* member has its place, and a later place holds a larger key.
LEMMA ArrangedEnumerates ==
  ASSUME NEW S, IsFiniteSet(S), NEW key \in [S -> Int],
         \A x, y \in S : key[x] = key[y] => x = y
  PROVE  /\ Arranged(S, key) \in [1 .. Cardinality(S) -> S]
         /\ \A x \in S : \E k \in 1 .. Cardinality(S) : Arranged(S, key)[k] = x
         /\ \A k, l \in 1 .. Cardinality(S) :
              k < l => key[Arranged(S, key)[k]] < key[Arranged(S, key)[l]]
<1> DEFINE N == Cardinality(S)
           rank == [x \in S |-> RankBy(S, key, x)]
           place(k) == CHOOSE x \in S : RankBy(S, key, x) = k - 1
           sorted == Arranged(S, key)
<1>1. N \in Nat /\ IsFiniteSet(0 .. N - 1) /\ Cardinality(0 .. N - 1) = N
  <2>1. N \in Nat
    BY FS_CardinalityType
  <2>2. QED
    <3> HIDE DEF N
    <3>1. 0 \in Int /\ N - 1 \in Int /\ (0 > N - 1 => N = 0)
      BY <2>1
    <3>2. /\ IsFiniteSet(0 .. N - 1)
          /\ Cardinality(0 .. N - 1) =
               IF 0 > N - 1 THEN 0 ELSE (N - 1) - 0 + 1
      BY <3>1, FS_Interval
    <3>3. QED
      BY <2>1, <3>2
<1>2. \A x \in S : RankBy(S, key, x) \in 0 .. N - 1
  BY RankGrows
<1>3. \A x, z \in S : /\ RankBy(S, key, x) = RankBy(S, key, z) => x = z
                      /\ RankBy(S, key, x) < RankBy(S, key, z) => key[x] < key[z]
  <2> SUFFICES ASSUME NEW x \in S, NEW z \in S
               PROVE  /\ x # z => RankBy(S, key, x) # RankBy(S, key, z)
                      /\ ~(key[x] < key[z]) => ~(RankBy(S, key, x) < RankBy(S, key, z))
    OBVIOUS
  <2>1. key[x] \in Int /\ key[z] \in Int /\ (x # z => key[x] # key[z])
    OBVIOUS
  <2>2. RankBy(S, key, x) \in Int /\ RankBy(S, key, z) \in Int
    BY <1>1, <1>2
  <2>3. CASE key[x] < key[z]
    <3>1. RankBy(S, key, x) < RankBy(S, key, z)
      BY <2>3, RankGrows
    <3>2. QED
      BY <2>2, <2>3, <3>1
  <2>4. CASE key[z] < key[x]
    <3>1. RankBy(S, key, z) < RankBy(S, key, x)
      BY <2>4, RankGrows
    <3>2. QED
      BY <2>2, <3>1
  <2>5. QED
    BY <2>1, <2>2, <2>3, <2>4
<1>4. rank \in Injection(S, 0 .. N - 1)
  BY <1>2, <1>3 DEF Injection, IsInjective
<1>5. rank \in Surjection(S, 0 .. N - 1)
  <2> HIDE DEF rank
  <2> QED
    BY <1>1, <1>4, FS_Injection
<1>6. \A j \in 0 .. N - 1 : \E x \in S : RankBy(S, key, x) = j
  BY <1>5 DEF Surjection
<1>7. \A k \in 1 .. N : place(k) \in S /\ RankBy(S, key, place(k)) = k - 1
  <2> TAKE k \in 1 .. N
  <2>1. k - 1 \in 0 .. N - 1
    BY <1>1
  <2>2. QED
    BY <1>6, <2>1
<1>8. sorted = [k \in 1 .. N |-> place(k)]
  BY DEF Arranged
<1>9. \A x \in S : \E k \in 1 .. N : place(k) = x
  <2> TAKE x \in S
  <2>1. PICK j \in 0 .. N - 1 : RankBy(S, key, x) = j
    BY <1>2
  <2>2. j + 1 \in 1 .. N /\ (j + 1) - 1 = j
    BY <1>1
  <2>3. place(j + 1) = x
    <3>1. place(j + 1) \in S /\ RankBy(S, key, place(j + 1)) = j
      BY <1>7, <2>2
    <3>2. QED
      BY <1>3, <2>1, <3>1
  <2>4. QED
    BY <2>2, <2>3
<1>10. \A k, l \in 1 .. N : k < l => key[place(k)] < key[place(l)]
  <2> SUFFICES ASSUME NEW k \in 1 .. N, NEW l \in 1 .. N, k < l
               PROVE  key[place(k)] < key[place(l)]
    OBVIOUS
  <2>1. RankBy(S, key, place(k)) < RankBy(S, key, place(l))
    <3>1. k - 1 < l - 1
      BY <1>1
    <3>2. QED
      BY <1>7, <3>1
  <2>2. QED
    BY <1>3, <1>7, <2>1
<1>11. QED
  <2> HIDE DEF place, sorted
  <2>1. /\ sorted \in [1 .. N -> S]
        /\ \A x \in S : \E k \in 1 .. N : sorted[k] = x
        /\ \A k, l \in 1 .. N : k < l => key[sorted[k]] < key[sorted[l]]
    <3> HIDE DEF N
    <3> QED
      BY <1>7, <1>8, <1>9, <1>10
  <2>2. QED
    BY <2>1 DEF sorted

\* There is one such enumeration only.
LEMMA ArrangedIsUnique ==
  ASSUME NEW T, NEW key \in [T -> Int], NEW L \in Nat, NEW t \in [1 .. L -> T],
         \A x \in T : \E k \in 1 .. L : t[k] = x,
         \A k, l \in 1 .. L : k < l => key[t[k]] < key[t[l]]
  PROVE  Arranged(T, key) = t
<1>1. \A k, l \in 1 .. L : t[k] = t[l] => k = l
  <2> SUFFICES ASSUME NEW k \in 1 .. L, NEW l \in 1 .. L, k # l
               PROVE  t[k] # t[l]
    OBVIOUS
  <2>1. k < l \/ l < k
    OBVIOUS
  <2>2. key[t[k]] \in Int /\ key[t[l]] \in Int
    OBVIOUS
  <2>3. QED
    BY <2>1, <2>2
<1>2. ASSUME NEW n \in 0 .. L
      PROVE  /\ IsFiniteSet({t[k] : k \in 1 .. n})
             /\ Cardinality({t[k] : k \in 1 .. n}) = n
  <2> DEFINE R == {t[k] : k \in 1 .. n}
             f == [k \in 1 .. n |-> t[k]]
  <2>1. IsFiniteSet(1 .. n) /\ Cardinality(1 .. n) = n
    BY FS_Interval
  <2>2. f \in Bijection(1 .. n, R)
    <3>1. \A k \in 1 .. n : k \in 1 .. L
      OBVIOUS
    <3>2. \A k, l \in 1 .. n : f[k] = f[l] => k = l
      BY <1>1, <3>1
    <3>3. f \in [1 .. n -> R] /\ \A x \in R : \E k \in 1 .. n : f[k] = x
      OBVIOUS
    <3>4. QED
      BY <3>2, <3>3 DEF Bijection, Injection, Surjection, IsInjective
  <2>3. QED
    <3> HIDE DEF R, f
    <3>1. IsFiniteSet(R) /\ Cardinality(R) = Cardinality(1 .. n)
      BY <2>1, <2>2, FS_Bijection DEF ExistsBijection
    <3>2. QED
      BY <2>1, <3>1 DEF R
<1>3. T = {t[k] : k \in 1 .. L} /\ L \in 0 .. L
  OBVIOUS
<1>4. IsFiniteSet(T) /\ Cardinality(T) = L
  BY <1>2, <1>3
<1>5. ASSUME NEW k \in 1 .. L
      PROVE  RankBy(T, key, t[k]) = k - 1
  <2>1. k - 1 \in 0 .. L
    OBVIOUS
  <2>2. {y \in T : key[y] < key[t[k]]} = {t[j] : j \in 1 .. k - 1}
    <3>1. ASSUME NEW j \in 1 .. L
          PROVE  key[t[j]] < key[t[k]] <=> j \in 1 .. k - 1
      <4>1. key[t[j]] \in Int /\ key[t[k]] \in Int
        OBVIOUS
      <4>2. CASE j < k
        BY <4>2
      <4>3. CASE j = k
        BY <4>1, <4>3
      <4>4. CASE k < j
        BY <4>1, <4>4
      <4>5. QED
        BY <4>2, <4>3, <4>4
    <3>2. \A j \in 1 .. k - 1 : j \in 1 .. L
      OBVIOUS
    <3>3. QED
      BY <1>3, <3>1, <3>2
  <2>3. QED
    BY <1>2, <2>1, <2>2 DEF RankBy
<1>6. ASSUME NEW k \in 1 .. L
      PROVE  (CHOOSE x \in T : RankBy(T, key, x) = k - 1) = t[k]
  <2>1. \A x \in T : RankBy(T, key, x) = k - 1 => x = t[k]
    <3> SUFFICES ASSUME NEW j \in 1 .. L, RankBy(T, key, t[j]) = k - 1
                 PROVE  t[j] = t[k]
      BY <1>3
    <3>1. j - 1 = k - 1
      BY <1>5
    <3>2. QED
      BY <3>1
  <2>2. t[k] \in T /\ RankBy(T, key, t[k]) = k - 1
    BY <1>5
  <2>3. QED
    BY <2>1, <2>2
<1>7. QED
  BY <1>4, <1>6 DEF Arranged

\* A finite set of numbers in increasing order: every member has its place,
\* and no two places hold the same one.
LEMMA InOrderEnumerates ==
  ASSUME NEW S, S \subseteq Nat, IsFiniteSet(S)
  PROVE  /\ InOrder(S, <) \in [1 .. Cardinality(S) -> S]
         /\ \A x \in S : \E k \in 1 .. Cardinality(S) : InOrder(S, <)[k] = x
         /\ \A k, l \in 1 .. Cardinality(S) :
              InOrder(S, <)[k] = InOrder(S, <)[l] => k = l
<1> DEFINE key == [x \in S |-> x]
<1>1. /\ key \in [S -> Int] /\ \A x \in S : key[x] = x
      /\ \A x, y \in S : key[x] = key[y] => x = y
  OBVIOUS
<1>2. ASSUME NEW x \in S
      PROVE  {y \in S : key[y] < key[x]} = {y \in S : y < x}
  BY <1>1
<1>3. InOrder(S, <) = Arranged(S, key)
  <2>1. \A k : (CHOOSE x \in S : RankBy(S, key, x) = k - 1) =
                 CHOOSE x \in S : Cardinality({y \in S : y < x}) = k - 1
    BY <1>2 DEF RankBy
  <2> DEFINE first(k) == CHOOSE x \in S : Cardinality({y \in S : y < x}) = k - 1
             second(k) == CHOOSE x \in S : RankBy(S, key, x) = k - 1
  <2>2. InOrder(S, <) = [k \in 1 .. Cardinality(S) |-> first(k)]
    BY DEF InOrder
  <2>3. Arranged(S, key) = [k \in 1 .. Cardinality(S) |-> second(k)]
    BY DEF Arranged
  <2>4. \A k : first(k) = second(k)
    BY <2>1
  <2>5. QED
    <3> HIDE DEF first, second
    <3> QED
      BY <2>2, <2>3, <2>4
<1> HIDE DEF key
<1>4. /\ Arranged(S, key) \in [1 .. Cardinality(S) -> S]
      /\ \A x \in S : \E k \in 1 .. Cardinality(S) : Arranged(S, key)[k] = x
      /\ \A k, l \in 1 .. Cardinality(S) :
           k < l => key[Arranged(S, key)[k]] < key[Arranged(S, key)[l]]
  BY <1>1, ArrangedEnumerates
<1>5. ASSUME NEW k \in 1 .. Cardinality(S), NEW l \in 1 .. Cardinality(S),
             Arranged(S, key)[k] = Arranged(S, key)[l]
      PROVE  k = l
  <2>1. ~(k < l) /\ ~(l < k)
    <3>1. key[Arranged(S, key)[k]] \in Int
      BY <1>1, <1>4
    <3>2. QED
      BY <1>4, <1>5, <3>1
  <2>2. QED
    BY <2>1
<1>6. QED
  BY <1>3, <1>4, <1>5

\* Joining two finite sequences.
LEMMA Joined ==
  ASSUME NEW U, NEW a \in Nat, NEW b \in Nat,
         NEW s \in [1 .. a -> U], NEW t \in [1 .. b -> U]
  PROVE  /\ DOMAIN (s \o t) = 1 .. a + b
         /\ \A i \in 1 .. a : (s \o t)[i] = s[i]
         /\ \A k \in 1 .. b : (s \o t)[a + k] = t[k]
<1>1. s \in Seq(U) /\ Len(s) = a /\ t \in Seq(U) /\ Len(t) = b
  OBVIOUS
<1>2. QED
  BY <1>1

\* The selected findings are finitely many numbers.
LEMMA SelectedIsFinite ==
  ASSUME open \subseteq Findings
  PROVE  Selected \subseteq Nat /\ IsFiniteSet(Selected)
<1>1. Len(Report) \in Nat /\ Findings = 1 .. Len(Report)
  BY ReportAssumption DEF Findings
<1>2. IsFiniteSet(Findings)
  BY <1>1, FS_Interval
<1>3. Selected \in SUBSET Findings
  BY DEF Selected
<1>4. QED
  <2>1. Selected \subseteq Nat
    BY <1>1, <1>3
  <2>2. IsFiniteSet(Selected)
    BY <1>2, <1>3, FS_Subset, Zenon
  <2>3. QED
    BY <2>1, <2>2

Importing == {n \in Selected : NeedsImport(n)}

\* The edits are the insertions of the imports, then one edit for each
\* selected finding.
LEMMA ShapeOfAllEdits ==
  ASSUME open \subseteq Findings
  PROVE  /\ Cardinality(Importing) \in Nat /\ Cardinality(Selected) \in Nat
         /\ DOMAIN AllEdits = 1 .. Cardinality(Importing) + Cardinality(Selected)
         /\ \A i \in 1 .. Cardinality(Importing) :
              AllEdits[i] = ImportEdit(InOrder(Importing, ImportOrder)[i])
         /\ \A k \in 1 .. Cardinality(Selected) :
              AllEdits[Cardinality(Importing) + k] =
                CodegenEdit(InOrder(Selected, <)[k])
<1> DEFINE a == Cardinality(Importing)
           b == Cardinality(Selected)
           imports == InOrder(Importing, ImportOrder)
           codegen == InOrder(Selected, <)
           s == [i \in 1 .. a |-> ImportEdit(imports[i])]
           t == [i \in 1 .. b |-> CodegenEdit(codegen[i])]
           U == {ImportEdit(imports[i]) : i \in 1 .. a}
                  \cup {CodegenEdit(codegen[i]) : i \in 1 .. b}
<1>1. /\ a \in Nat /\ b \in Nat
  <2>1. Importing \in SUBSET Selected
    BY DEF Importing
  <2>2. QED
    BY <2>1, SelectedIsFinite, FS_Subset, FS_CardinalityType
<1>2. Len(imports) = a /\ Len(codegen) = b
  <2>1. imports = [k \in 1 .. a |->
          CHOOSE x \in Importing :
            Cardinality({y \in Importing : ImportOrder(y, x)}) = k - 1]
    BY DEF InOrder
  <2>2. codegen = [k \in 1 .. b |->
          CHOOSE x \in Selected :
            Cardinality({y \in Selected : y < x}) = k - 1]
    BY DEF InOrder
  <2>3. DOMAIN imports = 1 .. a /\ DOMAIN codegen = 1 .. b
    BY <2>1, <2>2, Zenon
  <2>4. QED
    <3> HIDE DEF imports, codegen, a, b
    <3>1. imports = [k \in 1 .. a |-> imports[k]]
      <4> USE DEF imports, a
      <4> QED
        BY <2>1, Zenon
    <3>2. codegen = [k \in 1 .. b |-> codegen[k]]
      <4> USE DEF codegen, b
      <4> QED
        BY <2>2, Zenon
    <3>3. QED
      BY <1>1, <3>1, <3>2
<1>3. AllEdits = s \o t
  <2>1. AllEdits = [i \in 1 .. Len(imports) |-> ImportEdit(imports[i])]
                     \o [i \in 1 .. Len(codegen) |-> CodegenEdit(codegen[i])]
    BY DEF AllEdits, Importing
  <2>2. QED
    <3> HIDE DEF imports, codegen, a, b
    <3> QED
      BY <1>2, <2>1
<1>4. s \in [1 .. a -> U] /\ t \in [1 .. b -> U]
  <2> HIDE DEF imports, codegen, a, b
  <2> QED
    OBVIOUS
<1>5. /\ DOMAIN (s \o t) = 1 .. a + b
      /\ \A i \in 1 .. a : (s \o t)[i] = s[i]
      /\ \A k \in 1 .. b : (s \o t)[a + k] = t[k]
  <2> HIDE DEF s, t, U, a, b
  <2> QED
    BY <1>1, <1>4, Joined
<1>6. \A i \in 1 .. a : s[i] = ImportEdit(imports[i])
  <2> HIDE DEF imports, a
  <2> QED
    OBVIOUS
<1>7. \A k \in 1 .. b : t[k] = CodegenEdit(codegen[k])
  <2> HIDE DEF codegen, b
  <2> QED
    OBVIOUS
<1>8. QED
  <2> HIDE DEF s, t
  <2>1. \A k \in 1 .. b : AllEdits[a + k] = CodegenEdit(codegen[k])
    <3> HIDE DEF a, b, codegen
    <3> QED
      BY <1>3, <1>5, <1>7
  <2>2. \A i \in 1 .. a : AllEdits[i] = ImportEdit(imports[i])
    <3> HIDE DEF a, b, codegen, imports
    <3> QED
      BY <1>3, <1>5, <1>6
  <2>3. DOMAIN AllEdits = 1 .. a + b
    BY <1>3, <1>5
  <2>4. QED
    BY <1>1, <2>1, <2>2, <2>3, Zenon

\* A set of numbers that is not empty has a least one: the form in which
\* induction over numbers is used below.
LEMMA LeastNumber ==
  ASSUME NEW S, S \subseteq Nat, S # {}
  PROVE  \E x \in S : \A y \in S : x <= y
<1> DEFINE R == OpToRel(<, Nat)
<1>1. IsWellFoundedOn(R, Nat)
  BY NatLessThanWellFounded
<1>2. \A x, y \in Nat : x < y => <<x, y>> \in R
  BY DEF OpToRel
<1> HIDE DEF R
<1>3. PICK x \in S : \A y \in S : ~(<<y, x>> \in R)
  BY <1>1, WFMin, Zenon
<1>4. ASSUME NEW y \in S PROVE x <= y
  <2>1. x \in Nat /\ y \in Nat /\ ~(y < x)
    BY <1>2, <1>3
  <2>2. QED
    BY <2>1
<1>5. QED
  BY <1>4

\* Rows before columns: a step down outweighs every step to the left.
LEMMA RowsFirst ==
  ASSUME NEW M \in Nat, NEW a \in Nat, NEW b \in Nat, a < b, NEW x \in 0 .. M, NEW y \in 1 .. M
  PROVE  a * M + x < b * M + y
<1>1. PICK c \in Nat : b = (a + 1) + c
  <2>1. b - (a + 1) \in Nat /\ b = (a + 1) + (b - (a + 1))
    OBVIOUS
  <2>2. QED
    BY <2>1
<1>2. b * M = (a * M + M) + c * M /\ c * M \in Nat /\ a * M \in Nat
  BY <1>1
<1>3. QED
  BY <1>2

\* Every finding that needs an import has the head of its file.
LEMMA HeadOfImports ==
  ASSUME open \subseteq Findings, NEW n \in Importing
  PROVE  ImportHead(n) \in Nat
<1> DEFINE S == {k \in Selected : NeedsImport(k) /\ Report[k].file = Report[n].file}
<1>1. S \subseteq Nat /\ n \in S
  BY SelectedIsFinite DEF Importing
<1> HIDE DEF S
<1>2. PICK x \in S : \A y \in S : x <= y
  BY <1>1, LeastNumber
<1>3. Min(S) \in S
  BY <1>2 DEF Min
<1>4. QED
  BY <1>1, <1>3 DEF S, ImportHead

\* The imports are asked for once by each finding that needs one.
LEMMA ImportsEnumerate ==
  ASSUME open \subseteq Findings
  PROVE  /\ InOrder(Importing, ImportOrder) \in [1 .. Cardinality(Importing) -> Importing]
         /\ \A n \in Importing : \E k \in 1 .. Cardinality(Importing) :
              InOrder(Importing, ImportOrder)[k] = n
<1> DEFINE S == Importing
           N == Cardinality(S)
           M == Len(Report)
           key == [n \in S |-> ImportHead(n) * M + n]
<1>1. /\ M \in Nat /\ IsFiniteSet(S)
      /\ \A n \in S : n \in 1 .. M /\ ImportHead(n) \in Nat
  <2>1. M \in Nat /\ Findings = 1 .. M
    BY ReportAssumption DEF Findings
  <2>2. S \in SUBSET Selected /\ Selected \subseteq Findings
    BY DEF Importing, Selected
  <2>3. IsFiniteSet(S)
    BY <2>2, SelectedIsFinite, FS_Subset
  <2>4. QED
    BY <2>1, <2>2, <2>3, HeadOfImports
<1> HIDE DEF S, M
<1>2. ASSUME NEW m \in S, NEW n \in S
      PROVE  /\ key[m] \in Int
             /\ ImportOrder(m, n) <=> key[m] < key[n]
             /\ key[m] = key[n] => m = n
  <2>1. /\ m \in 1 .. M /\ n \in 1 .. M /\ ImportHead(m) \in Nat /\ ImportHead(n) \in Nat
        /\ key[m] = ImportHead(m) * M + m /\ key[n] = ImportHead(n) * M + n
    BY <1>1
  <2>2. ImportHead(m) * M \in Nat /\ ImportHead(n) * M \in Nat
    BY <1>1, <2>1
  <2>3. ImportHead(m) < ImportHead(n) => key[m] < key[n]
    BY <1>1, <2>1, RowsFirst
  <2>4. ImportHead(n) < ImportHead(m) => key[n] < key[m]
    BY <1>1, <2>1, RowsFirst
  <2>5. ImportHead(m) = ImportHead(n) => (key[m] < key[n] <=> m < n) /\ (key[m] = key[n] => m = n)
    BY <2>1, <2>2
  <2>6. key[m] \in Int /\ key[n] \in Int
    BY <2>1, <2>2
  <2> HIDE DEF key
  <2>7. QED
    BY <2>1, <2>3, <2>4, <2>5, <2>6 DEF ImportOrder
<1>3. InOrder(S, ImportOrder) = Arranged(S, key)
  <2> DEFINE first(k) == CHOOSE x \in S : Cardinality({y \in S : ImportOrder(y, x)}) = k - 1
             second(k) == CHOOSE x \in S : RankBy(S, key, x) = k - 1
  <2>1. ASSUME NEW x \in S
        PROVE  {y \in S : ImportOrder(y, x)} = {y \in S : key[y] < key[x]}
    <3> HIDE DEF key
    <3>1. QED
      BY <1>2
  <2>2. InOrder(S, ImportOrder) = [k \in 1 .. N |-> first(k)]
    BY DEF InOrder
  <2>3. Arranged(S, key) = [k \in 1 .. N |-> second(k)]
    BY DEF Arranged
  <2>4. \A k : first(k) = second(k)
    <3> HIDE DEF key
    <3>1. QED
      BY <2>1 DEF RankBy
  <2>5. QED
    <3> HIDE DEF first, second
    <3> QED
      BY <2>2, <2>3, <2>4
<1>4. key \in [S -> Int] /\ \A m, n \in S : key[m] = key[n] => m = n
  <2>1. \A m \in S : ImportHead(m) * M + m \in Int
    BY <1>2
  <2>2. QED
    BY <1>2, <2>1
<1> HIDE DEF key
<1>5. /\ Arranged(S, key) \in [1 .. N -> S]
      /\ \A x \in S : \E k \in 1 .. N : Arranged(S, key)[k] = x
  BY <1>1, <1>4, ArrangedEnumerates
<1>6. QED
  BY <1>3, <1>5 DEF S

\* An edit is there for a finding that the command selected, in its file; a
\* finding that needs an import has one of the inserter's besides its own.
Asked(e) ==
  /\ e.finding \in Selected /\ e.file = Report[e.finding].file
  /\ e.rule \in {Report[e.finding].rule, ImportInserter}
  /\ e.rule = ImportInserter => e.from = e.to

LEMMA AllEditsAsked ==
  ASSUME open \subseteq Findings
  PROVE  /\ \A i \in DOMAIN AllEdits : Asked(AllEdits[i])
         /\ \A n \in Importing : \E i \in DOMAIN AllEdits :
              AllEdits[i].finding = n /\ AllEdits[i].rule = ImportInserter
<1> DEFINE a == Cardinality(Importing)
           b == Cardinality(Selected)
           imports == InOrder(Importing, ImportOrder)
           codegen == InOrder(Selected, <)
<1>1. /\ a \in Nat /\ b \in Nat
      /\ DOMAIN AllEdits = 1 .. a + b
      /\ \A i \in 1 .. a : AllEdits[i] = ImportEdit(imports[i])
      /\ \A k \in 1 .. b : AllEdits[a + k] = CodegenEdit(codegen[k])
  BY ShapeOfAllEdits, Zenon
<1>2. codegen \in [1 .. b -> Selected]
  BY SelectedIsFinite, InOrderEnumerates, Zenon
<1>3. /\ imports \in [1 .. a -> Importing]
      /\ \A n \in Importing : \E k \in 1 .. a : imports[k] = n
  BY ImportsEnumerate, Zenon
<1>4. \A n \in Selected : Asked(CodegenEdit(n))
  BY RulesAssumption DEF Asked, CodegenEdit, Selected, AllRules
<1>5. \A n \in Importing : Asked(ImportEdit(n))
  BY DEF Asked, ImportEdit, Importing
<1> HIDE DEF a, b, codegen, imports
<1>6. ASSUME NEW i \in DOMAIN AllEdits
      PROVE  Asked(AllEdits[i])
  <2>1. CASE i \in 1 .. a
    <3>1. imports[i] \in Importing /\ AllEdits[i] = ImportEdit(imports[i])
      BY <1>1, <1>3, <2>1
    <3>2. QED
      BY <1>5, <3>1
  <2>2. CASE i \notin 1 .. a
    <3>1. i - a \in 1 .. b /\ a + (i - a) = i
      BY <1>1, <2>2
    <3>2. AllEdits[i] = CodegenEdit(codegen[i - a]) /\ codegen[i - a] \in Selected
      BY <1>1, <1>2, <3>1
    <3>3. QED
      BY <1>4, <3>2
  <2>3. QED
    BY <2>1, <2>2
<1>7. ASSUME NEW n \in Importing
      PROVE  \E i \in DOMAIN AllEdits :
               AllEdits[i].finding = n /\ AllEdits[i].rule = ImportInserter
  <2>1. PICK k \in 1 .. a : imports[k] = n
    BY <1>3
  <2>2. k \in DOMAIN AllEdits /\ AllEdits[k] = ImportEdit(n)
    BY <1>1, <2>1
  <2>3. QED
    BY <2>2 DEF ImportEdit
<1>8. QED
  BY <1>6, <1>7

\* The edit is the one a codegen routine made of the finding.
Rewrites(e, n) == e.finding = n /\ e.rule # ImportInserter

\* Every selected finding has an edit of its own, and nothing selected means
\* no edits.
LEMMA AllEditsCover ==
  ASSUME open \subseteq Findings
  PROVE  /\ \A n \in Selected : \E i \in DOMAIN AllEdits : Rewrites(AllEdits[i], n)
         /\ Selected = {} => DOMAIN AllEdits = {}
<1> DEFINE a == Cardinality(Importing)
           b == Cardinality(Selected)
           codegen == InOrder(Selected, <)
<1>1. /\ a \in Nat /\ b \in Nat
      /\ DOMAIN AllEdits = 1 .. a + b
      /\ \A k \in 1 .. b : AllEdits[a + k] = CodegenEdit(codegen[k])
  BY ShapeOfAllEdits, Zenon
<1>2. \A n \in Selected : \E k \in 1 .. b : codegen[k] = n
  BY SelectedIsFinite, InOrderEnumerates, Zenon
<1>3. ASSUME NEW n \in Selected
      PROVE  \E i \in DOMAIN AllEdits : Rewrites(AllEdits[i], n)
  <2>1. PICK k \in 1 .. b : codegen[k] = n
    BY <1>2
  <2>2. a + k \in DOMAIN AllEdits
    <3> HIDE DEF a, b, codegen
    <3>1. a + k \in 1 .. a + b
      BY <1>1
    <3>2. QED
      BY <1>1, <3>1
  <2>3. AllEdits[a + k] = CodegenEdit(n)
    BY <1>1, <2>1, Zenon
  <2>4. Rewrites(AllEdits[a + k], n)
    <3>1. Report[n].rule # ImportInserter
      BY RulesAssumption DEF Selected, AllRules
    <3>2. QED
      <4> HIDE DEF a, b, codegen
      <4> QED
        BY <2>3, <3>1 DEF CodegenEdit, Rewrites
  <2>5. QED
    BY <2>2, <2>4, Zenon
<1>4. ASSUME Selected = {}
      PROVE  DOMAIN AllEdits = {}
  <2>1. Importing = {}
    BY <1>4 DEF Importing
  <2>2. a = 0 /\ b = 0
    BY <1>4, <2>1, FS_EmptySet
  <2>3. QED
    <3> HIDE DEF a, b
    <3> QED
      BY <1>1, <2>2
<1>5. QED
  BY <1>3, <1>4
----------------------------------------------------------------------------
(* All or nothing.                                                         *)

\* What is open was reported, only edits are applied, every selected finding
\* has an edit of its own, and the edits of a command that is not turned down are all
\* applied.
Complete ==
  /\ open \subseteq Findings
  /\ applied \subseteq DOMAIN edits
  /\ phase \in {"resolve", "accepted"} =>
       /\ \A n \in Selected : \E i \in DOMAIN edits : Rewrites(edits[i], n)
       /\ Selected = {} => DOMAIN edits = {}
  /\ phase = "accepted" => DOMAIN edits \subseteq applied

LEMMA StartsComplete == Init => Complete
BY DEF Init, Complete

\* What a command selects depends on the command and the tree only.
LEMMA SelectedStays ==
  ASSUME open' = open, cmd' = cmd
  PROVE  Selected' = Selected
BY DEF Selected

LEMMA StaysComplete == Complete /\ [Next]_vars => Complete'
<1> SUFFICES ASSUME Complete, [Next]_vars
             PROVE  Complete'
  OBVIOUS
<1>1. CASE Orchestrate
  <2>1. /\ edits' = AllEdits /\ applied' = {} /\ phase' = "resolve"
        /\ open' = open /\ cmd' = cmd
    BY <1>1 DEF Orchestrate
  <2>2. Selected' = Selected
    BY <2>1, SelectedStays
  <2>3. /\ open \subseteq Findings
        /\ \A n \in Selected : \E i \in DOMAIN AllEdits : Rewrites(AllEdits[i], n)
        /\ Selected = {} => DOMAIN AllEdits = {}
    BY AllEditsCover DEF Complete
  <2>4. QED
    BY <2>1, <2>2, <2>3 DEF Complete
<1>2. ASSUME NEW i \in DOMAIN edits, ApplyEdit(i)
      PROVE  Complete'
  <2>1. /\ applied' = applied \cup {i}
        /\ phase = "resolve"
        /\ UNCHANGED <<open, phase, cmd, edits>>
    BY <1>2 DEF ApplyEdit
  <2>2. Selected' = Selected
    BY <2>1, SelectedStays
  <2>3. QED
    BY <2>1, <2>2 DEF Complete
<1>3. ASSUME NEW i \in DOMAIN edits, RejectEdit(i)
      PROVE  Complete'
  <2>1. UNCHANGED <<open, phase, cmd, edits, applied>>
    BY <1>3 DEF RejectEdit
  <2>2. Selected' = Selected
    BY <2>1, SelectedStays
  <2>3. QED
    BY <2>1, <2>2 DEF Complete
<1>4. CASE Accept
  <2>1. /\ rejected = {} /\ Undecided = {}
        /\ phase = "resolve"
        /\ UNCHANGED <<open, cmd, edits, applied>>
    BY <1>4 DEF Accept, resolverVars
  <2>2. Selected' = Selected
    BY <2>1, SelectedStays
  <2>3. DOMAIN edits \subseteq applied
    BY <2>1 DEF Undecided
  <2>4. QED
    BY <2>1, <2>2, <2>3 DEF Complete
<1>5. CASE Write
  <2>1. phase' = "idle" /\ UNCHANGED <<edits, applied>> /\ open' \subseteq open
    BY <1>5 DEF Write, resolverVars
  <2>2. QED
    BY <2>1 DEF Complete
<1>6. CASE /\ UNCHANGED <<open, edits, applied>>
           /\ phase' \notin {"resolve", "accepted"}
  BY <1>6 DEF Complete
<1>7. CASE UNCHANGED vars
  <2>1. UNCHANGED <<open, phase, cmd, edits, applied>>
    BY <1>7 DEF vars, resolverVars
  <2>2. Selected' = Selected
    BY <2>1, SelectedStays
  <2>3. QED
    BY <2>1, <2>2 DEF Complete
<1>8. CASE DropAdvice
  <2>1. UNCHANGED <<open, phase, cmd, edits, applied>>
    BY <1>8 DEF DropAdvice, resolverVars
  <2>2. Selected' = Selected
    BY <2>1, SelectedStays
  <2>3. QED
    BY <2>1, <2>2 DEF Complete
<1>9. QED
  BY <1>1, <1>2, <1>3, <1>4, <1>5, <1>6, <1>7, <1>8
     DEF Next, Invoke, RunAdvice, Resolve, Suggest, TakeAdvice,
         resolverVars, userVars

\* While its edits are decided and written, each edit was asked for, and every
\* selected finding that needs an import has an edit of the inserter's.
Provided ==
  phase \in {"resolve", "accepted"} =>
    /\ \A i \in DOMAIN edits : Asked(edits[i])
    /\ \A n \in Importing : \E i \in DOMAIN edits :
         edits[i].finding = n /\ edits[i].rule = ImportInserter

LEMMA StaysProvided == Complete /\ Provided /\ [Next]_vars => Provided'
<1> SUFFICES ASSUME Complete, Provided, [Next]_vars
             PROVE  Provided'
  OBVIOUS
<1>1. CASE Orchestrate
  <2>1. edits' = AllEdits /\ UNCHANGED <<open, imported, cmd>>
    BY <1>1 DEF Orchestrate
  <2>2. Importing' = Importing /\ \A i \in DOMAIN edits' : Asked(edits[i])' <=> Asked(AllEdits[i])
    BY <2>1 DEF Importing, NeedsImport, Selected, Asked
  <2>3. /\ \A i \in DOMAIN AllEdits : Asked(AllEdits[i])
        /\ \A n \in Importing : \E i \in DOMAIN AllEdits :
             AllEdits[i].finding = n /\ AllEdits[i].rule = ImportInserter
    BY AllEditsAsked DEF Complete
  <2>4. QED
    BY <2>1, <2>2, <2>3 DEF Provided
<1>2. CASE /\ UNCHANGED <<open, imported, cmd, edits>>
           /\ phase' \in {"resolve", "accepted"} => phase \in {"resolve", "accepted"}
  <2>1. Importing' = Importing /\ \A i \in DOMAIN edits : Asked(edits[i])' <=> Asked(edits[i])
    BY <1>2 DEF Importing, NeedsImport, Selected, Asked
  <2>2. QED
    BY <1>2, <2>1 DEF Provided
<1>3. CASE phase' \notin {"resolve", "accepted"}
  BY <1>3 DEF Provided
<1>4. QED
  BY <1>1, <1>2, <1>3
     DEF Next, Invoke, RunAdvice, DropAdvice, Resolve, ApplyEdit, RejectEdit,
         Suggest, Accept, TakeAdvice, Write, resolverVars, userVars, vars

\* A step that changes what is open leaves nothing of what the command
\* selected open, and gives every text that it rewrites the import it needs,
\* unless an insertion was swallowed.
THEOREM NothingIsLeftOut == Spec => AllOrNothing
<1> DEFINE Whole == Selected' = {} /\ \A n \in open \ open' : ~NeedsImport(n)'
<1>1. Complete /\ Provided /\ [Next]_vars => (open' # open /\ Swallowed(applied) = {} => Whole)
  <2> SUFFICES ASSUME Complete, Provided, [Next]_vars, open' # open,
                      Swallowed(applied) = {}
               PROVE  Whole
    OBVIOUS
  <2>1. Write
    BY DEF Next, Invoke, RunAdvice, DropAdvice, Orchestrate, Resolve,
           ApplyEdit, RejectEdit, Suggest, Accept, TakeAdvice, vars
  <2>2. /\ phase = "accepted" /\ cmd' = cmd
        /\ open' = open \ {edits[i].finding :
                              i \in {k \in applied : edits[k].rule # ImportInserter}}
        /\ imported' = imported \cup
             {<<edits[i].file, Report[edits[i].finding].module>> :
                i \in {k \in applied : edits[k].rule = ImportInserter}}
    <3>1. applied \ Swallowed(applied) = applied
      OBVIOUS
    <3>2. QED
      BY <2>1, <3>1 DEF Write
  <2>3. \A n \in Selected : \E i \in applied : Rewrites(edits[i], n)
    BY <2>2 DEF Complete
  <2>4. Selected' \subseteq Selected /\ Selected' \subseteq open'
    BY <2>2 DEF Selected
  <2>5. ASSUME NEW n \in open \ open'
        PROVE  ~NeedsImport(n)'
    <3>1. PICK i \in applied : edits[i].finding = n
      BY <2>2, <2>5
    <3>2. n \in Selected
      BY <2>2, <3>1 DEF Complete, Provided, Asked
    <3>3. CASE NeedsImport(n)
      <4>1. PICK j \in DOMAIN edits : edits[j].finding = n /\ edits[j].rule = ImportInserter
        BY <2>2, <3>2, <3>3 DEF Provided, Importing
      <4>2. j \in applied /\ edits[j].file = Report[n].file
        BY <2>2, <4>1 DEF Complete, Provided, Asked
      <4>3. <<Report[n].file, Report[n].module>> \in imported'
        BY <2>2, <4>1, <4>2
      <4>4. QED
        BY <4>3 DEF NeedsImport
    <3>4. CASE ~NeedsImport(n)
      BY <2>2, <3>4 DEF NeedsImport
    <3>5. QED
      BY <3>3, <3>4
  <2>6. Selected' = {}
    BY <2>2, <2>3, <2>4 DEF Rewrites
  <2>7. QED
    BY <2>5, <2>6
<1>2. Complete /\ Provided /\ [Next]_vars
        => [open' # open /\ Swallowed(applied) = {} => Whole]_vars
  BY <1>1
<1>3. Init => Provided
  BY DEF Init, Provided
<1>4. QED
  BY <1>2, <1>3, StartsComplete, StaysComplete, StaysProvided, PTL DEF Spec, AllOrNothing
----------------------------------------------------------------------------
(* The types.                                                              *)

\* Every edit, in whatever phase, is about a finding of the report; a
\* suggestion with lines to run names a file of the report, and its rules.
Reported ==
  /\ \A i \in DOMAIN edits : /\ edits[i].finding \in Findings
                             /\ edits[i].file = Report[edits[i].finding].file
                             /\ edits[i].rule \in AllRules \cup {ImportInserter}
  /\ advice.rules \subseteq AllRules \cup {ImportInserter}
  /\ toRun # {} => advice.file \in AllFiles

LEMMA StaysTyped == TypeOK /\ Reported /\ [Next]_vars => TypeOK' /\ Reported'
<1> SUFFICES ASSUME TypeOK, Reported, [Next]_vars
             PROVE  TypeOK' /\ Reported'
  OBVIOUS
<1>1. ASSUME NEW m \in Modes, NEW o \in SUBSET AllRules, NEW w \in BOOLEAN,
             Invoke(m, o, w)
      PROVE  TypeOK' /\ Reported'
  <2>1. cmd' \in [mode : Modes \cup {"safe"},
                  only : SUBSET (AllRules \cup {ImportInserter}),
                  files : SUBSET AllFiles, write : BOOLEAN]
    BY <1>1 DEF Invoke
  <2>2. QED
    BY <1>1, <2>1 DEF Invoke, TypeOK, Reported, resolverVars, userVars
<1>2. ASSUME NEW r \in toRun, RunAdvice(r)
      PROVE  TypeOK' /\ Reported'
  <2>1. r \in AllRules \cup {ImportInserter} /\ advice.file \in AllFiles
    BY DEF TypeOK, Reported
  <2>2. cmd' \in [mode : Modes \cup {"safe"},
                  only : SUBSET (AllRules \cup {ImportInserter}),
                  files : SUBSET AllFiles, write : BOOLEAN]
    BY <1>2, <2>1 DEF RunAdvice
  <2>3. toRun' \in SUBSET advice.rules /\ advice' = advice
    BY <1>2 DEF RunAdvice, TypeOK
  <2>4. QED
    BY <1>2, <2>1, <2>2, <2>3 DEF RunAdvice, TypeOK, Reported, resolverVars
<1>3. CASE DropAdvice
  BY <1>3 DEF DropAdvice, NoAdvice, TypeOK, Reported, resolverVars
<1>4. CASE Orchestrate
  <2>1. ASSUME NEW i \in DOMAIN AllEdits
        PROVE  /\ AllEdits[i].finding \in Findings
               /\ AllEdits[i].file = Report[AllEdits[i].finding].file
               /\ AllEdits[i].rule \in AllRules \cup {ImportInserter}
    <3>1. Asked(AllEdits[i])
      BY AllEditsAsked DEF TypeOK
    <3>2. QED
      BY <3>1 DEF Asked, Selected, TypeOK, AllRules
  <2>2. QED
    BY <1>4, <2>1 DEF Orchestrate, TypeOK, Reported, userVars
<1>5. ASSUME NEW i \in DOMAIN edits, ApplyEdit(i)
      PROVE  TypeOK' /\ Reported'
  BY <1>5 DEF ApplyEdit, TypeOK, Reported, userVars
<1>6. ASSUME NEW i \in DOMAIN edits, RejectEdit(i)
      PROVE  TypeOK' /\ Reported'
  <2>1. PICK j \in Rivals(i) : named' = named \cup {edits[j].rule, edits[i].rule}
    BY <1>6 DEF RejectEdit
  <2>2. named' \in SUBSET (AllRules \cup {ImportInserter})
    BY <2>1 DEF Rivals, TypeOK, Reported
  <2>3. QED
    BY <1>6, <2>2 DEF RejectEdit, TypeOK, Reported, userVars
<1>7. CASE Suggest \/ Accept
  BY <1>7 DEF Suggest, Accept, TypeOK, Reported, resolverVars, userVars
<1>8. CASE TakeAdvice
  <2>1. CASE advice = NoAdvice
    <3>1. PICK i \in rejected : advice' = [rules |-> named, file |-> edits[i].file]
      BY <1>8, <2>1 DEF TakeAdvice
    <3>2. edits[i].file \in AllFiles
      BY DEF TypeOK, Reported, AllFiles
    <3>3. QED
      BY <1>8, <2>1, <3>1, <3>2 DEF TakeAdvice, TypeOK, Reported, resolverVars
  <2>2. CASE advice # NoAdvice
    BY <1>8, <2>2 DEF TakeAdvice, TypeOK, Reported, resolverVars, userVars
  <2>3. QED
    BY <2>1, <2>2
<1>9. CASE Write
  <2>1. open' \in SUBSET Findings
    BY <1>9 DEF Write, TypeOK
  <2>2. imported' \in SUBSET (AllFiles \X {Report[n].module : n \in Findings})
    <3>1. \A i \in applied :
            <<edits[i].file, Report[edits[i].finding].module>>
              \in AllFiles \X {Report[n].module : n \in Findings}
      BY DEF TypeOK, Reported, AllFiles
    <3>2. QED
      BY <1>9, <3>1 DEF Write, TypeOK
  <2>3. QED
    BY <1>9, <2>1, <2>2 DEF Write, TypeOK, Reported, resolverVars, userVars
<1>10. CASE UNCHANGED vars
  BY <1>10 DEF vars, TypeOK, Reported, resolverVars, userVars
<1>11. QED
  BY <1>1, <1>2, <1>3, <1>4, <1>5, <1>6, <1>7, <1>8, <1>9, <1>10
     DEF Next, Resolve

\* Every command line, list of imports, edit and suggestion is one that the
\* report accounts for.
THEOREM TypeCorrect == Spec => []TypeOK
<1>1. Init => TypeOK /\ Reported
  BY DEF Init, TypeOK, Reported, NoCommand, NoAdvice
<1>2. QED
  BY <1>1, StaysTyped, PTL DEF Spec
----------------------------------------------------------------------------
(* Where the edits are.                                                    *)

\* The edits of a plan are finitely many, and each inserts or rewrites inside
\* its text.
Placed(es) ==
  /\ DOMAIN es \subseteq Nat \ {0} /\ IsFiniteSet(DOMAIN es)
  /\ \A i \in DOMAIN es :
       /\ es[i].from \in Nat /\ es[i].to \in Nat
       /\ es[i].from <= es[i].to /\ es[i].to <= Length

LEMMA StartsPlaced == Init => Placed(edits)
<1>1. DOMAIN << >> = {}
  OBVIOUS
<1>2. QED
  BY <1>1, FS_EmptySet DEF Init, Placed

LEMMA AllEditsPlaced ==
  ASSUME open \subseteq Findings
  PROVE  Placed(AllEdits)
<1> DEFINE a == Cardinality(Importing)
           b == Cardinality(Selected)
           codegen == InOrder(Selected, <)
           imports == InOrder(Importing, ImportOrder)
           good(x) == /\ x.from \in Nat /\ x.to \in Nat
                      /\ x.from <= x.to /\ x.to <= Length
<1>1. /\ a \in Nat /\ b \in Nat
      /\ DOMAIN AllEdits = 1 .. a + b
      /\ \A i \in 1 .. a : AllEdits[i] = ImportEdit(imports[i])
      /\ \A k \in 1 .. b : AllEdits[a + k] = CodegenEdit(codegen[k])
  BY ShapeOfAllEdits, Zenon
<1>2. codegen \in [1 .. b -> Selected] /\ imports \in [1 .. a -> Importing]
  BY SelectedIsFinite, InOrderEnumerates, ImportsEnumerate, Zenon
<1>3. ASSUME NEW n \in Selected
      PROVE  good(CodegenEdit(n))
  <2>1. n \in DOMAIN Report /\ Report[n] \in Finding
    BY ReportAssumption DEF Selected, Findings
  <2>2. /\ Report[n].from \in Nat /\ Report[n].to \in Nat /\ Report[n].to <= Length
        /\ Report[n].from <= Report[n].to
    BY <2>1, ReportAssumption DEF Finding
  <2>3. CodegenEdit(n).from = Report[n].from /\ CodegenEdit(n).to = Report[n].to
    BY DEF CodegenEdit
  <2>4. QED
    BY <2>2, <2>3
<1>4. ASSUME NEW n \in Importing
      PROVE  good(ImportEdit(n))
  <2>1. Report[n].file \in AllFiles
    BY DEF Importing, Selected, AllFiles, Findings
  <2>2. Top[Report[n].file] \in Nat /\ Top[Report[n].file] <= Length
    BY <2>1, TopAssumption, LengthAssumption
  <2>3. QED
    BY <2>2 DEF ImportEdit
<1> HIDE DEF a, b, codegen, imports, good
<1>5. ASSUME NEW i \in DOMAIN AllEdits
      PROVE  good(AllEdits[i])
  <2>1. CASE i \in 1 .. a
    <3>1. imports[i] \in Importing /\ AllEdits[i] = ImportEdit(imports[i])
      BY <1>1, <1>2, <2>1
    <3>2. QED
      BY <1>4, <3>1
  <2>2. CASE i \notin 1 .. a
    <3>1. i - a \in 1 .. b /\ a + (i - a) = i
      BY <1>1, <2>2
    <3>2. AllEdits[i] = CodegenEdit(codegen[i - a]) /\ codegen[i - a] \in Selected
      BY <1>1, <1>2, <3>1
    <3>3. QED
      BY <1>3, <3>2
  <2>3. QED
    BY <2>1, <2>2
<1>6. DOMAIN AllEdits \subseteq Nat \ {0} /\ IsFiniteSet(DOMAIN AllEdits)
  <2>1. a + b \in Nat
    BY <1>1
  <2>2. IsFiniteSet(1 .. a + b)
    BY <2>1, FS_Interval
  <2>3. QED
    BY <1>1, <2>1, <2>2
<1>7. QED
  BY <1>5, <1>6 DEF Placed, good

LEMMA StaysPlaced == Complete /\ Placed(edits) /\ [Next]_vars => Placed(edits)'
<1> SUFFICES ASSUME Complete, Placed(edits), [Next]_vars
             PROVE  Placed(edits)'
  OBVIOUS
<1>2. CASE Orchestrate
  <2>1. edits' = AllEdits /\ Placed(AllEdits)
    BY <1>2, AllEditsPlaced DEF Orchestrate, Complete
  <2>2. QED
    BY <2>1 DEF Placed
<1>3. CASE edits' = edits
  BY <1>3 DEF Placed
<1>4. QED
  BY <1>2, <1>3
     DEF Next, Invoke, RunAdvice, DropAdvice, Resolve, ApplyEdit, RejectEdit, Suggest,
         Accept, TakeAdvice, Write, resolverVars, userVars, vars

----------------------------------------------------------------------------
(* The suggestion helps.                                                   *)

\* No two of the edits overlap, in one file or in two.
Compatible(es) ==
  \A i, j \in DOMAIN es : i # j => ~RangesOverlap(es[i], es[j])

\* No two of the findings overlap, no two ask for an import, and none is where
\* an import goes that is asked for.
Free(S) ==
  \A m, n \in S :
    /\ NeedsImport(m) => ~RangesOverlap(ImportEdit(m), Report[n])
    /\ m # n => /\ ~RangesOverlap(Report[m], Report[n])
                /\ ~(NeedsImport(m) /\ NeedsImport(n))

\* Then no two edits overlap.
LEMMA CompatibleEdits ==
  ASSUME open \subseteq Findings, Free(Selected)
  PROVE  Compatible(AllEdits)
<1> DEFINE a == Cardinality(Importing)
           b == Cardinality(Selected)
           codegen == InOrder(Selected, <)
           imports == InOrder(Importing, ImportOrder)
<1>1. /\ a \in Nat /\ b \in Nat
      /\ DOMAIN AllEdits = 1 .. a + b
      /\ \A i \in 1 .. a : AllEdits[i] = ImportEdit(imports[i])
      /\ \A k \in 1 .. b : AllEdits[a + k] = CodegenEdit(codegen[k])
  BY ShapeOfAllEdits, Zenon
<1>2. /\ codegen \in [1 .. b -> Selected]
      /\ \A k, l \in 1 .. b : codegen[k] = codegen[l] => k = l
  BY SelectedIsFinite, InOrderEnumerates, Zenon
<1>3. a = 0 \/ a = 1
  <2>1. \A m, n \in Importing : m = n
    BY DEF Importing, Free
  <2>2. CASE Importing = {}
    BY <2>2, FS_EmptySet
  <2>3. CASE Importing # {}
    <3>1. PICK m \in Importing : TRUE
      BY <2>3
    <3>2. Importing = {m}
      BY <2>1, <3>1
    <3>3. QED
      BY <3>2, FS_Singleton
  <2>4. QED
    BY <2>2, <2>3
<1>4. imports \in [1 .. a -> Importing]
  BY ImportsEnumerate, Zenon
<1>5. ASSUME NEW i \in 1 .. a, NEW k \in 1 .. b
      PROVE  /\ ~RangesOverlap(AllEdits[i], AllEdits[a + k])
             /\ ~RangesOverlap(AllEdits[a + k], AllEdits[i])
  <2>1. PICK n \in Importing : AllEdits[i] = ImportEdit(n)
    BY <1>1, <1>4, <1>5
  <2>2. PICK m \in Selected : AllEdits[a + k] = CodegenEdit(m)
    BY <1>1, <1>2, <1>5
  <2>3. ~RangesOverlap(ImportEdit(n), Report[m])
    BY <2>1 DEF Free, Importing
  <2>4. ~RangesOverlap(ImportEdit(n), CodegenEdit(m))
    BY <2>3 DEF RangesOverlap, CodegenEdit
  <2>5. QED
    BY <2>1, <2>2, <2>4, OverlapSymmetric
<1>6. ASSUME NEW k \in 1 .. b, NEW l \in 1 .. b, k # l
      PROVE  ~RangesOverlap(AllEdits[a + k], AllEdits[a + l])
  <2>1. codegen[k] # codegen[l] /\ codegen[k] \in Selected /\ codegen[l] \in Selected
    BY <1>2, <1>6
  <2>2. ~RangesOverlap(Report[codegen[k]], Report[codegen[l]])
    BY <2>1, Zenon DEF Free
  <2>3. /\ AllEdits[a + k] = CodegenEdit(codegen[k])
        /\ AllEdits[a + l] = CodegenEdit(codegen[l])
    BY <1>1, <1>6, Zenon
  <2>4. QED
    <3> HIDE DEF codegen, a, b
    <3>1. /\ AllEdits[a + k].from = Report[codegen[k]].from
          /\ AllEdits[a + k].to = Report[codegen[k]].to
          /\ AllEdits[a + l].from = Report[codegen[l]].from
          /\ AllEdits[a + l].to = Report[codegen[l]].to
      BY <2>3 DEF CodegenEdit
    <3>2. QED
      BY <2>2, <3>1 DEF RangesOverlap
<1>7. ASSUME NEW i \in DOMAIN AllEdits, NEW j \in DOMAIN AllEdits, i # j
      PROVE  ~RangesOverlap(AllEdits[i], AllEdits[j])
  <2> HIDE DEF a, b, codegen
  <2>1. i \in 1 .. a + b /\ j \in 1 .. a + b
    BY <1>1
  <2>2. CASE i <= a
    <3>1. i = a /\ a = 1
      BY <1>1, <1>3, <2>1, <2>2
    <3>2. j - a \in 1 .. b /\ a + (j - a) = j /\ i \in 1 .. a
      BY <1>1, <1>7, <2>1, <3>1
    <3>3. QED
      BY <1>5, <3>2
  <2>3. CASE j <= a
    <3>1. j = a /\ a = 1
      BY <1>1, <1>3, <2>1, <2>3
    <3>2. i - a \in 1 .. b /\ a + (i - a) = i /\ j \in 1 .. a
      BY <1>1, <1>7, <2>1, <3>1
    <3>3. QED
      BY <1>5, <3>2
  <2>4. CASE i > a /\ j > a
    <3>1. /\ i - a \in 1 .. b /\ a + (i - a) = i
          /\ j - a \in 1 .. b /\ a + (j - a) = j
          /\ i - a # j - a
      BY <1>1, <1>7, <2>1, <2>4
    <3>2. QED
      BY <1>6, <3>1
  <2>5. QED
    BY <1>1, <2>1, <2>2, <2>3, <2>4
<1>8. QED
  BY <1>7, Zenon DEF Compatible

\* The command of one line of the suggestion.
AdviceCommand(r) ==
  [mode |-> "safe", only |-> {r}, files |-> {advice.file}, write |-> TRUE]

\* That command is running, has something to write and is not turned down.
Running(r) ==
  /\ cmd = AdviceCommand(r)
  /\ \/ phase = "orchestrate"
     \/ /\ phase \in {"resolve", "accepted"}
        /\ rejected = {}
        /\ Selected # {}
        /\ Compatible(edits)

\* As long as nothing was fixed, a rule that could be run alone either has
\* not been run yet or is running.
Hopeful ==
  /\ advice.rules # {} => open \subseteq openThen
  /\ \A r \in advice.rules \ toRun :
       open = openThen /\ Workable(r, advice.file, openThen) => Running(r)

\* Whether a rule can be run alone depends on the imports only.
LEMMA WorkableStays ==
  ASSUME imported' = imported, advice' = advice, openThen' = openThen, NEW r
  PROVE  Workable(r, advice.file, openThen)' = Workable(r, advice.file, openThen)
BY DEF Workable, NeedsImport, ImportEdit

\* What a line of the suggestion selects when nothing was fixed.
LEMMA AdviceSelects ==
  ASSUME NEW r, cmd = AdviceCommand(r), open = openThen,
         Workable(r, advice.file, openThen)
  PROVE  Selected # {} /\ Free(Selected)
<1>1. Selected = {n \in openThen : /\ Report[n].rule = r
                                   /\ Report[n].file = advice.file
                                   /\ Report[n].safety = "safe"}
  BY DEF Selected, Allowed, AdviceCommand
<1>2. QED
  BY <1>1, Zenon DEF Workable, Free

\* A step that changes nothing the promise is about keeps it.
LEMMA HopeStays ==
  ASSUME Hopeful, UNCHANGED <<open, imported, advice, toRun, openThen>>,
         \A r : Running(r) => Running(r)'
  PROVE  Hopeful'
BY WorkableStays DEF Hopeful

LEMMA StartsHopeful == Init => Hopeful
BY DEF Init, Hopeful, NoAdvice

\* A command that writes something rewrites something: what swallows an
\* insertion is not swallowed itself.
LEMMA WritingRewrites ==
  ASSUME Complete, Provided, Placed(edits), Write, cmd.write, Selected # {}
  PROVE  open' # open
<1> DEFINE made == applied \ Swallowed(applied)
<1>1. /\ phase = "accepted"
      /\ open' = open \ {edits[i].finding :
                            i \in {k \in made : edits[k].rule # ImportInserter}}
  BY DEF Write
<1>2. PICK n \in Selected, i \in applied : Rewrites(edits[i], n)
  BY <1>1 DEF Complete
<1>3. \A j \in DOMAIN edits : edits[j].finding \in open
  BY <1>1 DEF Provided, Asked, Selected
<1>4. CASE i \notin Swallowed(applied)
  BY <1>1, <1>2, <1>3, <1>4 DEF Complete, Rewrites
<1>5. CASE i \in Swallowed(applied)
  <2>1. PICK j \in applied : Swallows(j, i)
    BY <1>5 DEF Swallowed
  <2>2. edits[j].from # edits[j].to /\ j \in DOMAIN edits
    <3>1. j \in DOMAIN edits /\ edits[j].from < edits[j].to
      BY <2>1 DEF Complete, Swallows
    <3>2. edits[j].from \in Nat /\ edits[j].to \in Nat
      BY <3>1 DEF Placed
    <3>3. QED
      BY <3>1, <3>2
  <2>3. j \notin Swallowed(applied)
    BY <2>2 DEF Swallowed, Swallows
  <2>4. edits[j].rule # ImportInserter
    BY <1>1, <2>2 DEF Provided, Asked
  <2>5. QED
    BY <1>1, <1>3, <2>1, <2>2, <2>3, <2>4
<1>6. QED
  BY <1>4, <1>5

LEMMA StaysHopeful == Complete /\ Provided /\ Placed(edits) /\ Hopeful /\ [Next]_vars => Hopeful'
<1> SUFFICES ASSUME Complete, Provided, Placed(edits), Hopeful, [Next]_vars
             PROVE  Hopeful'
  OBVIOUS
<1>1. ASSUME NEW m \in Modes, NEW o \in SUBSET AllRules, NEW w \in BOOLEAN,
             Invoke(m, o, w)
      PROVE  Hopeful'
  <2>1. advice' = NoAdvice
    BY <1>1 DEF Invoke, userVars
  <2>2. QED
    BY <2>1 DEF Hopeful, NoAdvice
<1>2. ASSUME NEW s \in toRun, RunAdvice(s)
      PROVE  Hopeful'
  <2>1. /\ phase = "idle" /\ phase' = "orchestrate"
        /\ toRun' = toRun \ {s}
        /\ UNCHANGED <<open, imported, advice, openThen>>
        /\ cmd' = AdviceCommand(s)
    BY <1>2 DEF RunAdvice, AdviceCommand
  <2>2. AdviceCommand(s)' = AdviceCommand(s)
    BY <2>1 DEF AdviceCommand
  <2>3. Running(s)'
    BY <2>1, <2>2 DEF Running
  <2>4. \A r : ~Running(r)
    BY <2>1 DEF Running
  <2>5. ASSUME NEW r \in advice'.rules \ toRun',
               open' = openThen', Workable(r, advice.file, openThen)'
        PROVE  Running(r)'
    <3>1. Workable(r, advice.file, openThen)
      BY <2>1, <2>5, WorkableStays
    <3>2. CASE r = s
      BY <2>3, <3>2
    <3>3. CASE r # s
      BY <2>1, <2>4, <2>5, <3>1, <3>3 DEF Hopeful
    <3>4. QED
      BY <3>2, <3>3
  <2>6. advice'.rules # {} => open' \subseteq openThen'
    BY <2>1 DEF Hopeful
  <2>7. QED
    BY <2>5, <2>6 DEF Hopeful
<1>3. CASE DropAdvice
  <2>1. advice' = NoAdvice
    BY <1>3 DEF DropAdvice
  <2>2. QED
    BY <2>1 DEF Hopeful, NoAdvice
<1>4. CASE Orchestrate
  <2>1. /\ phase = "orchestrate" /\ phase' = "resolve"
        /\ edits' = AllEdits /\ rejected' = {}
        /\ UNCHANGED <<open, imported, cmd, advice, toRun, openThen>>
    BY <1>4 DEF Orchestrate, userVars
  <2>2. ASSUME NEW r \in advice'.rules \ toRun',
               open' = openThen', Workable(r, advice.file, openThen)'
        PROVE  Running(r)'
    <3>1. Workable(r, advice.file, openThen)
      BY <2>1, <2>2, WorkableStays
    <3>2. cmd = AdviceCommand(r)
      BY <2>1, <2>2, <3>1 DEF Hopeful, Running
    <3>3. Selected # {} /\ Free(Selected)
      BY <2>1, <2>2, <3>1, <3>2, AdviceSelects
    <3>4. Compatible(AllEdits)
      BY <3>3, CompatibleEdits DEF Complete
    <3>5. Selected' = Selected
      BY <2>1, SelectedStays
    <3>6. AdviceCommand(r)' = AdviceCommand(r)
      BY <2>1 DEF AdviceCommand
    <3>7. Compatible(edits)'
      BY <2>1, <3>4 DEF Compatible
    <3>8. QED
      BY <2>1, <3>2, <3>3, <3>5, <3>6, <3>7 DEF Running
  <2>3. advice'.rules # {} => open' \subseteq openThen'
    BY <2>1 DEF Hopeful
  <2>4. QED
    BY <2>2, <2>3 DEF Hopeful
<1>5. ASSUME NEW i \in DOMAIN edits, ApplyEdit(i)
      PROVE  Hopeful'
  <2>1. UNCHANGED <<open, imported, phase, cmd, edits, rejected, advice, toRun,
                    openThen>>
    BY <1>5 DEF ApplyEdit, userVars
  <2>2. Selected' = Selected
    BY <2>1, SelectedStays
  <2>3. \A r : Running(r) => Running(r)'
    BY <2>1, <2>2 DEF Running, AdviceCommand, Compatible
  <2>4. QED
    BY <2>1, <2>3, HopeStays
<1>6. ASSUME NEW i \in DOMAIN edits, RejectEdit(i)
      PROVE  Hopeful'
  <2>1. /\ phase = "resolve"
        /\ UNCHANGED <<open, imported, advice, toRun, openThen>>
    BY <1>6 DEF RejectEdit, userVars
  <2>2. PICK j \in applied : RangesOverlap(edits[j], edits[i])
    BY <1>6 DEF RejectEdit, Rivals
  <2>3. i \notin applied /\ j \in DOMAIN edits
    BY <1>6 DEF RejectEdit, IsNext, Undecided, Complete
  <2>4. ~Compatible(edits)
    BY <2>2, <2>3 DEF Compatible
  <2>5. \A r : ~Running(r)
    BY <2>1, <2>4 DEF Running
  <2>6. QED
    BY <2>1, <2>5, HopeStays
<1>7. CASE Suggest
  <2>1. /\ phase = "resolve" /\ rejected # {}
        /\ UNCHANGED <<open, imported, advice, toRun, openThen>>
    BY <1>7 DEF Suggest, userVars
  <2>2. \A r : ~Running(r)
    BY <2>1 DEF Running
  <2>3. QED
    BY <2>1, <2>2, HopeStays
<1>8. CASE Accept
  <2>1. /\ phase = "resolve" /\ phase' = "accepted"
        /\ UNCHANGED <<open, imported, cmd, edits, rejected, advice, toRun,
                       openThen>>
    BY <1>8 DEF Accept, userVars, resolverVars
  <2>2. Selected' = Selected
    BY <2>1, SelectedStays
  <2>3. \A r : Running(r) => Running(r)'
    BY <2>1, <2>2 DEF Running, AdviceCommand, Compatible
  <2>4. QED
    BY <2>1, <2>3, HopeStays
<1>9. CASE TakeAdvice
  <2>1. phase = "rejected" /\ open' = open /\ imported' = imported
    BY <1>9 DEF TakeAdvice
  <2>2. \A r : ~Running(r)
    BY <2>1 DEF Running
  <2>3. CASE advice = NoAdvice
    <3>1. /\ advice'.rules = named /\ toRun' = named /\ openThen' = open
      BY <1>9, <2>3 DEF TakeAdvice
    <3>2. QED
      BY <2>1, <3>1 DEF Hopeful
  <2>4. CASE advice # NoAdvice
    <3>1. UNCHANGED <<advice, toRun, openThen>>
      BY <1>9, <2>4 DEF TakeAdvice, userVars
    <3>2. QED
      BY <2>1, <2>2, <3>1, HopeStays
  <2>5. QED
    BY <2>3, <2>4
<1>10. CASE Write
  <2>1. phase = "accepted" /\ UNCHANGED <<advice, toRun, openThen>>
    BY <1>10 DEF Write, userVars
  <2>2. open' \subseteq open
    BY <1>10 DEF Write
  <2>3. advice'.rules # {} => open' \subseteq openThen'
    BY <2>1, <2>2 DEF Hopeful
  <2>4. ASSUME NEW r \in advice'.rules \ toRun',
               open' = openThen', Workable(r, advice.file, openThen)'
        PROVE  FALSE
    <3>1. open = openThen /\ open' = open
      BY <2>1, <2>2, <2>4 DEF Hopeful
    <3>2. CASE ~cmd.write
      <4>1. imported' = imported
        BY <1>10, <3>2 DEF Write
      <4>2. Workable(r, advice.file, openThen)
        BY <2>1, <2>4, <4>1, WorkableStays
      <4>3. cmd = AdviceCommand(r)
        BY <2>1, <2>4, <3>1, <4>2 DEF Hopeful, Running
      <4>4. QED
        BY <3>2, <4>3 DEF AdviceCommand
    <3>3. CASE cmd.write
      <4>4. Selected = {}
        BY <1>10, <3>1, <3>3, WritingRewrites
      <4>5. applied = {}
        BY <2>1, <4>4 DEF Complete
      <4>6. imported' = imported
        BY <1>10, <3>3, <4>5 DEF Write
      <4>7. Workable(r, advice.file, openThen)
        BY <2>1, <2>4, <4>6, WorkableStays
      <4>8. Running(r)
        BY <2>1, <2>4, <3>1, <4>7 DEF Hopeful
      <4>9. QED
        BY <2>1, <4>4, <4>8 DEF Running
    <3>4. QED
      BY <3>2, <3>3
  <2>5. QED
    BY <2>3, <2>4 DEF Hopeful
<1>11. CASE UNCHANGED vars
  <2>1. UNCHANGED <<open, imported, phase, cmd, edits, rejected, advice, toRun,
                    openThen>>
    BY <1>11 DEF vars, userVars, resolverVars
  <2>2. Selected' = Selected
    BY <2>1, SelectedStays
  <2>3. \A r : Running(r) => Running(r)'
    BY <2>1, <2>2 DEF Running, AdviceCommand, Compatible
  <2>4. QED
    BY <2>1, <2>3, HopeStays
<1>12. QED
  BY <1>1, <1>2, <1>3, <1>4, <1>5, <1>6, <1>7, <1>8, <1>9, <1>10, <1>11
     DEF Next, Resolve

\* Who has run every line of the suggestion has fixed something, if one of
\* its rules could be run alone on the file.
THEOREM FollowingHelps == Spec => []AdviceHelps
<1>1. Complete /\ Hopeful => AdviceHelps
  <2> SUFFICES ASSUME Complete, Hopeful, phase = "idle", toRun = {},
                      NEW r \in advice.rules,
                      Workable(r, advice.file, openThen), open = openThen
               PROVE  FALSE
    BY DEF AdviceHelps
  <2>1. Running(r)
    BY DEF Hopeful
  <2>2. QED
    BY <2>1 DEF Running
<1>2. Spec => [](Complete /\ Hopeful)
  <2>1. Init => Provided
    BY DEF Init, Provided
  <2>2. QED
    BY <2>1, StartsComplete, StaysComplete, StaysProvided, StartsPlaced, StaysPlaced,
       StartsHopeful, StaysHopeful, PTL DEF Spec
<1>3. QED
  BY <1>1, <1>2, PTL

----------------------------------------------------------------------------
(* The splice.                                                             *)

\* The edits of a file of which none overlaps another: ranges of the text, none
\* reaching into the next, and at most one insertion and one replacement at an
\* offset.
Empty(i) == edits[i].from = edits[i].to
Spread(S) ==
  /\ S \subseteq Nat \ {0} /\ IsFiniteSet(S)
  /\ \A i \in S : /\ edits[i].from \in Nat /\ edits[i].to \in Nat
                  /\ edits[i].from <= edits[i].to /\ edits[i].to <= Length
  /\ \A i, j \in S :
       /\ edits[i].file = edits[j].file
       /\ edits[i].from < edits[j].from => edits[i].to <= edits[j].from
       /\ i # j /\ edits[i].from = edits[j].from =>
            \/ Empty(i) /\ ~Empty(j)
            \/ Empty(j) /\ ~Empty(i)

\* Those that can be made at once.
Apart(S) == Spread(S) /\ Swallowed(S) = {}

Kept(S) == {q \in 1 .. Length : ~ \E i \in S : edits[i].from < q /\ q <= edits[i].to}
New(S) == {Length + 1 + i : i \in S}
Tokens(S) == Kept(S) \cup New(S)

\* A text in which the edits of S are made: it has what it should have, in
\* its order, and begins like the original.
Made(text, S) ==
  /\ text \in Seq(Nat)
  /\ \A a \in 1 .. Len(text) : text[a] \in Tokens(S)
  /\ \A t \in Tokens(S) : \E a \in 1 .. Len(text) : text[a] = t
  /\ \A a, b \in 1 .. Len(text) : a < b => Place(text[a]) < Place(text[b])
  /\ \A q \in 1 .. Length :
       (\A i \in S : q <= edits[i].from) => q <= Len(text) /\ text[q] = q

\* Bytes stand at places of their own.
LEMMA Places ==
  /\ \A q \in 1 .. Length : Place(q) = 3 * q - 1
  /\ \A i \in Nat : Place(Length + 1 + i) =
                     IF Empty(i) THEN 3 * edits[i].from ELSE 3 * edits[i].from + 1
<1>1. \A q \in 1 .. Length : q <= Length
  BY LengthAssumption
<1>2. \A q \in 1 .. Length : Place(q) = 3 * q - 1
  BY <1>1 DEF Place
<1>3. ASSUME NEW i \in Nat
      PROVE  Place(Length + 1 + i) = PlaceOfEdit(edits[i])
  <2>1. PICK t : t = Length + 1 + i
    OBVIOUS
  <2>2. ~(t <= Length) /\ t - (Length + 1) = i
    BY <2>1, LengthAssumption
  <2>3. QED
    BY <2>1, <2>2, Zenon DEF Place
<1>4. QED
  BY <1>2, <1>3 DEF PlaceOfEdit, Empty

\* Edits that can be made at once are spliced in the order opposite to that
\* in which they stand.
LEMMA OrderOfPlaces ==
  ASSUME NEW S, Apart(S), NEW i \in S, NEW j \in S, i # j
  PROVE  SpliceOrder(i, j) <=> Place(Length + 1 + j) < Place(Length + 1 + i)
<1>1. /\ i \in Nat /\ j \in Nat
      /\ edits[i].from \in Nat /\ edits[i].to \in Nat /\ edits[i].from <= edits[i].to
      /\ edits[j].from \in Nat /\ edits[j].to \in Nat /\ edits[j].from <= edits[j].to
      /\ edits[i].file = edits[j].file
  BY DEF Apart, Spread
<1>2. /\ Place(Length + 1 + i) = IF Empty(i) THEN 3 * edits[i].from ELSE 3 * edits[i].from + 1
      /\ Place(Length + 1 + j) = IF Empty(j) THEN 3 * edits[j].from ELSE 3 * edits[j].from + 1
  BY <1>1, Places
<1>3. CASE edits[i].from # edits[j].from
  BY <1>1, <1>2, <1>3 DEF SpliceOrder
<1>4. CASE edits[i].from = edits[j].from
  <2>1. ~Swallows(j, i) /\ ~Swallows(i, j)
    BY DEF Apart, Swallowed
  <2>2. (Empty(i) /\ ~Empty(j)) \/ (Empty(j) /\ ~Empty(i))
    BY <1>4 DEF Apart, Spread
  <2>3. CASE Empty(i) /\ ~Empty(j)
    <3>1. edits[j].from < edits[j].to
      BY <1>1, <2>3 DEF Empty
    <3>2. ~(i < j)
      BY <1>1, <1>4, <2>1, <2>3, <3>1 DEF Swallows, Empty
    <3>3. QED
      BY <1>1, <1>2, <1>4, <2>3, <3>2 DEF SpliceOrder
  <2>4. CASE Empty(j) /\ ~Empty(i)
    <3>1. edits[i].from < edits[i].to
      BY <1>1, <2>4 DEF Empty
    <3>2. i < j
      BY <1>1, <1>4, <2>1, <2>4, <3>1 DEF Swallows, Empty
    <3>3. QED
      BY <1>1, <1>2, <1>4, <2>4, <3>2 DEF SpliceOrder
  <2>5. QED
    BY <2>2, <2>3, <2>4
<1>5. QED
  BY <1>3, <1>4

LEMMA NothingMade == Made(Original, {})
<1>1. /\ Original \in [1 .. Length -> Nat]
      /\ \A q \in 1 .. Length : Original[q] = q
  BY LengthAssumption DEF Original
<1>2. Original \in Seq(Nat) /\ Len(Original) = Length
  BY <1>1, LengthAssumption
<1>3. Tokens({}) = 1 .. Length
  BY DEF Tokens, Kept, New
<1>4. \A a, b \in 1 .. Length : a < b => Place(Original[a]) < Place(Original[b])
  BY <1>1, Places, LengthAssumption
<1>5. QED
  BY <1>1, <1>2, <1>3, <1>4 DEF Made

\* Joining two sequences.
LEMMA Concatenated ==
  ASSUME NEW U, NEW s \in Seq(U), NEW t \in Seq(U)
  PROVE  /\ s \o t \in Seq(U) /\ Len(s \o t) = Len(s) + Len(t)
         /\ \A a \in 1 .. Len(s) : (s \o t)[a] = s[a]
         /\ \A a \in Len(s) + 1 .. Len(s) + Len(t) : (s \o t)[a] = t[a - Len(s)]
OBVIOUS

\* What a splice does to a sequence.
Cut(text, f, e, x) == SubSeq(text, 1, f) \o <<x>> \o SubSeq(text, e + 1, Len(text))
IsCut(out, text, f, e, x) ==
  /\ out \in Seq(Nat)
  /\ Len(out) = f + 1 + (Len(text) - e)
  /\ \A a \in 1 .. f : out[a] = text[a]
  /\ out[f + 1] = x
  /\ \A a \in f + 2 .. f + 1 + (Len(text) - e) : out[a] = text[a - (f + 1) + e]

LEMMA Spliced ==
  ASSUME NEW text \in Seq(Nat), NEW f \in Nat, NEW e \in Nat, NEW x \in Nat,
         f <= e, e <= Len(text)
  PROVE  IsCut(Cut(text, f, e, x), text, f, e, x)
<1> DEFINE s == SubSeq(text, 1, f)
           t == SubSeq(text, e + 1, Len(text))
           h == s \o <<x>>
           out == Cut(text, f, e, x)
<1>0. out = h \o t
  BY DEF Cut
<1>1. s \in Seq(Nat) /\ Len(s) = f /\ \A a \in 1 .. f : s[a] = text[a]
  OBVIOUS
<1>2. /\ t \in Seq(Nat) /\ Len(t) = Len(text) - e /\ Len(t) \in Nat
      /\ \A a \in 1 .. Len(text) - e : t[a] = text[a + e]
  OBVIOUS
<1> HIDE DEF s, t
<1>3. /\ h \in Seq(Nat) /\ Len(h) = f + 1 /\ h[f + 1] = x
      /\ \A a \in 1 .. f : h[a] = text[a]
  BY <1>1
<1> HIDE DEF h, out
<1>4. /\ out \in Seq(Nat) /\ Len(out) = f + 1 + Len(t)
      /\ \A a \in 1 .. f + 1 : out[a] = h[a]
      /\ \A a \in f + 1 + 1 .. f + 1 + Len(t) : out[a] = t[a - (f + 1)]
  <2>1. /\ h \o t \in Seq(Nat) /\ Len(h \o t) = Len(h) + Len(t)
        /\ \A a \in 1 .. Len(h) : (h \o t)[a] = h[a]
        /\ \A a \in Len(h) + 1 .. Len(h) + Len(t) : (h \o t)[a] = t[a - Len(h)]
    BY <1>2, <1>3, Concatenated
  <2>2. Len(h) = f + 1
    BY <1>3
  <2>3. QED
    BY <1>0, <2>1, <2>2, Zenon
<1>5. ASSUME NEW a \in f + 2 .. f + 1 + (Len(text) - e)
      PROVE  out[a] = text[a - (f + 1) + e]
  <2>1. a - (f + 1) \in 1 .. Len(text) - e /\ a \in f + 1 + 1 .. f + 1 + Len(t)
    BY <1>2
  <2>2. QED
    BY <1>2, <1>4, <2>1
<1>6. QED
  <2>1. \A a \in 1 .. f : a \in 1 .. f + 1
    OBVIOUS
  <2>2. f + 1 \in 1 .. f + 1
    OBVIOUS
  <2>3. /\ out \in Seq(Nat) /\ Len(out) = f + 1 + (Len(text) - e)
        /\ \A a \in 1 .. f : out[a] = text[a]
        /\ out[f + 1] = x
        /\ \A a \in f + 2 .. f + 1 + (Len(text) - e) : out[a] = text[a - (f + 1) + e]
    BY <1>2, <1>3, <1>4, <1>5, <2>1, <2>2
  <2>4. QED
    BY <2>3 DEF out, IsCut

\* Splicing in an edit that lies before all that are made makes it.
LEMMA OneMore ==
  ASSUME NEW S, NEW i, i \notin S, Apart(S \cup {i}),
         \A j \in S : Place(Length + 1 + i) < Place(Length + 1 + j),
         NEW text, Made(text, S)
  PROVE  Made(Splice(text, i), S \cup {i})
<1> DEFINE f == edits[i].from
           e == edits[i].to
           x == Length + 1 + i
           R == S \cup {i}
           out == Splice(text, i)
<1>1. /\ i \in Nat \ {0} /\ f \in Nat /\ e \in Nat /\ f <= e /\ e <= Length /\ x \in Nat
      /\ \A j \in S : j \in Nat /\ edits[j].from \in Nat /\ edits[j].to \in Nat
                      /\ f <= edits[j].from /\ e <= edits[j].from
  <2>1. /\ i \in Nat \ {0} /\ f \in Nat /\ e \in Nat /\ f <= e /\ e <= Length /\ x \in Nat
        /\ \A j \in S : j \in Nat /\ edits[j].from \in Nat /\ edits[j].to \in Nat
    BY LengthAssumption DEF Apart, Spread
  <2>2. ASSUME NEW j \in S
        PROVE  f <= edits[j].from /\ e <= edits[j].from
    <3>1. Place(x) = IF Empty(i) THEN 3 * f ELSE 3 * f + 1
      BY <2>1, Places
    <3>2. Place(Length + 1 + j) = IF Empty(j) THEN 3 * edits[j].from ELSE 3 * edits[j].from + 1
      BY <2>1, Places
    <3>3. Place(x) < Place(Length + 1 + j)
      OBVIOUS
    <3>4. /\ f < edits[j].from => e <= edits[j].from
          /\ Empty(i) => f = e
      BY DEF Apart, Spread, Empty
    <3>5. QED
      <4> HIDE DEF f, e, x
      <4> QED
        BY <2>1, <3>1, <3>2, <3>3, <3>4
  <2>3. QED
    BY <2>1, <2>2
<1>2. /\ text \in Seq(Nat) /\ Len(text) \in Nat
      /\ \A a \in 1 .. Len(text) : text[a] \in Tokens(S)
      /\ \A t \in Tokens(S) : \E a \in 1 .. Len(text) : text[a] = t
      /\ \A a, b \in 1 .. Len(text) : a < b => Place(text[a]) < Place(text[b])
  BY DEF Made
\* Up to the end of the edit the text is the original.
<1>3. \A q \in 1 .. e : q \in 1 .. Length /\ q <= Len(text) /\ text[q] = q
  <2> SUFFICES ASSUME NEW q \in 1 .. e
               PROVE  q \in 1 .. Length /\ q <= Len(text) /\ text[q] = q
    OBVIOUS
  <2>1. q \in 1 .. Length /\ \A j \in S : q <= edits[j].from
    BY <1>1, LengthAssumption
  <2>2. QED
    BY <2>1 DEF Made
<1>4. e <= Len(text)
  <2>1. CASE e = 0
    BY <1>2, <2>1
  <2>2. CASE e # 0
    <3>1. e \in 1 .. e
      BY <1>1, <2>2
    <3>2. QED
      BY <1>3, <3>1
  <2>3. QED
    BY <2>1, <2>2
<1> DEFINE L == Len(out)
<1>5. /\ out \in Seq(Nat)
      /\ L = f + 1 + (Len(text) - e)
      /\ \A a \in 1 .. f : out[a] = text[a]
      /\ out[f + 1] = x
      /\ \A a \in f + 2 .. L : out[a] = text[a - (f + 1) + e]
  <2>1. out = Cut(text, f, e, x)
    BY DEF Splice, Cut
  <2> HIDE DEF out, x, f, e
  <2>2. IsCut(Cut(text, f, e, x), text, f, e, x)
    BY <1>1, <1>2, <1>4, Spliced
  <2>3. IsCut(out, text, f, e, x)
    BY <2>1, <2>2
  <2>4. QED
    BY <2>3 DEF IsCut
<1>6. \A a \in f + 2 .. L : a - (f + 1) + e \in e + 1 .. Len(text)
  <2> HIDE DEF out, x, f, e
  <2> QED
    BY <1>1, <1>2, <1>4, <1>5
\* What stands where.
<1>7. \A a \in 1 .. f : out[a] = a /\ a \in Kept(R) /\ Place(out[a]) = 3 * a - 1
  <2> SUFFICES ASSUME NEW a \in 1 .. f
               PROVE  out[a] = a /\ a \in Kept(R) /\ Place(out[a]) = 3 * a - 1
    OBVIOUS
  <2>1. a \in 1 .. e /\ a <= f
    BY <1>1
  <2>2. out[a] = a /\ a \in 1 .. Length
    BY <1>3, <1>5, <2>1
  <2>3. \A j \in R : ~(edits[j].from < a)
    BY <1>1, <2>1
  <2>4. QED
    BY <2>2, <2>3, Places DEF Kept
<1>8. /\ x \in New(R) /\ Place(x) \in Nat
      /\ 3 * f <= Place(x) /\ Place(x) <= 3 * f + 1
  BY <1>1, Places DEF New
<1>9. \A b \in e + 1 .. Len(text) :
        /\ text[b] \in Tokens(R) \ {x}
        /\ Place(text[b]) \in Nat /\ Place(x) < Place(text[b])
  <2> SUFFICES ASSUME NEW b \in e + 1 .. Len(text)
               PROVE  /\ text[b] \in Tokens(R) \ {x}
                      /\ Place(text[b]) \in Nat /\ Place(x) < Place(text[b])
    OBVIOUS
  <2>1. b \in 1 .. Len(text) /\ text[b] \in Tokens(S)
    BY <1>1, <1>2
  <2>2. CASE text[b] \in Kept(S)
    <3>1. PICK q \in 1 .. Length : q = text[b] /\ q \in Kept(S)
      BY <2>2 DEF Kept
    <3>2. Place(text[b]) = 3 * q - 1
      BY <3>1, Places
    <3>3. q > e
      <4>1. CASE e = 0
        BY <4>1
      <4>2. CASE e # 0
        <5>1. e \in 1 .. Len(text) /\ e < b /\ text[e] = e /\ e \in 1 .. Length
          BY <1>1, <1>3, <1>4, <4>2
        <5>2. Place(text[e]) < Place(text[b])
          BY <1>2, <2>1, <5>1
        <5>3. 3 * e - 1 < 3 * q - 1
          BY <3>2, <5>1, <5>2, Places
        <5>4. QED
          BY <1>1, <5>3
      <4>3. QED
        BY <4>1, <4>2
    <3>4. q \in Kept(R)
      BY <1>1, <3>1, <3>3 DEF Kept
    <3>5. q # x
      BY <1>1, LengthAssumption
    <3>6. Place(x) < Place(text[b]) /\ Place(text[b]) \in Nat
      <4> HIDE DEF f, e, x
      <4> QED
        BY <1>1, <1>8, <3>2, <3>3
    <3>7. QED
      BY <3>1, <3>4, <3>5, <3>6 DEF Tokens
  <2>3. CASE text[b] \in New(S)
    <3>1. PICK j \in S : text[b] = Length + 1 + j
      BY <2>3 DEF New
    <3>2. Place(text[b]) \in Nat /\ Place(x) < Place(text[b])
      <4>1. Place(text[b]) = IF Empty(j) THEN 3 * edits[j].from ELSE 3 * edits[j].from + 1
        BY <1>1, <3>1, Places
      <4>2. Place(x) < Place(text[b])
        BY <3>1
      <4>3. QED
        BY <1>1, <4>1, <4>2
    <3>3. text[b] \in New(R) /\ text[b] # x
      BY <1>1, <3>1, LengthAssumption DEF New
    <3>4. QED
      BY <1>1, <3>2, <3>3 DEF Tokens
  <2>4. QED
    BY <2>1, <2>2, <2>3 DEF Tokens
\* Nothing else is there, and it is all there.
<1>10. \A a \in 1 .. L : out[a] \in Tokens(R)
  <2> SUFFICES ASSUME NEW a \in 1 .. L
               PROVE  out[a] \in Tokens(R)
    OBVIOUS
  <2> HIDE DEF out, f, x, e, R
  <2>1. CASE a \in 1 .. f
    BY <1>7, <2>1 DEF Tokens
  <2>2. CASE a = f + 1
    BY <1>5, <1>8, <2>2 DEF Tokens
  <2>3. CASE a \in f + 2 .. L
    BY <1>5, <1>6, <1>9, <2>3
  <2>4. QED
    BY <1>1, <1>5, <2>1, <2>2, <2>3
<1>11. \A b \in e + 1 .. Len(text) : \E a \in 1 .. L : out[a] = text[b]
  <2> SUFFICES ASSUME NEW b \in e + 1 .. Len(text)
               PROVE  \E a \in 1 .. L : out[a] = text[b]
    OBVIOUS
  <2> HIDE DEF out, f, x, e, R
  <2> DEFINE a == b - e + (f + 1)
  <2>1. a \in f + 2 .. L /\ a \in 1 .. L /\ a - (f + 1) + e = b
    BY <1>1, <1>2, <1>4, <1>5
  <2> HIDE DEF a
  <2>2. out[a] = text[b]
    BY <1>5, <2>1
  <2>3. QED
    BY <2>1, <2>2
<1>12. \A t \in Tokens(R) : \E a \in 1 .. L : out[a] = t
  <2> SUFFICES ASSUME NEW t \in Tokens(R)
               PROVE  \E a \in 1 .. L : out[a] = t
    OBVIOUS
  <2>1. CASE t = x
    <3>1. f + 1 \in 1 .. L
      <4> HIDE DEF out, f, x, e
      <4> QED
        BY <1>1, <1>2, <1>4, <1>5
    <3>2. QED
      BY <1>5, <2>1, <3>1
  <2>2. CASE t \in Kept(R) /\ t <= f
    <3>1. t \in 1 .. f /\ t \in 1 .. L
      <4>1. t \in Nat /\ 1 <= t
        BY <2>2, LengthAssumption DEF Kept
      <4>2. QED
        <5> HIDE DEF out, f, x, e
        <5> QED
          BY <1>1, <1>2, <1>4, <1>5, <2>2, <4>1
    <3>2. QED
      BY <1>7, <3>1
  <2>3. CASE t \in Tokens(S) /\ ~(t \in 1 .. e)
    <3>1. PICK b \in 1 .. Len(text) : text[b] = t
      BY <1>2, <2>3
    <3>2. b \in e + 1 .. Len(text)
      <4>1. ~(b \in 1 .. e)
        BY <1>3, <2>3, <3>1
      <4>2. QED
        BY <1>1, <1>2, <4>1
    <3>3. QED
      BY <1>11, <3>1, <3>2
  <2>4. t = x \/ (t \in Kept(R) /\ t <= f) \/ (t \in Tokens(S) /\ ~(t \in 1 .. e))
    <3>1. CASE t \in Kept(R)
      <4>1. t \in 1 .. Length /\ t \in Kept(S) /\ ~(f < t /\ t <= e)
        BY <3>1 DEF Kept
      <4>2. QED
        BY <1>1, <3>1, <4>1, LengthAssumption DEF Tokens
    <3>2. CASE t \in New(R)
      <4>1. PICK j \in R : t = Length + 1 + j
        BY <3>2 DEF New
      <4>2. CASE j = i
        BY <4>1, <4>2
      <4>3. CASE j \in S
        <5>1. ~(t <= e)
          BY <1>1, <4>1, <4>3, LengthAssumption
        <5>2. QED
          BY <4>1, <4>3, <5>1 DEF Tokens, New
      <4>4. QED
        BY <4>1, <4>2, <4>3
    <3>3. QED
      BY <3>1, <3>2 DEF Tokens
  <2>5. QED
    BY <2>1, <2>2, <2>3, <2>4
\* It is in its order.
<1>13. \A a, b \in 1 .. L : a < b => Place(out[a]) < Place(out[b])
  <2> SUFFICES ASSUME NEW a \in 1 .. L, NEW b \in 1 .. L, a < b
               PROVE  Place(out[a]) < Place(out[b])
    OBVIOUS
  <2> HIDE DEF out, f, x, e, R
  <2>1. CASE b \in 1 .. f
    <3>1. a \in 1 .. f
      BY <1>1, <1>2, <1>4, <1>5, <2>1
    <3>2. QED
      BY <1>7, <2>1, <3>1
  <2>2. CASE b = f + 1
    <3>1. a \in 1 .. f
      BY <1>1, <2>2
    <3>2. Place(out[a]) = 3 * a - 1 /\ out[b] = x
      BY <1>5, <1>7, <1>8, <2>2, <3>1
    <3>3. QED
      BY <1>1, <1>8, <3>1, <3>2
  <2>3. CASE b \in f + 2 .. L
    <3> DEFINE c == b - (f + 1) + e
    <3>1. c \in e + 1 .. Len(text) /\ out[b] = text[c]
      BY <1>5, <1>6, <2>3
    <3>2. Place(out[b]) \in Nat /\ Place(x) < Place(out[b])
      BY <1>9, <3>1
    <3>3. CASE a \in 1 .. f
      BY <1>1, <1>7, <1>8, <3>2, <3>3
    <3>4. CASE a = f + 1
      BY <1>5, <1>8, <3>2, <3>4
    <3>5. CASE a \in f + 2 .. L
      <4>1. a - (f + 1) + e \in e + 1 .. Len(text) /\ out[a] = text[a - (f + 1) + e]
        BY <1>5, <1>6, <3>5
      <4>2. a - (f + 1) + e < c
        BY <1>1
      <4>3. a - (f + 1) + e \in 1 .. Len(text) /\ c \in 1 .. Len(text)
        BY <1>1, <1>2, <3>1, <4>1
      <4>4. QED
        <5> HIDE DEF c
        <5> QED
          BY <1>2, <3>1, <4>1, <4>2, <4>3
    <3>6. QED
      BY <1>1, <1>5, <3>3, <3>4, <3>5
  <2>4. QED
    BY <1>1, <1>5, <2>1, <2>2, <2>3
\* What lies before the edit has not moved.
<1>14. \A q \in 1 .. Length :
         (\A j \in R : q <= edits[j].from) => q <= L /\ out[q] = q
  <2> SUFFICES ASSUME NEW q \in 1 .. Length, \A j \in R : q <= edits[j].from
               PROVE  q <= L /\ out[q] = q
    OBVIOUS
  <2>1. q \in 1 .. f
    BY <1>1
  <2>2. QED
    <3> HIDE DEF out, f, x, e
    <3> QED
      BY <1>1, <1>2, <1>4, <1>5, <1>7, <2>1
<1>15. Made(out, R)
  <2> HIDE DEF out, f, x, e, R
  <2> QED
    BY <1>5, <1>10, <1>12, <1>13, <1>14 DEF Made
<1>16. QED
  BY <1>15 DEF out, R

\* The edits in the order of the splices: from the bottom of the text up.
BottomUp(S) == InOrder(S, SpliceOrder)

LEMMA BottomUpEnumerates ==
  ASSUME NEW S, Spread(S)
  PROVE  /\ BottomUp(S) \in [1 .. Cardinality(S) -> S]
         /\ \A i \in S : \E k \in 1 .. Cardinality(S) : BottomUp(S)[k] = i
         /\ \A k, l \in 1 .. Cardinality(S) :
              k < l => SpliceOrder(BottomUp(S)[k], BottomUp(S)[l])
<1> DEFINE later(i) == \E j \in S : edits[j].from = edits[i].from /\ j < i
           key == [i \in S |-> IF later(i) THEN 1 - 2 * edits[i].from
                               ELSE 0 - 2 * edits[i].from]
           N == Cardinality(S)
<1>0. /\ IsFiniteSet(S) /\ key \in [S -> Int]
      /\ \A i \in S : i \in Nat /\ edits[i].from \in Nat
  BY DEF Spread
\* The keys are in the order of the splices.
<1>1. ASSUME NEW i \in S, NEW j \in S
      PROVE  SpliceOrder(i, j) <=> key[i] < key[j]
  <2>1. CASE edits[i].from # edits[j].from
    BY <1>0, <2>1 DEF SpliceOrder
  <2>2. CASE edits[i].from = edits[j].from
    <3>1. SpliceOrder(i, j) <=> i < j
      BY <1>0, <2>2 DEF SpliceOrder
    <3>2. CASE i = j
      BY <1>0, <3>1, <3>2
    <3>3. CASE i < j
      <4>1. later(j)
        BY <2>2, <3>3
      <4>2. ~later(i)
        <5>1. SUFFICES ASSUME NEW h \in S, edits[h].from = edits[i].from, h < i
                       PROVE  FALSE
          OBVIOUS
        <5>2. h # i /\ h # j /\ i # j
          BY <1>0, <3>3, <5>1
        <5>3. QED
          BY <2>2, <5>1, <5>2 DEF Spread
      <4>3. QED
        BY <1>0, <2>2, <3>1, <3>3, <4>1, <4>2
    <3>4. CASE j < i
      <4>1. later(i)
        BY <2>2, <3>4
      <4>2. ~later(j)
        <5>1. SUFFICES ASSUME NEW h \in S, edits[h].from = edits[j].from, h < j
                       PROVE  FALSE
          OBVIOUS
        <5>2. h # i /\ h # j /\ i # j
          BY <1>0, <3>4, <5>1
        <5>3. QED
          BY <2>2, <5>1, <5>2 DEF Spread
      <4>3. QED
        BY <1>0, <2>2, <3>1, <3>4, <4>1, <4>2
    <3>5. QED
      BY <1>0, <3>2, <3>3, <3>4
  <2>3. QED
    BY <2>1, <2>2
<1> HIDE DEF key
<1>2. ASSUME NEW i \in S, NEW j \in S, key[i] = key[j]
      PROVE  i = j
  <2>1. ~SpliceOrder(i, j) /\ ~SpliceOrder(j, i)
    BY <1>0, <1>1, <1>2
  <2>2. QED
    BY <1>0, <2>1 DEF SpliceOrder
<1>3. BottomUp(S) = Arranged(S, key)
  <2> DEFINE first(k) == CHOOSE x \in S : Cardinality({y \in S : SpliceOrder(y, x)}) = k - 1
             second(k) == CHOOSE x \in S : RankBy(S, key, x) = k - 1
  <2>1. \A x \in S : {y \in S : SpliceOrder(y, x)} = {y \in S : key[y] < key[x]}
    BY <1>1
  <2>2. BottomUp(S) = [k \in 1 .. N |-> first(k)]
    BY DEF BottomUp, InOrder
  <2>3. Arranged(S, key) = [k \in 1 .. N |-> second(k)]
    BY DEF Arranged
  <2>4. \A k : first(k) = second(k)
    BY <2>1 DEF RankBy
  <2>5. QED
    <3> HIDE DEF first, second
    <3> QED
      BY <2>2, <2>3, <2>4
<1>4. /\ Arranged(S, key) \in [1 .. N -> S]
      /\ \A x \in S : \E k \in 1 .. N : Arranged(S, key)[k] = x
      /\ \A k, l \in 1 .. N :
           k < l => key[Arranged(S, key)[k]] < key[Arranged(S, key)[l]]
  BY <1>0, <1>2, ArrangedEnumerates
<1>5. ASSUME NEW k \in 1 .. N, NEW l \in 1 .. N, k < l
      PROVE  SpliceOrder(BottomUp(S)[k], BottomUp(S)[l])
  <2>1. BottomUp(S)[k] \in S /\ BottomUp(S)[l] \in S
    BY <1>3, <1>4
  <2>2. key[BottomUp(S)[k]] < key[BottomUp(S)[l]]
    BY <1>3, <1>4, <1>5
  <2>3. QED
    BY <1>1, <2>1, <2>2
<1>6. QED
  BY <1>3, <1>4, <1>5

\* The texts between the splices, up to the n-th.
Texts(g, S, n) ==
  g = [k \in 0 .. n |-> IF k = 0 THEN Original ELSE Splice(g[k - 1], BottomUp(S)[k])]

LEMMA TextsExist ==
  ASSUME NEW S, NEW n \in Nat
  PROVE  \E g : Texts(g, S, n)
<1> DEFINE Bad == {m \in Nat : ~ \E g : Texts(g, S, m)}
<1>1. ASSUME NEW m \in Bad, \A k \in Bad : m <= k
      PROVE  FALSE
  <2>1. m \in Nat /\ ~ \E g : Texts(g, S, m)
    OBVIOUS
  <2>2. CASE m = 0
    <3>1. Texts([k \in 0 .. 0 |-> Original], S, 0)
      BY DEF Texts
    <3>2. QED
      BY <2>1, <2>2, <3>1
  <2>3. CASE m # 0
    <3>1. m - 1 \in Nat /\ ~(m <= m - 1)
      BY <2>1, <2>3
    <3>2. PICK g : Texts(g, S, m - 1)
      BY <1>1, <3>1
    <3> DEFINE h == [k \in 0 .. m |->
                       IF k = m THEN Splice(g[m - 1], BottomUp(S)[m]) ELSE g[k]]
    <3>3. \A k \in 0 .. m - 1 :
            g[k] = IF k = 0 THEN Original ELSE Splice(g[k - 1], BottomUp(S)[k])
      BY <3>2 DEF Texts
    <3>4. ASSUME NEW k \in 0 .. m
          PROVE  h[k] = IF k = 0 THEN Original ELSE Splice(h[k - 1], BottomUp(S)[k])
      <4>1. CASE k = m
        <5>1. h[k - 1] = g[m - 1]
          BY <2>1, <2>3, <4>1
        <5>2. QED
          BY <2>3, <4>1, <5>1
      <4>2. CASE k # m
        <5>1. k \in 0 .. m - 1 /\ h[k] = g[k]
          BY <2>1, <4>2
        <5>2. k # 0 => k - 1 \in 0 .. m /\ k - 1 # m
          BY <2>1, <5>1
        <5>3. k # 0 => h[k - 1] = g[k - 1]
          BY <5>2
        <5>4. QED
          BY <3>3, <5>1, <5>3
      <4>3. QED
        BY <4>1, <4>2
    <3>5. h = [k \in 0 .. m |-> h[k]]
      OBVIOUS
    <3>6. Texts(h, S, m)
      <4> HIDE DEF h
      <4> QED
        BY <3>4, <3>5 DEF Texts
    <3>7. QED
      BY <2>1, <3>6
  <2>4. QED
    BY <2>2, <2>3
<1>2. Bad = {}
  <2>1. Bad \subseteq Nat
    OBVIOUS
  <2> HIDE DEF Bad
  <2>2. QED
    BY <1>1, <2>1, LeastNumber
<1>3. QED
  BY <1>2

\* The edits of the first n splices.
Done(S, n) == {BottomUp(S)[j] : j \in 1 .. n}

LEMMA DoneGrows ==
  ASSUME NEW S, Spread(S), NEW m \in 1 .. Cardinality(S)
  PROVE  /\ Cardinality(S) \in Nat
         /\ Done(S, m) = Done(S, m - 1) \cup {BottomUp(S)[m]}
         /\ Done(S, m) \subseteq S
         /\ BottomUp(S)[m] \in S \ Done(S, m - 1)
         /\ \A j \in Done(S, m - 1) : SpliceOrder(j, BottomUp(S)[m])
<1> DEFINE N == Cardinality(S)
           order == BottomUp(S)
<1>1. N \in Nat
  BY FS_CardinalityType DEF Spread
<1>2. /\ order \in [1 .. N -> S]
      /\ \A k, l \in 1 .. N : k < l => SpliceOrder(order[k], order[l])
  BY BottomUpEnumerates
<1> HIDE DEF N, order
<1>3. m \in 1 .. N /\ m \in Nat
  BY <1>1 DEF N
<1>4. 1 .. m = (1 .. m - 1) \cup {m} /\ \A j \in 1 .. m : j \in 1 .. N
  BY <1>1, <1>3
<1>5. \A j \in 1 .. m - 1 : j \in 1 .. N /\ j < m
  BY <1>1, <1>3
<1>6. \A j \in Done(S, m - 1) : SpliceOrder(j, order[m])
  BY <1>2, <1>3, <1>5 DEF Done, order
<1>7. order[m] \notin Done(S, m - 1)
  <2>1. PICK i \in S : i = order[m]
    BY <1>2, <1>3
  <2>2. i \in Nat /\ edits[i].from \in Nat
    BY DEF Spread
  <2>3. ~SpliceOrder(i, i)
    BY <2>2 DEF SpliceOrder
  <2>4. QED
    BY <1>6, <2>1, <2>3
<1>8. Done(S, m) = Done(S, m - 1) \cup {order[m]} /\ Done(S, m) \subseteq S
  BY <1>2, <1>4 DEF Done, order
<1>9. QED
  BY <1>1, <1>2, <1>3, <1>6, <1>7, <1>8 DEF N, order

\* What holds of all edits holds of some.
LEMMA FewerAreApart ==
  ASSUME NEW S, Spread(S), NEW R, R \subseteq S
  PROVE  Spread(R) /\ Swallowed(R) \subseteq Swallowed(S)
<1>1. IsFiniteSet(R)
  BY FS_Subset DEF Spread
<1>2. QED
  BY <1>1 DEF Spread, Swallowed

\* After every splice the edits so far are made, as long as none was swallowed.
LEMMA MadeSoFar ==
  ASSUME NEW S, Spread(S), NEW g, Texts(g, S, Cardinality(S)),
         NEW n \in 0 .. Cardinality(S), Swallowed(Done(S, n)) = {}
  PROVE  Made(g[n], Done(S, n))
<1> DEFINE N == Cardinality(S)
<1>1. N \in Nat
  BY FS_CardinalityType DEF Spread
<1>2. \A k \in 0 .. N :
        g[k] = IF k = 0 THEN Original ELSE Splice(g[k - 1], BottomUp(S)[k])
  BY DEF Texts
<1> HIDE DEF N
<1>3. n \in 0 .. N /\ n \in Nat
  BY <1>1 DEF N
<1> DEFINE Bad == {k \in 0 .. n : ~Made(g[k], Done(S, k))}
<1>4. ASSUME NEW m \in Bad, \A k \in Bad : m <= k
      PROVE  FALSE
  <2>1. m \in Nat /\ m <= n /\ ~Made(g[m], Done(S, m))
    BY <1>3
  <2>2. CASE m = 0
    <3>1. Done(S, 0) = {} /\ g[0] = Original
      BY <1>1, <1>2 DEF Done
    <3>2. QED
      BY <2>1, <2>2, <3>1, NothingMade
  <2>3. CASE m # 0
    <3>1. m - 1 \in 0 .. n /\ m \in 1 .. N /\ m \in 0 .. N /\ ~(m <= m - 1)
      BY <1>1, <1>3, <2>1, <2>3
    <3>2. Made(g[m - 1], Done(S, m - 1))
      BY <1>4, <3>1
    <3>3. /\ Done(S, m) = Done(S, m - 1) \cup {BottomUp(S)[m]}
          /\ Done(S, m) \subseteq S
          /\ BottomUp(S)[m] \in S \ Done(S, m - 1)
          /\ \A j \in Done(S, m - 1) : SpliceOrder(j, BottomUp(S)[m])
      BY <3>1, DoneGrows DEF N
    <3>4. PICK D, i : D = Done(S, m - 1) /\ i = BottomUp(S)[m]
      OBVIOUS
    <3>5. Apart(D \cup {i})
      <4>1. \A j \in 1 .. m : j \in 1 .. n
        BY <1>3, <2>1
      <4>2. Done(S, m) \subseteq Done(S, n)
        BY <4>1 DEF Done
      <4>3. Done(S, n) \subseteq S
        <5>1. n \in 1 .. N
          BY <1>1, <1>3, <2>1, <2>3
        <5>2. QED
          BY <5>1, DoneGrows DEF N
      <4>4. Spread(Done(S, n))
        BY <4>3, FewerAreApart
      <4>5. Spread(D \cup {i}) /\ Swallowed(D \cup {i}) \subseteq Swallowed(Done(S, n))
        BY <3>3, <3>4, <4>2, <4>4, FewerAreApart
      <4>6. QED
        BY <4>5 DEF Apart
    <3>6. \A j \in D : Place(Length + 1 + i) < Place(Length + 1 + j)
      <4>1. ASSUME NEW j \in D
            PROVE  Place(Length + 1 + i) < Place(Length + 1 + j)
        <5>1. SpliceOrder(j, i) /\ j # i
          BY <3>3, <3>4
        <5>2. QED
          BY <3>5, <5>1, OrderOfPlaces
      <4>2. QED
        BY <4>1
    <3>7. g[m] = Splice(g[m - 1], i)
      BY <1>2, <2>3, <3>1, <3>4
    <3>8. PICK text : text = g[m - 1]
      OBVIOUS
    <3>9. Made(Splice(text, i), D \cup {i})
      BY <3>2, <3>3, <3>4, <3>5, <3>6, <3>8, OneMore
    <3>10. QED
      BY <2>1, <3>3, <3>4, <3>7, <3>8, <3>9
  <2>4. QED
    BY <2>2, <2>3
<1>5. Bad = {}
  <2>1. Bad \subseteq Nat
    BY <1>3
  <2> HIDE DEF Bad
  <2>2. QED
    BY <1>4, <2>1, LeastNumber
<1>6. n \in 0 .. n
  BY <1>3
<1>7. QED
  BY <1>5, <1>6

\* The texts of a splice, the last of which is its result.
LEMMA TextsOf ==
  ASSUME NEW S, Spread(S)
  PROVE  \E g : Texts(g, S, Cardinality(S)) /\ InPlace(S) = g[Cardinality(S)]
<1> DEFINE G == CHOOSE g : Texts(g, S, Cardinality(S))
<1>1. Cardinality(S) \in Nat
  BY FS_CardinalityType DEF Spread
<1>2. Texts(G, S, Cardinality(S))
  BY <1>1, TextsExist
<1>3. InPlace(S) = G[Cardinality(S)]
  BY DEF InPlace, Texts, BottomUp
<1>4. QED
  BY <1>2, <1>3

LEMMA AllDone ==
  ASSUME NEW S, Spread(S)
  PROVE  Done(S, Cardinality(S)) = S
<1>1. PICK n : n = Cardinality(S)
  OBVIOUS
<1>2. /\ BottomUp(S) \in [1 .. n -> S]
      /\ \A i \in S : \E k \in 1 .. n : BottomUp(S)[k] = i
  BY <1>1, BottomUpEnumerates
<1>3. QED
  BY <1>1, <1>2 DEF Done

\* In the end all edits are made.
LEMMA AllMade ==
  ASSUME NEW S, Apart(S)
  PROVE  Made(InPlace(S), S)
<1>1. Spread(S) /\ Swallowed(S) = {}
  BY DEF Apart
<1>2. PICK g : Texts(g, S, Cardinality(S)) /\ InPlace(S) = g[Cardinality(S)]
  BY <1>1, TextsOf
<1>3. PICK n : n = Cardinality(S)
  OBVIOUS
<1>4. n \in 0 .. n
  BY <1>1, <1>3, FS_CardinalityType DEF Spread
<1>5. Done(S, n) = S
  BY <1>1, <1>3, AllDone
<1>6. QED
  BY <1>1, <1>2, <1>3, <1>4, <1>5, MadeSoFar

\* A text with all edits made is the one in which they are made at once.
LEMMA MadeIsSimultaneous ==
  ASSUME NEW S, Apart(S), NEW text, Made(text, S)
  PROVE  text = Simultaneous(S)
<1> DEFINE T == Tokens(S)
           key == [t \in T |-> Place(t)]
           L == Len(text)
<1>1. \A i \in S : i \in Nat /\ edits[i].from \in Nat
  BY DEF Apart, Spread
<1>2. \A t \in T : Place(t) \in Int /\ t \in Nat
  <2>1. \A t \in Kept(S) : Place(t) \in Int /\ t \in Nat
    BY Places, LengthAssumption DEF Kept
  <2>2. \A t \in New(S) : Place(t) \in Int /\ t \in Nat
    <3> SUFFICES ASSUME NEW i \in S
                 PROVE  Place(Length + 1 + i) \in Int /\ Length + 1 + i \in Nat
      BY DEF New
    <3>1. Place(Length + 1 + i) =
            IF Empty(i) THEN 3 * edits[i].from ELSE 3 * edits[i].from + 1
      BY <1>1, Places
    <3>2. i \in Nat /\ edits[i].from \in Nat
      BY <1>1
    <3>3. QED
      BY <3>1, <3>2, LengthAssumption
  <2>3. QED
    BY <2>1, <2>2 DEF Tokens
<1>3. key \in [T -> Int] /\ \A t \in T : key[t] = Place(t)
  BY <1>2
<1>4. /\ L \in Nat /\ text \in [1 .. L -> T]
      /\ \A t \in T : \E k \in 1 .. L : text[k] = t
      /\ \A k, l \in 1 .. L : k < l => Place(text[k]) < Place(text[l])
  <2>1. text \in Seq(Nat)
    BY DEF Made
  <2>2. L \in Nat /\ text = [k \in 1 .. L |-> text[k]]
    BY <2>1
  <2> HIDE DEF L
  <2>3. QED
    BY <2>2 DEF Made, L
<1> HIDE DEF T, key, L
<1>5. \A k, l \in 1 .. L : k < l => key[text[k]] < key[text[l]]
  BY <1>3, <1>4
<1>6. Arranged(T, key) = text
  BY <1>3, <1>4, <1>5, ArrangedIsUnique
<1>7. Simultaneous(S) = Arranged(T, key)
  <2> DEFINE first(k) == CHOOSE x \in T : Cardinality({y \in T : StandsBefore(y, x)}) = k - 1
             second(k) == CHOOSE x \in T : RankBy(T, key, x) = k - 1
  <2>1. ASSUME NEW x \in T
        PROVE  {y \in T : StandsBefore(y, x)} = {y \in T : key[y] < key[x]}
    BY <1>3 DEF StandsBefore
  <2>2. Simultaneous(S) = [k \in 1 .. Cardinality(T) |-> first(k)]
    BY DEF Simultaneous, InOrder, T, Tokens, Kept, New
  <2>3. Arranged(T, key) = [k \in 1 .. Cardinality(T) |-> second(k)]
    BY DEF Arranged
  <2>4. \A k : first(k) = second(k)
    BY <2>1 DEF RankBy
  <2>5. QED
    <3> HIDE DEF first, second
    <3> QED
      BY <2>2, <2>3, <2>4
<1>8. QED
  BY <1>6, <1>7

\* The edits that are applied to a file do not overlap.
LEMMA DisjointAreSpread ==
  ASSUME Complete, Placed(edits), AppliedAreDisjoint, NEW f
  PROVE  Spread({i \in applied : edits[i].file = f})
<1> DEFINE S == {i \in applied : edits[i].file = f}
<1>1. S \subseteq DOMAIN edits
  BY DEF Complete
<1>2. \A i \in S : /\ edits[i].from \in Nat /\ edits[i].to \in Nat
                   /\ edits[i].from <= edits[i].to /\ edits[i].to <= Length
                   /\ edits[i].file = f
  BY <1>1 DEF Placed
<1>3. \A i, j \in S : i # j => ~RangesOverlap(edits[i], edits[j])
  BY DEF AppliedAreDisjoint
<1>4. S \subseteq Nat \ {0} /\ IsFiniteSet(S)
  BY <1>1, FS_Subset DEF Placed
<1> HIDE DEF S
<1>5. ASSUME NEW i \in S, NEW j \in S, i # j, edits[i].from = edits[j].from
      PROVE  (Empty(i) /\ ~Empty(j)) \/ (Empty(j) /\ ~Empty(i))
  BY <1>2, <1>3, <1>5 DEF RangesOverlap, Empty
<1>6. ASSUME NEW i \in S, NEW j \in S, edits[i].from < edits[j].from
      PROVE  edits[i].to <= edits[j].from
  <2>1. /\ edits[i].from \in Nat /\ edits[i].to \in Nat
        /\ edits[j].from \in Nat /\ edits[j].to \in Nat /\ edits[j].from <= edits[j].to
    BY <1>2
  <2>2. ~RangesOverlap(edits[i], edits[j])
    BY <1>3, <1>6, <2>1
  <2>3. QED
    BY <1>6, <2>1, <2>2 DEF RangesOverlap
<1>7. Spread(S)
  BY <1>2, <1>4, <1>5, <1>6 DEF Spread
<1>8. QED
  BY <1>7 DEF S

----------------------------------------------------------------------------
(* What a splice loses.                                                    *)

\* The text in which all edits are made at once has each of them.
LEMMA SimultaneousHasAll ==
  ASSUME NEW S, Spread(S), NEW i \in S
  PROVE  \E k \in 1 .. Len(Simultaneous(S)) : Simultaneous(S)[k] = Length + 1 + i
<1> DEFINE T == Tokens(S)
           key == [t \in T |-> Place(t)]
<1>1. \A j \in S : /\ j \in Nat /\ edits[j].from \in Nat /\ edits[j].to \in Nat
                   /\ edits[j].from <= edits[j].to
  BY DEF Spread
<1>2. \A j \in S : Place(Length + 1 + j) =
                     IF Empty(j) THEN 3 * edits[j].from ELSE 3 * edits[j].from + 1
  BY <1>1, Places
<1>3. \A q \in 1 .. Length : q \in Nat /\ Place(q) = 3 * q - 1
  BY Places, LengthAssumption
<1>4. \A t \in T : Place(t) \in Int
  <2>1. \A t \in Kept(S) : Place(t) \in Int
    BY <1>3 DEF Kept
  <2>2. \A j \in S : Place(Length + 1 + j) \in Int
    BY <1>1, <1>2
  <2>3. QED
    BY <2>1, <2>2 DEF Tokens, New
<1>5. ASSUME NEW t \in T, NEW u \in T, Place(t) = Place(u)
      PROVE  t = u
  <2>1. CASE t \in Kept(S) /\ u \in Kept(S)
    BY <1>3, <1>5, <2>1 DEF Kept
  <2>2. CASE t \in Kept(S) /\ u \in New(S)
    <3>1. PICK j \in S : u = Length + 1 + j
      BY <2>2 DEF New
    <3>2. t \in Nat /\ Place(t) = 3 * t - 1
      BY <1>3, <2>2 DEF Kept
    <3>3. QED
      BY <1>1, <1>2, <1>5, <3>1, <3>2
  <2>3. CASE t \in New(S) /\ u \in Kept(S)
    <3>1. PICK j \in S : t = Length + 1 + j
      BY <2>3 DEF New
    <3>2. u \in Nat /\ Place(u) = 3 * u - 1
      BY <1>3, <2>3 DEF Kept
    <3>3. QED
      BY <1>1, <1>2, <1>5, <3>1, <3>2
  <2>4. CASE t \in New(S) /\ u \in New(S)
    <3>1. PICK j \in S, h \in S : t = Length + 1 + j /\ u = Length + 1 + h
      BY <2>4 DEF New
    <3>2. edits[j].from = edits[h].from /\ (Empty(j) <=> Empty(h))
      BY <1>1, <1>2, <1>5, <3>1
    <3>3. j = h
      BY <3>2 DEF Spread
    <3>4. QED
      BY <3>1, <3>3
  <2>5. QED
    BY <2>1, <2>2, <2>3, <2>4 DEF Tokens
<1>6. IsFiniteSet(T)
  <2>1. IsFiniteSet(1 .. Length) /\ Kept(S) \subseteq 1 .. Length
    BY LengthAssumption, FS_Interval DEF Kept
  <2>2. IsFiniteSet(Kept(S))
    BY <2>1, FS_Subset
  <2>3. IsFiniteSet(New(S))
    <3>1. IsFiniteSet(S)
      BY DEF Spread
    <3>2. PICK fn : fn \in Surjection(S, New(S))
      <4> DEFINE fn == [j \in S |-> Length + 1 + j]
      <4>1. fn \in Surjection(S, New(S))
        BY DEF Surjection, New
      <4>2. QED
        BY <4>1
    <3>3. QED
      BY <3>1, <3>2, FS_Surjection
  <2>4. QED
    BY <2>2, <2>3, FS_Union DEF Tokens
<1>7. key \in [T -> Int] /\ \A t \in T : key[t] = Place(t)
  BY <1>4
<1>8. \A t, u \in T : key[t] = key[u] => t = u
  BY <1>5, <1>7
<1> HIDE DEF T, key
<1>9. Simultaneous(S) = Arranged(T, key)
  <2> DEFINE first(k) == CHOOSE x \in T : Cardinality({y \in T : StandsBefore(y, x)}) = k - 1
             second(k) == CHOOSE x \in T : RankBy(T, key, x) = k - 1
  <2>1. \A x \in T : {y \in T : StandsBefore(y, x)} = {y \in T : key[y] < key[x]}
    BY <1>7 DEF StandsBefore
  <2>2. Simultaneous(S) = [k \in 1 .. Cardinality(T) |-> first(k)]
    BY DEF Simultaneous, InOrder, T, Tokens, Kept, New
  <2>3. Arranged(T, key) = [k \in 1 .. Cardinality(T) |-> second(k)]
    BY DEF Arranged
  <2>4. \A k : first(k) = second(k)
    BY <2>1 DEF RankBy
  <2>5. QED
    <3> HIDE DEF first, second
    <3> QED
      BY <2>2, <2>3, <2>4
<1>10. PICK n : n = Cardinality(T) /\ n \in Nat
  BY <1>6, FS_CardinalityType
<1>11. /\ Arranged(T, key) \in [1 .. n -> T]
       /\ \A t \in T : \E k \in 1 .. n : Arranged(T, key)[k] = t
  BY <1>6, <1>7, <1>8, <1>10, ArrangedEnumerates
<1>12. Length + 1 + i \in T
  BY DEF T, Tokens, New
<1>13. Len(Simultaneous(S)) = n
  BY <1>9, <1>10, <1>11
<1>14. QED
  BY <1>9, <1>11, <1>12, <1>13

\* A text that begins like the original up to q.
Untouched(text, q) ==
  /\ text \in Seq(Nat)
  /\ \A c \in 1 .. q : c <= Len(text) /\ text[c] = c

Lacks(text, v) == \A c \in 1 .. Len(text) : text[c] # v

\* Splicing at f into a text in which v is in the range, or nowhere.
LEMMA CutOut ==
  ASSUME NEW f \in Nat, NEW e \in Nat, f <= e, NEW z \in Nat, NEW v, v # z,
         NEW text, Untouched(text, f),
         \A c \in 1 .. Len(text) : text[c] = v => f < c /\ c <= e
  PROVE  Untouched(Cut(text, f, e, z), f) /\ Lacks(Cut(text, f, e, z), v)
<1> DEFINE last == IF e <= Len(text) THEN e ELSE Len(text)
<1>1. text \in Seq(Nat) /\ Len(text) \in Nat /\ f <= Len(text)
  <2>1. text \in Seq(Nat) /\ Len(text) \in Nat
    BY DEF Untouched
  <2>2. f = 0 \/ f \in 1 .. f
    OBVIOUS
  <2>3. QED
    BY <2>1, <2>2 DEF Untouched
<1>2. last \in Nat /\ f <= last /\ last <= Len(text)
  BY <1>1
<1>3. Cut(text, f, e, z) = Cut(text, f, last, z)
  <2>1. CASE e <= Len(text)
    BY <2>1
  <2>2. CASE ~(e <= Len(text))
    <3>1. SubSeq(text, e + 1, Len(text)) = << >>
      BY <1>1, <2>2
    <3>2. SubSeq(text, Len(text) + 1, Len(text)) = << >>
      BY <1>1
    <3>3. QED
      BY <2>2, <3>1, <3>2 DEF Cut
  <2>3. QED
    BY <2>1, <2>2
<1>4. \A c \in 1 .. Len(text) : text[c] = v => f < c /\ c <= last
  BY <1>1
<1> HIDE DEF last
<1>5. PICK out : out = Cut(text, f, last, z)
  OBVIOUS
<1>6. IsCut(out, text, f, last, z)
  BY <1>1, <1>2, <1>5, Spliced
<1>7. /\ out \in Seq(Nat) /\ Len(out) = f + 1 + (Len(text) - last)
      /\ \A c \in 1 .. f : out[c] = text[c]
      /\ out[f + 1] = z
      /\ \A c \in f + 2 .. f + 1 + (Len(text) - last) : out[c] = text[c - (f + 1) + last]
  BY <1>6 DEF IsCut
<1>8. Untouched(out, f)
  <2>1. f <= Len(out)
    BY <1>1, <1>2, <1>7
  <2>2. \A c \in 1 .. f : c <= Len(out) /\ out[c] = c
    BY <1>7, <2>1 DEF Untouched
  <2>3. QED
    BY <1>7, <2>2 DEF Untouched
<1>9. ASSUME NEW c \in 1 .. Len(out)
      PROVE  out[c] # v
  <2>1. CASE c \in 1 .. f
    <3>1. c \in 1 .. Len(text) /\ ~(f < c)
      BY <1>1, <2>1
    <3>2. QED
      BY <1>4, <1>7, <2>1, <3>1
  <2>2. CASE c = f + 1
    BY <1>7, <2>2
  <2>3. CASE c \in f + 2 .. f + 1 + (Len(text) - last)
    <3>1. c - (f + 1) + last \in 1 .. Len(text) /\ ~(c - (f + 1) + last <= last)
      BY <1>1, <1>2, <2>3
    <3>2. QED
      BY <1>4, <1>7, <2>3, <3>1
  <2>4. QED
    BY <1>1, <1>2, <1>7, <2>1, <2>2, <2>3
<1>10. QED
  BY <1>3, <1>5, <1>8, <1>9 DEF Lacks

\* When an insertion is swallowed, the text that comes out lacks it.
LEMMA Loses ==
  ASSUME NEW S, Spread(S), Swallowed(S) # {}
  PROVE  InPlace(S) # Simultaneous(S)
<1>0. PICK N : N = Cardinality(S) /\ N \in Nat
  BY FS_CardinalityType DEF Spread
<1>1. PICK g : Texts(g, S, N) /\ InPlace(S) = g[N]
  BY <1>0, TextsOf
<1>2. PICK order : order = BottomUp(S)
  OBVIOUS
<1>3. /\ order \in [1 .. N -> S]
      /\ \A i \in S : \E k \in 1 .. N : order[k] = i
      /\ \A k, l \in 1 .. N : k < l => SpliceOrder(order[k], order[l])
  BY <1>0, <1>2, BottomUpEnumerates
<1>4. \A k \in 1 .. N : g[k] = Splice(g[k - 1], order[k])
  BY <1>0, <1>1, <1>2 DEF Texts
<1>5. \A i \in S : /\ i \in Nat /\ edits[i].from \in Nat /\ edits[i].to \in Nat
                   /\ edits[i].from <= edits[i].to /\ edits[i].to <= Length
  BY DEF Spread
\* The first insertion that will be swallowed.
<1>6. PICK a \in 1 .. N : /\ order[a] \in Swallowed(S)
                         /\ \A k \in 1 .. N : order[k] \in Swallowed(S) => a <= k
  <2> DEFINE Bad == {k \in 1 .. N : order[k] \in Swallowed(S)}
  <2>1. Bad \subseteq Nat /\ Bad # {}
    <3>1. PICK i \in S : i \in Swallowed(S)
      BY DEF Swallowed
    <3>2. QED
      BY <1>0, <1>3, <3>1
  <2> HIDE DEF Bad
  <2>2. \E k \in Bad : \A l \in Bad : k <= l
    BY <2>1, LeastNumber
  <2>3. QED
    BY <2>2 DEF Bad
<1>7. PICK i \in S : i = order[a] /\ i \in Swallowed(S)
  BY <1>3, <1>6
<1>8. PICK j \in S : Swallows(j, i)
  BY <1>7 DEF Swallowed
<1>9. /\ i < j /\ edits[i].from = edits[j].from
      /\ edits[i].from = edits[i].to /\ edits[j].from < edits[j].to
  BY <1>8 DEF Swallows
<1>10. PICK b \in 1 .. N : order[b] = j
  BY <1>3
<1>11. /\ a \in Nat /\ b \in Nat /\ 1 <= a /\ a <= N /\ 1 <= b /\ b <= N
       /\ \A k \in 1 .. a : k \in 1 .. N /\ k \in Nat /\ k <= a
  <2>1. a \in 1 .. N /\ b \in 1 .. N
    OBVIOUS
  <2>2. QED
    BY <1>0, <2>1
\* What swallows it comes next.
<1>12. b = a + 1
  <2>1. a < b
    <3>1. b < a => SpliceOrder(j, i)
      BY <1>3, <1>7, <1>10
    <3>2. ~SpliceOrder(j, i) /\ i # j
      BY <1>5, <1>9 DEF SpliceOrder
    <3>3. QED
      BY <1>7, <1>10, <1>11, <3>1, <3>2
  <2>2. SUFFICES ASSUME a + 1 < b
                 PROVE  FALSE
    BY <1>11, <2>1
  <2>3. a + 1 \in 1 .. N /\ a < a + 1
    BY <1>0, <1>11, <2>2
  <2>4. PICK h \in S : h = order[a + 1]
    BY <1>3, <2>3
  <2>5. SpliceOrder(i, h) /\ SpliceOrder(h, j)
    BY <1>3, <1>7, <1>10, <2>2, <2>3, <2>4
  <2>6. edits[h].from = edits[i].from /\ h # i /\ h # j
    BY <1>5, <1>9, <2>5 DEF SpliceOrder
  <2>7. Empty(i) /\ ~Empty(j)
    BY <1>5, <1>9 DEF Empty
  <2>8. ~Empty(h)
    BY <2>6, <2>7 DEF Spread
  <2>9. Empty(h)
    BY <1>9, <2>6, <2>7 DEF Spread
  <2>10. QED
    BY <2>8, <2>9
<1> DEFINE p == edits[i].from
           x == Length + 1 + i
\* Until then nothing was lost.
<1>13. Made(g[a], Done(S, a))
  <2>1. ASSUME NEW h \in Swallowed(Done(S, a))
        PROVE  FALSE
    <3>1. PICK k \in 1 .. a : h = order[k]
      BY <1>2 DEF Swallowed, Done
    <3>2. Done(S, a) \subseteq S
      BY <1>0, DoneGrows
    <3>3. h \in Swallowed(S)
      BY <3>2, FewerAreApart
    <3>4. k = a /\ h = i
      <4>1. k \in 1 .. N
        BY <1>11
      <4>2. QED
        BY <1>6, <1>7, <1>11, <3>1, <3>3, <4>1
    <3>5. PICK l \in 1 .. a : Swallows(order[l], i)
      BY <1>2, <3>4 DEF Swallowed, Done
    <3>6. l \in 1 .. N /\ order[l] \in S
      BY <1>3, <1>11
    <3>7. i < order[l] /\ edits[i].from = edits[order[l]].from
      BY <3>5 DEF Swallows
    <3>8. l < a
      BY <1>5, <1>7, <1>11, <3>6, <3>7
    <3>9. SpliceOrder(order[l], i)
      BY <1>3, <1>7, <3>6, <3>8
    <3>10. QED
      BY <1>5, <3>6, <3>7, <3>9 DEF SpliceOrder
  <2>2. a \in 0 .. N
    BY <1>11
  <2>3. QED
    BY <1>0, <1>1, <2>1, <2>2, MadeSoFar
<1>14. i \in Done(S, a)
  BY <1>2, <1>7, <1>11 DEF Done
<1>15. Untouched(g[a], p)
  <2>1. ASSUME NEW c \in 1 .. p
        PROVE  c <= Len(g[a]) /\ g[a][c] = c
    <3>1. c \in 1 .. Length
      BY <1>5, <1>9, LengthAssumption
    <3>2. ASSUME NEW d \in Done(S, a)
          PROVE  c <= edits[d].from
      <4>1. PICK k \in 1 .. a : d = order[k]
        BY <1>2 DEF Done
      <4>2. k \in 1 .. N /\ d \in S
        BY <1>3, <1>11, <4>1
      <4>3. k = a \/ SpliceOrder(d, i)
        BY <1>3, <1>7, <1>11, <4>1, <4>2
      <4>4. edits[i].from <= edits[d].from
        BY <1>5, <1>7, <4>1, <4>2, <4>3 DEF SpliceOrder
      <4>5. QED
        BY <1>5, <4>2, <4>4
    <3>3. QED
      BY <1>13, <3>1, <3>2 DEF Made
  <2>2. QED
    BY <1>13, <2>1 DEF Made, Untouched
<1> HIDE DEF p, x
<1>16. p \in Nat /\ x \in Nat /\ x > Length /\ p <= Length /\ Place(x) = 3 * p
  <2>1. p \in Nat /\ x \in Nat /\ x > Length /\ p <= Length
    BY <1>5, <1>9, LengthAssumption DEF p, x
  <2>2. Place(x) = 3 * p
    BY <1>5, <1>9, Places DEF p, x, Empty
  <2>3. QED
    BY <2>1, <2>2
\* The insertion is right behind the bytes before it.
<1>17. ASSUME NEW c \in 1 .. Len(g[a]), g[a][c] = x
       PROVE  c = p + 1
  <2>1. g[a] \in Seq(Nat) /\ Len(g[a]) \in Nat
    BY <1>15 DEF Untouched
  <2>2. c > p
    <3>1. SUFFICES ASSUME c <= p
                   PROVE  FALSE
      BY <1>16, <2>1
    <3>2. c \in 1 .. p
      BY <1>16, <2>1, <3>1
    <3>3. x = c
      BY <1>15, <1>17, <3>2 DEF Untouched
    <3>4. c \in Nat
      BY <2>1
    <3>5. QED
      BY <1>16, <3>1, <3>3, <3>4, LengthAssumption
  <2>3. SUFFICES ASSUME p + 1 < c
                 PROVE  FALSE
    BY <1>16, <2>1, <2>2
  <2>4. p + 1 \in 1 .. Len(g[a])
    BY <1>16, <2>1, <2>3
  <2>5. Place(g[a][p + 1]) < 3 * p
    BY <1>13, <1>16, <1>17, <2>1, <2>3, <2>4 DEF Made
  <2>6. p > 0 => 3 * p - 1 < Place(g[a][p + 1])
    <3>1. SUFFICES ASSUME p > 0
                   PROVE  3 * p - 1 < Place(g[a][p + 1])
      OBVIOUS
    <3>2. p \in 1 .. p /\ p \in 1 .. Len(g[a]) /\ p \in 1 .. Length
      BY <1>16, <2>1, <2>3, <3>1, LengthAssumption
    <3>3. g[a][p] = p /\ Place(p) = 3 * p - 1
      BY <1>15, <3>2, Places DEF Untouched
    <3>4. Place(g[a][p]) < Place(g[a][p + 1])
      <4>1. PICK q : q = p + 1
        OBVIOUS
      <4>2. p < q /\ q \in 1 .. Len(g[a])
        BY <1>16, <2>4, <4>1
      <4>3. QED
        BY <1>13, <3>2, <4>1, <4>2, Zenon DEF Made
    <3>5. QED
      BY <3>3, <3>4
  <2>7. Place(g[a][p + 1]) \in Nat
    <3>1. g[a][p + 1] \in Tokens(Done(S, a))
      BY <1>13, <2>4 DEF Made
    <3>2. \A t \in Kept(Done(S, a)) : Place(t) \in Nat
      <4>1. \A t \in 1 .. Length : 3 * t - 1 \in Nat
        BY LengthAssumption
      <4>2. QED
        BY <4>1, Places DEF Kept
    <3>3. \A d \in S : Place(Length + 1 + d) \in Nat
      BY <1>5, Places
    <3>4. Done(S, a) \subseteq S
      BY <1>0, DoneGrows
    <3>5. QED
      BY <3>1, <3>2, <3>3, <3>4 DEF Tokens, New
  <2>8. QED
    BY <1>16, <2>5, <2>6, <2>7
\* From then on it is nowhere.
<1> DEFINE Out(k) == Untouched(g[k], edits[order[k]].from) /\ Lacks(g[k], x)
           Bad == {k \in b .. N : ~Out(k)}
<1>18. ASSUME NEW m \in Bad, \A k \in Bad : m <= k
       PROVE  FALSE
  <2>1. m \in Nat /\ b <= m /\ m <= N /\ m \in 1 .. N /\ ~Out(m)
    BY <1>0, <1>11
  <2>2. PICK h \in S : h = order[m]
    BY <1>3, <2>1
  <2>3. /\ edits[h].from \in Nat /\ edits[h].to \in Nat /\ edits[h].from <= edits[h].to
        /\ h \in Nat
    BY <1>5
  <2>4. g[m] = Cut(g[m - 1], edits[h].from, edits[h].to, Length + 1 + h)
    BY <1>4, <2>1, <2>2 DEF Splice, Cut
  <2>5. x # Length + 1 + h /\ Length + 1 + h \in Nat
    <3>1. h # i
      <4>1. SpliceOrder(i, h)
        BY <1>3, <1>7, <1>11, <1>12, <2>1, <2>2
      <4>2. QED
        BY <1>5, <4>1 DEF SpliceOrder
    <3>2. QED
      BY <1>5, <2>3, <3>1, LengthAssumption DEF x
  <2>6. /\ Untouched(g[m - 1], edits[h].from)
        /\ \A c \in 1 .. Len(g[m - 1]) :
             g[m - 1][c] = x => edits[h].from < c /\ c <= edits[h].to
    <3>1. CASE m = b
      <4>1. h = j /\ m - 1 = a /\ edits[h].from = p
        <5>1. h = j
          BY <1>10, <2>2, <3>1
        <5>2. m - 1 = a
          BY <1>11, <1>12, <3>1
        <5>3. QED
          BY <1>9, <5>1, <5>2 DEF p
      <4>2. p < p + 1 /\ p + 1 <= edits[j].to
        BY <1>5, <1>9, <1>16 DEF p
      <4>3. QED
        BY <1>15, <1>17, <4>1, <4>2
    <3>2. CASE m # b
      <4>1. m - 1 \in b .. N /\ ~(m <= m - 1) /\ m - 1 \in 1 .. N /\ m - 1 < m
        BY <1>0, <1>11, <2>1, <3>2
      <4>2. Untouched(g[m - 1], edits[order[m - 1]].from) /\ Lacks(g[m - 1], x)
        BY <1>18, <4>1
      <4>3. SpliceOrder(order[m - 1], h) /\ order[m - 1] \in S
        BY <1>3, <2>1, <2>2, <4>1
      <4>4. /\ edits[h].from <= edits[order[m - 1]].from
            /\ edits[order[m - 1]].from \in Nat
        BY <1>5, <2>3, <4>3 DEF SpliceOrder
      <4>5. \A c \in 1 .. edits[h].from : c \in 1 .. edits[order[m - 1]].from
        BY <2>3, <4>4
      <4>6. QED
        BY <4>2, <4>5 DEF Untouched, Lacks
    <3>3. QED
      BY <3>1, <3>2
  <2>7. PICK f, e, z, text : /\ f = edits[h].from /\ e = edits[h].to
                             /\ z = Length + 1 + h /\ text = g[m - 1]
    OBVIOUS
  <2>8. Untouched(Cut(text, f, e, z), f) /\ Lacks(Cut(text, f, e, z), x)
    BY <2>3, <2>5, <2>6, <2>7, CutOut
  <2>9. QED
    BY <2>1, <2>2, <2>4, <2>7, <2>8
<1>19. Bad = {}
  <2>1. Bad \subseteq Nat
    BY <1>0, <1>11
  <2> HIDE DEF Bad
  <2>2. QED
    BY <1>18, <2>1, LeastNumber
<1>20. Lacks(g[N], x)
  <2>1. N \in b .. N
    BY <1>0, <1>11
  <2>2. QED
    BY <1>19, <2>1
<1>21. \E k \in 1 .. Len(Simultaneous(S)) : Simultaneous(S)[k] = x
  BY SimultaneousHasAll DEF x
<1>22. QED
  BY <1>1, <1>20, <1>21 DEF Lacks

\* Splicing the edits of a file from the bottom up, each at the offset it had
\* in the original, makes all of them at once exactly when no insertion is
\* listed before a replacement that begins where it inserts, for any text and
\* any plan.
THEOREM SplicesAtOnce == Spec => []SpliceIsSimultaneous
<1>1. Complete /\ Placed(edits) /\ AppliedAreDisjoint => SpliceIsSimultaneous
  <2> SUFFICES ASSUME Complete, Placed(edits), AppliedAreDisjoint, NEW f \in AllFiles
               PROVE  LET S == {i \in applied : edits[i].file = f}
                      IN InPlace(S) = Simultaneous(S) <=> Swallowed(S) = {}
    BY DEF SpliceIsSimultaneous
  <2> DEFINE S == {i \in applied : edits[i].file = f}
  <2>1. Spread(S)
    BY DisjointAreSpread
  <2> HIDE DEF S
  <2>2. PICK R : R = S
    OBVIOUS
  <2>3. CASE Swallowed(R) = {}
    <3>1. Apart(R)
      BY <2>1, <2>2, <2>3 DEF Apart
    <3>2. PICK text : text = InPlace(R)
      OBVIOUS
    <3>3. text = Simultaneous(R)
      BY <3>1, <3>2, AllMade, MadeIsSimultaneous
    <3>4. QED
      BY <2>2, <2>3, <3>2, <3>3 DEF S
  <2>4. CASE Swallowed(R) # {}
    <3>1. InPlace(R) # Simultaneous(R)
      BY <2>1, <2>2, <2>4, Loses
    <3>2. QED
      BY <2>2, <2>4, <3>1 DEF S
  <2>5. QED
    BY <2>3, <2>4
<1>2. QED
  BY <1>1, StartsComplete, StaysComplete, StartsPlaced, StaysPlaced, Disjoint, PTL DEF Spec
=============================================================================
