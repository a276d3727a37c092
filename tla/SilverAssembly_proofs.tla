------------------------- MODULE SilverAssembly_proofs -------------------------
(* Proofs about SilverAssembly, for any contracts, rows, scope and answers of  *)
(* the source, any limit on rejections and any number of runs and versions.    *)
EXTENDS SilverAssembly, FiniteSetTheorems, SequenceTheorems, WellFoundedInduction, TLAPS

-----------------------------------------------------------------------------
(* Finite orders *)

\* Every non-empty family of subsets of a finite set has a minimal member.
LEMMA MinimalMember ==
  ASSUME NEW S, IsFiniteSet(S), NEW F, F \subseteq SUBSET S, F # {}
  PROVE  \E A \in F : \A B \in F : B \subseteq A => B = A
<1>1. IsWellFoundedOn(StrictSubsetOrdering(S), FiniteSubsetsOf(S))
  BY FS_StrictSubsetOrderingWellFounded
<1>2. FiniteSubsetsOf(S) = SUBSET S
  BY FS_FiniteSubsetsOfFinite
<1>3. \E A \in F : \A B \in F : <<B, A>> \notin StrictSubsetOrdering(S)
  BY <1>1, <1>2, WFMin, Zenon
<1>. QED
  BY <1>3 DEF StrictSubsetOrdering

\* What comes before each member of a set, in a strict order of it.
Precedence(S, before) ==
  /\ before \in [S -> SUBSET S]
  /\ \A r \in S : r \notin before[r]
  /\ \A r \in S : \A s \in before[r] : before[s] \subseteq before[r]

\* Some members of a finite set have a first one.
LEMMA FirstOfSome ==
  ASSUME NEW S, IsFiniteSet(S), NEW before, Precedence(S, before),
         NEW T, T \subseteq S, T # {}
  PROVE  \E r \in T : before[r] \cap T = {}
<1>1. PICK F : F = {before[r] : r \in T}
  OBVIOUS
<1>2. F \subseteq SUBSET S /\ F # {}
  BY <1>1 DEF Precedence
<1>3. \E A \in F : \A B \in F : B \subseteq A => B = A
  BY <1>2, MinimalMember
<1>4. PICK r \in T : \A s \in T : before[s] \subseteq before[r] => before[s] = before[r]
  BY <1>1, <1>3
<1>5. ASSUME NEW s \in before[r], s \in T PROVE FALSE
  BY <1>4, <1>5 DEF Precedence
<1>. QED
  BY <1>5

\* Some of the first n numbers have a least one.
LEMMA LeastOf ==
  ASSUME NEW n \in Nat, NEW T, T \subseteq 0 .. n, T # {}
  PROVE  \E v \in T : \A w \in T : v <= w
<1>1. PICK before : before = [v \in 0 .. n |-> 0 .. v - 1]
  OBVIOUS
<1>2. Precedence(0 .. n, before)
  BY <1>1 DEF Precedence
<1>3. IsFiniteSet(0 .. n)
  BY FS_Interval
<1>4. PICK v \in T : before[v] \cap T = {}
  BY <1>2, <1>3, FirstOfSome
<1>5. \A w \in T : ~(w < v)
  BY <1>1, <1>4
<1>. QED
  BY <1>5

-----------------------------------------------------------------------------
(* Observations *)

\* Runs and versions are numbered from one.
LEMMA RunsAreNumbered ==
  ASSUME IInv
  PROVE  /\ Len(bronze) \in Nat /\ RunIds = 1 .. Len(bronze)
         /\ Len(versions) \in Nat /\ VersionIds = 1 .. Len(versions)
         /\ IsFiniteSet(RunIds)
<1>1. /\ Len(bronze) \in Nat /\ RunIds = 1 .. Len(bronze)
      /\ Len(versions) \in Nat /\ VersionIds = 1 .. Len(versions)
  BY LenProperties DEF IInv, Listed, RunIds, VersionIds
<1>. QED
  BY <1>1, FS_Interval

\* What an observation is of.
LEMMA ObservationOf ==
  ASSUME IInv, NEW runs, runs \subseteq RunIds, NEW o \in Observations(runs)
  PROVE  /\ o = <<o[1], o[2]>> /\ o[1] \in runs /\ o[2] \in DOMAIN bronze[o[1]].rows
         /\ o[1] \in Nat /\ o[2] \in Nat
         /\ Row(o) \in RawRows /\ Row(o).updated \in Nat
<1>1. PICK r \in runs : o \in {r} \X (DOMAIN bronze[r].rows)
  BY DEF Observations
<1>2. o = <<o[1], o[2]>> /\ o[1] = r /\ o[2] \in DOMAIN bronze[r].rows
  BY <1>1
<1>3. bronze[r].rows \in Seq(RawRows)
  BY DEF IInv, RunSound
<1>4. /\ DOMAIN bronze[r].rows = 1 .. Len(bronze[r].rows)
      /\ Len(bronze[r].rows) \in Nat
  BY <1>3, LenProperties
<1>5. Row(o) \in RawRows
  BY <1>2, <1>3, <1>4, ElementOfSeq DEF Row
<1>. QED
  BY <1>2, <1>4, <1>5, RunsAreNumbered DEF RawRows

\* Runs have finitely many observations.
LEMMA ObservationsFinite ==
  ASSUME IInv, NEW runs, runs \subseteq RunIds
  PROVE  IsFiniteSet(Observations(runs))
<1>. DEFINE pages == {{r} \X (DOMAIN bronze[r].rows) : r \in runs}
<1>1. IsFiniteSet(runs)
  BY RunsAreNumbered, FS_Subset
<1>2. ASSUME NEW r \in runs PROVE IsFiniteSet({r} \X (DOMAIN bronze[r].rows))
  <2>1. bronze[r].rows \in Seq(RawRows)
    BY DEF IInv, RunSound
  <2>2. DOMAIN bronze[r].rows = 1 .. Len(bronze[r].rows) /\ Len(bronze[r].rows) \in Nat
    BY <2>1, LenProperties
  <2>3. IsFiniteSet(DOMAIN bronze[r].rows)
    BY <2>2, FS_Interval
  <2>. QED
    BY <2>3, FS_Singleton, FS_Product
<1>3. IsFiniteSet(pages)
  <2>1. PICK f : f = [r \in runs |-> {r} \X (DOMAIN bronze[r].rows)]
    OBVIOUS
  <2>2. f \in Surjection(runs, pages)
    BY <2>1 DEF Surjection
  <2>. QED
    BY <1>1, <2>2, FS_Surjection
<1>4. IsFiniteSet(UNION pages)
  <2>1. \A T \in pages : IsFiniteSet(T)
    BY <1>2
  <2>. HIDE DEF pages
  <2>. QED
    BY <1>3, <2>1, FS_UNION
<1>. QED
  BY <1>4 DEF Observations

\* The order of observations is strict and total.
LEMMA NewerIsOrder ==
  ASSUME IInv, NEW runs, runs \subseteq RunIds
  PROVE  /\ \A o \in Observations(runs) : ~Newer(o, o)
         /\ \A o, p \in Observations(runs) : o # p => Newer(o, p) \/ Newer(p, o)
         /\ \A o, p, q \in Observations(runs) : Newer(o, p) /\ Newer(p, q) => Newer(o, q)
<1>1. \A o \in Observations(runs) :
        /\ o = <<o[1], o[2]>> /\ o[1] \in Nat /\ o[2] \in Nat
        /\ Row(o).updated \in Nat
  BY ObservationOf
<1>2. \A o \in Observations(runs) : Fetched(o) \in Nat
  BY <1>1 DEF Fetched
<1>3. \A o, p \in Observations(runs) : Fetched(o) = Fetched(p) => o[1] = p[1]
  BY <1>1 DEF Fetched
<1>4. ASSUME NEW o \in Observations(runs), NEW p \in Observations(runs), o # p
      PROVE  Newer(o, p) \/ Newer(p, o)
  <2>1. o[1] # p[1] \/ o[2] # p[2]
    BY <1>1, <1>4
  <2>. QED
    BY <1>1, <1>2, <1>3, <2>1 DEF Newer
<1>. QED
  BY <1>1, <1>2, <1>4 DEF Newer

\* A table has for each contract the newest of its accepted observations.
LEMMA TableIsSound ==
  ASSUME IInv, NEW runs, runs \subseteq RunIds
  PROVE  /\ DOMAIN Table(runs) = {Key(o) : o \in Accepted(runs)}
         /\ \A k \in DOMAIN Table(runs) :
              /\ Table(runs)[k] \in Accepted(runs) /\ Key(Table(runs)[k]) = k
              /\ \A o \in Accepted(runs) :
                   Key(o) = k => o = Table(runs)[k] \/ Newer(Table(runs)[k], o)
<1>. DEFINE accepted == Accepted(runs)
            Newest(k, o) == Key(o) = k /\ \A p \in accepted \ {o} : Key(p) = k => Newer(o, p)
<1>1. DOMAIN Table(runs) = {Key(o) : o \in accepted}
  BY DEF Table
<1>2. \A k \in DOMAIN Table(runs) : Table(runs)[k] = CHOOSE o \in accepted : Newest(k, o)
  BY DEF Table
<1>3. ASSUME NEW k \in DOMAIN Table(runs) PROVE \E o \in accepted : Newest(k, o)
  <2>1. PICK T : T = {o \in accepted : Key(o) = k}
    OBVIOUS
  <2>2. T \subseteq Observations(runs) /\ T # {}
    BY <1>1, <2>1 DEF Accepted
  <2>3. PICK newer : newer = [o \in Observations(runs) |->
                               {p \in Observations(runs) : Newer(p, o)}]
    OBVIOUS
  <2>4. Precedence(Observations(runs), newer)
    BY <2>3, NewerIsOrder DEF Precedence
  <2>5. PICK o \in T : newer[o] \cap T = {}
    BY <2>2, <2>4, ObservationsFinite, FirstOfSome
  <2>6. o \in accepted /\ Key(o) = k
    BY <2>1
  <2>7. ASSUME NEW p \in accepted \ {o}, Key(p) = k PROVE Newer(o, p)
    <3>1. p \in T /\ p \notin newer[o]
      BY <2>1, <2>5, <2>7
    <3>2. ~Newer(p, o)
      BY <2>2, <2>3, <3>1
    <3>. QED
      BY <2>2, <3>1, <3>2, NewerIsOrder
  <2>. QED
    BY <2>6, <2>7
<1>4. ASSUME NEW k \in DOMAIN Table(runs)
      PROVE  Table(runs)[k] \in accepted /\ Newest(k, Table(runs)[k])
  <2>. HIDE DEF Newest, accepted
  <2>. QED
    BY <1>2, <1>3
<1>. QED
  BY <1>1, <1>4

-----------------------------------------------------------------------------
(* Verification and lineage, which recur *)

\* A version as the verifier judges it, once the earlier ones are judged.
Judged(v, verified) ==
  v # 0 /\ BundleHolds(v) /\ IF versions[v].envelope = 2
                             THEN RefreshHolds(v)
                             ELSE PopulationHolds(versions[v], verified)

\* The judgement exists as soon as one function satisfies its equation.
LEMMA VerifiedIsJudged ==
  ASSUME NEW f, f = [v \in 0 .. Len(versions) |-> Judged(v, f)]
  PROVE  Verified = [v \in 0 .. Len(versions) |-> Judged(v, Verified)]
<1>1. Verified = CHOOSE g : g = [v \in 0 .. Len(versions) |-> Judged(v, g)]
  BY DEF Verified, Judged
<1>. QED
  BY <1>1

\* A population asks only for the judgement of its baseline and of its nodes.
LEMMA PopulationAsks ==
  ASSUME NEW m, NEW f, NEW g, PopulationHolds(m, f),
         m.base # 0 /\ f[m.base] => g[m.base],
         \A node \in m.nodes : f[node.version] => g[node.version]
  PROVE  PopulationHolds(m, g)
<1>1. BaselineHolds(m, g)
  BY DEF PopulationHolds, BaselineHolds
<1>2. NodesHold(m, g)
  BY DEF PopulationHolds, NodesHold
<1>. QED
  BY <1>1, <1>2 DEF PopulationHolds

\* What a version was built from came before it, with its runs.
LEMMA DependenciesAreEarlier ==
  ASSUME IInv, NEW v \in VersionIds
  PROVE  /\ versions[v].base \in 0 .. v - 1 /\ versions[v].refreshed \in 0 .. v - 1
         /\ versions[v].base \in {0} \cup VersionIds
         /\ versions[v].refreshed \in {0} \cup VersionIds
         /\ versions[v].runs \subseteq RunIds
         /\ \A b \in {versions[v].base, versions[v].refreshed} \ {0} :
              versions[b].runs \subseteq versions[v].runs
<1>1. VersionSound(v, versions[v])
  BY DEF IInv
<1>2. /\ versions[v].base \in 0 .. v - 1 /\ versions[v].refreshed \in 0 .. v - 1
      /\ versions[v].runs \subseteq RunIds
      /\ \A b \in {versions[v].base, versions[v].refreshed} \ {0} :
           versions[b].runs \subseteq versions[v].runs
  BY <1>1 DEF VersionSound, Before
<1>. QED
  BY <1>2, RunsAreNumbered

\* The verifier accepts every version that is sound.
LEMMA SoundIsVerified ==
  ASSUME IInv
  PROVE  \A v \in VersionIds : Verified[v]
<1>. DEFINE n == Len(versions)
<1>1. n \in Nat /\ VersionIds = 1 .. n
  BY RunsAreNumbered
<1>2. PICK f : f = [v \in 0 .. n |-> v # 0]
  OBVIOUS
<1>3. \A v \in 0 .. n : f[v] = (v # 0)
  BY <1>2
<1>4. ASSUME NEW v \in 0 .. n PROVE Judged(v, f) = (v # 0)
  <2>1. CASE v = 0
    BY <2>1 DEF Judged
  <2>2. CASE v # 0
    <3>1. VersionSound(v, versions[v])
      BY <1>1, <2>2 DEF IInv
    <3>2. BundleHolds(v) /\ v # 0
      BY <2>2, <3>1 DEF VersionSound, BundleHolds
    <3>3. CASE versions[v].envelope = 2
      <4>1. Refreshing(versions[v]) /\ versions[v].refreshed # v
        BY <1>1, <3>1, <3>3 DEF VersionSound, Before
      <4>2. RefreshHolds(v)
        BY <3>1, <4>1 DEF Refreshing, RefreshHolds, VersionSound, Keys
      <4>. QED
        BY <2>2, <3>2, <3>3, <4>2 DEF Judged
    <3>4. CASE versions[v].envelope # 2
      <4>1. PopulationHolds(versions[v], f)
        BY <1>2, <3>1, <3>4 DEF VersionSound, Reconciling
      <4>. QED
        BY <2>2, <3>2, <3>4, <4>1 DEF Judged
    <3>. QED
      BY <3>3, <3>4
  <2>. QED
    BY <2>1, <2>2
<1>5. f = [v \in 0 .. n |-> Judged(v, f)]
  BY <1>2, <1>4
<1>6. Verified = [v \in 0 .. n |-> Judged(v, Verified)]
  BY <1>5, VerifiedIsJudged
<1>. SUFFICES ASSUME {v \in 1 .. n : ~Verified[v]} # {} PROVE FALSE
  BY <1>1
<1>7. PICK v \in {u \in 1 .. n : ~Verified[u]} :
        \A w \in {u \in 1 .. n : ~Verified[u]} : v <= w
  <2>. DEFINE T == {u \in 1 .. n : ~Verified[u]}
  <2>1. T \subseteq 0 .. n /\ T # {}
    OBVIOUS
  <2>. HIDE DEF T
  <2>2. \E x \in T : \A y \in T : x <= y
    BY <1>1, <2>1, LeastOf
  <2>. QED
    BY <2>2 DEF T
<1>8. v \in 1 .. n /\ ~Verified[v] /\ \A w \in 1 .. v - 1 : Verified[w]
  BY <1>1, <1>7
<1>9. VersionSound(v, versions[v]) /\ v # 0
  BY <1>1, <1>8 DEF IInv
<1>10. Verified[v] = Judged(v, Verified) /\ Judged(v, f)
  BY <1>1, <1>4, <1>6, <1>8
<1>11. versions[v].envelope # 2
  BY <1>8, <1>10 DEF Judged
<1>12. /\ PopulationHolds(versions[v], f)
       /\ versions[v].base \in Before(v)
       /\ \A node \in versions[v].nodes : node.version \in Before(v)
  BY <1>2, <1>9, <1>11 DEF VersionSound, Reconciling
<1>13. PopulationHolds(versions[v], Verified)
  <2>1. versions[v].base # 0 => Verified[versions[v].base]
    BY <1>1, <1>8, <1>12 DEF Before
  <2>2. ASSUME NEW node \in versions[v].nodes, f[node.version] PROVE Verified[node.version]
    <3>1. node.version \in 0 .. v - 1
      BY <1>12 DEF Before
    <3>2. node.version # 0
      <4>1. 0 \in 0 .. n
        BY <1>1
      <4>2. ~f[0]
        BY <1>3, <4>1, Zenon
      <4>. QED
        BY <2>2, <4>2
    <3>. QED
      BY <1>1, <1>8, <3>1, <3>2
  <2>. QED
    BY <1>12, <2>1, <2>2, PopulationAsks
<1>14. Judged(v, Verified)
  BY <1>10, <1>11, <1>13 DEF Judged
<1>. QED
  BY <1>8, <1>10, <1>14

\* Where a version comes from, as the equation of its lineage.
IsLine(line) ==
  line = [w \in 0 .. Len(versions) |->
            IF w = 0 THEN {}
            ELSE {w} \cup line[versions[w].refreshed] \cup line[versions[w].base]]

LEMMA LineageIsLine ==
  ASSUME NEW f, IsLine(f)
  PROVE  \E g : IsLine(g) /\ \A v : Lineage(v) = g[v]
<1>. DEFINE line == CHOOSE g : IsLine(g)
<1>1. \A v : Lineage(v) = line[v]
  BY DEF Lineage, IsLine
<1>2. IsLine(line)
  OBVIOUS
<1>. QED
  BY <1>1, <1>2

\* There is a lineage: what is in every set that leaves out no dependency.
LEMMA LineExists ==
  ASSUME IInv
  PROVE  \E f : IsLine(f)
<1>. DEFINE n == Len(versions)
            From(w) == {versions[w].refreshed, versions[w].base} \ {0}
            Closed(C) == C \subseteq 1 .. n /\ \A u \in C : From(u) \subseteq C
            Line(w) == {u \in 1 .. n : \A C : Closed(C) /\ w \in C => u \in C}
<1>1. n \in Nat /\ VersionIds = 1 .. n
  BY RunsAreNumbered
<1>2. \A w \in 1 .. n : From(w) \subseteq 1 .. n
  BY <1>1, DependenciesAreEarlier
<1>3. \A w \in 1 .. n : w \in Line(w)
  OBVIOUS
<1>4. \A w : Closed(Line(w))
  BY <1>2
<1>5. ASSUME NEW w \in 1 .. n
      PROVE  Line(w) = {w} \cup UNION {Line(u) : u \in From(w)}
  <2>. DEFINE C == {w} \cup UNION {Line(u) : u \in From(w)}
  <2>1. ASSUME NEW u \in From(w) PROVE Line(u) \subseteq Line(w)
    OBVIOUS
  <2>2. C \subseteq Line(w)
    BY <1>3, <2>1
  <2>3. Closed(C)
    <3>. HIDE DEF Line, From
    <3>1. C \subseteq 1 .. n
      BY <1>4
    <3>2. From(w) \subseteq C
      BY <1>2, <1>3
    <3>3. \A u \in From(w) : \A x \in Line(u) : From(x) \subseteq C
      BY <1>4
    <3>. QED
      BY <3>1, <3>2, <3>3
  <2>4. Line(w) \subseteq C
    <3>. HIDE DEF C
    <3>1. w \in C
      BY DEF C
    <3>. QED
      BY <2>3, <3>1
  <2>. QED
    BY <2>2, <2>4
<1>6. PICK f : f = [w \in 0 .. n |-> IF w = 0 THEN {} ELSE Line(w)]
  OBVIOUS
<1>7. ASSUME NEW w \in 1 .. n
      PROVE  f[w] = {w} \cup f[versions[w].refreshed] \cup f[versions[w].base]
  <2>1. versions[w].refreshed \in 0 .. n /\ versions[w].base \in 0 .. n
    BY <1>1, DependenciesAreEarlier
  <2>. HIDE DEF Line
  <2>2. UNION {Line(u) : u \in From(w)} = f[versions[w].refreshed] \cup f[versions[w].base]
    BY <1>6, <2>1
  <2>. QED
    BY <1>5, <1>6, <2>2
<1>. HIDE DEF Line
<1>8. IsLine(f)
  <2>1. \A w \in 0 .. n :
          f[w] = IF w = 0 THEN {} ELSE {w} \cup f[versions[w].refreshed] \cup f[versions[w].base]
    BY <1>1, <1>6, <1>7
  <2>. QED
    BY <1>6, <2>1 DEF IsLine
<1>. QED
  BY <1>8

\* A lineage holds nothing later, and no run that its version does not have.
LEMMA LineageIsEarlier ==
  ASSUME IInv, NEW v \in VersionIds
  PROVE  \A w \in Lineage(v) : w \in 1 .. v /\ versions[w].runs \subseteq versions[v].runs
<1>. DEFINE n == Len(versions)
            Below(u) == {w \in 1 .. u : versions[w].runs \subseteq versions[u].runs}
<1>1. n \in Nat /\ VersionIds = 1 .. n
  BY RunsAreNumbered
<1>2. PICK g : IsLine(g) /\ \A u : Lineage(u) = g[u]
  BY LineExists, LineageIsLine
<1>3. \A u \in 1 .. n :
        /\ g[u] = {u} \cup g[versions[u].refreshed] \cup g[versions[u].base]
        /\ g[0] = {}
  BY <1>1, <1>2 DEF IsLine
<1>. SUFFICES ASSUME {u \in 1 .. n : ~(g[u] \subseteq Below(u))} # {} PROVE FALSE
  BY <1>1, <1>2
<1>4. PICK u \in 1 .. n :
        /\ ~(g[u] \subseteq Below(u))
        /\ \A w \in 1 .. u - 1 : g[w] \subseteq Below(w)
  <2>. DEFINE T == {w \in 1 .. n : ~(g[w] \subseteq Below(w))}
  <2>1. T \subseteq 0 .. n /\ T # {}
    OBVIOUS
  <2>. HIDE DEF T
  <2>2. \E x \in T : \A y \in T : x <= y
    BY <1>1, <2>1, LeastOf
  <2>. QED
    BY <2>2 DEF T
<1>5. /\ versions[u].refreshed \in 0 .. u - 1 /\ versions[u].base \in 0 .. u - 1
      /\ \A b \in {versions[u].base, versions[u].refreshed} \ {0} :
           versions[b].runs \subseteq versions[u].runs
  BY <1>1, DependenciesAreEarlier
<1>6. ASSUME NEW b \in {versions[u].base, versions[u].refreshed}
      PROVE  g[b] \subseteq Below(u)
  <2>1. CASE b = 0
    BY <1>3, <2>1
  <2>2. CASE b # 0
    <3>1. b \in 1 .. u - 1 /\ versions[b].runs \subseteq versions[u].runs
      BY <1>1, <1>5, <2>2
    <3>2. g[b] \subseteq Below(b)
      BY <1>4, <3>1
    <3>. QED
      BY <1>1, <3>1, <3>2
  <2>. QED
    BY <2>1, <2>2
<1>7. u \in Below(u)
  BY <1>1
<1>. QED
  BY <1>3, <1>4, <1>6, <1>7

-----------------------------------------------------------------------------
(* What is committed, promoted or adopted stays *)

Grows ==
  /\ RunIds \subseteq RunIds' /\ \A r \in RunIds : bronze'[r] = bronze[r]
  /\ VersionIds \subseteq VersionIds' /\ \A v \in VersionIds : versions'[v] = versions[v]
  /\ Len(versions) \in Nat /\ Len(versions') \in Nat /\ Len(versions) <= Len(versions')
  /\ adopted \subseteq adopted'

\* One element longer.
Longer(s, e, t) ==
  /\ Listed(t)
  /\ Len(s) \in Nat /\ Len(t) = Len(s) + 1
  /\ DOMAIN s = 1 .. Len(s) /\ DOMAIN t = 1 .. Len(s) + 1
  /\ \A i \in DOMAIN s : t[i] = s[i]
  /\ t[Len(s) + 1] = e

\* What an appended sequence holds.
LEMMA Appended ==
  ASSUME NEW s, NEW e, Listed(s)
  PROVE  Longer(s, e, Append(s, e))
<1>. DEFINE t == Append(s, e)
<1>. DEFINE S == {s[i] : i \in DOMAIN s} \cup {e}
<1>1. Len(s) \in Nat /\ DOMAIN s = 1 .. Len(s)
  BY LenProperties DEF Listed
<1>2. s \in Seq(S) /\ e \in S
  BY <1>1 DEF Listed
<1>3. /\ t \in Seq(S) /\ Len(t) = Len(s) + 1
      /\ \A i \in 1 .. Len(s) : t[i] = s[i]
      /\ t[Len(s) + 1] = e
  BY <1>2, AppendProperties
<1>4. DOMAIN t = 1 .. Len(s) + 1
  BY <1>1, <1>3, LenProperties
<1>5. Listed(t)
  BY <1>3, <1>4 DEF Listed
<1>. QED
  BY <1>1, <1>3, <1>4, <1>5 DEF Longer

\* Every step adds to what there is.
LEMMA NextGrows ==
  ASSUME IInv, [Next]_vars
  PROVE  Grows /\ Listed(bronze)' /\ Listed(versions)'
<1>. DEFINE Added == Grows /\ Listed(bronze)' /\ Listed(versions)'
<1>1. Listed(bronze) /\ Listed(versions)
  BY DEF IInv
<1>2. ASSUME bronze' = bronze PROVE Listed(bronze)'
  BY <1>1, <1>2
<1>3. ASSUME versions' = versions PROVE Listed(versions)'
  BY <1>1, <1>3
<1>4. ASSUME NEW run, Commit(run) PROVE Added
  <2>1. bronze' = Append(bronze, run) /\ versions' = versions /\ adopted' = adopted
    BY <1>4 DEF Commit
  <2>2. Longer(bronze, run, bronze')
    BY <1>1, <2>1, Appended
  <2>. QED
    BY <1>3, <2>1, <2>2, RunsAreNumbered DEF Longer, Grows, RunIds, VersionIds
<1>5. ASSUME NEW m, Promote(m) PROVE Added
  <2>1. versions' = Append(versions, m) /\ bronze' = bronze /\ adopted' = adopted
    BY <1>5 DEF Promote
  <2>2. Longer(versions, m, versions')
    BY <1>1, <2>1, Appended
  <2>. QED
    BY <1>2, <2>1, <2>2 DEF Longer, Grows, RunIds, VersionIds
<1>6. ASSUME NEW v, Adopt(v) PROVE Added
  BY <1>2, <1>3, <1>6, RunsAreNumbered DEF Adopt, Grows, RunIds, VersionIds
<1>7. ASSUME UNCHANGED vars PROVE Added
  BY <1>2, <1>3, <1>7, RunsAreNumbered DEF vars, Grows, RunIds, VersionIds
<1>. HIDE DEF Added
<1>8. ASSUME Acquire PROVE Added
  <2>1. CASE \E rows \in Responses["primary"] : CommitIncremental(rows)
    BY <1>4, <2>1 DEF CommitIncremental
  <2>2. CASE \E v \in Pinned, rows \in Responses["identity"] :
               \E asked \in SUBSET Members(v) : CommitRefresh(v, asked, rows)
    BY <1>4, <2>2 DEF CommitRefresh
  <2>3. CASE \E v \in {0} \cup Pinned, complete \in BOOLEAN,
                scan \in Responses["scope_scan"], check \in Responses["baseline_check"] :
               \E batch \in SUBSET (IF v = 0 THEN {} ELSE Members(v)) :
                 CommitCampaign(v, scan, check, batch, complete)
    BY <1>4, <2>3 DEF CommitCampaign
  <2>. QED
    BY <1>8, <2>1, <2>2, <2>3 DEF Acquire
<1>9. ASSUME Build PROVE Added
  BY <1>5, <1>9 DEF Build, BuildStandalone, BuildPopulation
<1>10. Added
  BY <1>6, <1>7, <1>8, <1>9 DEF Next
<1>. QED
  BY <1>10 DEF Added

\* What a row of a committed run says stays.
LEMMA RowsStay ==
  ASSUME Grows, NEW o, o[1] \in RunIds
  PROVE  /\ Row(o)' = Row(o) /\ Key(o)' = Key(o)
         /\ Fetched(o)' = Fetched(o) /\ Codes(o)' = Codes(o)
<1>1. bronze'[o[1]] = bronze[o[1]]
  BY DEF Grows
<1>2. Row(o)' = Row(o) /\ Fetched(o)' = Fetched(o)
  BY <1>1 DEF Row, Fetched, Checked
<1>. QED
  BY <1>2 DEF Key, Codes

\* What runs hold stays.
LEMMA ObservationsStay ==
  ASSUME IInv, Grows, NEW runs, runs \subseteq RunIds
  PROVE  /\ Observations(runs)' = Observations(runs)
         /\ Accepted(runs)' = Accepted(runs) /\ Rejected(runs)' = Rejected(runs)
         /\ Campaigns(runs)' = Campaigns(runs) /\ Refreshes(runs)' = Refreshes(runs)
         /\ \A o \in Observations(runs) :
              /\ Row(o)' = Row(o) /\ Key(o)' = Key(o) /\ Fetched(o)' = Fetched(o)
              /\ Codes(o)' = Codes(o)
         /\ \A o, p \in Observations(runs) : Newer(o, p)' = Newer(o, p)
<1>1. \A r \in runs : bronze'[r] = bronze[r]
  BY DEF Grows
<1>2. Observations(runs)' = Observations(runs)
  BY <1>1 DEF Observations
<1>3. \A o \in Observations(runs) :
        /\ Row(o)' = Row(o) /\ Key(o)' = Key(o) /\ Fetched(o)' = Fetched(o)
        /\ Codes(o)' = Codes(o)
  BY ObservationOf, RowsStay
<1>4. \A o, p \in Observations(runs) : Newer(o, p)' = Newer(o, p)
  BY <1>3 DEF Newer
<1>5. Accepted(runs)' = Accepted(runs) /\ Rejected(runs)' = Rejected(runs)
  BY <1>2, <1>3 DEF Accepted, Rejected
<1>6. Campaigns(runs)' = Campaigns(runs) /\ Refreshes(runs)' = Refreshes(runs)
  BY <1>1 DEF Campaigns, Refreshes
<1>. QED
  BY <1>2, <1>3, <1>4, <1>5, <1>6

\* The rows of a version are observations of its runs.
LEMMA RowsOfVersion ==
  ASSUME IInv, NEW v \in VersionIds
  PROVE  /\ versions[v].runs \subseteq RunIds
         /\ \A k \in DOMAIN versions[v].table :
              /\ versions[v].table[k] \in Accepted(versions[v].runs)
              /\ versions[v].table[k] \in Observations(versions[v].runs)
<1>1. VersionSound(v, versions[v])
  BY DEF IInv
<1>. QED
  BY <1>1 DEF VersionSound, TableSound, Accepted

\* What a version says stays.
LEMMA VersionsStay ==
  ASSUME IInv, Grows, NEW v \in VersionIds
  PROVE  /\ versions'[v] = versions[v]
         /\ Members(v)' = Members(v) /\ Keys(v)' = Keys(v)
         /\ Authority(v) => Authority(v)'
         /\ BundleHolds(v) => BundleHolds(v)'
<1>1. versions'[v] = versions[v] /\ adopted \subseteq adopted'
  BY DEF Grows
<1>2. PICK m : m = versions[v]
  OBVIOUS
<1>3. m.runs \subseteq RunIds /\ \A k \in DOMAIN m.table : m.table[k] \in Observations(m.runs)
  BY <1>2, RowsOfVersion
<1>4. \A k \in DOMAIN m.table : Row(m.table[k])' = Row(m.table[k])
  BY <1>3, ObservationsStay
<1>5. Members(v)' = Members(v)
  BY <1>1, <1>2, <1>4 DEF Members
<1>6. Keys(v)' = Keys(v) /\ (Authority(v) => Authority(v)')
  BY <1>1 DEF Keys, Authority
<1>7. Campaigns(m.runs)' = Campaigns(m.runs) /\ Refreshes(m.runs)' = Refreshes(m.runs)
  BY <1>3, ObservationsStay
<1>8. PurposesHold(m) => PurposesHold(m)'
  BY <1>7 DEF PurposesHold
<1>9. TableHolds(m)' = TableHolds(m) /\ AccountingHolds(m)' = AccountingHolds(m)
  BY DEF TableHolds, AccountingHolds
<1>10. BundleHolds(v) = (TableHolds(m) /\ AccountingHolds(m) /\ PurposesHold(m))
  BY <1>2 DEF BundleHolds
<1>11. BundleHolds(v)' = (TableHolds(m)' /\ AccountingHolds(m)' /\ PurposesHold(m)')
  BY <1>1, <1>2 DEF BundleHolds
<1>. QED
  BY <1>1, <1>5, <1>6, <1>8, <1>9, <1>10, <1>11

\* What a run holds of the source, and of the version it pins, stays.
LEMMA RunStays ==
  ASSUME IInv, Grows, NEW r \in RunIds
  PROVE  RunSound(r)'
<1>1. PICK run : run = bronze[r]
  OBVIOUS
<1>2. bronze'[r] = run
  BY <1>1 DEF Grows
<1>3. RunSound(r)
  BY DEF IInv
<1>4. run.base \in {0} \cup VersionIds /\ VersionIds \subseteq VersionIds'
  BY <1>1, <1>3 DEF RunSound, Grows
<1>5. ASSUME run.base # 0 PROVE Members(run.base)' = Members(run.base)
  <2>1. run.base \in VersionIds
    BY <1>4, <1>5
  <2>. QED
    BY <2>1, VersionsStay
<1>. QED
  BY <1>1, <1>2, <1>3, <1>4, <1>5 DEF RunSound, Contains

\* What a population says stays, of its runs and of the versions before it.
LEMMA PopulationStays ==
  ASSUME IInv, Grows, NEW m, NEW f, PopulationHolds(m, f),
         m.runs \subseteq RunIds, m.campaigns \subseteq RunIds, TableHolds(m),
         m.base \in {0} \cup VersionIds,
         \A node \in m.nodes : node.version \in VersionIds,
         m.drift \subseteq Observations(m.campaigns)
  PROVE  PopulationHolds(m, f)'
<1>1. \A r \in RunIds : bronze'[r] = bronze[r]
  BY DEF Grows
<1>2. CoverageHolds(m)' /\ m.campaigns \subseteq Campaigns(m.runs)'
      /\ m.unconfirmed = UNION {bronze'[r].missing : r \in m.campaigns}
  <2>1. CoverageHolds(m) /\ m.campaigns \subseteq Campaigns(m.runs)
        /\ m.unconfirmed = UNION {bronze[r].missing : r \in m.campaigns}
    BY DEF PopulationHolds
  <2>2. \A r \in m.campaigns : bronze'[r] = bronze[r]
    BY <1>1
  <2>3. Campaigns(m.runs)' = Campaigns(m.runs)
    BY ObservationsStay
  <2>4. CoverageHolds(m)'
    BY <2>1, <2>2 DEF CoverageHolds
  <2>5. UNION {bronze'[r].missing : r \in m.campaigns}
          = UNION {bronze[r].missing : r \in m.campaigns}
    BY <2>2
  <2>. QED
    BY <2>1, <2>3, <2>4, <2>5
<1>3. ReconciliationHolds(m)'
  BY DEF PopulationHolds, ReconciliationHolds
<1>4. ConditionsHold(m)'
  <2>1. ConditionsHold(m) /\ \A l \in m.links : l.reject[1] \in m.runs
    BY DEF PopulationHolds
  <2>2. \A k \in DOMAIN m.table : m.table[k][1] \in m.runs
    BY DEF TableHolds
  <2>3. \A k \in DOMAIN m.table : State(m.links, k)' = State(m.links, k)
    BY DEF State
  <2>4. ASSUME NEW l \in m.links
        PROVE  l.key \in DOMAIN m.table /\ l.relation = Relation(l.reject, m.table[l.key])'
    <3>1. l.key \in DOMAIN m.table /\ l.relation = Relation(l.reject, m.table[l.key])
      BY <2>1 DEF ConditionsHold
    <3>2. Fetched(l.reject)' = Fetched(l.reject)
      BY <2>1, RowsStay
    <3>3. m.table[l.key][1] \in RunIds
      BY <2>2, <3>1
    <3>4. Fetched(m.table[l.key])' = Fetched(m.table[l.key])
      BY <3>3, RowsStay
    <3>. QED
      BY <3>1, <3>2, <3>4 DEF Relation
  <2>. QED
    BY <2>1, <2>3, <2>4 DEF ConditionsHold
<1>5. BaselineHolds(m, f)'
  <2>1. BaselineHolds(m, f)
    BY DEF PopulationHolds
  <2>2. CASE m.base = 0
    BY <2>1, <2>2 DEF BaselineHolds
  <2>3. CASE m.base # 0
    <3>1. /\ versions'[m.base] = versions[m.base]
          /\ Members(m.base)' = Members(m.base) /\ Keys(m.base)' = Keys(m.base)
          /\ Authority(m.base) => Authority(m.base)'
      BY <2>3, VersionsStay
    <3>2. \A o \in m.drift : Row(o)' = Row(o)
      BY ObservationsStay
    <3>3. {Row(o).id : o \in m.drift}' = {Row(o).id : o \in m.drift}
      BY <3>2
    <3>. QED
      BY <2>1, <2>3, <3>1, <3>3 DEF BaselineHolds
  <2>. QED
    BY <2>2, <2>3
<1>6. NodesHold(m, f)'
  <2>1. NodesHold(m, f)
    BY DEF PopulationHolds
  <2>2. \A node \in m.nodes : versions'[node.version] = versions[node.version]
    BY DEF Grows
  <2>3. Refreshes(m.runs)' = Refreshes(m.runs)
    BY ObservationsStay
  <2>. QED
    BY <2>1, <2>2, <2>3 DEF NodesHold
<1>7. \A o \in m.drift : o[1] \in m.campaigns /\ ~Contains(Row(o).signed)'
  <2>1. \A o \in m.drift : o[1] \in m.campaigns /\ ~Contains(Row(o).signed)
    BY DEF PopulationHolds
  <2>2. \A o \in m.drift : Row(o)' = Row(o)
    BY <2>1, RowsStay
  <2>. QED
    BY <2>1, <2>2 DEF Contains
<1>8. RowsInScope(m.table)' = RowsInScope(m.table)
  <2>1. \A k \in DOMAIN m.table : m.table[k][1] \in RunIds
    BY DEF TableHolds
  <2>2. \A k \in DOMAIN m.table : Row(m.table[k])' = Row(m.table[k])
    BY <2>1, RowsStay
  <2>. QED
    BY <2>2 DEF RowsInScope, Contains
<1>9. /\ m.unattributable = m.counts.rejected - Cardinality(m.links)
      /\ \A l \in m.links : l.reject[1] \in m.runs
      /\ m.mode = "authoritative" =>
           m.drift = {} /\ m.baseKeys \subseteq DOMAIN m.table /\ RowsInScope(m.table)
  BY DEF PopulationHolds
<1>. QED
  BY <1>2, <1>3, <1>4, <1>5, <1>6, <1>7, <1>8, <1>9 DEF PopulationHolds

\* The table of a version is still the newest of what its runs hold.
LEMMA TableStays ==
  ASSUME IInv, Grows, NEW m, m.runs \subseteq RunIds, TableSound(m)
  PROVE  TableSound(m)'
<1>1. /\ Accepted(m.runs)' = Accepted(m.runs)
      /\ \A o \in Accepted(m.runs) : Key(o)' = Key(o)
      /\ \A o, p \in Accepted(m.runs) : Newer(o, p)' = Newer(o, p)
  BY ObservationsStay DEF Accepted
<1>2. {Key(o) : o \in Accepted(m.runs)}' = {Key(o) : o \in Accepted(m.runs)}
  BY <1>1
<1>. QED
  BY <1>1, <1>2 DEF TableSound

\* Drift is of observations, and stays.
LEMMA DriftStays ==
  ASSUME IInv, Grows, NEW base \in {0} \cup VersionIds, NEW campaigns, campaigns \subseteq RunIds
  PROVE  Drift(base, campaigns)' = Drift(base, campaigns)
<1>1. /\ Observations(campaigns)' = Observations(campaigns)
      /\ \A o \in Observations(campaigns) : Row(o)' = Row(o)
  BY ObservationsStay
<1>2. base # 0 => Members(base)' = Members(base)
  BY VersionsStay
<1>. QED
  BY <1>1, <1>2 DEF Drift, Contains

\* A version, or one about to be promoted, stays sound.
LEMMA SoundStays ==
  ASSUME IInv, Grows, NEW v \in 1 .. Len(versions) + 1, NEW m, VersionSound(v, m)
  PROVE  VersionSound(v, m)'
<1>1. Len(versions) \in Nat /\ VersionIds = 1 .. Len(versions)
  BY RunsAreNumbered
<1>2. /\ m.runs \subseteq RunIds
      /\ m.base \in 0 .. v - 1 /\ m.refreshed \in 0 .. v - 1
      /\ \A b \in {m.base, m.refreshed} \ {0} : versions[b].runs \subseteq m.runs
      /\ \A node \in m.nodes : node.version \in 0 .. v - 1
      /\ TableSound(m) /\ TableHolds(m) /\ AccountingHolds(m) /\ PurposesHold(m)
      /\ \/ m.envelope = 2 /\ m.mode \in {"legacy", "preview"} /\ m.base = 0 /\ Refreshing(m)
         \/ /\ m.envelope = 3 /\ m.mode \in {"preview", "authoritative"} /\ m.refreshed = 0
            /\ Reconciling(m)
  BY DEF VersionSound, Before
<1>3. m.base \in {0} \cup VersionIds /\ m.refreshed \in {0} \cup VersionIds
  BY <1>1, <1>2
<1>4. \A b \in VersionIds : versions'[b] = versions[b]
  BY DEF Grows
<1>5. m.runs \subseteq RunIds'
      /\ \A b \in {m.base, m.refreshed} \ {0} : versions'[b].runs \subseteq m.runs
  BY <1>2, <1>3, <1>4 DEF Grows
<1>6. TableSound(m)'
  BY <1>2, TableStays
<1>7. PurposesHold(m)'
  <2>1. Campaigns(m.runs)' = Campaigns(m.runs) /\ Refreshes(m.runs)' = Refreshes(m.runs)
    BY <1>2, ObservationsStay
  <2>. QED
    BY <1>2, <2>1 DEF PurposesHold
<1>8. ASSUME Refreshing(m) PROVE Refreshing(m)'
  <2>1. Refreshes(m.runs)' = Refreshes(m.runs)
    BY <1>2, ObservationsStay
  <2>2. ASSUME m.refreshed # 0
        PROVE  /\ BundleHolds(m.refreshed)' /\ DOMAIN m.table = Keys(m.refreshed)'
               /\ m.dependencies = versions'[m.refreshed].runs
    <3>1. BundleHolds(m.refreshed) /\ DOMAIN m.table = Keys(m.refreshed)
          /\ m.dependencies = versions[m.refreshed].runs
      BY <1>8, <2>2 DEF Refreshing
    <3>2. m.refreshed \in VersionIds
      BY <1>3, <2>2
    <3>3. BundleHolds(m.refreshed) => BundleHolds(m.refreshed)'
      BY <3>2, VersionsStay
    <3>4. Keys(m.refreshed)' = Keys(m.refreshed) /\ versions'[m.refreshed] = versions[m.refreshed]
      BY <3>2, VersionsStay
    <3>. QED
      BY <3>1, <3>3, <3>4
  <2>. QED
    BY <1>8, <2>1, <2>2 DEF Refreshing
<1>9. ASSUME Reconciling(m) PROVE Reconciling(m)'
  <2>1. PICK f, g : f = [w \in 0 .. Len(versions) |-> w # 0]
                    /\ g = [w \in 0 .. Len(versions') |-> w # 0]
    OBVIOUS
  <2>2. PopulationHolds(m, f)
    BY <1>9, <2>1 DEF Reconciling
  <2>3. /\ Len(versions') \in Nat /\ Len(versions) <= Len(versions')
    BY DEF Grows
  <2>4. \A node \in m.nodes : node.version \in 0 .. Len(versions)
    BY <1>1, <1>2
  <2>5. ASSUME NEW w \in 0 .. Len(versions), f[w] PROVE g[w] /\ w # 0
    <3>1. w # 0
      BY <2>1, <2>5
    <3>2. w \in 0 .. Len(versions')
      BY <1>1, <2>3
    <3>. QED
      BY <2>1, <3>1, <3>2
  <2>6. PopulationHolds(m, g)
    <3>1. m.base # 0 /\ f[m.base] => g[m.base]
      BY <1>1, <1>2, <2>5
    <3>2. \A node \in m.nodes : f[node.version] => g[node.version]
      BY <2>4, <2>5
    <3>. QED
      BY <2>2, <3>1, <3>2, PopulationAsks
  <2>7. ASSUME NEW node \in m.nodes PROVE node.version \in VersionIds
    <3>1. f[node.version]
      BY <2>2 DEF PopulationHolds, NodesHold
    <3>2. node.version \in 0 .. Len(versions) /\ node.version # 0
      BY <2>4, <2>5, <3>1
    <3>. QED
      BY <1>1, <3>2
  <2>8. m.campaigns \subseteq RunIds
    BY <1>2, <2>2 DEF PopulationHolds, CoverageHolds
  <2>9. m.drift = Drift(m.base, m.campaigns) /\ m.drift \subseteq Observations(m.campaigns)
    BY <1>9 DEF Reconciling, Drift
  <2>10. PopulationHolds(m, g)'
    BY <1>2, <1>3, <2>6, <2>7, <2>8, <2>9, PopulationStays
  <2>11. PopulationHolds(m, [w \in 0 .. Len(versions) |-> w # 0])'
    BY <2>1, <2>10
  <2>12. m.drift = Drift(m.base, m.campaigns)'
    BY <1>3, <2>8, <2>9, DriftStays
  <2>13. m.runs = Closure(m.base, m.campaigns)'
    <3>1. m.runs = Closure(m.base, m.campaigns)
      BY <1>9 DEF Reconciling
    <3>. QED
      BY <1>3, <1>4, <3>1 DEF Closure
  <2>14. \A r \in m.campaigns : bronze'[r].base = m.base
    BY <1>9, <2>8 DEF Reconciling, Grows
  <2>15. m.counts.rejected = Cardinality(Rejected(m.runs))'
         /\ \A l \in m.links : l.reject \in Rejected(m.runs)' /\ l.key = Key(l.reject)'
    <3>1. Rejected(m.runs)' = Rejected(m.runs)
          /\ \A o \in Rejected(m.runs) : Key(o)' = Key(o)
      BY <1>2, ObservationsStay DEF Rejected
    <3>2. m.counts.rejected = Cardinality(Rejected(m.runs))
          /\ \A l \in m.links : l.reject \in Rejected(m.runs) /\ l.key = Key(l.reject)
      BY <1>9 DEF Reconciling
    <3>. QED
      BY <3>1, <3>2
  <2>. QED
    BY <2>11, <2>12, <2>13, <2>14, <2>15 DEF Reconciling
<1>10. TableHolds(m)' /\ AccountingHolds(m)'
  BY <1>2 DEF TableHolds, AccountingHolds
<1>. QED
  BY <1>2, <1>5, <1>6, <1>7, <1>8, <1>9, <1>10 DEF VersionSound, Before

-----------------------------------------------------------------------------
(* Steps *)

\* A committed run is the last, and says what it was committed with.
LEMMA RunIsCommitted ==
  ASSUME IInv, Grows, NEW run, Commit(run),
         run.rows \in Seq(RawRows),
         run.base \in {0} \cup VersionIds,
         run.purpose \in {"incremental", "identity_refresh", "population_reconciliation"},
         run.purpose = "identity_refresh" => run.base # 0,
         run.purpose = "population_reconciliation" =>
           \A i \in DOMAIN run.rows :
             IF i <= run.scanned
             THEN Contains(run.rows[i].signed) \/ run.rows[i].signed = Unreadable
             ELSE run.base # 0 /\ run.rows[i].id \in Members(run.base)
  PROVE  \A r \in RunIds' : RunSound(r)'
<1>1. Longer(bronze, run, bronze')
  BY Appended DEF IInv, Commit
<1>2. PICK n : n = Len(bronze) + 1
  OBVIOUS
<1>3. bronze'[n] = run /\ RunIds' = RunIds \cup {n}
  BY <1>1, <1>2, RunsAreNumbered DEF Longer, RunIds
<1>4. \A r \in RunIds : RunSound(r)'
  BY RunStays
<1>5. VersionIds \subseteq VersionIds'
  BY DEF Grows
<1>6. ASSUME run.base # 0 PROVE Members(run.base)' = Members(run.base)
  <2>1. run.base \in VersionIds
    BY <1>6
  <2>. QED
    BY <2>1, VersionsStay
<1>7. RunSound(n)'
  BY <1>3, <1>5, <1>6 DEF RunSound, Contains
<1>. QED
  BY <1>3, <1>4, <1>7

\* What is acquired is sound.
LEMMA AcquireSound ==
  ASSUME IInv, Grows, Acquire
  PROVE  \A r \in RunIds' : RunSound(r)'
<1>. DEFINE Done == \A r \in RunIds' : RunSound(r)'
<1>1. ASSUME NEW rows \in Responses["primary"], CommitIncremental(rows) PROVE Done
  <2>1. rows \in Seq(RawRows)
    BY RowAssumption
  <2>2. PICK run : run = [purpose |-> "incremental", rows |-> rows, scanned |-> Len(rows),
                          base |-> 0, missing |-> {}, complete |-> TRUE]
    OBVIOUS
  <2>3. Commit(run) /\ run.rows \in Seq(RawRows) /\ run.base = 0 /\ run.purpose = "incremental"
    BY <1>1, <2>1, <2>2 DEF CommitIncremental
  <2>. QED
    BY <2>3, RunIsCommitted
<1>2. ASSUME NEW v \in Pinned, NEW rows \in Responses["identity"], NEW asked,
             CommitRefresh(v, asked, rows)
      PROVE  Done
  <2>1. rows \in Seq(RawRows) /\ v \in VersionIds /\ v # 0
    BY RowAssumption, RunsAreNumbered DEF Pinned
  <2>2. PICK run : run = [purpose |-> "identity_refresh", rows |-> rows, scanned |-> Len(rows),
                          base |-> v, missing |-> asked \ IdsOf(rows), complete |-> TRUE]
    OBVIOUS
  <2>3. Commit(run) /\ run.rows \in Seq(RawRows) /\ run.base = v /\ run.purpose = "identity_refresh"
    BY <1>2, <2>1, <2>2 DEF CommitRefresh
  <2>. QED
    BY <2>1, <2>3, RunIsCommitted
<1>3. ASSUME NEW v \in {0} \cup Pinned, NEW complete \in BOOLEAN,
             NEW scan \in Responses["scope_scan"], NEW check \in Responses["baseline_check"],
             NEW batch, CommitCampaign(v, scan, check, batch, complete)
      PROVE  Done
  <2>1. scan \in Seq(RawRows) /\ check \in Seq(RawRows) /\ v \in {0} \cup VersionIds
    BY RowAssumption DEF Pinned
  <2>2. PICK rows : rows = scan \o check
    OBVIOUS
  <2>3. /\ rows \in Seq(RawRows) /\ Len(rows) = Len(scan) + Len(check)
        /\ \A i \in 1 .. Len(scan) + Len(check) :
             rows[i] = IF i <= Len(scan) THEN scan[i] ELSE check[i - Len(scan)]
    BY <2>1, <2>2, ConcatProperties
  <2>4. /\ Len(scan) \in Nat /\ DOMAIN scan = 1 .. Len(scan)
        /\ Len(check) \in Nat /\ DOMAIN check = 1 .. Len(check)
        /\ DOMAIN rows = 1 .. Len(rows)
    BY <2>1, <2>3, LenProperties
  <2>5. /\ \A i \in DOMAIN scan : scan[i].signed \in InScope \cup {Unreadable}
        /\ \A i \in DOMAIN check : check[i].id \in batch
        /\ batch \subseteq (IF v = 0 THEN {} ELSE Members(v))
    BY <1>3 DEF CommitCampaign, ScanAccepted, CheckAccepted, IdsOf
  <2>6. ASSUME NEW i \in DOMAIN rows
        PROVE  IF i <= Len(scan)
               THEN Contains(rows[i].signed) \/ rows[i].signed = Unreadable
               ELSE v # 0 /\ rows[i].id \in Members(v)
    <3>1. CASE i <= Len(scan)
      <4>1. i \in DOMAIN scan /\ rows[i] = scan[i]
        BY <2>3, <2>4, <3>1
      <4>. QED
        BY <2>5, <3>1, <4>1 DEF Contains
    <3>2. CASE ~(i <= Len(scan))
      <4>1. i - Len(scan) \in DOMAIN check /\ rows[i] = check[i - Len(scan)]
        BY <2>3, <2>4, <3>2
      <4>2. rows[i].id \in batch
        BY <2>5, <4>1
      <4>. QED
        BY <2>5, <3>2, <4>2
    <3>. QED
      BY <3>1, <3>2
  <2>7. PICK run : run = [purpose |-> "population_reconciliation", rows |-> rows,
                          scanned |-> Len(scan), base |-> v,
                          missing |-> batch \ IdsOf(check), complete |-> complete]
    OBVIOUS
  <2>8. /\ Commit(run) /\ run.rows = rows /\ run.base = v /\ run.scanned = Len(scan)
        /\ run.purpose = "population_reconciliation"
    BY <1>3, <2>2, <2>7 DEF CommitCampaign
  <2>. QED
    BY <2>1, <2>3, <2>6, <2>8, RunIsCommitted
<1>. HIDE DEF Done
<1>4. ASSUME \E rows \in Responses["primary"] : CommitIncremental(rows) PROVE Done
  BY <1>1, <1>4
<1>5. ASSUME \E v \in Pinned, rows \in Responses["identity"] :
               \E asked \in SUBSET Members(v) : CommitRefresh(v, asked, rows)
      PROVE  Done
  BY <1>2, <1>5
<1>6. ASSUME \E v \in {0} \cup Pinned, complete \in BOOLEAN,
                scan \in Responses["scope_scan"], check \in Responses["baseline_check"] :
               \E batch \in SUBSET (IF v = 0 THEN {} ELSE Members(v)) :
                 CommitCampaign(v, scan, check, batch, complete)
      PROVE  Done
  BY <1>3, <1>6
<1>7. Done
  BY <1>4, <1>5, <1>6 DEF Acquire
<1>. QED
  BY <1>7 DEF Done

\* The table of a version that passes the controls is sound, and counted.
LEMMA TableIsCounted ==
  ASSUME IInv, NEW m, m.runs \subseteq RunIds, QualityPasses(m.runs),
         m.table = Table(m.runs), m.counts = Counts(m.runs)
  PROVE  TableSound(m) /\ TableHolds(m) /\ AccountingHolds(m)
<1>1. PICK runs : runs = m.runs
  OBVIOUS
<1>2. TableSound(m)
  BY <1>1, TableIsSound DEF TableSound
<1>3. TableHolds(m)
  BY <1>1, TableIsSound, ObservationOf DEF TableHolds, Accepted
<1>4. AccountingHolds(m)
  <2>1. {KeyOf[row.id] : row \in {Row(o) : o \in Accepted(runs)}} = {Key(o) : o \in Accepted(runs)}
    BY DEF Key
  <2>2. Counts(runs).output = Cardinality(DOMAIN Table(runs))
    BY <1>1, <2>1, TableIsSound DEF Counts
  <2>3. Counts(runs).input = Counts(runs).output + Counts(runs).rejected
                               + Counts(runs).exact + Counts(runs).superseded
    BY <1>1 DEF QualityPasses
  <2>. QED
    BY <1>1, <2>2, <2>3 DEF AccountingHolds
<1>. QED
  BY <1>2, <1>3, <1>4

\* A version built from named runs is sound.
LEMMA StandaloneSound ==
  ASSUME IInv, NEW runs, runs \subseteq RunIds, NEW mode \in {"legacy", "preview"},
         NEW v \in {0} \cup VersionIds,
         Campaigns(runs) = {}, BaselineOfRefresh(runs, v), QualityPasses(runs)
  PROVE  VersionSound(Len(versions) + 1, Standalone(runs, mode, v))
<1>1. PICK m : m = Standalone(runs, mode, v)
  OBVIOUS
<1>2. /\ m.envelope = 2 /\ m.mode = mode /\ m.runs = runs /\ m.base = 0 /\ m.refreshed = v
      /\ m.refreshes = Refreshes(runs) /\ m.table = Table(runs) /\ m.counts = Counts(runs)
      /\ m.dependencies = IF v = 0 THEN {} ELSE versions[v].runs
      /\ m.nodes = {}
  BY <1>1 DEF Standalone
<1>3. TableSound(m) /\ TableHolds(m) /\ AccountingHolds(m)
  BY <1>2, TableIsCounted
<1>4. Refreshes(runs) = {} => v = 0
  BY DEF BaselineOfRefresh
<1>5. ASSUME Refreshes(runs) # {}
      PROVE  v # 0 /\ versions[v].runs \subseteq runs /\ DOMAIN Table(runs) = Keys(v)
  <2>1. /\ Extended(runs) = {v} /\ versions[v].runs \subseteq runs
        /\ DOMAIN Table(runs) = Keys(v)
    BY <1>5 DEF BaselineOfRefresh
  <2>2. PICK r \in Refreshes(runs) : v = bronze[r].base
    BY <2>1 DEF Extended
  <2>3. bronze[r].base # 0
    BY <2>2 DEF Refreshes, IInv, RunSound
  <2>. QED
    BY <2>1, <2>2, <2>3
<1>6. PurposesHold(m)
  BY <1>2, <1>5 DEF PurposesHold
<1>7. Refreshing(m)
  <2>1. ASSUME v # 0 PROVE BundleHolds(v)
    <3>1. VersionSound(v, versions[v])
      BY <2>1 DEF IInv
    <3>. QED
      BY <3>1 DEF VersionSound, BundleHolds
  <2>. QED
    BY <1>2, <1>4, <1>5, <2>1 DEF Refreshing
<1>8. 0 \in 0 .. Len(versions) + 1 - 1 /\ v \in 0 .. Len(versions) + 1 - 1
  BY RunsAreNumbered
<1>9. VersionSound(Len(versions) + 1, m)
  BY <1>2, <1>3, <1>4, <1>5, <1>6, <1>7, <1>8 DEF VersionSound, Before
<1>. QED
  BY <1>1, <1>9

\* What a function makes of a finite set is no larger.
LEMMA ImageIsSmaller ==
  ASSUME NEW f, NEW S, f = [x \in S |-> f[x]], IsFiniteSet(S)
  PROVE  /\ IsFiniteSet({f[x] : x \in S})
         /\ Cardinality({f[x] : x \in S}) <= Cardinality(S)
         /\ (\A x, y \in S : f[x] = f[y] => x = y) =>
              Cardinality({f[x] : x \in S}) = Cardinality(S)
<1>1. f \in Surjection(S, {f[x] : x \in S})
  BY DEF Surjection
<1>2. (\A x, y \in S : f[x] = f[y] => x = y) => f \in Injection(S, {f[x] : x \in S})
  BY <1>1 DEF Surjection, Injection, IsInjective
<1>. QED
  BY <1>1, <1>2, FS_Surjection

\* No count is negative.
LEMMA CountsAreNatural ==
  ASSUME IInv, NEW runs, runs \subseteq RunIds
  PROVE  LET c == Counts(runs)
         IN /\ c.input \in Nat /\ c.output \in Nat /\ c.rejected \in Nat
            /\ c.exact \in Nat /\ c.superseded \in Nat
<1>. DEFINE accepted == Accepted(runs)
            payloads == {Row(o) : o \in accepted}
            output == {KeyOf[row.id] : row \in payloads}
<1>1. IsFiniteSet(Observations(runs))
  BY ObservationsFinite
<1>2. IsFiniteSet(accepted) /\ IsFiniteSet(Rejected(runs))
  BY <1>1, FS_Subset DEF Accepted, Rejected
<1>3. IsFiniteSet(payloads) /\ Cardinality(payloads) <= Cardinality(accepted)
  <2>1. PICK S, f : S = accepted /\ f = [o \in S |-> Row(o)]
    OBVIOUS
  <2>2. {f[o] : o \in S} = payloads /\ f = [o \in S |-> f[o]]
    BY <2>1
  <2>. QED
    BY <1>2, <2>1, <2>2, ImageIsSmaller
<1>4. IsFiniteSet(output) /\ Cardinality(output) <= Cardinality(payloads)
  <2>1. PICK S, f : S = payloads /\ f = [row \in S |-> KeyOf[row.id]]
    OBVIOUS
  <2>2. {f[row] : row \in S} = output /\ f = [row \in S |-> f[row]]
    BY <2>1
  <2>. HIDE DEF payloads
  <2>. QED
    BY <1>3, <2>1, <2>2, ImageIsSmaller
<1>5. /\ Cardinality(Observations(runs)) \in Nat /\ Cardinality(Rejected(runs)) \in Nat
      /\ Cardinality(accepted) \in Nat /\ Cardinality(payloads) \in Nat
      /\ Cardinality(output) \in Nat
  <2>. HIDE DEF accepted, payloads, output
  <2>. QED
    BY <1>1, <1>2, <1>3, <1>4, FS_CardinalityType
<1>6. Counts(runs) = [input |-> Cardinality(Observations(runs)),
                      output |-> Cardinality(output),
                      rejected |-> Cardinality(Rejected(runs)),
                      exact |-> Cardinality(accepted) - Cardinality(payloads),
                      superseded |-> Cardinality(payloads) - Cardinality(output)]
  BY DEF Counts
<1>. HIDE DEF accepted, payloads, output
<1>. QED
  BY <1>3, <1>4, <1>5, <1>6

\* A link is of one reject, which it attributes to its contract.
Linked(runs, table, links) ==
  /\ \A l \in links :
       /\ l.reject \in Rejected(runs) /\ l.reject[1] \in runs
       /\ l.key = Key(l.reject) /\ l.key \in DOMAIN table
       /\ l.relation = Relation(l.reject, table[l.key])
  /\ \A l, other \in links : l.reject = other.reject => l = other
  /\ Cardinality({l.reject : l \in links}) = Cardinality(links)
  /\ Cardinality({l.reject : l \in links}) \in Nat

\* The links that are written are such.
LEMMA LinksAreOfRejects ==
  ASSUME IInv, NEW runs, runs \subseteq RunIds, NEW table
  PROVE  Linked(runs, table, Links(runs, table))
<1>. DEFINE raw == {Row(o).id : o \in Observations(runs)}
            alone == {i \in raw : \A j \in raw \ {i} : KeyOf[j] # KeyOf[i]}
            attributed == {o \in Rejected(runs) : Row(o).id \in alone /\ Key(o) \in DOMAIN table}
            LinkOf(o) == [key |-> Key(o), reject |-> o, relation |-> Relation(o, table[Key(o)])]
            links == {LinkOf(o) : o \in attributed}
<1>1. Links(runs, table) = links
  BY DEF Links
<1>2. attributed \subseteq Rejected(runs) /\ \A o \in attributed : Key(o) \in DOMAIN table
  OBVIOUS
<1>. HIDE DEF attributed
<1>3. \A l \in links :
        /\ l.reject \in Rejected(runs)
        /\ l.key = Key(l.reject) /\ l.key \in DOMAIN table
        /\ l.relation = Relation(l.reject, table[l.key])
  BY <1>2
<1>4. \A o \in Rejected(runs) : o[1] \in runs
  BY ObservationOf DEF Rejected
<1>5. \A l, other \in links : l.reject = other.reject => l = other
  OBVIOUS
<1>6. IsFiniteSet(links)
  <2>1. IsFiniteSet(attributed)
    <3>1. IsFiniteSet(Observations(runs))
      BY ObservationsFinite
    <3>2. attributed \subseteq Observations(runs)
      BY <1>2 DEF Rejected
    <3>. QED
      BY <3>1, <3>2, FS_Subset
  <2>2. PICK S, f, T : S = attributed /\ f = [o \in S |-> LinkOf(o)] /\ T = links
    OBVIOUS
  <2>3. f = [o \in S |-> f[o]] /\ IsFiniteSet(S)
    BY <2>1, <2>2
  <2>4. T = {f[o] : o \in S}
    BY <2>2
  <2>5. IsFiniteSet({f[o] : o \in S})
    BY <2>3, ImageIsSmaller
  <2>. QED
    BY <2>2, <2>4, <2>5
<1>. HIDE DEF links
<1>7. PICK S, f : S = links /\ f = [l \in S |-> l.reject]
  OBVIOUS
<1>8. /\ {f[l] : l \in S} = {l.reject : l \in links} /\ f = [l \in S |-> f[l]]
      /\ \A x, y \in S : f[x] = f[y] => x = y
  BY <1>5, <1>7
<1>9. /\ Cardinality({l.reject : l \in links}) = Cardinality(links)
      /\ Cardinality(links) \in Nat
  BY <1>6, <1>7, <1>8, ImageIsSmaller, FS_CardinalityType
<1>. QED
  BY <1>1, <1>3, <1>4, <1>5, <1>9 DEF Linked

\* Nothing has no lineage.
LEMMA LineageOfNothing ==
  ASSUME IInv
  PROVE  Lineage(0) = {}
<1>1. PICK g : IsLine(g) /\ \A u : Lineage(u) = g[u]
  BY LineExists, LineageIsLine
<1>2. 0 \in 0 .. Len(versions)
  BY RunsAreNumbered
<1>3. g[0] = {}
  BY <1>1, <1>2 DEF IsLine
<1>. QED
  BY <1>1, <1>3

\* Nodes are earlier versions, and prove what they refresh.
Proving(nodes, runs) ==
  \A node \in nodes :
    /\ node.version \in VersionIds
    /\ versions[node.version].refreshed # 0
    /\ node.refreshes = versions[node.version].refreshes
    /\ versions[node.version].runs \subseteq runs
    /\ node.refreshes \subseteq Refreshes(runs)

\* The nodes of a baseline are such.
LEMMA NodesAreOfBaseline ==
  ASSUME IInv, NEW base \in {0} \cup VersionIds, NEW runs,
         base # 0 => versions[base].runs \subseteq runs
  PROVE  Proving(Nodes(base), runs)
<1>1. Len(versions) \in Nat /\ VersionIds = 1 .. Len(versions)
  BY RunsAreNumbered
<1>2. ASSUME NEW w \in Lineage(base), versions[w].refreshed # 0
      PROVE  /\ w \in VersionIds /\ versions[w].runs \subseteq runs
             /\ versions[w].refreshes \subseteq Refreshes(runs)
  <2>1. base # 0
    BY <1>2, LineageOfNothing
  <2>2. w \in 1 .. base /\ versions[w].runs \subseteq versions[base].runs
    BY <2>1, LineageIsEarlier
  <2>3. w \in VersionIds /\ versions[w].runs \subseteq runs
    BY <1>1, <2>1, <2>2
  <2>4. VersionSound(w, versions[w])
    BY <2>3 DEF IInv
  <2>5. Refreshing(versions[w])
    BY <1>2, <2>4 DEF VersionSound
  <2>6. versions[w].refreshes = Refreshes(versions[w].runs)
    BY <1>2, <2>5 DEF Refreshing
  <2>. QED
    BY <2>3, <2>6 DEF Refreshes
<1>. QED
  BY <1>2 DEF Nodes, Proving

\* A version built from a baseline and its campaigns is sound.
LEMMA PopulationSound ==
  ASSUME IInv, NEW campaigns, campaigns \subseteq RunIds, campaigns # {},
         NEW mode \in {"preview", "authoritative"}, NEW base \in {0} \cup VersionIds,
         \A r \in campaigns :
           bronze[r].purpose = "population_reconciliation" /\ bronze[r].base = base,
         BaselineAccepted(base),
         NEW m, m = Population(mode, base, campaigns),
         RefreshesProved(m), QualityPasses(m.runs), PopulationPasses(m)
  PROVE  VersionSound(Len(versions) + 1, m)
<1>1. PICK runs, table, links :
        /\ runs = Closure(base, campaigns) /\ table = Table(runs) /\ links = Links(runs, table)
  OBVIOUS
<1>2. /\ m.envelope = 3 /\ m.mode = mode /\ m.runs = runs /\ m.campaigns = campaigns
      /\ m.base = base /\ m.refreshed = 0 /\ m.refreshes = {} /\ m.table = table
      /\ m.counts = Counts(runs)
      /\ m.dependencies = IF base = 0 THEN {} ELSE versions[base].runs
      /\ m.baseKeys = IF base = 0 THEN {} ELSE Keys(base)
      /\ m.nodes = Nodes(base) /\ m.drift = Drift(base, campaigns)
      /\ m.unconfirmed = UNION {bronze[r].missing : r \in campaigns}
      /\ m.links = links /\ m.states = [k \in DOMAIN table |-> State(links, k)]
      /\ m.unattributable = Cardinality(Rejected(runs)) - Cardinality({l.reject : l \in links})
  BY <1>1 DEF Population
<1>3. Len(versions) \in Nat /\ VersionIds = 1 .. Len(versions)
  BY RunsAreNumbered
<1>4. base # 0 => versions[base].runs \subseteq RunIds
  BY DependenciesAreEarlier
<1>5. /\ runs \subseteq RunIds /\ campaigns \subseteq runs
      /\ base # 0 => versions[base].runs \subseteq runs
  BY <1>1, <1>4 DEF Closure
<1>6. TableSound(m) /\ TableHolds(m) /\ AccountingHolds(m) /\ PurposesHold(m)
  BY <1>1, <1>2, <1>5, TableIsCounted DEF PurposesHold
<1>7. CoverageHolds(m) /\ m.campaigns \subseteq Campaigns(m.runs)
  <2>1. CoverageHolds(m)
    BY <1>2, <1>5 DEF CoverageHolds, PopulationPasses
  <2>. QED
    BY <1>2, <1>5, <2>1 DEF Campaigns
<1>8. Linked(runs, table, links)
  BY <1>1, <1>5, LinksAreOfRejects
<1>9. m.counts.rejected = Cardinality(Rejected(runs))
  BY <1>2 DEF Counts
<1>10. ReconciliationHolds(m)
  <2>1. /\ m.counts.input \in Nat /\ m.counts.output \in Nat /\ m.counts.rejected \in Nat
        /\ m.counts.exact \in Nat /\ m.counts.superseded \in Nat
    BY <1>2, <1>5, CountsAreNatural
  <2>2. m.counts.input = m.counts.output + m.counts.rejected + m.counts.exact
                           + m.counts.superseded
    BY <1>6 DEF AccountingHolds
  <2>. QED
    BY <1>2, <1>8, <1>9, <2>1, <2>2 DEF ReconciliationHolds, Linked
<1>11. ConditionsHold(m)
  BY <1>2, <1>8 DEF ConditionsHold, Linked
<1>12. \A o \in m.drift : o[1] \in m.campaigns /\ ~Contains(Row(o).signed)
  <2>1. \A o \in Observations(campaigns) : o[1] \in campaigns
    BY ObservationOf
  <2>. QED
    BY <1>2, <2>1 DEF Drift
<1>13. PICK f : f = [w \in 0 .. Len(versions) |-> w # 0]
  OBVIOUS
<1>14. ASSUME NEW w \in VersionIds PROVE f[w]
  <2>1. w \in 0 .. Len(versions) /\ w # 0
    BY <1>3
  <2>. QED
    BY <1>13, <2>1
<1>15. BaselineHolds(m, f)
  <2>1. CASE base = 0
    BY <1>2, <2>1 DEF BaselineHolds, Drift
  <2>2. CASE base # 0
    <3>1. f[base] /\ Authority(base)
      BY <1>14, <2>2 DEF BaselineAccepted
    <3>2. {Row(o).id : o \in m.drift} \subseteq Members(base)
      BY <1>2 DEF Drift
    <3>. QED
      BY <1>2, <1>5, <2>2, <3>1, <3>2 DEF BaselineHolds
  <2>. QED
    BY <2>1, <2>2
<1>16. Proving(m.nodes, runs)
  <2>1. Proving(Nodes(base), runs)
    BY <1>5, NodesAreOfBaseline
  <2>. QED
    BY <1>2, <2>1
<1>17. NodesHold(m, f)
  <2>1. UNION {node.refreshes : node \in m.nodes} \subseteq Refreshes(runs)
    BY <1>16 DEF Proving
  <2>2. Refreshes(runs) \subseteq UNION {node.refreshes : node \in m.nodes}
    BY <1>2 DEF RefreshesProved
  <2>. QED
    BY <1>2, <1>14, <1>16, <2>1, <2>2 DEF NodesHold, Proving
<1>18. m.mode = "authoritative" =>
         m.drift = {} /\ m.baseKeys \subseteq DOMAIN m.table /\ RowsInScope(m.table)
  BY DEF PopulationPasses
<1>19. PopulationHolds(m, f)
  BY <1>2, <1>7, <1>8, <1>9, <1>10, <1>11, <1>12, <1>15, <1>17, <1>18
     DEF PopulationHolds, Linked
<1>20. Reconciling(m)
  <2>1. m.runs = Closure(m.base, m.campaigns) /\ \A r \in m.campaigns : bronze[r].base = m.base
    BY <1>1, <1>2
  <2>2. m.drift = Drift(m.base, m.campaigns) /\ m.counts.rejected = Cardinality(Rejected(m.runs))
    BY <1>2, <1>9
  <2>3. \A l \in m.links : l.reject \in Rejected(m.runs) /\ l.key = Key(l.reject)
    BY <1>2, <1>8 DEF Linked
  <2>. QED
    BY <1>13, <1>19, <2>1, <2>2, <2>3 DEF Reconciling
<1>21. m.base \in 0 .. Len(versions) + 1 - 1 /\ m.refreshed \in 0 .. Len(versions) + 1 - 1
       /\ \A node \in m.nodes : node.version \in 0 .. Len(versions) + 1 - 1
  BY <1>2, <1>3, <1>16 DEF Proving
<1>. QED
  BY <1>2, <1>5, <1>6, <1>20, <1>21 DEF VersionSound, Before

\* A promoted version is the last, and sound.
LEMMA VersionIsPromoted ==
  ASSUME IInv, Grows, NEW m, Promote(m), VersionSound(Len(versions) + 1, m)
  PROVE  \A v \in VersionIds' : VersionSound(v, versions[v])'
<1>1. Longer(versions, m, versions')
  BY Appended DEF IInv, Promote
<1>2. PICK n : n = Len(versions) + 1
  OBVIOUS
<1>3. /\ versions'[n] = m /\ VersionIds' = VersionIds \cup {n}
      /\ Len(versions) \in Nat /\ VersionIds = 1 .. Len(versions)
  BY <1>1, <1>2, RunsAreNumbered DEF Longer, VersionIds
<1>4. VersionSound(n, m)'
  BY <1>2, <1>3, SoundStays
<1>5. ASSUME NEW v \in VersionIds PROVE VersionSound(v, versions[v])'
  <2>1. PICK w : w = versions[v] /\ w = versions'[v]
    BY DEF Grows
  <2>2. VersionSound(v, versions[v])
    BY DEF IInv
  <2>3. VersionSound(v, w) /\ v \in 1 .. Len(versions) + 1
    BY <1>3, <2>1, <2>2
  <2>4. VersionSound(v, w)'
    BY <2>3, SoundStays
  <2>. QED
    BY <2>1, <2>4
<1>. QED
  BY <1>3, <1>4, <1>5

\* What is built is sound.
LEMMA BuildSound ==
  ASSUME IInv, Grows, Build
  PROVE  \A v \in VersionIds' : VersionSound(v, versions[v])'
<1>. DEFINE Done == \A v \in VersionIds' : VersionSound(v, versions[v])'
<1>1. ASSUME NEW runs \in SUBSET RunIds, NEW mode \in {"legacy", "preview"},
             NEW v \in {0} \cup VersionIds, BuildStandalone(runs, mode, v)
      PROVE  Done
  <2>1. /\ Campaigns(runs) = {} /\ BaselineOfRefresh(runs, v) /\ QualityPasses(runs)
        /\ Promote(Standalone(runs, mode, v))
    BY <1>1 DEF BuildStandalone
  <2>2. PICK m : m = Standalone(runs, mode, v)
    OBVIOUS
  <2>3. VersionSound(Len(versions) + 1, m) /\ Promote(m)
    BY <2>1, <2>2, StandaloneSound
  <2>. QED
    BY <2>3, VersionIsPromoted
<1>2. ASSUME NEW campaigns \in SUBSET RunIds, NEW mode \in {"preview", "authoritative"},
             NEW base \in {0} \cup VersionIds, BuildPopulation(mode, base, campaigns)
      PROVE  Done
  <2>1. PICK m : m = Population(mode, base, campaigns)
    OBVIOUS
  <2>2. /\ campaigns # {} /\ BaselineAccepted(base)
        /\ \A r \in campaigns :
             bronze[r].purpose = "population_reconciliation" /\ bronze[r].base = base
        /\ RefreshesProved(m) /\ QualityPasses(m.runs) /\ PopulationPasses(m)
        /\ Promote(m)
    BY <1>2, <2>1 DEF BuildPopulation
  <2>3. VersionSound(Len(versions) + 1, m)
    BY <2>1, <2>2, PopulationSound
  <2>. QED
    BY <2>2, <2>3, VersionIsPromoted
<1>. HIDE DEF Done
<1>3. Done
  BY <1>1, <1>2 DEF Build
<1>. QED
  BY <1>3 DEF Done

\* The invariant is inductive: what runs and versions were when they were written
\* survives every later acquisition, build and adoption.
THEOREM AssemblyInductive == Spec => []IInv
<1>1. Init => IInv
  <2>. SUFFICES ASSUME Init PROVE IInv
    OBVIOUS
  <2>1. bronze = <<>> /\ versions = <<>> /\ adopted = {}
    BY DEF Init
  <2>2. Listed(bronze) /\ Listed(versions)
    BY <2>1 DEF Listed
  <2>3. RunIds = {} /\ VersionIds = {}
    BY <2>1 DEF RunIds, VersionIds
  <2>. QED
    BY <2>1, <2>2, <2>3 DEF IInv
<1>2. IInv /\ [Next]_vars => IInv'
  <2>. SUFFICES ASSUME IInv, [Next]_vars PROVE IInv'
    OBVIOUS
  <2>1. Grows /\ Listed(bronze)' /\ Listed(versions)'
    BY NextGrows
  <2>2. \A r \in RunIds : RunSound(r)'
    BY <2>1, RunStays
  <2>3. ASSUME NEW v \in VersionIds PROVE VersionSound(v, versions[v])'
    <3>1. PICK w : w = versions[v] /\ w = versions'[v]
      BY <2>1 DEF Grows
    <3>2. VersionSound(v, versions[v])
      BY DEF IInv
    <3>3. VersionSound(v, w) /\ v \in 1 .. Len(versions) + 1
      BY <3>1, <3>2, RunsAreNumbered
    <3>4. VersionSound(v, w)'
      BY <2>1, <3>3, SoundStays
    <3>. QED
      BY <3>1, <3>4
  <2>4. \A r \in RunIds' : RunSound(r)'
    <3>1. CASE Acquire
      BY <2>1, <3>1, AcquireSound
    <3>2. CASE bronze' = bronze
      BY <2>2, <3>2 DEF RunIds
    <3>3. Acquire \/ bronze' = bronze
      BY DEF Next, vars, Build, BuildStandalone, BuildPopulation, Promote, Adopt
    <3>. QED
      BY <3>1, <3>2, <3>3
  <2>5. \A v \in VersionIds' : VersionSound(v, versions[v])'
    <3>1. CASE Build
      BY <2>1, <3>1, BuildSound
    <3>2. CASE versions' = versions
      BY <2>3, <3>2 DEF VersionIds
    <3>3. Build \/ versions' = versions
      BY DEF Next, vars, Acquire, CommitIncremental, CommitRefresh, CommitCampaign, Commit, Adopt
    <3>. QED
      BY <3>1, <3>2, <3>3
  <2>6. adopted' \subseteq {v \in VersionIds' : versions'[v].mode = "legacy"}
    <3>1. adopted \subseteq {v \in VersionIds : versions[v].mode = "legacy"}
      BY DEF IInv
    <3>2. \/ adopted' = adopted
          \/ \E v \in VersionIds : versions[v].mode = "legacy" /\ adopted' = {v}
      BY DEF Next, vars, Acquire, CommitIncremental, CommitRefresh, CommitCampaign, Commit,
             Build, BuildStandalone, BuildPopulation, Promote, Adopt
    <3>. QED
      BY <2>1, <3>1, <3>2 DEF Grows
  <2>. QED
    BY <2>1, <2>4, <2>5, <2>6 DEF IInv
<1>. QED
  BY <1>1, <1>2, PTL DEF Spec

-----------------------------------------------------------------------------
(* Properties *)

\* The warehouse's verifier accepts every version that the writer promotes, then
\* and after everything that is acquired, built or adopted later.
THEOREM AlwaysVerified == Spec => []WrittenIsVerified
<1>1. IInv => WrittenIsVerified
  BY SoundIsVerified DEF WrittenIsVerified
<1>. QED
  BY <1>1, AssemblyInductive, PTL

\* A version keeps every contract of the one it refreshes or continues, with the
\* same observation or a newer one.
THEOREM NeverOlder == Spec => []NothingOlder
<1>1. ASSUME IInv, NEW v \in VersionIds,
             NEW b \in {versions[v].base, versions[v].refreshed} \ {0}, NEW k \in Keys(b)
      PROVE  /\ k \in Keys(v)
             /\ \/ versions[v].table[k] = versions[b].table[k]
                \/ Newer(versions[v].table[k], versions[b].table[k])
  <2>1. b \in VersionIds /\ versions[b].runs \subseteq versions[v].runs
    BY <1>1, DependenciesAreEarlier
  <2>2. TableSound(versions[v]) /\ TableSound(versions[b])
    BY <1>1, <2>1 DEF IInv, VersionSound
  <2>3. Accepted(versions[b].runs) \subseteq Accepted(versions[v].runs)
    BY <2>1 DEF Accepted, Observations
  <2>4. k \in DOMAIN versions[b].table
    BY <1>1 DEF Keys
  <2>5. /\ versions[b].table[k] \in Accepted(versions[v].runs)
        /\ Key(versions[b].table[k]) = k
    BY <2>2, <2>3, <2>4 DEF TableSound
  <2>6. k \in DOMAIN versions[v].table
    BY <2>2, <2>5 DEF TableSound
  <2>. QED
    BY <2>2, <2>5, <2>6 DEF TableSound, Keys
<1>2. IInv => NothingOlder
  BY <1>1 DEF NothingOlder
<1>. QED
  BY <1>2, AssemblyInductive, PTL

\* Links as many as the rejects leave no reject unlinked.
LEMMA EveryRejectIsLinked ==
  ASSUME IInv, NEW v \in VersionIds, versions[v].envelope = 3, versions[v].unattributable = 0
  PROVE  \A o \in Rejected(versions[v].runs) :
           \E l \in versions[v].links : l.reject = o /\ l.key = Key(o)
<1>1. PICK m : m = versions[v]
  OBVIOUS
<1>2. VersionSound(v, m)
  BY <1>1 DEF IInv
<1>3. Reconciling(m) /\ m.runs \subseteq RunIds
  BY <1>1, <1>2 DEF VersionSound
<1>4. /\ m.counts.rejected = Cardinality(Rejected(m.runs))
      /\ \A l \in m.links : l.reject \in Rejected(m.runs) /\ l.key = Key(l.reject)
  BY <1>3 DEF Reconciling
<1>5. /\ m.unattributable = m.counts.rejected - Cardinality(m.links)
      /\ \A l, other \in m.links : l.reject = other.reject => l = other
  BY <1>3 DEF Reconciling, PopulationHolds, ConditionsHold
<1>6. IsFiniteSet(Rejected(m.runs))
  BY <1>3, ObservationsFinite, FS_Subset DEF Rejected
<1>7. PICK S, T, f : S = m.links /\ T = Rejected(m.runs) /\ f = [l \in S |-> l.reject]
  OBVIOUS
<1>8. f \in Injection(S, T)
  BY <1>4, <1>5, <1>7 DEF Injection, IsInjective
<1>9. /\ IsFiniteSet(S) /\ IsFiniteSet(T)
      /\ Cardinality(S) = Cardinality(T) <=> f \in Surjection(S, T)
  BY <1>6, <1>7, <1>8, FS_Injection
<1>10. Cardinality(S) \in Nat /\ Cardinality(T) \in Nat
  BY <1>9, FS_CardinalityType
<1>11. Cardinality(S) = Cardinality(T)
  BY <1>1, <1>4, <1>5, <1>7, <1>10
<1>12. \A o \in T : \E l \in S : f[l] = o
  BY <1>9, <1>11 DEF Surjection
<1>. QED
  BY <1>1, <1>4, <1>7, <1>12

\* A contract reported without later invalid observation has none at or after its
\* row, unless some reject could not be attributed.
THEOREM NeverHiddenReject == Spec => []NoHiddenReject
<1>1. ASSUME IInv, NEW v \in VersionIds,
             versions[v].envelope = 3, versions[v].unattributable = 0,
             NEW k \in Keys(v), versions[v].states[k] = "NO_LATER_INVALID_OBSERVED",
             NEW o \in Rejected(versions[v].runs), Key(o) = k
      PROVE  Fetched(o) < Fetched(versions[v].table[k])
  <2>1. PICK m : m = versions[v]
    OBVIOUS
  <2>2. VersionSound(v, m)
    BY <1>1, <2>1 DEF IInv
  <2>3. ConditionsHold(m)
    BY <1>1, <2>1, <2>2 DEF VersionSound, Reconciling, PopulationHolds
  <2>4. PICK l \in m.links : l.reject = o /\ l.key = k
    BY <1>1, <2>1, EveryRejectIsLinked
  <2>5. k \in DOMAIN m.table /\ m.states[k] = State(m.links, k)
    BY <1>1, <2>1, <2>3 DEF Keys, ConditionsHold
  <2>6. l.relation = Relation(o, m.table[k])
    BY <2>3, <2>4 DEF ConditionsHold
  <2>7. l.relation # "LATER" /\ l.relation # "EQUAL"
    BY <1>1, <2>1, <2>4, <2>5 DEF State
  <2>8. ~(Fetched(o) > Fetched(m.table[k])) /\ Fetched(o) # Fetched(m.table[k])
    BY <2>6, <2>7 DEF Relation
  <2>9. o \in Observations(m.runs) /\ m.table[k] \in Observations(m.runs) /\ m.runs \subseteq RunIds
    BY <1>1, <2>1, <2>5, RowsOfVersion DEF Rejected
  <2>10. Fetched(o) \in Int /\ Fetched(m.table[k]) \in Int
    <3>1. \A p \in Observations(m.runs) : p[1] \in Nat
      BY <1>1, <2>9, ObservationOf
    <3>. QED
      BY <2>9, <3>1 DEF Fetched
  <2>. QED
    BY <2>1, <2>8, <2>10
<1>2. IInv => NoHiddenReject
  BY <1>1 DEF NoHiddenReject
<1>. QED
  BY <1>2, AssemblyInductive, PTL

\* What an authoritative version's own campaigns saw is in the scope or unreadable.
LEMMA CampaignsAreInScope ==
  ASSUME IInv, NEW v \in VersionIds, versions[v].mode = "authoritative"
  PROVE  /\ Campaigns(versions[v].runs)
               \subseteq versions[v].campaigns
                  \cup (IF versions[v].base = 0 THEN {} ELSE Campaigns(versions[versions[v].base].runs))
         /\ \A o \in Observations(versions[v].campaigns) :
              Row(o).signed = Unreadable \/ Contains(Row(o).signed)
         /\ versions[v].base # 0 => Authority(versions[v].base)
<1>1. PICK m : m = versions[v]
  OBVIOUS
<1>2. VersionSound(v, m)
  BY <1>1 DEF IInv
<1>3. Reconciling(m) /\ m.runs \subseteq RunIds
  BY <1>1, <1>2 DEF VersionSound
<1>4. /\ m.runs = Closure(m.base, m.campaigns)
      /\ \A r \in m.campaigns : bronze[r].base = m.base
      /\ m.drift = Drift(m.base, m.campaigns)
      /\ PopulationHolds(m, [w \in 0 .. Len(versions) |-> w # 0])
  BY <1>3 DEF Reconciling
<1>5. /\ m.drift = {} /\ m.campaigns \subseteq Campaigns(m.runs)
      /\ m.base # 0 => Authority(m.base)
  BY <1>1, <1>4 DEF PopulationHolds, BaselineHolds
<1>6. ASSUME NEW o \in Observations(m.campaigns)
      PROVE  Row(o).signed = Unreadable \/ Contains(Row(o).signed)
  <2>1. m.campaigns \subseteq RunIds /\ o[1] \in m.campaigns
        /\ o[2] \in DOMAIN bronze[o[1]].rows
    BY <1>3, <1>5, ObservationOf DEF Campaigns
  <2>2. RunSound(o[1]) /\ bronze[o[1]].purpose = "population_reconciliation"
    BY <1>5, <2>1 DEF IInv, Campaigns
  <2>3. \/ Contains(Row(o).signed) \/ Row(o).signed = Unreadable
        \/ m.base # 0 /\ Row(o).id \in Members(m.base)
    BY <1>4, <2>1, <2>2 DEF RunSound, Row
  <2>4. o \notin Drift(m.base, m.campaigns)
    BY <1>4, <1>5
  <2>. QED
    BY <2>3, <2>4 DEF Drift
<1>7. Campaigns(m.runs)
        \subseteq m.campaigns \cup (IF m.base = 0 THEN {} ELSE Campaigns(versions[m.base].runs))
  BY <1>4 DEF Closure, Campaigns
<1>. QED
  BY <1>1, <1>5, <1>6, <1>7

\* No campaign anywhere in what an authoritative version was built from saw a
\* member outside the scope, not even in a row that was rejected.
THEOREM NeverDrifted == Spec => []DriftBlocks
<1>. DEFINE InScopeOf(v) == \A o \in Observations(Campaigns(versions[v].runs)) :
                             Row(o).signed = Unreadable \/ Contains(Row(o).signed)
            n == Len(versions)
            T == {v \in 1 .. n : versions[v].mode = "authoritative" /\ ~InScopeOf(v)}
<1>1. ASSUME IInv PROVE T = {}
  <2>. SUFFICES ASSUME T # {} PROVE FALSE
    OBVIOUS
  <2>1. n \in Nat /\ VersionIds = 1 .. n
    BY <1>1, RunsAreNumbered
  <2>2. T \subseteq 0 .. n
    OBVIOUS
  <2>3. PICK v \in T : \A w \in T : v <= w
    <3>. HIDE DEF T
    <3>. QED
      BY <2>1, <2>2, LeastOf
  <2>4. v \in VersionIds /\ versions[v].mode = "authoritative" /\ ~InScopeOf(v)
    BY <2>1, <2>3
  <2>5. PICK b : b = versions[v].base
    OBVIOUS
  <2>6. /\ Campaigns(versions[v].runs)
             \subseteq versions[v].campaigns
                \cup (IF b = 0 THEN {} ELSE Campaigns(versions[b].runs))
        /\ \A o \in Observations(versions[v].campaigns) :
             Row(o).signed = Unreadable \/ Contains(Row(o).signed)
        /\ b # 0 => Authority(b)
    BY <1>1, <2>4, <2>5, CampaignsAreInScope
  <2>7. ASSUME b # 0 PROVE InScopeOf(b)
    <3>1. b \in VersionIds /\ b \in 0 .. v - 1
      BY <1>1, <2>4, <2>5, <2>7, DependenciesAreEarlier
    <3>2. CASE versions[b].mode = "authoritative"
      <4>1. b \notin T /\ b \in 1 .. n
        BY <2>1, <2>3, <2>4, <3>1
      <4>. QED
        BY <3>2, <4>1
    <3>3. CASE versions[b].mode # "authoritative"
      <4>1. versions[b].mode = "legacy"
        BY <1>1, <2>6, <2>7, <3>3 DEF Authority, IInv
      <4>2. VersionSound(b, versions[b])
        BY <1>1, <3>1 DEF IInv
      <4>3. Campaigns(versions[b].runs) = {}
        BY <4>1, <4>2 DEF VersionSound, PurposesHold
      <4>. QED
        BY <4>3 DEF Observations
    <3>. QED
      BY <3>2, <3>3
  <2>8. InScopeOf(v)
    <3>1. ASSUME NEW o \in Observations(Campaigns(versions[v].runs))
          PROVE  \/ o \in Observations(versions[v].campaigns)
                 \/ b # 0 /\ o \in Observations(Campaigns(versions[b].runs))
      BY <2>6 DEF Observations
    <3>. QED
      BY <2>6, <2>7, <3>1
  <2>. QED
    BY <2>4, <2>8
<1>2. IInv => DriftBlocks
  BY <1>1, RunsAreNumbered DEF DriftBlocks
<1>. QED
  BY <1>2, AssemblyInductive, PTL

================================================================================
