---------------------- MODULE IncrementalIngestion_proofs ----------------------
(* Proofs about IncrementalIngestion, for any runs, contracts, windows, limits *)
(* and overlaps, and any number of faults and changes of the source.            *)
EXTENDS IncrementalIngestion, FiniteSetTheorems, WellFoundedInduction, TLAPS

-----------------------------------------------------------------------------
(* Finite orders *)

\* Every non-empty family of subsets of a finite set has a minimal member.
LEMMA MinimalMember ==
  ASSUME NEW S, IsFiniteSet(S), NEW F, F \subseteq SUBSET S, F # {}
  PROVE  \E A \in F : \A B \in F : B \subseteq A => B = A
<1>1. IsWellFoundedOn(StrictSubsetOrdering(S), FiniteSubsetsOf(S))
  BY FS_StrictSubsetOrderingWellFounded
<1>2. FiniteSubsetsOf(S) = SUBSET S
  BY FS_FiniteSubsetsOfFinite
<1>3. \E A \in F : \A B \in F : <<B, A>> \notin StrictSubsetOrdering(S)
  BY <1>1, <1>2, WFMin, Zenon
<1>. QED
  BY <1>3 DEF StrictSubsetOrdering

\* What comes before each member of a set, in a strict order of it.
Precedence(S, before) ==
  /\ before \in [S -> SUBSET S]
  /\ \A r \in S : r \notin before[r]
  /\ \A r \in S : \A s \in before[r] : before[s] \subseteq before[r]

\* Some members of a finite set have a first one.
LEMMA FirstOfSome ==
  ASSUME NEW S, IsFiniteSet(S), NEW before, Precedence(S, before),
         NEW T, T \subseteq S, T # {}
  PROVE  \E r \in T : before[r] \cap T = {}
<1>1. PICK F : F = {before[r] : r \in T}
  OBVIOUS
<1>2. F \subseteq SUBSET S /\ F # {}
  BY <1>1 DEF Precedence
<1>3. \E A \in F : \A B \in F : B \subseteq A => B = A
  BY <1>2, MinimalMember
<1>4. PICK r \in T : \A s \in T : before[s] \subseteq before[r] => before[s] = before[r]
  BY <1>1, <1>3
<1>5. ASSUME NEW s \in before[r], s \in T PROVE FALSE
  BY <1>4, <1>5 DEF Precedence
<1>. QED
  BY <1>5

\* The members that fewer than `limit` others precede.
FirstOf(S, before, limit, first) ==
  first \subseteq S /\ \A r \in S : r \in first <=> Cardinality(before[r]) < limit

\* With one of them comes whatever precedes it, and they are all that there is
\* when they are fewer than the limit.
LEMMA FirstMembers ==
  ASSUME NEW S, IsFiniteSet(S), NEW before, Precedence(S, before),
         NEW limit \in Nat \ {0}, NEW first, FirstOf(S, before, limit, first)
  PROVE  /\ \A s \in first : before[s] \subseteq first
         /\ Cardinality(first) < limit => first = S
         /\ first = {} => S = {}
<1>1. \A A, B : B \subseteq S /\ A \subseteq B =>
        /\ Cardinality(A) \in Nat /\ Cardinality(B) \in Nat
        /\ Cardinality(A) <= Cardinality(B)
  BY FS_Subset, FS_CardinalityType
<1>. USE DEF FirstOf
<1>2. ASSUME NEW s \in first, NEW r \in before[s] PROVE r \in first
  <2>1. before[r] \subseteq before[s] /\ before[s] \subseteq S /\ r \in S
    BY DEF Precedence
  <2>2. Cardinality(before[s]) < limit
    OBVIOUS
  <2>. QED
    BY <1>1, <2>1, <2>2
<1>3. ASSUME Cardinality(first) < limit PROVE first = S
  <2>. SUFFICES ASSUME S \ first # {} PROVE FALSE
    OBVIOUS
  <2>. DEFINE T == S \ first
  <2>0. T \subseteq S /\ T # {}
    OBVIOUS
  <2>. HIDE DEF T
  <2>1. PICK r \in T : before[r] \cap T = {}
    BY <2>0, FirstOfSome
  <2>2. before[r] \subseteq first /\ first \subseteq S
    BY <2>1 DEF Precedence, T
  <2>3. Cardinality(before[r]) < limit
    BY <1>1, <1>3, <2>2
  <2>. QED
    BY <2>1, <2>3 DEF T
<1>4. first = {} => S = {}
  BY <1>3, FS_EmptySet
<1>. QED
  BY <1>2, <1>3, <1>4

-----------------------------------------------------------------------------
(* Pages *)

\* Places are in a strict total order.
LEMMA AfterIsOrder ==
  /\ \A x \in Int \X Int : ~After(x, x)
  /\ \A x, y \in Int \X Int : x # y => After(x, y) \/ After(y, x)
  /\ \A x, y, z \in Int \X Int : After(x, y) /\ After(y, z) => After(x, z)
  BY DEF After

\* No two contracts are at one place.
LEMMA PlacesOfRows ==
  ASSUME updated \in [Rows -> -1 .. MaxTime]
  PROVE  /\ \A r \in Rows : Place(r) \in Int \X Int
         /\ \A r, s \in Rows : Place(r) = Place(s) => r = s
  BY TimeAssumption DEF Place

\* The first `limit` of some rows.
FirstPage(rest, limit, rows) ==
  /\ rest \subseteq Rows /\ limit \in Nat \ {0}
  /\ rows = {r \in rest : Cardinality({s \in rest : After(Place(r), Place(s))}) < limit}

\* They are all of them when they are fewer, and with a row
\* every row before it.
LEMMA FirstRows ==
  ASSUME updated \in [Rows -> -1 .. MaxTime],
         NEW rest, NEW limit, NEW rows, FirstPage(rest, limit, rows)
  PROVE  /\ \A r \in rest, s \in rows : ~After(Place(r), Place(s)) => r \in rows
         /\ Cardinality(rows) < limit => rows = rest
         /\ rows = {} => rest = {}
<1>. USE DEF FirstPage
<1>1. PICK before :
        before = [r \in rest |-> {s \in rest : After(Place(r), Place(s))}]
  OBVIOUS
<1>2. /\ \A r \in rest : before[r] = {s \in rest : After(Place(r), Place(s))}
      /\ before \in [rest -> SUBSET rest]
  BY <1>1
<1>3. \A r \in rest : r \notin before[r]
  BY <1>2, PlacesOfRows, AfterIsOrder
<1>4. ASSUME NEW r \in rest, NEW s \in before[r] PROVE before[s] \subseteq before[r]
  BY <1>2, PlacesOfRows, AfterIsOrder
<1>5. Precedence(rest, before)
  BY <1>2, <1>3, <1>4 DEF Precedence
<1>6. FirstOf(rest, before, limit, rows)
  BY <1>2 DEF FirstOf
<1>7. IsFiniteSet(rest)
  BY FS_Subset, TimeAssumption
<1>8. /\ \A s \in rows : before[s] \subseteq rows
      /\ Cardinality(rows) < limit => rows = rest
      /\ rows = {} => rest = {}
  <2>1. ASSUME NEW first, FirstOf(rest, before, limit, first)
        PROVE  /\ \A s \in first : before[s] \subseteq first
               /\ Cardinality(first) < limit => first = rest
               /\ first = {} => rest = {}
    BY <1>5, <1>7, <2>1, FirstMembers
  <2>. QED
    BY <1>6, <2>1, Zenon
<1>9. ASSUME NEW r \in rest, NEW s \in rows, ~After(Place(r), Place(s))
      PROVE  r \in rows
  <2>1. s \in rest
    OBVIOUS
  <2>2. r = s \/ After(Place(s), Place(r))
    BY <1>9, <2>1, PlacesOfRows, AfterIsOrder
  <2>. QED
    BY <1>2, <1>8, <2>1, <2>2
<1>. QED
  BY <1>8, <1>9

\* The last place of some rows.
LEMMA LastPlace ==
  ASSUME updated \in [Rows -> -1 .. MaxTime], NEW rows, rows \subseteq Rows, rows # {},
         NEW last,
         last = CHOOSE x \in {Place(r) : r \in rows} :
                  \A y \in {Place(r) : r \in rows} : x = y \/ After(x, y)
  PROVE  \E s \in rows :
           /\ last = Place(s) /\ last \in Int \X Int
           /\ \A r \in rows : last = Place(r) \/ After(last, Place(r))
<1>1. PICK beyond :
        beyond = [r \in rows |-> {s \in rows : After(Place(s), Place(r))}]
  OBVIOUS
<1>2. /\ \A r \in rows : beyond[r] = {s \in rows : After(Place(s), Place(r))}
      /\ beyond \in [rows -> SUBSET rows]
  BY <1>1
<1>3. \A r \in rows : r \notin beyond[r]
  BY <1>2, PlacesOfRows, AfterIsOrder
<1>4. ASSUME NEW r \in rows, NEW s \in beyond[r] PROVE beyond[s] \subseteq beyond[r]
  BY <1>2, PlacesOfRows, AfterIsOrder
<1>5. Precedence(rows, beyond)
  BY <1>2, <1>3, <1>4 DEF Precedence
<1>6. IsFiniteSet(rows)
  BY FS_Subset, TimeAssumption
<1>7. PICK s \in rows : beyond[s] \cap rows = {}
  <2>. rows \subseteq rows
    OBVIOUS
  <2>. QED
    BY <1>5, <1>6, FirstOfSome
<1>8. \A r \in rows : Place(s) = Place(r) \/ After(Place(s), Place(r))
  BY <1>2, <1>7, PlacesOfRows, AfterIsOrder
<1>. DEFINE places == {Place(r) : r \in rows}
<1>9. \E x \in places : \A y \in places : x = y \/ After(x, y)
  BY <1>8
<1>10. last \in places /\ \A y \in places : last = y \/ After(last, y)
  BY <1>9
<1>11. PICK r \in rows : last = Place(r)
  BY <1>10
<1>12. \A q \in rows : last = Place(q) \/ After(last, Place(q))
  BY <1>10
<1>13. last \in Int \X Int
  BY <1>11, PlacesOfRows
<1>. QED
  BY <1>11, <1>12, <1>13, Zenon

-----------------------------------------------------------------------------
USE TimeAssumption, LimitAssumption

-----------------------------------------------------------------------------
(* Manifests *)

\* What was reached stays reached.
LEMMA ReachedStays ==
  ASSUME NEW time, Reached(time), database \subseteq database',
         \A run \in database : published'[run] = published[run]
  PROVE  Reached(time)'
  BY DEF Reached, Concluded

\* What was asked for up to a time stays asked for: runs that are committed
\* afterwards only ask for more.
LEMMA UnbrokenStays ==
  ASSUME NEW until, Unbroken(until), database \subseteq database',
         \A run \in database : published'[run] = published[run]
  PROVE  Unbroken(until)'
<1>1. ASSUME NEW first \in 1 .. MaxTime, Contiguous(first)' PROVE Contiguous(first)
  BY <1>1 DEF Contiguous, Concluded
<1>2. ASSUME NEW time, Asked(time) PROVE Asked(time)'
  BY <1>2 DEF Asked, Concluded
<1>3. ASSUME NEW first \in 1 .. MaxTime, Contiguous(first)', NEW time \in first .. until
      PROVE  Asked(time)'
  <2>1. Contiguous(first)
    BY <1>1, <1>3
  <2>2. Asked(time)
    BY <2>1 DEF Unbroken
  <2>. QED
    BY <1>2, <2>2
<1>. QED
  BY <1>3 DEF Unbroken

\* A manifest stays what it is.
LEMMA ManifestStays ==
  ASSUME NEW run, NEW manifest, ManifestOf(run, manifest), database \subseteq database',
         \A r \in database : published'[r] = published[r]
  PROVE  ManifestOf(run, manifest)'
  BY ReachedStays, UnbrokenStays DEF ManifestOf, Concluded

\* A window asks for no less than the checkpoint leaves open, and begins with what
\* was asked for, or within what is complete.
LEMMA WindowAbreast ==
  ASSUME IInv, NEW from \in 1 .. MaxTime, NEW overlap \in Nat
  PROVE  /\ EffectiveFrom(from, overlap) \in Int
         /\ EffectiveFrom(from, overlap) >= checkpoint - overlap
         /\ EffectiveFrom(from, overlap) <= from \/ EffectiveFrom(from, overlap) <= checkpoint
  BY DEF EffectiveFrom, IInv, TypeOK

-----------------------------------------------------------------------------
(* Steps that publish and commit nothing *)

\* What such a step leaves as it was.
LEMMA Quiet ==
  ASSUME IInv, UNCHANGED <<published, sqlite>>
  PROVE  /\ committed' \subseteq committed => CommittedIsIndexed'
         /\ Reached(checkpoint)' /\ NoWindowSkipped'
         /\ headless \subseteq headless' \cup database => Pending' \subseteq Pending
         /\ \A run \in DOMAIN published' : ManifestOf(run, published[run])'
         /\ headless \subseteq headless' \cup database
            => \A run \in Pending' : Abreast(published[run])'
         /\ \A run, manifest : ManifestOf(run, manifest) => ManifestOf(run, manifest)'
<1>1. CommittedIsIndexed /\ Reached(checkpoint)
  BY DEF IInv
<1>2. committed' \subseteq committed => CommittedIsIndexed'
  BY <1>1 DEF CommittedIsIndexed, sqlite
<1>3. /\ Reached(checkpoint)'
      /\ headless \subseteq headless' \cup database => Pending' \subseteq Pending
  BY <1>1 DEF Reached, Concluded, Pending, sqlite
<1>4. \A run, manifest : ManifestOf(run, manifest) => ManifestOf(run, manifest)'
  BY ManifestStays DEF sqlite
<1>5. \A run \in DOMAIN published' : ManifestOf(run, published[run])'
  <2>. TAKE run \in DOMAIN published'
  <2>1. ManifestOf(run, published[run]) /\ published' = published
    BY DEF IInv
  <2>. QED
    BY <1>4, <2>1
<1>6. headless \subseteq headless' \cup database => \A run \in Pending' : Abreast(published[run])'
  BY <1>3 DEF IInv, Abreast, sqlite
<1>7. NoWindowSkipped'
  BY DEF IInv, NoWindowSkipped, Unbroken, Contiguous, Asked, Concluded, sqlite
<1>. QED
  BY <1>2, <1>3, <1>4, <1>5, <1>6, <1>7

\* The process ends: nothing is left to match.
LEMMA EndKeeps ==
  ASSUME IInv, End, UNCHANGED <<published, sqlite, committed, headless>>,
         TypeOK', DOMAIN staged' = Runs,
         \A run \in Runs : staged'[run] # None => ManifestOf(run, staged[run])'
  PROVE  IInv'
<1>1. StepsMatch'
  BY Quiet DEF End, StepsMatch, IInv
<1>. QED
  BY <1>1, Quiet DEF IInv

\* A manifest is begun, resumed or continued: nothing is published meanwhile.
LEMMA WorkKeeps ==
  ASSUME IInv, NEW run \in Runs, NEW manifest, ManifestOf(run, manifest),
         Abreast(manifest), run \notin DOMAIN published, Pending = {},
         work' = manifest, pc' \in {"extract", "publish"},
         staged' = staged \/ staged' = [staged EXCEPT ![run] = manifest],
         UNCHANGED <<published, sqlite, committed, headless>>, TypeOK'
  PROVE  IInv'
<1>1. manifest.run = run
  BY DEF ManifestOf
<1>2. ManifestOf(run, manifest)' /\ Pending' = {}
  BY Quiet
<1>3. Abreast(manifest)'
  BY DEF Abreast, sqlite
<1>4. StepsMatch'
  <2>1. ManifestOf(work.run, work)' /\ work'.run = run
    BY <1>1, <1>2
  <2>2. Abreast(work)'
    BY <1>3
  <2>. QED
    BY <1>2, <2>1, <2>2 DEF StepsMatch
<1>5. DOMAIN staged' = Runs
  BY DEF IInv
<1>6. ASSUME NEW r \in Runs, staged'[r] # None PROVE ManifestOf(r, staged[r])'
  <2>1. CASE staged'[r] = staged[r]
    BY <1>6, <2>1, Quiet DEF IInv
  <2>2. CASE staged'[r] = manifest /\ r = run
    BY <1>2, <2>2
  <2>. QED
    BY <2>1, <2>2 DEF IInv
<1>. QED
  BY <1>4, <1>5, <1>6, Quiet DEF IInv

\* What the process at work knows of itself.
LEMMA AtWork ==
  ASSUME IInv, pc \in {"extract", "publish"}
  PROVE  /\ work.run \in Runs /\ ManifestOf(work.run, work)
         /\ Pending = {} /\ work.run \notin DOMAIN published /\ Abreast(work)
  BY DEF IInv, StepsMatch

\* A command begins only when nothing published waits.
LEMMA NothingPends ==
  ASSUME IInv, Prepared = {}
  PROVE  Pending = {}
  BY DEF IInv, CommittedIsIndexed, Prepared, Pending

\* A new incremental run.
LEMMA CreateKeeps ==
  ASSUME IInv, NEW run \in Runs, NEW request \in Requests, NEW overlap \in Overlaps,
         Create(run, request, overlap)
  PROVE  IInv'
<1>. DEFINE manifest == NewIncremental(run, request, overlap)
<1>1. /\ request[1] \in 1 .. MaxTime /\ request[2] \in 1 .. MaxTime
      /\ overlap \in Nat /\ EffectiveFrom(request[1], overlap) \in Int
      /\ EffectiveFrom(request[1], overlap) >= checkpoint - overlap
      /\ \/ EffectiveFrom(request[1], overlap) <= request[1]
         \/ EffectiveFrom(request[1], overlap) <= checkpoint
      /\ EffectiveFrom(request[1], overlap) <= request[2]
  BY WindowAbreast DEF Create, Parameters
<1>2. /\ DOMAIN manifest = {"run", "purpose", "window", "before", "cursor", "done", "got",
                            "ids", "truncated", "complete"}
      /\ manifest.run = run /\ manifest.purpose = "incremental"
      /\ manifest.before = checkpoint /\ ~manifest.complete
      /\ manifest.window.from = request[1] /\ manifest.window.to = request[2]
      /\ manifest.window.overlap = overlap
      /\ manifest.window.effective = EffectiveFrom(request[1], overlap)
  BY DEF NewIncremental, Parameters
<1>3. ManifestOf(run, manifest) /\ Abreast(manifest)
  BY <1>1, <1>2 DEF ManifestOf, Abreast, IInv, TypeOK, NoWindowSkipped
<1>4. /\ work' = manifest /\ staged' = [staged EXCEPT ![run] = manifest] /\ pc' = "extract"
      /\ run \notin DOMAIN published /\ Prepared = {} /\ staged[run] = None
      /\ UNCHANGED <<updated, published, committed, lost, headless, cleaning, sqlite>>
  BY <1>2 DEF Create, Stage, Fresh
<1>5. TypeOK'
  BY <1>4 DEF IInv, TypeOK, sqlite
<1>. HIDE DEF manifest
<1>. QED
  BY <1>3, <1>4, <1>5, NothingPends, WorkKeeps

\* A new identity refresh.
LEMMA CreateRefreshKeeps ==
  ASSUME IInv, NEW run \in Runs, NEW ids \in Batches, CreateRefresh(run, ids)
  PROVE  IInv'
<1>. DEFINE manifest == NewRefresh(run, ids)
<1>1. /\ DOMAIN manifest = {"run", "purpose", "window", "before", "cursor", "done", "got",
                            "ids", "truncated", "complete"}
      /\ manifest.run = run /\ manifest.purpose = "identity_refresh"
      /\ manifest.before = checkpoint
  BY DEF NewRefresh
<1>2. ManifestOf(run, manifest) /\ Abreast(manifest)
  BY <1>1 DEF ManifestOf, Abreast, IInv, TypeOK, NoWindowSkipped
<1>3. /\ work' = manifest /\ staged' = [staged EXCEPT ![run] = manifest] /\ pc' = "extract"
      /\ run \notin DOMAIN published /\ Prepared = {}
      /\ UNCHANGED <<updated, published, committed, lost, headless, cleaning, sqlite>>
  BY <1>1 DEF CreateRefresh, Stage, Fresh
<1>4. TypeOK'
  BY <1>3 DEF IInv, TypeOK, sqlite
<1>. HIDE DEF manifest
<1>. QED
  BY <1>2, <1>3, <1>4, NothingPends, WorkKeeps

\* A resumed run: an incremental one only in the window of now.
LEMMA ResumeKeeps ==
  ASSUME IInv, NEW run \in Runs, Resume(run)
  PROVE  IInv'
<1>1. /\ staged[run] # None /\ ManifestOf(run, staged[run]) /\ run \notin DOMAIN published
      /\ Prepared = {} /\ pc' = "extract" /\ UNCHANGED <<updated, files, cleaning, sqlite>>
  BY DEF Resume, IInv, TypeOK
<1>2. TypeOK'
  BY <1>1 DEF IInv, TypeOK, files, sqlite
<1>3. CASE staged[run].purpose = "incremental"
  <2>1. PICK request \in Requests : SameParameters(staged[run], request) /\ work' = staged[run]
    BY <1>3 DEF Resume
  <2>2. request[1] \in 1 .. MaxTime /\ staged[run].window.overlap \in Nat
    BY <1>1, <1>3 DEF ManifestOf
  <2>3. staged[run].window.effective = EffectiveFrom(request[1], staged[run].window.overlap)
    BY <2>1 DEF SameParameters, Parameters
  <2>4. Abreast(staged[run])
    BY <2>2, <2>3, WindowAbreast DEF Abreast
  <2>. QED
    BY <1>1, <1>2, <2>1, <2>4, NothingPends, WorkKeeps DEF files
<1>4. CASE staged[run].purpose = "identity_refresh"
  <2>. DEFINE manifest == [staged[run] EXCEPT !.truncated = FALSE]
  <2>1. work' = manifest
    BY <1>4 DEF Resume
  <2>2. ManifestOf(run, manifest) /\ Abreast(manifest)
    BY <1>1, <1>4 DEF ManifestOf, Abreast
  <2>. HIDE DEF manifest
  <2>. QED
    BY <1>1, <1>2, <2>1, <2>2, NothingPends, WorkKeeps DEF files
<1>. QED
  BY <1>1, <1>3, <1>4 DEF ManifestOf

\* A page or a batch is added, and written down.
LEMMA FetchKeeps ==
  ASSUME IInv, FetchPage \/ FetchBatch
  PROVE  IInv'
<1>1. pc = "extract" /\ pc' = pc /\ UNCHANGED <<updated, published, committed, lost, headless, cleaning, sqlite>>
  BY DEF FetchPage, FetchBatch
<1>2. PICK manifest :
        /\ Stage(manifest)
        /\ DOMAIN manifest = DOMAIN work
        /\ manifest.run = work.run /\ manifest.purpose = work.purpose
        /\ manifest.window = work.window /\ manifest.before = work.before
        /\ manifest.complete = work.complete /\ manifest.truncated = work.truncated
        /\ work.purpose = "incremental" => work.done # Lanes
  <2>0. DOMAIN work = {"run", "purpose", "window", "before", "cursor", "done", "got",
                            "ids", "truncated", "complete"}
    BY <1>1, AtWork DEF ManifestOf
  <2>1. CASE FetchPage
    BY <2>0, <2>1 DEF FetchPage
  <2>2. CASE FetchBatch
    BY <2>0, <2>2 DEF FetchBatch
  <2>. QED
    BY <2>1, <2>2
<1>3. ManifestOf(work.run, manifest) /\ Abreast(manifest)
  BY <1>1, <1>2, AtWork DEF ManifestOf, Abreast, Concluded
<1>4. /\ work' = manifest /\ staged' = [staged EXCEPT ![work.run] = manifest]
      /\ work.run \in Runs /\ work.run \notin DOMAIN published /\ Pending = {}
  BY <1>1, <1>2, AtWork DEF Stage
<1>5. TypeOK'
  BY <1>1, <1>4 DEF IInv, TypeOK, sqlite
<1>. QED
  BY <1>1, <1>3, <1>4, <1>5, WorkKeeps

\* The extraction is over: only what is whole is complete.
LEMMA ExtractedKeeps ==
  ASSUME IInv, Extracted \/ ExtractedIds
  PROVE  IInv'
<1>1. pc = "extract" /\ pc' = "publish" /\ UNCHANGED <<updated, files, cleaning, sqlite>>
  BY DEF Extracted, ExtractedIds
<1>2. DOMAIN work = {"run", "purpose", "window", "before", "cursor", "done", "got",
                     "ids", "truncated", "complete"}
  BY <1>1, AtWork DEF ManifestOf
<1>3. /\ DOMAIN work' = DOMAIN work
      /\ work'.run = work.run /\ work'.purpose = work.purpose
      /\ work'.window = work.window /\ work'.before = work.before
      /\ work'.purpose = "incremental" /\ work'.complete => work'.done = Lanes /\ ~work'.truncated
  <2>1. CASE Extracted /\ work.done = Lanes /\ work' = [work EXCEPT !.complete = RangeComplete(work)]
    BY <1>2, <2>1 DEF RangeComplete
  <2>2. CASE Extracted /\ work.done # Lanes
    <3>. DEFINE cut == [work EXCEPT !.truncated = TRUE]
    <3>1. work' = [cut EXCEPT !.complete = RangeComplete(cut)] /\ work.purpose = "incremental"
      BY <2>2 DEF Extracted
    <3>2. ~RangeComplete(cut)
      BY <1>2, <3>1 DEF RangeComplete
    <3>. QED
      BY <1>2, <3>1, <3>2
  <2>3. CASE ExtractedIds
    BY <1>2, <2>3 DEF ExtractedIds
  <2>. QED
    BY <2>1, <2>2, <2>3 DEF Extracted
<1>4. /\ ManifestOf(work.run, work) /\ Abreast(work)
      /\ work.run \in Runs /\ work.run \notin DOMAIN published /\ Pending = {}
  BY <1>1, AtWork
<1>5. PICK manifest : work' = manifest
  OBVIOUS
<1>6. ManifestOf(work.run, manifest) /\ Abreast(manifest)
  BY <1>3, <1>4, <1>5 DEF ManifestOf, Abreast, Concluded
<1>7. TypeOK'
  BY <1>1 DEF IInv, TypeOK, files, sqlite
<1>. QED
  BY <1>1, <1>4, <1>5, <1>6, <1>7, WorkKeeps DEF files

-----------------------------------------------------------------------------
(* Steps that publish or commit *)

\* The rename: the only published run that is not in the database.
LEMMA PublishKeeps ==
  ASSUME IInv, Publish
  PROVE  IInv'
<1>. DEFINE run == work.run
<1>1. /\ run \in Runs /\ ManifestOf(run, work) /\ Pending = {} /\ Abreast(work)
      /\ run \notin DOMAIN published
  BY AtWork DEF Publish
<1>2. /\ DOMAIN published' = DOMAIN published \cup {run}
      /\ published'[run] = work
      /\ \A r \in DOMAIN published : published'[r] = published[r]
      /\ pc' = "commit" /\ staged' = [staged EXCEPT ![run] = None]
      /\ UNCHANGED <<updated, committed, lost, headless, work, cleaning, sqlite>>
  BY <1>1 DEF Publish
<1>3. database \subseteq DOMAIN published /\ committed \subseteq database
      /\ index = UNION {published[r].got : r \in database} /\ headless \subseteq DOMAIN published
  BY DEF IInv, CommittedIsIndexed, TypeOK
<1>4. Pending' = {run}
  BY <1>1, <1>2, <1>3 DEF Pending, sqlite
<1>5. CommittedIsIndexed'
  <2>1. {published'[r].got : r \in database} = {published[r].got : r \in database}
    BY <1>2, <1>3
  <2>. QED
    BY <1>2, <1>3, <2>1 DEF CommittedIsIndexed, sqlite
<1>6. \A r, manifest : ManifestOf(r, manifest) => ManifestOf(r, manifest)'
  BY <1>2, <1>3, ManifestStays DEF sqlite
<1>7. Reached(checkpoint)' /\ NoWindowSkipped'
  <2>1. PICK until : until = checkpoint
    OBVIOUS
  <2>2. Reached(until) /\ Unbroken(until)
    BY <2>1 DEF IInv, NoWindowSkipped
  <2>3. Reached(until)' /\ Unbroken(until)'
    BY <1>2, <1>3, <2>2, ReachedStays, UnbrokenStays DEF sqlite
  <2>. QED
    BY <1>2, <2>1, <2>3 DEF NoWindowSkipped, sqlite
<1>8. \A r \in DOMAIN published' : ManifestOf(r, published[r])'
  <2>. TAKE r \in DOMAIN published'
  <2>1. CASE r = run
    BY <1>1, <1>2, <1>6, <2>1
  <2>2. CASE r \in DOMAIN published
    <3>1. ManifestOf(r, published[r])
      BY <2>2 DEF IInv
    <3>2. published'[r] = published[r]
      BY <1>2, <2>2
    <3>. QED
      BY <1>6, <3>1, <3>2
  <2>. QED
    BY <1>2, <2>1, <2>2
<1>9. \A r \in Runs : staged'[r] # None => ManifestOf(r, staged[r])'
  <2>. SUFFICES ASSUME NEW r \in Runs, staged'[r] # None PROVE ManifestOf(r, staged[r])'
    OBVIOUS
  <2>1. staged'[r] = staged[r] /\ ManifestOf(r, staged[r])
    BY <1>1, <1>2 DEF IInv
  <2>. QED
    BY <1>6, <2>1
<1>10. TypeOK'
  BY <1>1, <1>2 DEF IInv, TypeOK, sqlite
<1>11. \A r \in Pending' : Abreast(published[r])'
  BY <1>1, <1>2, <1>4 DEF Abreast, sqlite
<1>12. StepsMatch'
  <2>1. ManifestOf(work.run, work)'
    BY <1>1, <1>2, <1>6
  <2>. QED
    BY <1>1, <1>2, <1>3, <1>4, <2>1 DEF StepsMatch, Abreast, sqlite
<1>. QED
  BY <1>2, <1>5, <1>7, <1>8, <1>9, <1>10, <1>11, <1>12 DEF IInv

\* A complete run ends, and with what was complete before it nothing is skipped.
LEMMA CompleteExtends ==
  ASSUME IInv, NEW run \in DOMAIN published, NEW x, x = published[run],
         ManifestOf(run, x), x.purpose = "incremental", x.complete,
         database' = database \cup {run}, published' = published,
         checkpoint' = Candidate(x)
  PROVE  NoWindowSkipped'
<1>1. /\ x.window.from \in 1 .. MaxTime /\ x.window.to \in 1 .. MaxTime
      /\ x.before \in 0 .. MaxTime /\ x.window.effective \in Int
      /\ x.window.effective <= x.window.from \/ x.window.effective <= x.before
      /\ Unbroken(x.before) /\ Concluded(x)
  BY DEF ManifestOf
<1>2. Unbroken(x.before)'
  BY <1>1, UnbrokenStays
<1>3. ASSUME NEW first \in 1 .. MaxTime, Contiguous(first)', NEW time \in first .. checkpoint'
      PROVE  Asked(time)'
  <2>0. time \in Int /\ first <= time /\ checkpoint' \in Int /\ time <= checkpoint'
    BY <1>1 DEF Candidate
  <2>1. CASE time <= x.before
    BY <1>1, <1>2, <1>3, <2>0, <2>1 DEF Unbroken
  <2>2. CASE time > x.before
    <3>1. time <= x.window.to
      BY <1>1, <2>0, <2>2 DEF Candidate
    <3>2. x.window.from <= IF x.before < first THEN first ELSE x.before + 1
      BY <1>1, <1>3 DEF Contiguous, Concluded
    <3>3. x.window.effective <= time
      BY <1>1, <2>0, <2>2, <3>2
    <3>. QED
      BY <1>1, <3>1, <3>3 DEF Asked, Concluded
  <2>. QED
    BY <1>1, <2>0, <2>1, <2>2
<1>. QED
  BY <1>3 DEF NoWindowSkipped, Unbroken

\* What CheckpointHeld says of a step.
Held ==
  checkpoint' # checkpoint =>
    /\ \E run \in database' : Concluded(published'[run]) /\ published'[run].window.to = checkpoint'
    /\ \E run \in database' \ database :
         checkpoint' >= checkpoint - published'[run].window.overlap

\* The transaction: nothing published waits for it any more, and the checkpoint
\* does not pass what later windows begin with.
LEMMA CommitStep ==
  ASSUME IInv, NEW run \in DOMAIN published, run \notin database, Pending \subseteq {run},
         Abreast(published[run]), Commit(published[run]),
         UNCHANGED <<updated, files, cleaning>>,
         pc' \in {"reconcile", "mark"}
  PROVE  /\ TypeOK' /\ CommittedIsIndexed' /\ Reached(checkpoint)' /\ Pending' = {}
         /\ NoWindowSkipped'
         /\ database' = database \cup {run}
         /\ \A r, manifest : ManifestOf(r, manifest) => ManifestOf(r, manifest)'
         /\ Held
<1>. DEFINE x == published[run]
<1>1. run \in Runs /\ ManifestOf(run, x) /\ Abreast(x)
  BY DEF IInv, TypeOK
<1>2. /\ database' = database \cup {run} /\ index' = index \cup x.got
      /\ checkpoint' = IF x.purpose = "incremental" /\ x.complete THEN Candidate(x) ELSE checkpoint
      /\ published' = published
  BY <1>1 DEF Commit, ManifestOf, files
<1>3. /\ database \subseteq DOMAIN published /\ committed \subseteq database
      /\ index = UNION {published[r].got : r \in database}
      /\ checkpoint \in 0 .. MaxTime /\ Reached(checkpoint) /\ TypeOK /\ NoWindowSkipped
  BY DEF IInv, CommittedIsIndexed, TypeOK
<1>4. CommittedIsIndexed'
  <2>1. index' = UNION {published'[r].got : r \in database'}
    BY <1>2, <1>3
  <2>. QED
    BY <1>1, <1>2, <1>3, <2>1 DEF CommittedIsIndexed, files
<1>5. Pending' = {}
  BY <1>2 DEF Pending, files
<1>6. \A r, manifest : ManifestOf(r, manifest) => ManifestOf(r, manifest)'
  BY <1>2, ManifestStays
<1>7. CASE checkpoint' = checkpoint
  <2>1. PICK until : until = checkpoint
    OBVIOUS
  <2>2. Reached(until)' /\ Unbroken(until)'
    BY <1>2, <1>3, <2>1, ReachedStays, UnbrokenStays DEF NoWindowSkipped
  <2>3. Reached(checkpoint)' /\ NoWindowSkipped'
    BY <1>7, <2>1, <2>2 DEF NoWindowSkipped
  <2>4. TypeOK'
    BY <1>1, <1>2, <1>3, <1>7 DEF TypeOK, files
  <2>. QED
    BY <1>2, <1>4, <1>5, <1>6, <1>7, <2>3, <2>4 DEF Held
<1>8. CASE checkpoint' # checkpoint
  <2>1. /\ x.purpose = "incremental" /\ x.complete /\ checkpoint' = Candidate(x)
        /\ Concluded(x)
        /\ x.window.to \in 1 .. MaxTime /\ x.before \in 0 .. MaxTime
        /\ x.window.overlap \in Nat
        /\ x.window.effective \in Int /\ x.window.effective <= x.window.to
        /\ x.window.effective >= checkpoint - x.window.overlap
        /\ Reached(x.before)
    BY <1>1, <1>2, <1>8 DEF ManifestOf, Abreast
  <2>2. /\ checkpoint' \in 1 .. MaxTime /\ checkpoint' >= x.window.to
        /\ checkpoint' = x.window.to \/ checkpoint' = x.before
    BY <2>1 DEF Candidate
  <2>3. \E r \in database' \ database :
          checkpoint' >= checkpoint - published'[r].window.overlap
    <3>1. checkpoint' >= checkpoint - x.window.overlap
      BY <1>3, <2>1, <2>2
    <3>2. run \in database' \ database /\ published'[run] = x
      BY <1>2
    <3>. QED
      BY <3>1, <3>2
  <2>4. \E r \in database' : Concluded(published'[r]) /\ published'[r].window.to = checkpoint'
    <3>1. CASE checkpoint' = x.window.to
      BY <1>2, <2>1, <3>1
    <3>2. CASE checkpoint' = x.before
      <4>1. x.before # 0
        BY <2>2, <3>2
      <4>. QED
        BY <1>2, <2>1, <3>2, <4>1 DEF Reached
    <3>. QED
      BY <2>2, <3>1, <3>2
  <2>5. Reached(checkpoint)'
    BY <2>4 DEF Reached
  <2>6. TypeOK'
    BY <1>1, <1>2, <1>3, <2>2 DEF TypeOK, files
  <2>7. NoWindowSkipped'
    BY <1>1, <1>2, <2>1, CompleteExtends
  <2>. QED
    BY <1>2, <1>4, <1>5, <1>6, <2>3, <2>4, <2>5, <2>6, <2>7 DEF Held
<1>. QED
  BY <1>7, <1>8

\* The commit, by the process that published or by the next command.
LEMMA CommitKeeps ==
  ASSUME IInv, ReconcileCommit \/ CommitWork
  PROVE  IInv' /\ Held
<1>1. PICK run \in DOMAIN published :
        /\ run \notin database /\ Pending \subseteq {run} /\ Abreast(published[run])
        /\ Commit(published[run]) /\ UNCHANGED <<updated, files, cleaning>>
        /\ \/ pc = "reconcile" /\ pc' = "reconcile"
           \/ pc' = "mark" /\ work' = work /\ work.run = run /\ published[run] = work
  <2>1. CASE ReconcileCommit
    <3>1. PICK run \in Prepared \ database :
            Commit(published[run]) /\ UNCHANGED <<updated, files, cleaning>>
      BY <2>1 DEF ReconcileCommit
    <3>2. run \in Pending
      BY DEF Prepared, Pending
    <3>3. Pending \subseteq {run} /\ Abreast(published[run])
      BY <3>2 DEF IInv, StepsMatch
    <3>. QED
      BY <2>1, <3>1, <3>2, <3>3 DEF ReconcileCommit, Pending
  <2>2. CASE CommitWork
    BY <2>2 DEF CommitWork, IInv, StepsMatch, files
  <2>. QED
    BY <2>1, <2>2
<1>2. /\ TypeOK' /\ CommittedIsIndexed' /\ Reached(checkpoint)' /\ Pending' = {}
      /\ NoWindowSkipped'
      /\ database' = database \cup {run}
      /\ \A r, manifest : ManifestOf(r, manifest) => ManifestOf(r, manifest)'
      /\ Held
  BY <1>1, CommitStep
<1>3. published' = published /\ staged' = staged
  BY <1>1 DEF files
<1>4. \A r \in DOMAIN published' : ManifestOf(r, published[r])'
  <2>. TAKE r \in DOMAIN published'
  <2>1. ManifestOf(r, published[r])
    BY <1>3 DEF IInv
  <2>. QED
    BY <1>2, <1>3, <2>1
<1>5. \A r \in Runs : staged'[r] # None => ManifestOf(r, staged[r])'
  <2>. SUFFICES ASSUME NEW r \in Runs, staged'[r] # None PROVE ManifestOf(r, staged[r])'
    OBVIOUS
  <2>1. ManifestOf(r, staged[r])
    BY <1>3 DEF IInv
  <2>. QED
    BY <1>2, <1>3, <2>1
<1>6. StepsMatch'
  <2>1. run \in Runs /\ ManifestOf(run, published[run])
    BY DEF IInv, TypeOK
  <2>2. CASE pc' = "reconcile"
    BY <1>2, <2>2 DEF StepsMatch
  <2>3. CASE pc' = "mark" /\ work' = work /\ work.run = run /\ published[run] = work
    <3>1. ManifestOf(work.run, work)'
      BY <1>2, <2>1, <2>3
    <3>. QED
      BY <1>2, <1>3, <2>1, <2>3, <3>1 DEF StepsMatch
  <2>. QED
    BY <1>1, <2>2, <2>3
<1>7. IInv'
  BY <1>2, <1>3, <1>4, <1>5, <1>6 DEF IInv
<1>. QED
  BY <1>2, <1>7

\* A manifest is marked only when the database has its run.
LEMMA MarkKeeps ==
  ASSUME IInv, ReconcileMark \/ Mark
  PROVE  IInv'
<1>1. PICK run \in database :
        /\ committed' = committed \cup {run}
        /\ \/ pc = "reconcile" /\ pc' = pc /\ work' = work
           \/ End
        /\ headless \ {run} \subseteq headless' /\ headless' \subseteq headless
        /\ UNCHANGED <<updated, staged, published, lost, cleaning, sqlite>>
  <2>1. CASE ReconcileMark
    BY <2>1 DEF ReconcileMark
  <2>2. CASE Mark
    BY <2>2 DEF Mark, IInv, StepsMatch
  <2>. QED
    BY <2>1, <2>2
<1>2. CommittedIsIndexed'
  BY <1>1 DEF IInv, CommittedIsIndexed, sqlite
<1>3. TypeOK'
  BY <1>1 DEF IInv, TypeOK, CommittedIsIndexed, sqlite, End
<1>4. StepsMatch'
  BY <1>1, Quiet DEF IInv, StepsMatch, End
<1>5. \A r \in Runs : staged'[r] # None => ManifestOf(r, staged[r])'
  BY <1>1, Quiet DEF IInv
<1>. QED
  BY <1>1, <1>2, <1>3, <1>4, <1>5, Quiet DEF IInv

-----------------------------------------------------------------------------
(* Everything else *)

\* A command is taken up, refused or paused, or its process dies.
LEMMA ProcessKeeps ==
  ASSUME IInv, Lock \/ Refuse \/ Fail \/ PauseRefresh
  PROVE  IInv'
<1>1. CASE Lock
  <2>1. TypeOK'
    BY <1>1 DEF Lock, IInv, TypeOK, files, sqlite
  <2>2. StepsMatch'
    BY <1>1, Quiet DEF Lock, IInv, StepsMatch, files
  <2>3. \A r \in Runs : staged'[r] # None => ManifestOf(r, staged[r])'
    BY <1>1, Quiet DEF Lock, IInv, files
  <2>. QED
    BY <1>1, <2>1, <2>2, <2>3, Quiet DEF Lock, IInv, files
<1>2. CASE Refuse \/ Fail
  <2>1. End /\ UNCHANGED <<updated, files, cleaning, sqlite>>
    BY <1>2 DEF Refuse, Fail
  <2>2. TypeOK'
    BY <2>1 DEF End, IInv, TypeOK, files, sqlite
  <2>3. \A r \in Runs : staged'[r] # None => ManifestOf(r, staged[r])'
    BY <2>1, Quiet DEF IInv, files
  <2>4. DOMAIN staged' = Runs
    BY <2>1 DEF IInv, files
  <2>. QED
    BY <2>1, <2>2, <2>3, <2>4, EndKeeps DEF files
<1>3. CASE PauseRefresh
  <2>. DEFINE manifest == [work EXCEPT !.truncated = TRUE]
  <2>1. /\ End /\ UNCHANGED <<updated, published, committed, lost, headless, cleaning, sqlite>>
        /\ staged' = [staged EXCEPT ![work.run] = manifest]
        /\ work.purpose = "identity_refresh"
        /\ ManifestOf(work.run, work) /\ work.run \in Runs /\ work.run \notin DOMAIN published
    BY <1>3, AtWork DEF PauseRefresh
  <2>2. ManifestOf(work.run, manifest)
    BY <2>1 DEF ManifestOf
  <2>. HIDE DEF manifest
  <2>3. TypeOK'
    BY <2>1 DEF End, IInv, TypeOK, sqlite
  <2>4. ASSUME NEW r \in Runs, staged'[r] # None PROVE ManifestOf(r, staged[r])'
    <3>1. CASE r = work.run
      <4>1. ManifestOf(r, manifest) /\ staged'[r] = manifest
        BY <2>1, <2>2, <3>1 DEF IInv
      <4>. QED
        BY <2>1, <4>1, Quiet
    <3>2. CASE r # work.run
      <4>1. staged'[r] = staged[r] /\ ManifestOf(r, staged[r])
        BY <2>1, <2>4, <3>2 DEF IInv
      <4>. QED
        BY <2>1, <4>1, Quiet
    <3>. QED
      BY <3>1, <3>2
  <2>5. DOMAIN staged' = Runs
    BY <2>1 DEF IInv
  <2>. QED
    BY <2>1, <2>3, <2>4, <2>5, EndKeeps
<1>. QED
  BY <1>1, <1>2, <1>3

\* The source moves, or a staging directory is emptied under whoever uses it.
LEMMA OutsideKeeps ==
  ASSUME IInv,
         \/ \E r \in Rows, time \in 0 .. MaxTime : SourceChanges(r, time)
         \/ \E run \in Runs : CleanOpens(run)
         \/ CleanEmpties
  PROVE  IInv'
<1>1. /\ UNCHANGED <<work, pc, published, sqlite>>
      /\ committed' \subseteq committed /\ headless \subseteq headless'
      /\ DOMAIN staged' = Runs
      /\ \A run \in Runs : staged'[run] \in {staged[run], None}
      /\ TypeOK'
  <2>1. CASE \E r \in Rows, time \in 0 .. MaxTime : SourceChanges(r, time)
    BY <2>1 DEF SourceChanges, IInv, TypeOK, files, sqlite
  <2>2. CASE \E run \in Runs : CleanOpens(run)
    BY <2>2 DEF CleanOpens, IInv, TypeOK, files, sqlite
  <2>3. CASE CleanEmpties
    <3>1. /\ cleaning \in Runs /\ lost' \subseteq Runs /\ cleaning' = None
          /\ staged' = [staged EXCEPT ![cleaning] = None]
          /\ committed' \subseteq committed
          /\ headless \subseteq headless' /\ headless' \subseteq DOMAIN published
          /\ UNCHANGED <<updated, published, work, pc, sqlite>>
      BY <2>3 DEF CleanEmpties, IInv, TypeOK
    <3>. QED
      BY <3>1 DEF IInv, TypeOK, sqlite
  <2>. QED
    BY <2>1, <2>2, <2>3
<1>2. StepsMatch'
  BY <1>1, Quiet DEF IInv, StepsMatch, Abreast, sqlite
<1>3. ASSUME NEW r \in Runs, staged'[r] # None PROVE ManifestOf(r, staged[r])'
  <2>1. staged'[r] = staged[r] /\ ManifestOf(r, staged[r])
    BY <1>1, <1>3 DEF IInv
  <2>. QED
    BY <1>1, <2>1, Quiet
<1>. QED
  BY <1>1, <1>2, <1>3, Quiet DEF IInv

-----------------------------------------------------------------------------
(* What is brought *)

\* The source stands still, and nothing else moves for the run.
LEMMA BroughtStays ==
  ASSUME NEW run, NEW manifest, Brought(run, manifest),
         updated' = updated, moved'[run] = moved[run]
  PROVE  Brought(run, manifest)'
  BY DEF Brought, Matches, Passed, Place

\* A step of one run, which has this manifest from now on.
GoesOn(run, manifest) ==
  /\ run \in Runs /\ manifest.run = run
  /\ updated' = updated
  /\ \/ moved' = moved /\ staged' = staged
     \/ /\ moved' = moved \/ moved' = [moved EXCEPT ![run] = {}]
        /\ staged' = [staged EXCEPT ![run] = manifest]
  /\ pc' \in {"extract", "publish"} => work' = manifest

\* The other runs stay what they were.
LEMMA RunGoesOn ==
  ASSUME RangeIInv, IInv, NEW run, NEW manifest, GoesOn(run, manifest),
         Brought(run, manifest)'
  PROVE  RangeIInv'
<1>. USE DEF GoesOn
<1>1. DOMAIN moved' = Runs /\ DOMAIN staged = Runs
  BY DEF RangeIInv, IInv
<1>2. ASSUME NEW r \in Runs, staged'[r] # None PROVE Brought(r, staged[r])'
  <2>1. CASE staged'[r] = manifest /\ r = run
    BY <2>1
  <2>2. CASE staged'[r] = staged[r] /\ moved'[r] = moved[r]
    <3>1. Brought(r, staged[r])
      BY <1>2, <2>2 DEF RangeIInv
    <3>. QED
      BY <2>2, <3>1, BroughtStays
  <2>. QED
    BY <1>1, <2>1, <2>2 DEF RangeIInv
<1>3. pc' \in {"extract", "publish"} => Brought(work.run, work)'
  OBVIOUS
<1>. QED
  BY <1>1, <1>2, <1>3 DEF RangeIInv

\* The same, of a run for which nothing moved.
LEMMA RunCarriesOn ==
  ASSUME RangeIInv, IInv, NEW run, NEW manifest, GoesOn(run, manifest),
         moved' = moved, Brought(run, manifest)
  PROVE  RangeIInv'
  BY RunGoesOn, BroughtStays DEF GoesOn

\* Nothing is lost, while nobody is at work or what was at work goes on.
LEMMA RangeStays ==
  ASSUME RangeIInv, IInv, updated' = updated, moved' = moved,
         \A r \in Runs : staged'[r] \in {staged[r], None},
         \/ pc' \notin {"extract", "publish"}
         \/ pc' = pc /\ work' = work
  PROVE  RangeIInv'
<1>1. ASSUME NEW r \in Runs, staged'[r] # None PROVE Brought(r, staged[r])'
  <2>1. staged'[r] = staged[r] /\ Brought(r, staged[r])
    BY <1>1 DEF RangeIInv
  <2>. QED
    BY <2>1, BroughtStays
<1>2. ASSUME pc' \in {"extract", "publish"} PROVE Brought(work.run, work)'
  <2>1. work' = work /\ Brought(work.run, work)
    BY <1>2 DEF RangeIInv
  <2>. QED
    BY <2>1, BroughtStays
<1>. QED
  BY <1>1, <1>2 DEF RangeIInv

\* A contract that moves counts no longer for any run under way.
LEMMA SourceKeepsRange ==
  ASSUME RangeIInv, IInv, NEW q \in Rows, NEW time \in 0 .. MaxTime, SourceChanges(q, time)
  PROVE  RangeIInv'
<1>1. /\ \A r \in Rows : r # q => updated'[r] = updated[r]
      /\ moved' = [run \in Runs |-> IF Underway(run) THEN moved[run] \cup {q} ELSE {}]
      /\ UNCHANGED <<staged, work, pc>>
  BY DEF SourceChanges, IInv, TypeOK, files
<1>2. ASSUME NEW run \in Runs, NEW manifest, Underway(run), Brought(run, manifest)
      PROVE  Brought(run, manifest)'
  <2>1. \A r \in Rows \ moved'[run] : r \notin moved[run] /\ updated'[r] = updated[r]
    BY <1>1, <1>2
  <2>2. \A r \in Rows \ moved'[run] : Place(r)' = Place(r)
    BY <2>1 DEF Place
  <2>3. \A r \in Rows \ moved'[run], lane \in Lanes :
          Matches(r, lane, manifest.window)' = Matches(r, lane, manifest.window)
    BY <2>1 DEF Matches
  <2>. QED
    BY <1>2, <2>1, <2>2, <2>3 DEF Brought, Passed
<1>3. \A run \in Runs : staged'[run] # None => Brought(run, staged[run])'
  BY <1>1, <1>2 DEF RangeIInv, Underway
<1>4. ASSUME pc' \in {"extract", "publish"} PROVE Brought(work.run, work)'
  <2>1. Brought(work.run, work) /\ Underway(work.run) /\ work.run \in Runs
    BY <1>1, <1>4, AtWork DEF RangeIInv, Underway
  <2>. QED
    BY <1>1, <1>2, <2>1
<1>. QED
  BY <1>1, <1>3, <1>4 DEF RangeIInv

\* Nothing is passed at first.
LEMMA CreateKeepsRange ==
  ASSUME RangeIInv, IInv, NEW run \in Runs,
         \/ \E request \in Requests, overlap \in Overlaps : Create(run, request, overlap)
         \/ \E ids \in Batches : CreateRefresh(run, ids)
  PROVE  RangeIInv'
<1>1. ASSUME NEW request \in Requests, NEW overlap \in Overlaps, Create(run, request, overlap)
      PROVE  RangeIInv'
  <2>1. PICK manifest : manifest = NewIncremental(run, request, overlap)
    OBVIOUS
  <2>2. /\ manifest.run = run /\ manifest.purpose = "incremental"
        /\ manifest.got = {} /\ manifest.done = {}
        /\ manifest.cursor = [lane \in Lanes |-> <<0, -1>>]
    BY <2>1 DEF NewIncremental, Null
  <2>3. /\ staged' = [staged EXCEPT ![run] = manifest] /\ work' = manifest
        /\ moved' = [moved EXCEPT ![run] = {}] /\ updated' = updated
    BY <1>1, <2>1, <2>2 DEF Create, Stage
  <2>4. ASSUME NEW lane \in Lanes, NEW r \in Rows, Matches(r, lane, manifest.window)
        PROVE  ~Passed(manifest, lane, r)
    <3>1. updated[r] \in Int /\ updated[r] >= 0 /\ r \in Nat
      <4>1. updated[r] \in -1 .. MaxTime
        BY DEF IInv, TypeOK
      <4>2. updated[r] > 0 \/ updated[r] = 0
        BY <2>4 DEF Matches, Null
      <4>. QED
        BY <4>1, <4>2
    <3>2. After(Place(r), <<0, -1>>)
      BY <3>1 DEF After, Place
    <3>. QED
      BY <2>2, <3>2 DEF Passed
  <2>5. \A lane \in Lanes, r \in Rows :
          ~(Matches(r, lane, manifest.window)' /\ Passed(manifest, lane, r)')
    BY <2>3, <2>4 DEF Matches, Passed, Place
  <2>6. IsFiniteSet(manifest.got)
    BY <2>2, FS_EmptySet
  <2>7. manifest.cursor \in [Lanes -> Int \X Int]
    BY <2>2
  <2>8. Brought(run, manifest)'
    BY <2>2, <2>5, <2>6, <2>7 DEF Brought
  <2>9. GoesOn(run, manifest)
    BY <2>2, <2>3 DEF GoesOn
  <2>. QED
    BY <2>8, <2>9, RunGoesOn
<1>2. ASSUME NEW ids \in Batches, CreateRefresh(run, ids) PROVE RangeIInv'
  <2>1. PICK manifest : manifest = NewRefresh(run, ids)
    OBVIOUS
  <2>2. /\ manifest.run = run /\ manifest.purpose = "identity_refresh"
        /\ manifest.ids = ids /\ manifest.done = {} /\ ~manifest.complete
    BY <2>1 DEF NewRefresh
  <2>3. GoesOn(run, manifest)
    BY <1>2, <2>1, <2>2 DEF CreateRefresh, Stage, GoesOn
  <2>4. Brought(run, manifest)'
    BY <2>2, TimeAssumption DEF Brought
  <2>. QED
    BY <2>3, <2>4, RunGoesOn
<1>. QED
  BY <1>1, <1>2

\* What was brought is found again.
LEMMA ResumeKeepsRange ==
  ASSUME RangeIInv, IInv, NEW run \in Runs, Resume(run)
  PROVE  RangeIInv'
<1>1. /\ staged[run] # None /\ ManifestOf(run, staged[run])
      /\ Brought(run, staged[run]) /\ UNCHANGED <<updated, moved, staged>>
  BY DEF Resume, IInv, RangeIInv, files
<1>2. PICK manifest :
        /\ work' = manifest /\ manifest.run = run
        /\ \/ manifest = staged[run]
           \/ /\ manifest = [staged[run] EXCEPT !.truncated = FALSE]
              /\ staged[run].purpose = "identity_refresh"
  BY <1>1 DEF Resume, ManifestOf
<1>3. Brought(run, manifest)
  BY <1>1, <1>2 DEF Brought, ManifestOf
<1>4. GoesOn(run, manifest)
  BY <1>1, <1>2 DEF GoesOn
<1>. QED
  BY <1>1, <1>3, <1>4, RunCarriesOn

\* The pause of a refresh is a manifest like the one at work.
LEMMA PauseKeepsRange ==
  ASSUME RangeIInv, IInv, PauseRefresh
  PROVE  RangeIInv'
<1>1. /\ work.purpose = "identity_refresh" /\ ManifestOf(work.run, work)
      /\ work.run \in Runs /\ Brought(work.run, work)
  BY AtWork DEF PauseRefresh, RangeIInv
<1>. DEFINE manifest == [work EXCEPT !.truncated = TRUE]
<1>2. Brought(work.run, manifest) /\ manifest.run = work.run
  BY <1>1 DEF Brought, ManifestOf
<1>3. /\ staged' = [staged EXCEPT ![work.run] = manifest]
      /\ pc' = "idle" /\ UNCHANGED <<updated, moved>>
  BY DEF PauseRefresh, End
<1>. HIDE DEF manifest
<1>4. GoesOn(work.run, manifest)
  BY <1>1, <1>2, <1>3 DEF GoesOn
<1>. QED
  BY <1>2, <1>3, <1>4, RunCarriesOn

\* Only the marks of the manifest at work change; a refresh is complete when all
\* its batches were asked for.
LEMMA ExtractedKeepsRange ==
  ASSUME RangeIInv, IInv, Extracted \/ ExtractedIds
  PROVE  RangeIInv'
<1>1. pc = "extract" /\ UNCHANGED <<updated, moved, staged>>
  BY DEF Extracted, ExtractedIds, files
<1>2. ManifestOf(work.run, work) /\ work.run \in Runs /\ Brought(work.run, work)
  BY <1>1, AtWork DEF RangeIInv
<1>3. PICK manifest :
        /\ work' = manifest
        /\ manifest.run = work.run /\ manifest.purpose = work.purpose
        /\ manifest.window = work.window /\ manifest.cursor = work.cursor
        /\ manifest.done = work.done /\ manifest.got = work.got /\ manifest.ids = work.ids
        /\ manifest.purpose = "identity_refresh" =>
             (manifest.complete => manifest.done = manifest.ids)
  <2>1. DOMAIN work = {"run", "purpose", "window", "before", "cursor", "done", "got",
                       "ids", "truncated", "complete"}
    BY <1>2 DEF ManifestOf
  <2>2. CASE Extracted
    BY <2>1, <2>2 DEF Extracted
  <2>3. CASE ExtractedIds
    BY <2>1, <2>3 DEF ExtractedIds, RangeComplete
  <2>. QED
    BY <2>2, <2>3
<1>4. Brought(work.run, manifest)
  BY <1>2, <1>3 DEF Brought, Passed
<1>5. GoesOn(work.run, manifest)
  BY <1>1, <1>2, <1>3 DEF GoesOn
<1>. QED
  BY <1>1, <1>4, <1>5, RunCarriesOn

\* The next page: what the cursor passes is in it, or was there before.
LEMMA FetchPageKeepsRange ==
  ASSUME RangeIInv, IInv, FetchPage
  PROVE  RangeIInv'
<1>1. /\ pc = "extract" /\ UNCHANGED <<updated, moved>>
      /\ work.purpose = "incremental" /\ work.done # Lanes
      /\ Cardinality(work.got) < MaxRows
  BY DEF FetchPage
<1>2. ManifestOf(work.run, work) /\ work.run \in Runs /\ Brought(work.run, work)
  BY <1>1, AtWork DEF RangeIInv
<1>3. /\ IsFiniteSet(work.got) /\ work.done \subseteq Lanes
      /\ work.cursor \in [Lanes -> Int \X Int]
      /\ \A lane \in Lanes, r \in Rows \ moved[work.run] :
           Matches(r, lane, work.window) /\ Passed(work, lane, r)
           => <<r, updated[r]>> \in work.got
  BY <1>1, <1>2 DEF Brought
<1>4. updated \in [Rows -> -1 .. MaxTime]
  BY DEF IInv, TypeOK
<1>. DEFINE lane == NextLane(work)
            limit == Least(PageSize, MaxRows - Cardinality(work.got))
            rows == Page(work, lane, limit)
            rest == {r \in Rows : /\ Matches(r, lane, work.window)
                                  /\ After(Place(r), work.cursor[lane])}
            places == {Place(r) : r \in rows}
            last == IF rows = {} THEN work.cursor[lane]
                    ELSE CHOOSE x \in places : \A y \in places : x = y \/ After(x, y)
            manifest == [work EXCEPT
                !.got = @ \cup {<<r, updated[r]>> : r \in rows},
                !.cursor[lane] = last,
                !.done = IF Cardinality(rows) < limit THEN @ \cup {lane} ELSE @]
<1>5. lane \in Lanes
  BY DEF NextLane, Lanes
<1>6. limit \in Nat \ {0}
  BY <1>1, <1>3, FS_CardinalityType DEF Least
<1>7. rest \subseteq Rows /\ rows \subseteq rest
      /\ rows = {r \in rest : Cardinality({s \in rest : After(Place(r), Place(s))}) < limit}
  BY DEF Page
<1>8. Stage(manifest)
  BY DEF FetchPage
<1>9. /\ manifest.run = work.run /\ manifest.purpose = work.purpose
      /\ manifest.window = work.window
      /\ manifest.got = work.got \cup {<<r, updated[r]>> : r \in rows}
      /\ manifest.cursor = [work.cursor EXCEPT ![lane] = last]
      /\ manifest.done = IF Cardinality(rows) < limit THEN work.done \cup {lane} ELSE work.done
  BY <1>2 DEF ManifestOf
<1>10. rows = {} => last = work.cursor[lane]
  OBVIOUS
<1>11. rows # {} =>
         last = CHOOSE x \in {Place(r) : r \in rows} :
                  \A y \in {Place(r) : r \in rows} : x = y \/ After(x, y)
  OBVIOUS
<1>12. \A r \in rest : Matches(r, lane, work.window) /\ After(Place(r), work.cursor[lane])
  OBVIOUS
<1>13. \A r \in Rows : Matches(r, lane, work.window) /\ After(Place(r), work.cursor[lane])
                       => r \in rest
  OBVIOUS
<1>. HIDE DEF lane, limit, rows, rest, places, last, manifest
<1>14. FirstPage(rest, limit, rows)
  BY <1>6, <1>7 DEF FirstPage
<1>15. /\ \A r \in rest, s \in rows : ~After(Place(r), Place(s)) => r \in rows
       /\ Cardinality(rows) < limit => rows = rest
       /\ rows = {} => rest = {}
  BY <1>4, <1>14, FirstRows
<1>16. ASSUME rows # {}
       PROVE  \E s \in rows :
                /\ last = Place(s) /\ last \in Int \X Int
                /\ \A r \in rows : last = Place(r) \/ After(last, Place(r))
  <2>1. rows \subseteq Rows
    BY <1>7
  <2>. QED
    BY <1>4, <1>11, <1>16, <2>1, LastPlace
<1>17. IsFiniteSet(manifest.got)
  <2>. DEFINE page == {<<r, updated[r]>> : r \in rows}
  <2>1. IsFiniteSet(Rows \X (-1 .. MaxTime))
    <3>1. IsFiniteSet(-1 .. MaxTime)
      BY FS_Interval, MaxTime \in Int
    <3>. QED
      BY <3>1, FS_Product
  <2>2. page \subseteq Rows \X (-1 .. MaxTime)
    BY <1>4, <1>7
  <2>3. IsFiniteSet(page)
    BY <2>1, <2>2, FS_Subset
  <2>. HIDE DEF page
  <2>4. IsFiniteSet(work.got \cup page)
    BY <1>3, <2>3, FS_Union
  <2>. QED
    BY <1>9, <2>4 DEF page
<1>18. manifest.cursor \in [Lanes -> Int \X Int] /\ manifest.done \subseteq Lanes
  BY <1>3, <1>5, <1>9, <1>10, <1>16
<1>19. ASSUME NEW l \in Lanes, NEW r \in Rows \ moved[work.run],
              Matches(r, l, work.window), Passed(manifest, l, r)
       PROVE  <<r, updated[r]>> \in manifest.got
  <2>1. CASE Passed(work, l, r)
    BY <1>3, <1>9, <1>19, <2>1
  <2>2. CASE ~Passed(work, l, r)
    <3>1. l \notin work.done /\ After(Place(r), work.cursor[l])
      BY <2>2 DEF Passed
    <3>2. l = lane
      <4>. SUFFICES ASSUME l # lane PROVE FALSE
        OBVIOUS
      <4>1. manifest.cursor[l] = work.cursor[l] /\ (l \in manifest.done => l \in work.done)
        BY <1>3, <1>9
      <4>. QED
        BY <1>19, <3>1, <4>1 DEF Passed
    <3>3. r \in rest
      BY <1>13, <1>19, <3>1, <3>2
    <3>4. r \in rows
      <4>1. CASE l \in manifest.done
        BY <1>9, <1>15, <3>1, <3>3, <4>1
      <4>2. CASE l \notin manifest.done
        <5>1. manifest.cursor[l] = last
          BY <1>3, <1>9, <3>2
        <5>2. ~After(Place(r), last)
          BY <1>19, <4>2, <5>1 DEF Passed
        <5>3. rows # {}
          BY <1>15, <3>3
        <5>. QED
          BY <1>15, <1>16, <3>3, <5>2, <5>3
      <4>. QED
        BY <4>1, <4>2
    <3>. QED
      BY <1>9, <3>4
  <2>. QED
    BY <2>1, <2>2
<1>20. Brought(work.run, manifest)
  BY <1>1, <1>9, <1>17, <1>18, <1>19 DEF Brought
<1>21. GoesOn(work.run, manifest)
  BY <1>1, <1>2, <1>8, <1>9 DEF Stage, GoesOn
<1>. QED
  BY <1>1, <1>20, <1>21, RunCarriesOn

\* The next batch: whatever the source has of it.
LEMMA FetchBatchKeepsRange ==
  ASSUME RangeIInv, IInv, FetchBatch
  PROVE  RangeIInv'
<1>1. /\ pc = "extract" /\ UNCHANGED <<updated, moved>>
      /\ work.purpose = "identity_refresh"
  BY DEF FetchBatch
<1>2. ManifestOf(work.run, work) /\ work.run \in Runs /\ Brought(work.run, work)
  BY <1>1, AtWork DEF RangeIInv
<1>. DEFINE rest == work.ids \ work.done
            batch == {r \in rest : Cardinality({s \in rest : s < r}) < PageSize}
            manifest == [work EXCEPT
                !.got = @ \cup {<<r, updated[r]>> : r \in {s \in batch : updated[s] # Absent}},
                !.done = @ \cup batch]
<1>3. batch \subseteq work.ids
  OBVIOUS
<1>4. Stage(manifest)
  BY DEF FetchBatch
<1>. HIDE DEF batch
<1>5. /\ manifest.run = work.run /\ manifest.purpose = work.purpose
      /\ manifest.ids = work.ids /\ manifest.complete = work.complete
      /\ manifest.got = work.got \cup {<<r, updated[r]>> : r \in {s \in batch : updated[s] # Absent}}
      /\ manifest.done = work.done \cup batch
  BY <1>2 DEF ManifestOf
<1>. HIDE DEF manifest
<1>6. Brought(work.run, manifest)
  BY <1>1, <1>2, <1>3, <1>5 DEF Brought
<1>7. GoesOn(work.run, manifest)
  BY <1>1, <1>2, <1>4, <1>5 DEF Stage, GoesOn
<1>. QED
  BY <1>1, <1>6, <1>7, RunCarriesOn

-----------------------------------------------------------------------------
(* The theorems *)

\* Every step keeps the invariant.
LEMMA StepKeeps == IInv /\ [Next]_vars => IInv'
<1>. SUFFICES ASSUME IInv, [Next]_vars PROVE IInv'
  OBVIOUS
<1>1. CASE UNCHANGED vars
  <2>1. TypeOK' /\ StepsMatch' /\ DOMAIN staged' = Runs
    BY <1>1, Quiet DEF vars, files, sqlite, IInv, TypeOK, StepsMatch, Abreast
  <2>2. \A r \in Runs : staged'[r] # None => ManifestOf(r, staged[r])'
    BY <1>1, Quiet DEF vars, files, IInv
  <2>. QED
    BY <1>1, <2>1, <2>2, Quiet DEF vars, files, IInv
<1>2. CASE Step
  BY <1>2, ProcessKeeps, CommitKeeps, MarkKeeps, FetchKeeps, ExtractedKeeps, PublishKeeps DEF Step
<1>3. ASSUME NEW run \in Runs,
             \/ Resume(run) \/ CleanOpens(run)
             \/ \E request \in Requests, overlap \in Overlaps : Create(run, request, overlap)
             \/ \E ids \in Batches : CreateRefresh(run, ids)
      PROVE  IInv'
  BY <1>3, ResumeKeeps, OutsideKeeps, CreateKeeps, CreateRefreshKeeps
<1>. QED
  BY <1>1, <1>2, <1>3, ProcessKeeps, OutsideKeeps DEF Next

\* The files, the database and the process agree at every step, whatever dies.
THEOREM IngestionInductive == Spec => []IInv
<1>1. Init => IInv
  BY DEF Init, IInv, TypeOK, Reached, Pending, StepsMatch, CommittedIsIndexed, Absent, Null,
         NoWindowSkipped, Unbroken
<1>. QED
  BY <1>1, StepKeeps, PTL DEF Spec

\* The manifest never says more than the database, nor the database more than
\* what is published, and the index is what its runs brought.
THEOREM IndexIsCommitted == Spec => []CommittedIsIndexed
<1>1. IInv => CommittedIsIndexed
  BY DEF IInv
<1>. QED
  BY <1>1, IngestionInductive, PTL

\* The checkpoint is what a complete run went up to, and moves back by no more
\* than the overlap of the run that moves it.
THEOREM CheckpointMovesLittle == Spec => CheckpointHeld
<1>1. ASSUME IInv, [Next]_vars PROVE Held
  <2>1. CASE checkpoint' = checkpoint
    BY <2>1 DEF Held
  <2>2. CASE checkpoint' # checkpoint
    <3>1. ReconcileCommit \/ CommitWork
      BY <1>1, <2>2 DEF Next, Step, vars, sqlite, Lock, ReconcileMark, FetchPage, Extracted, FetchBatch,
                  ExtractedIds, Publish, Mark, PauseRefresh, Refuse, Fail, CleanEmpties, Resume,
                  CleanOpens, Create, CreateRefresh, SourceChanges
    <3>. QED
      BY <1>1, <3>1, CommitKeeps
  <2>. QED
    BY <2>1, <2>2
<1>2. IInv /\ [Next]_vars => [Held]_vars
  BY <1>1
<1>. QED
  BY <1>2, IngestionInductive, PTL DEF Spec, CheckpointHeld, Held

\* While operators ask for contiguous windows, complete runs asked the source for every
\* time up to the checkpoint, whatever the overlaps, the order in which runs are
\* committed and what dies.
THEOREM NothingIsSkipped == Spec => []NoWindowSkipped
<1>1. IInv => NoWindowSkipped
  BY DEF IInv
<1>. QED
  BY <1>1, IngestionInductive, PTL

\* Every step keeps what is brought.
LEMMA StepKeepsRange == IInv /\ RangeIInv /\ [Next]_vars => RangeIInv'
<1>. SUFFICES ASSUME IInv, RangeIInv, [Next]_vars PROVE RangeIInv'
  OBVIOUS
<1>1. CASE UNCHANGED vars
  <2>1. /\ updated' = updated /\ moved' = moved /\ staged' = staged
        /\ pc' = pc /\ work' = work
    BY <1>1 DEF vars, files
  <2>. QED
    BY <2>1, RangeStays
<1>2. CASE \/ Lock \/ ReconcileCommit \/ ReconcileMark \/ Publish \/ CommitWork \/ Mark
           \/ Refuse \/ Fail \/ CleanEmpties \/ \E run \in Runs : CleanOpens(run)
  <2>1. updated' = updated /\ moved' = moved
    BY <1>2 DEF Lock, ReconcileCommit, ReconcileMark, Publish, CommitWork, Mark, Refuse, Fail,
                CleanEmpties, CleanOpens
  <2>2. \A r \in Runs : staged'[r] \in {staged[r], None}
    BY <1>2 DEF Lock, ReconcileCommit, ReconcileMark, Publish, CommitWork, Mark, Refuse, Fail,
                CleanEmpties, CleanOpens, files, IInv
  <2>3. \/ pc' \notin {"extract", "publish"}
        \/ pc' = pc /\ work' = work
    BY <1>2 DEF Lock, ReconcileCommit, ReconcileMark, Publish, CommitWork, Mark, Refuse, Fail,
                CleanEmpties, CleanOpens, End
  <2>. QED
    BY <2>1, <2>2, <2>3, RangeStays
<1>3. CASE FetchPage \/ FetchBatch \/ Extracted \/ ExtractedIds \/ PauseRefresh
  BY <1>3, FetchPageKeepsRange, FetchBatchKeepsRange, ExtractedKeepsRange, PauseKeepsRange
<1>4. ASSUME NEW run \in Runs,
             \/ Resume(run)
             \/ \E request \in Requests, overlap \in Overlaps : Create(run, request, overlap)
             \/ \E ids \in Batches : CreateRefresh(run, ids)
      PROVE  RangeIInv'
  BY <1>4, ResumeKeepsRange, CreateKeepsRange
<1>5. ASSUME NEW r \in Rows, NEW time \in 0 .. MaxTime, SourceChanges(r, time)
      PROVE  RangeIInv'
  BY <1>5, SourceKeepsRange
<1>. QED
  BY <1>1, <1>2, <1>3, <1>4, <1>5 DEF Next, Step

\* What was passed is in the manifest, at every step of every run.
THEOREM RangeInductive == Spec => []RangeIInv
<1>1. Init => RangeIInv
  BY DEF Init, RangeIInv
<1>2. (IInv /\ IInv') /\ RangeIInv /\ [Next]_vars => RangeIInv'
  BY StepKeepsRange
<1>. QED
  BY <1>1, <1>2, IngestionInductive, PTL DEF Spec

\* A run that is published as complete has every contract that stood in its window
\* all the time, whatever moved, died and was resumed meanwhile.
THEOREM CompleteHoldsItsRange == Spec => RunHoldsItsRange
<1>. DEFINE Holds ==
       \A run \in DOMAIN published' \ DOMAIN published :
         published'[run].complete
         => \A r \in Owed(published'[run]) \ moved[run] :
              <<r, updated[r]>> \in published'[run].got
<1>1. ASSUME IInv, RangeIInv, [Next]_vars PROVE Holds
  <2>. SUFFICES ASSUME NEW run \in DOMAIN published' \ DOMAIN published,
                       published'[run].complete,
                       NEW r \in Owed(published'[run]) \ moved[run]
                PROVE  <<r, updated[r]>> \in published'[run].got
    OBVIOUS
  <2>1. Publish
    BY <1>1 DEF Next, Step, vars, files, Lock, ReconcileCommit, ReconcileMark, FetchPage,
                Extracted, FetchBatch, ExtractedIds, CommitWork, Mark, PauseRefresh, Refuse,
                Fail, CleanEmpties, Resume, CleanOpens, Create, CreateRefresh, SourceChanges
  <2>2. published'[run] = work /\ run = work.run
    BY <2>1 DEF Publish
  <2>3. ManifestOf(work.run, work) /\ Brought(work.run, work)
    BY <1>1, <2>1, AtWork DEF Publish, RangeIInv
  <2>4. work.complete /\ r \in Owed(work) \ moved[work.run]
    BY <2>2
  <2>5. CASE work.purpose = "incremental"
    <3>1. work.done = Lanes
      BY <2>3, <2>4, <2>5 DEF ManifestOf, Concluded
    <3>2. r \in Rows /\ \E lane \in Lanes : Matches(r, lane, work.window)
      BY <2>4, <2>5 DEF Owed
    <3>3. PICK lane \in Lanes : Matches(r, lane, work.window) /\ Passed(work, lane, r)
      BY <3>1, <3>2 DEF Passed
    <3>4. <<r, updated[r]>> \in work.got
      BY <2>3, <2>4, <2>5, <3>2, <3>3 DEF Brought
    <3>. QED
      BY <2>2, <3>4
  <2>6. CASE work.purpose = "identity_refresh"
    <3>1. r \in work.ids /\ updated[r] # Absent
      BY <2>4, <2>6 DEF Owed
    <3>2. work.done = work.ids
      BY <2>3, <2>4, <2>6 DEF Brought
    <3>3. <<r, updated[r]>> \in work.got
      BY <2>3, <2>4, <2>6, <3>1, <3>2 DEF Brought
    <3>. QED
      BY <2>2, <3>3
  <2>. QED
    BY <2>3, <2>5, <2>6 DEF ManifestOf
<1>2. IInv /\ RangeIInv /\ [Next]_vars => [Holds]_vars
  BY <1>1
<1>. QED
  BY <1>2, IngestionInductive, RangeInductive, PTL DEF Spec, RunHoldsItsRange

================================================================================
