------------------------ MODULE SilverSelection_proofs ------------------------
(* Proofs about SilverSelection, for every set of versions, scopes and       *)
(* processes, every manifest and any number of interruptions.                *)
EXTENDS SilverSelection, TLAPS

-----------------------------------------------------------------------------
(* Facts about manifests *)

\* A population has a scope, and is no legacy version and no preview.
LEMMA CandidateFacts ==
  ASSUME NEW v \in Candidates
  PROVE  /\ v \in Versions /\ v \notin Legacy /\ v \notin Previews
         /\ Scope[v] \in Scopes /\ Scope[v] # None
         /\ ScopeOf(v) = Scope[v]
  BY ManifestAssumption, NoneAssumption DEF Candidates, Legacy, Previews, ScopeOf

\* A legacy version has the scope it was adopted under.
LEMMA LegacyFacts ==
  ASSUME NEW v \in Legacy
  PROVE  v \in Versions /\ v \notin Candidates /\ v \notin Previews /\ ScopeOf(v) = adopted[v]
  BY ManifestAssumption DEF Candidates, Legacy, Previews, ScopeOf

-----------------------------------------------------------------------------
(* Type correctness *)

\* A new command is well formed.
LEMMA IssueType ==
  ASSUME TypeOK, NEW p \in Processes, NEW v \in Versions,
         NEW step \in {"build", "wait"}, NEW op \in Operations \ {"none"},
         NEW arg \in Versions \cup Scopes \cup {None}, Issue(p, step, op, v, arg)
  PROVE  TypeOK'
<1>1. [op |-> op, target |-> v, arg |-> arg] \in
        [op : Operations, target : Versions \cup {None}, arg : Versions \cup Scopes \cup {None}]
  OBVIOUS
<1>2. pc'[p] \notin Holding /\ \A q \in Processes \ {p} : pc'[q] = pc[q]
  BY DEF Issue, TypeOK, Holding
<1>. QED
  BY <1>1, <1>2 DEF Issue, TypeOK, files, Holding

\* Ending a command leaves the types, and only one process past the lock.
LEMMA EndType ==
  ASSUME TypeOK, NEW p \in Processes, End(p), UNCHANGED <<files, chosen>>,
         published' \in SUBSET Versions, failures' \in Nat
  PROVE  TypeOK'
<1>1. NoCommand \in
        [op : Operations, target : Versions \cup {None}, arg : Versions \cup Scopes \cup {None}]
  BY DEF NoCommand, Operations
<1>2. pc'[p] \notin Holding /\ \A q \in Processes \ {p} : pc'[q] = pc[q]
  BY DEF End, TypeOK, Holding
<1>. QED
  BY <1>1, <1>2 DEF End, TypeOK, files, Holding

\* A command in progress names a version, and an adoption one of the scopes.
LEMMA Targets ==
  ASSUME TypeOK, CommandSound, NEW p \in Processes, pc[p] # "idle"
  PROVE  /\ cmd[p].target \in Versions
         /\ cmd[p].op \in {"select", "restore", "adopt"}
         /\ cmd[p].op = "adopt" => cmd[p].arg \in Scopes
         /\ cmd[p].arg \in Versions \cup Scopes \cup {None}
<1>1. cmd[p] \in
        [op : Operations, target : Versions \cup {None}, arg : Versions \cup Scopes \cup {None}]
  BY DEF TypeOK
<1>. QED
  BY <1>1 DEF CommandSound, Sound, Operations

\* What a command writes first, case by case.
LEMMA FirstWriteCases ==
  ASSUME NEW p \in Processes
  PROVE  /\ cmd[p].op = "adopt" => FirstWrite(p) = "adopt"
         /\ cmd[p].op # "adopt" /\ cmd[p].target = current /\ current \in registry =>
              FirstWrite(p) = "idle"
         /\ cmd[p].op # "adopt" /\ cmd[p].target = current /\ current \notin registry =>
              FirstWrite(p) = "register"
         /\ cmd[p].op # "adopt" /\ cmd[p].target # current
              /\ cmd[p].target \in Candidates /\ bound = None => FirstWrite(p) = "bind"
         /\ cmd[p].op # "adopt" /\ cmd[p].target # current
              /\ ~(cmd[p].target \in Candidates /\ bound = None) => FirstWrite(p) = "point"
  BY DEF FirstWrite

LEMMA FirstWriteType ==
  ASSUME NEW p \in Processes
  PROVE  FirstWrite(p) \in Holding \cup {"idle"}
  BY FirstWriteCases DEF Holding

-----------------------------------------------------------------------------
(* Steps that write no file *)

\* A process whose command does not move still knows what it knew, if no file
\* moved or if it is not past the lock.
LEMMA SoundStays ==
  ASSUME NEW q \in Processes, Sound(q), pc'[q] = pc[q], cmd'[q] = cmd[q],
         UNCHANGED files \/ pc[q] \notin Holding
  PROVE  Sound(q)'
<1>1. CASE UNCHANGED files
  BY <1>1 DEF Sound, files, InBoundScope, ScopeOf
<1>2. CASE pc[q] \notin Holding
  BY <1>2 DEF Sound, Holding
<1>. QED
  BY <1>1, <1>2

\* What is authoritative depends on the files alone.
LEMMA FilesStay ==
  ASSUME IInv, UNCHANGED <<files, chosen>>
  PROVE  OnePopulation' /\ (current = None => chosen = {})' /\ OneScope'
  BY DEF IInv, OnePopulation, OneScope, files, InBoundScope, ScopeOf, Root

\* A new command changes nothing but its process.
LEMMA IssueKeeps ==
  ASSUME IInv, NEW p \in Processes, NEW v \in Versions,
         NEW step \in {"build", "wait"}, NEW op \in Operations \ {"none"},
         NEW arg \in Versions \cup Scopes \cup {None}, Issue(p, step, op, v, arg),
         step = "wait" => v \notin Previews, step = "build" => op = "select",
         op = "adopt" => v \in Legacy /\ arg \in Scopes
  PROVE  IInv'
<1>1. TypeOK'
  BY IssueType DEF IInv
<1>2. ASSUME NEW q \in Processes PROVE Sound(q)'
  <2>1. CASE q = p
    <3>1. cmd'[p] = [op |-> op, target |-> v, arg |-> arg] /\ pc'[p] = step
      BY DEF Issue, IInv, TypeOK
    <3>. QED
      BY <2>1, <3>1 DEF Sound
  <2>2. CASE q # p
    <3>1. pc'[q] = pc[q] /\ cmd'[q] = cmd[q] /\ UNCHANGED files
      BY <2>2 DEF Issue, IInv, TypeOK
    <3>. QED
      BY <3>1, SoundStays DEF IInv, CommandSound
  <2>. QED
    BY <2>1, <2>2
<1>. QED
  BY <1>1, <1>2, FilesStay DEF IInv, CommandSound, Issue

\* A command that ends without writing changes nothing but its process.
LEMMA EndKeeps ==
  ASSUME IInv, NEW p \in Processes, End(p), UNCHANGED <<files, chosen>>,
         published' \in SUBSET Versions, failures' \in Nat
  PROVE  IInv'
<1>1. TypeOK'
  BY EndType DEF IInv
<1>2. ASSUME NEW q \in Processes PROVE Sound(q)'
  <2>1. CASE q = p
    <3>1. cmd'[p] = NoCommand /\ pc'[p] = "idle"
      BY DEF End, IInv, TypeOK
    <3>. QED
      BY <2>1, <3>1 DEF Sound, NoCommand
  <2>2. CASE q # p
    <3>1. pc'[q] = pc[q] /\ cmd'[q] = cmd[q]
      BY <2>2 DEF End, IInv, TypeOK
    <3>. QED
      BY <3>1, SoundStays DEF IInv, CommandSound
  <2>. QED
    BY <2>1, <2>2
<1>. QED
  BY <1>1, <1>2, FilesStay DEF IInv, CommandSound

\* An allowed decision is one its command may act on.
LEMMA DecisionSound ==
  ASSUME IInv, NEW p \in Processes, pc[p] = "wait", Allowed(p), FirstWrite(p) # "idle",
         Goto(p, FirstWrite(p)), UNCHANGED files
  PROVE  Sound(p)'
<1>1. /\ cmd[p].target \in Versions /\ cmd[p].target \notin Previews
      /\ cmd[p].op \in {"select", "restore", "adopt"}
      /\ cmd[p].op = "adopt" => cmd[p].target \in Legacy /\ cmd[p].arg \in Scopes
  <2>1. Sound(p)
    BY DEF IInv, CommandSound
  <2>. QED
    BY <2>1, Targets DEF IInv, Sound
<1>2. pc'[p] = FirstWrite(p) /\ cmd' = cmd
  BY DEF Goto, IInv, TypeOK
<1>3. CASE cmd[p].op = "adopt"
  <2>1. FirstWrite(p) = "adopt"
    BY <1>3, FirstWriteCases
  <2>2. cmd[p].target = current /\ bound \in {None, cmd[p].arg}
    BY <1>3 DEF Allowed, AdoptAllowed
  <2>. QED
    BY <1>1, <1>2, <1>3, <2>1, <2>2 DEF Sound, files
<1>4. CASE cmd[p].op # "adopt" /\ cmd[p].target = current
  <2>1. FirstWrite(p) = "register"
    BY <1>4, FirstWriteCases
  <2>. QED
    BY <1>1, <1>2, <1>4, <2>1 DEF Sound, files
<1>5. CASE cmd[p].op # "adopt" /\ cmd[p].target # current
  <2>1. /\ InBoundScope(cmd[p].target)
        /\ \/ cmd[p].op = "restore" /\ Restorable(cmd[p].target, cmd[p].arg)
           \/ cmd[p].op = "select" /\ Advances(cmd[p].target)
    BY <1>5 DEF Allowed, SelectAllowed
  <2>2. CASE cmd[p].target \in Candidates /\ bound = None
    <3>1. FirstWrite(p) = "bind"
      BY <1>5, <2>2, FirstWriteCases
    <3>2. cmd[p].op = "select"
      <4>1. cmd[p].target \notin chosen
        BY <2>2, CandidateFacts DEF IInv, OneScope
      <4>. QED
        BY <2>1, <4>1 DEF Restorable, IInv, OnePopulation
    <3>3. current = None /\ Parent[cmd[p].target] = None
      BY <2>1, <2>2, <3>2 DEF Advances
    <3>. QED
      BY <1>1, <1>2, <2>2, <3>1, <3>2, <3>3 DEF Sound, files
  <2>3. CASE ~(cmd[p].target \in Candidates /\ bound = None)
    <3>1. FirstWrite(p) = "point"
      BY <1>5, <2>3, FirstWriteCases
    <3>. QED
      BY <1>1, <1>2, <1>5, <2>1, <2>3, <3>1
      DEF Sound, files, Restorable, Advances, InBoundScope, ScopeOf
  <2>. QED
    BY <2>2, <2>3
<1>. QED
  BY <1>3, <1>4, <1>5

\* Deciding writes nothing yet.
LEMMA DecideKeeps ==
  ASSUME IInv, NEW p \in Processes, Decide(p)
  PROVE  IInv'
<1>1. CASE End(p)
  BY <1>1, EndKeeps DEF Decide, IInv, TypeOK
<1>2. CASE Allowed(p) /\ FirstWrite(p) # "idle" /\ Goto(p, FirstWrite(p))
  <2>1. TypeOK'
    BY <1>2, FirstWriteType DEF Decide, IInv, TypeOK, LockFree, Goto, files, Holding
  <2>2. ASSUME NEW q \in Processes PROVE Sound(q)'
    <3>1. CASE q = p
      BY <1>2, <3>1, DecisionSound DEF Decide
    <3>2. CASE q # p
      <4>1. pc'[q] = pc[q] /\ cmd'[q] = cmd[q]
        BY <1>2, <3>2 DEF Goto, IInv, TypeOK
      <4>. QED
        BY <4>1, SoundStays DEF IInv, CommandSound, Decide
    <3>. QED
      BY <3>1, <3>2
  <2>. QED
    BY <2>1, <2>2, FilesStay DEF IInv, CommandSound, Decide
<1>. QED
  BY <1>1, <1>2 DEF Decide

\* The promotion of a build publishes it, and a preview ends there.
LEMMA PromoteKeeps ==
  ASSUME IInv, NEW p \in Processes, Promote(p)
  PROVE  IInv'
<1>1. cmd[p].target \in Versions /\ pc[p] = "build"
  BY Targets DEF IInv, Promote
<1>2. CASE End(p)
  BY <1>1, <1>2, EndKeeps DEF Promote, IInv, TypeOK
<1>3. CASE cmd[p].target \notin Previews /\ Goto(p, "wait")
  <2>1. TypeOK'
    BY <1>1, <1>3 DEF Promote, IInv, TypeOK, Goto, files, Holding
  <2>2. ASSUME NEW q \in Processes PROVE Sound(q)'
    <3>1. CASE q = p
      <4>1. pc'[p] = "wait" /\ cmd'[p] = cmd[p] /\ Sound(p)
        BY <1>3 DEF Goto, IInv, TypeOK, CommandSound
      <4>. QED
        BY <1>1, <1>3, <3>1, <4>1 DEF Sound
    <3>2. CASE q # p
      <4>1. pc'[q] = pc[q] /\ cmd'[q] = cmd[q]
        BY <1>3, <3>2 DEF Goto, IInv, TypeOK
      <4>. QED
        BY <4>1, SoundStays DEF IInv, CommandSound, Promote
    <3>. QED
      BY <3>1, <3>2
  <2>. QED
    BY <2>1, <2>2, FilesStay DEF IInv, CommandSound, Promote
<1>. QED
  BY <1>2, <1>3 DEF Promote

-----------------------------------------------------------------------------
(* Writes *)

\* Whoever does not write knows what it knew: the writer alone is past the lock.
LEMMA OthersSound ==
  ASSUME IInv, NEW p \in Processes, pc[p] \in Holding,
         \A q \in Processes \ {p} : pc'[q] = pc[q] /\ cmd'[q] = cmd[q]
  PROVE  \A q \in Processes \ {p} : Sound(q)'
<1>1. ASSUME NEW q \in Processes \ {p} PROVE Sound(q)'
  <2>1. pc[q] \notin Holding
    BY DEF IInv, TypeOK
  <2>. QED
    BY <2>1, SoundStays DEF IInv, CommandSound
<1>. QED
  BY <1>1

\* The writer goes on past the lock.
LEMMA GotoHolding ==
  ASSUME IInv, NEW p \in Processes, pc[p] \in Holding, NEW step \in Holding, Goto(p, step)
  PROVE  /\ pc'[p] = step /\ cmd' = cmd
         /\ \A q \in Processes \ {p} : pc'[q] = pc[q] /\ cmd'[q] = cmd[q]
         /\ pc' \in [Processes -> {"idle", "build", "wait"} \cup Holding]
         /\ \A q, r \in Processes : pc'[q] \in Holding /\ pc'[r] \in Holding => q = r
  BY DEF Goto, IInv, TypeOK

\* An adoption's record agrees with the scope the workspace is bound to.
LEMMA AdoptionKeeps ==
  ASSUME IInv, NEW p \in Processes, WriteAdoption(p)
  PROVE  IInv'
<1>. DEFINE v == cmd[p].target
<1>1. /\ pc[p] \in Holding /\ Goto(p, "bind") /\ "bind" \in Holding
      /\ adopted' = [adopted EXCEPT ![v] = cmd[p].arg]
      /\ UNCHANGED <<published, current, bound, registry, chosen, failures>>
  BY DEF WriteAdoption, Holding
<1>2. /\ v \in Legacy /\ cmd[p].arg \in Scopes /\ cmd[p].op = "adopt"
      /\ v = current /\ bound \in {None, cmd[p].arg}
  BY DEF IInv, CommandSound, Sound, WriteAdoption
<1>3. v \in Versions /\ v \notin Candidates /\ v \notin Previews /\ ScopeOf(v)' = cmd[p].arg
  <2>1. v \in Versions /\ v \notin Candidates /\ v \notin Previews
    BY <1>2, LegacyFacts
  <2>2. cmd' = cmd /\ adopted'[v] = cmd[p].arg
    BY <1>1, <2>1, GotoHolding DEF IInv, TypeOK
  <2>. QED
    BY <2>1, <2>2 DEF ScopeOf
<1>4. TypeOK'
  BY <1>1, <1>2, <1>3, GotoHolding DEF IInv, TypeOK
<1>5. OneScope' /\ OnePopulation' /\ (current = None => chosen = {})'
  <2>1. OnePopulation' /\ (current = None => chosen = {})'
    BY <1>1 DEF IInv, OnePopulation, Root
  <2>2. cmd' = cmd /\ ScopeOf(current)' = cmd[p].arg
    BY <1>1, <1>2, <1>3, GotoHolding DEF ScopeOf
  <2>3. InBoundScope(current)'
    BY <1>1, <1>2, <2>2 DEF InBoundScope
  <2>. QED
    BY <1>1, <2>1, <2>3 DEF IInv, OneScope
<1>6. Sound(p)'
  <2>1. adopted'[v] = cmd[p].arg
    BY <1>1, <1>3 DEF IInv, TypeOK
  <2>. QED
    BY <1>1, <1>2, <1>3, <2>1, GotoHolding DEF Sound
<1>. QED
  BY <1>1, <1>4, <1>5, <1>6, GotoHolding, OthersSound DEF IInv, CommandSound

\* The workspace is bound once, to the scope of what is about to be selected or
\* of what was just adopted.
LEMMA ScopeKeeps ==
  ASSUME IInv, NEW p \in Processes, WriteScope(p)
  PROVE  IInv'
<1>. DEFINE v == cmd[p].target
            next == IF cmd[p].op = "adopt" THEN "register" ELSE "point"
<1>1. /\ pc[p] \in Holding /\ Goto(p, next) /\ next \in Holding
      /\ bound' = IF cmd[p].op = "adopt" THEN cmd[p].arg ELSE Scope[v]
      /\ UNCHANGED <<published, current, registry, adopted, chosen, failures>>
  BY DEF WriteScope, Holding
<1>2. Sound(p) /\ v \in Versions /\ v \notin Previews
  BY DEF IInv, CommandSound, Sound, WriteScope
<1>3. CASE cmd[p].op = "adopt"
  <2>1. /\ v \in Legacy /\ cmd[p].arg \in Scopes /\ v = current /\ adopted[v] = cmd[p].arg
        /\ bound \in {None, cmd[p].arg} /\ bound' = cmd[p].arg
    BY <1>1, <1>2, <1>3 DEF Sound, WriteScope
  <2>2. ScopeOf(v)' = cmd[p].arg
    <3>1. v \notin Candidates
      BY <2>1, LegacyFacts
    <3>2. cmd' = cmd /\ adopted' = adopted
      BY <1>1, GotoHolding
    <3>. QED
      BY <2>1, <3>1, <3>2 DEF ScopeOf
  <2>3. \A w \in chosen \cap Candidates : Scope[w] = bound'
    BY <2>1, CandidateFacts DEF IInv, OneScope
  <2>4. TypeOK'
    BY <1>1, <2>1, GotoHolding DEF IInv, TypeOK
  <2>5. Sound(p)'
    BY <1>1, <1>2, <1>3, <2>1, GotoHolding DEF Sound
  <2>. QED
    BY <1>1, <2>1, <2>2, <2>3, <2>4, <2>5, GotoHolding, OthersSound
    DEF IInv, CommandSound, OneScope, OnePopulation, Root, InBoundScope
<1>4. CASE cmd[p].op # "adopt"
  <2>1. /\ cmd[p].op = "select" /\ v \in Candidates /\ Parent[v] = None
        /\ current = None /\ bound' = Scope[v] /\ chosen = {}
    BY <1>1, <1>2, <1>4 DEF Sound, WriteScope, IInv
  <2>2. Scope[v] \in Scopes /\ Scope[v] # None /\ ScopeOf(v)' = Scope[v]
    <3>1. cmd' = cmd
      BY <1>1, GotoHolding
    <3>. QED
      BY <2>1, <3>1, CandidateFacts DEF ScopeOf
  <2>3. TypeOK'
    BY <1>1, <2>1, <2>2, GotoHolding DEF IInv, TypeOK
  <2>4. Sound(p)'
    BY <1>1, <1>2, <1>4, <2>1, <2>2, GotoHolding DEF Sound, InBoundScope
  <2>. QED
    BY <1>1, <2>1, <2>2, <2>3, <2>4, GotoHolding, OthersSound
    DEF IInv, CommandSound, OneScope, OnePopulation, Root
<1>. QED
  BY <1>3, <1>4

\* The pointer moves inside one population and one scope.
LEMMA CurrentKeeps ==
  ASSUME IInv, NEW p \in Processes, WriteCurrent(p)
  PROVE  IInv'
<1>. DEFINE v == cmd[p].target
<1>1. /\ pc[p] \in Holding /\ Goto(p, "register") /\ "register" \in Holding
      /\ current' = v /\ chosen' = chosen \cup {v}
      /\ UNCHANGED <<published, bound, registry, adopted, failures>>
  BY DEF WriteCurrent, Holding
<1>2. Sound(p) /\ v \in Versions /\ v \notin Previews /\ v # None
  BY NoneAssumption DEF IInv, CommandSound, Sound, WriteCurrent
<1>3. /\ v \in Candidates => bound # None
      /\ InBoundScope(v)
      /\ v \in registry \/ (v \in Candidates /\ Parent[v] = current)
  BY <1>2 DEF Sound, WriteCurrent
<1>4. TypeOK'
  BY <1>1, <1>2, GotoHolding DEF IInv, TypeOK
<1>5. OnePopulation'
  <2>1. CASE v \in registry
    <3>1. chosen' = chosen
      BY <1>1, <2>1 DEF IInv, OnePopulation
    <3>. QED
      BY <1>1, <2>1, <3>1 DEF IInv, OnePopulation, Root
  <2>2. CASE v \in Candidates /\ Parent[v] = current /\ current # None
    <3>1. ~Root(v) /\ Parent[v] \in chosen
      BY <2>2, CandidateFacts DEF Root, IInv, OnePopulation
    <3>. QED
      BY <1>1, <1>2, <3>1 DEF IInv, OnePopulation, Root
  <2>3. CASE v \in Candidates /\ Parent[v] = current /\ current = None
    <3>1. chosen' = {v} /\ registry = {}
      BY <1>1, <2>3 DEF IInv, OnePopulation
    <3>. QED
      BY <1>1, <1>2, <2>3, <3>1 DEF OnePopulation, Root
  <2>. QED
    BY <1>3, <2>1, <2>2, <2>3
<1>6. OneScope'
  <2>1. v \in Candidates => Scope[v] = bound
    BY <1>3, CandidateFacts DEF InBoundScope
  <2>2. \A w \in chosen' \cap Candidates : Scope[w] = bound'
    BY <1>1, <2>1 DEF IInv, OneScope
  <2>3. InBoundScope(current)'
    BY <1>1, <1>3 DEF InBoundScope, ScopeOf
  <2>. QED
    BY <2>2, <2>3 DEF OneScope
<1>7. Sound(p)'
  BY <1>1, <1>2, GotoHolding DEF Sound, WriteCurrent
<1>. QED
  BY <1>1, <1>2, <1>4, <1>5, <1>6, <1>7, GotoHolding, OthersSound DEF IInv, CommandSound

\* What is registered is current.
LEMMA RegistryKeeps ==
  ASSUME IInv, NEW p \in Processes, WriteRegistry(p)
  PROVE  IInv'
<1>. DEFINE v == cmd[p].target
<1>1. /\ pc[p] \in Holding /\ End(p)
      /\ registry' = registry \cup {v}
      /\ UNCHANGED <<published, current, bound, adopted, chosen, failures>>
  BY DEF WriteRegistry, Holding
<1>2. v \in Versions /\ v = current /\ current # None
  BY NoneAssumption DEF IInv, CommandSound, Sound, WriteRegistry
<1>3. /\ pc'[p] = "idle" /\ cmd'[p] = NoCommand
      /\ \A q \in Processes \ {p} : pc'[q] = pc[q] /\ cmd'[q] = cmd[q]
  BY <1>1 DEF End, IInv, TypeOK
<1>4. TypeOK'
  <2>1. NoCommand \in
          [op : Operations, target : Versions \cup {None}, arg : Versions \cup Scopes \cup {None}]
    BY DEF NoCommand, Operations
  <2>. QED
    BY <1>1, <1>2, <1>3, <2>1 DEF IInv, TypeOK, End, Holding
<1>5. OnePopulation' /\ (current = None => chosen = {})' /\ OneScope'
  BY <1>1, <1>2 DEF IInv, OnePopulation, OneScope, Root, InBoundScope, ScopeOf
<1>6. Sound(p)'
  BY <1>3 DEF Sound, NoCommand
<1>. QED
  BY <1>1, <1>3, <1>4, <1>5, <1>6, OthersSound DEF IInv, CommandSound

-----------------------------------------------------------------------------
(* The inductive invariant *)

\* Each command begins as its operation requires.
LEMMA CommandKeeps ==
  ASSUME IInv, NEW p \in Processes, Command(p)
  PROVE  IInv'
<1>. Operations \ {"none"} = {"select", "restore", "adopt"}
  BY DEF Operations
<1>1. ASSUME NEW v \in Versions, Populate(p, v) PROVE IInv'
  <2>1. v \in published => v \notin Previews
    BY <1>1, CandidateFacts DEF Populate
  <2>2. Issue(p, IF v \in published THEN "wait" ELSE "build", "select", v, None)
    BY <1>1 DEF Populate
  <2>3. CASE v \in published
    BY <2>1, <2>2, <2>3, IssueKeeps
  <2>4. CASE v \notin published
    BY <2>2, <2>4, IssueKeeps
  <2>. QED
    BY <2>3, <2>4
<1>2. ASSUME NEW v \in Versions, Rollback(p, v) PROVE IInv'
  BY <1>2, IssueKeeps DEF Rollback
<1>3. ASSUME NEW v \in Versions, NEW expected \in Versions, Restore(p, v, expected) PROVE IInv'
  BY <1>3, IssueKeeps DEF Restore
<1>4. ASSUME NEW v \in Versions, NEW scope \in Scopes, Adopt(p, v, scope) PROVE IInv'
  <2>1. v \in Legacy /\ v \notin Previews
    BY <1>4, LegacyFacts DEF Adopt
  <2>. QED
    BY <1>4, <2>1, IssueKeeps DEF Adopt
<1>. QED
  BY <1>1, <1>2, <1>3, <1>4 DEF Command

\* Whatever the interleaving and wherever commands die, IInv holds.
THEOREM Inductive == Spec => []IInv
<1>1. Init => IInv
  <2>. SUFFICES ASSUME Init PROVE IInv
    OBVIOUS
  <2>1. current # None => current \in Legacy /\ current \notin Candidates /\ current \notin Previews
    BY LegacyFacts DEF Init
  <2>2. TypeOK
    BY <2>1 DEF Init, TypeOK, Holding, NoCommand, Operations, Legacy
  <2>3. OnePopulation /\ OneScope /\ (current = None => chosen = {})
    BY <2>1 DEF Init, OnePopulation, OneScope, Root, InBoundScope
  <2>4. CommandSound
    BY DEF Init, CommandSound, Sound, NoCommand
  <2>. QED
    BY <2>2, <2>3, <2>4 DEF IInv
<1>2. IInv /\ [Next]_vars => IInv'
  <2>. SUFFICES ASSUME IInv, [Next]_vars PROVE IInv'
    OBVIOUS
  <2>1. ASSUME NEW p \in Processes, Command(p) PROVE IInv'
    BY <2>1, CommandKeeps
  <2>2. ASSUME NEW p \in Processes, Work(p) PROVE IInv'
    BY <2>2, PromoteKeeps, DecideKeeps, AdoptionKeeps, ScopeKeeps, CurrentKeeps, RegistryKeeps
    DEF Work
  <2>3. ASSUME NEW p \in Processes, Interrupt(p) PROVE IInv'
    <3>1. failures' \in Nat /\ published' \in SUBSET Versions
      BY <2>3 DEF Interrupt, IInv, TypeOK
    <3>. QED
      BY <2>3, <3>1, EndKeeps DEF Interrupt
  <2>4. CASE UNCHANGED vars
    <3>1. TypeOK'
      BY <2>4 DEF vars, files, IInv, TypeOK
    <3>2. \A q \in Processes : Sound(q)'
      BY <2>4, SoundStays DEF vars, IInv, CommandSound
    <3>. QED
      BY <2>4, <3>1, <3>2, FilesStay DEF vars, IInv, CommandSound
  <2>. QED
    BY <2>1, <2>2, <2>3, <2>4 DEF Next
<1>. QED
  BY <1>1, <1>2, PTL DEF Spec

-----------------------------------------------------------------------------
(* What follows from it *)

\* Types, and one process at a time past the selection lock.
THEOREM TypeCorrect == Spec => []TypeOK
  BY Inductive, PTL DEF IInv

\* Everything ever authoritative is one population (selection.py:103-122, 138-139).
THEOREM PopulationIsOne == Spec => []OnePopulation
  BY Inductive, PTL DEF IInv

\* Everything authoritative has the scope of the workspace (selection.py:81-90).
THEOREM ScopeIsOne == Spec => []OneScope
  BY Inductive, PTL DEF IInv

\* No decision taken on an older pointer moves it (selection.py:91-122).
THEOREM NoStaleMove == Spec => MovesAreFresh
<1>. DEFINE Fresh == current' # current =>
              \/ Parent[current'] = current
              \/ \E p \in Processes :
                   cmd[p] = [op |-> "restore", target |-> current', arg |-> current]
                   /\ current' \in registry
<1>1. IInv /\ [Next]_vars => Fresh
  <2>. SUFFICES ASSUME IInv, [Next]_vars, current' # current PROVE Fresh
    OBVIOUS
  <2>1. PICK p \in Processes : WriteCurrent(p)
    BY DEF Next, vars, Command, Work, Interrupt, Populate, Rollback, Restore, Adopt, Issue, files,
           Promote, Decide, WriteAdoption, WriteScope, WriteRegistry
  <2>2. current' = cmd[p].target /\ Sound(p) /\ pc[p] = "point"
    BY <2>1 DEF WriteCurrent, IInv, CommandSound
  <2>3. CASE cmd[p].op = "restore" /\ cmd[p].target \in registry /\ cmd[p].arg = current
    <3>1. cmd[p] = [op |-> cmd[p].op, target |-> cmd[p].target, arg |-> cmd[p].arg]
      BY DEF IInv, TypeOK
    <3>. QED
      BY <2>2, <2>3, <3>1
  <2>4. CASE Parent[cmd[p].target] = current
    BY <2>2, <2>4
  <2>. QED
    BY <2>2, <2>3, <2>4 DEF Sound
<1>2. IInv /\ [Next]_vars => [Fresh]_vars
  BY <1>1
<1>. QED
  BY <1>2, Inductive, PTL DEF Spec, MovesAreFresh

\* Repeating an interrupted selection is never refused (selection.py:81-102, 135-136).
THEOREM RepairAccepted == Spec => InterruptedIsRepaired
<1>. DEFINE Repaired == \A p \in Processes :
              /\ pc[p] = "wait" /\ pc'[p] # "wait" /\ failures' = failures
              /\ cmd[p].op = "select" /\ cmd[p].target = current
              => pc'[p] = "register" \/ current \in registry
<1>1. IInv /\ [Next]_vars => Repaired
  <2>. SUFFICES ASSUME IInv, [Next]_vars, NEW p \in Processes,
                       pc[p] = "wait", pc'[p] # "wait", failures' = failures,
                       cmd[p].op = "select", cmd[p].target = current, current \notin registry
                PROVE  pc'[p] = "register"
    OBVIOUS
  <2>1. current \in Versions
    BY DEF IInv, CommandSound, Sound
  <2>2. Allowed(p)
    <3>1. InBoundScope(current) /\ current \in chosen
      BY <2>1, NoneAssumption DEF IInv, OneScope, OnePopulation
    <3>2. current \in Candidates => bound # None
      BY <3>1, CandidateFacts DEF IInv, OneScope
    <3>. QED
      BY <3>1, <3>2 DEF Allowed, SelectAllowed
  <2>3. FirstWrite(p) = "register"
    BY FirstWriteCases
  <2>4. Decide(p)
    <3>1. ASSUME NEW q \in Processes, q # p PROVE ~Command(q) /\ ~Work(q) /\ ~Interrupt(q)
      <4>1. pc'[p] # pc[p]
        OBVIOUS
      <4>. QED
        BY <3>1, <4>1 DEF IInv, TypeOK, Command, Work, Interrupt, Populate, Rollback, Restore, Adopt,
             Issue, Promote, Decide, WriteAdoption, WriteScope, WriteCurrent, WriteRegistry, Goto, End
    <3>2. ~Command(p)
      BY DEF Command, Populate, Rollback, Restore, Adopt, Issue
    <3>3. ~Interrupt(p)
      BY DEF Interrupt, IInv, TypeOK
    <3>4. ~(Promote(p) \/ WriteAdoption(p) \/ WriteScope(p) \/ WriteCurrent(p) \/ WriteRegistry(p))
      BY DEF Promote, WriteAdoption, WriteScope, WriteCurrent, WriteRegistry
    <3>. QED
      BY <3>1, <3>2, <3>3, <3>4 DEF Next, Work, vars
  <2>. QED
    BY <2>2, <2>3, <2>4 DEF Decide, Goto, IInv, TypeOK
<1>2. IInv /\ [Next]_vars => [Repaired]_vars
  BY <1>1
<1>. QED
  BY <1>2, Inductive, PTL DEF Spec, InterruptedIsRepaired

-----------------------------------------------------------------------------
(* The implementation of the promise *)

\* A step of a command keeps the promise, or leaves its state alone.
LEMMA StepRefines ==
  ASSUME IInv, [Next]_vars
  PROVE  [Population!Next]_(Population!vars)
<1>1. CASE UNCHANGED <<current, chosen, bound>>
  BY <1>1 DEF Population!vars
<1>2. ASSUME NEW p \in Processes, WriteScope(p)
      PROVE  [Population!Next]_(Population!vars)
  <2>. DEFINE v == cmd[p].target
  <2>1. Sound(p) /\ pc[p] = "bind" /\ v \in Versions
        /\ UNCHANGED <<current, chosen>> /\ bound' \in Scopes
        /\ bound' = IF cmd[p].op = "adopt" THEN cmd[p].arg ELSE Scope[v]
    <3>1. Sound(p) /\ pc[p] = "bind"
      BY <1>2 DEF WriteScope, IInv, CommandSound
    <3>. QED
      BY <1>2, <3>1, CandidateFacts DEF WriteScope, Sound
  <2>2. (bound \in {None, bound'} /\ current \notin Candidates) \/ bound' = bound
    <3>1. CASE cmd[p].op = "adopt"
      BY <2>1, <3>1, LegacyFacts DEF Sound
    <3>2. CASE cmd[p].op # "adopt"
      BY <2>1, <3>2, NoneAssumption DEF Sound, Candidates
    <3>. QED
      BY <3>1, <3>2
  <2>3. CASE bound' = bound
    BY <2>1, <2>3 DEF Population!vars
  <2>4. CASE bound' # bound
    <3>1. Population!Bind(bound')
      BY <2>1, <2>2, <2>4 DEF Population!Bind, Population!Candidates, Candidates
    <3>. QED
      BY <2>1, <3>1 DEF Population!Next
  <2>. QED
    BY <2>3, <2>4
<1>3. ASSUME NEW p \in Processes, WriteCurrent(p)
      PROVE  [Population!Next]_(Population!vars)
  <2>. DEFINE v == cmd[p].target
  <2>1. /\ Sound(p) /\ pc[p] = "point" /\ v \in Versions
        /\ current' = v /\ chosen' = chosen \cup {v} /\ bound' = bound
    BY <1>3 DEF WriteCurrent, IInv, CommandSound, Sound
  <2>2. v \in Candidates => bound = Scope[v]
    BY <2>1, CandidateFacts DEF Sound, InBoundScope
  <2>3. CASE cmd[p].op = "restore"
    <3>1. v \in chosen
      BY <2>1, <2>3 DEF Sound, IInv, OnePopulation
    <3>2. Population!Return(v)
      BY <2>1, <2>2, <3>1 DEF Population!Return, Population!Candidates, Candidates
    <3>. QED
      BY <2>1, <3>2 DEF Population!Next
  <2>4. CASE cmd[p].op = "select"
    <3>1. Population!Advance(v)
      BY <2>1, <2>2, <2>4 DEF Sound, Population!Advance, Population!Candidates, Candidates
    <3>. QED
      BY <2>1, <3>1 DEF Population!Next
  <2>. QED
    BY <2>1, <2>3, <2>4 DEF Sound
<1>. QED
  BY <1>1, <1>2, <1>3
  DEF Next, vars, files, Command, Populate, Rollback, Restore, Adopt, Issue, Work, Promote, Decide,
      WriteAdoption, WriteRegistry, Interrupt

\* The Silver root is one authoritative population
\* (selection.py:81-139, docs/population-recovery.md:43-58).
THEOREM Implements == Spec => PopulationSpec
<1>1. Init => Population!Init
  BY NoneAssumption DEF Init, Population!Init, Population!Legacy, Legacy
<1>2. IInv /\ [Next]_vars => [Population!Next]_(Population!vars)
  BY StepRefines
<1>. QED
  BY <1>1, <1>2, Inductive, PTL DEF Spec, PopulationSpec, Population!Spec

=============================================================================
