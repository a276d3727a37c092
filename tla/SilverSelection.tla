---------------------------- MODULE SilverSelection ----------------------------
(***************************************************************************)
(* Which Silver version is authoritative: processing/silver/selection.py,  *)
(* and the commands that reach it (run_population, rollback, restore,      *)
(* adopt).  The state is four files of the Silver root, each replaced      *)
(* durably on its own: current.json, population_scope.json,                *)
(* selection_registry.json and population_adoptions/.  They are read and   *)
(* written under selection_lock, a blocking flock that dies with its       *)
(* process; what a command reads before it waits for the lock may be old   *)
(* when it gets it.                                                        *)
(*                                                                         *)
(* A version is its identifier: SilverVersions is about its bytes.         *)
(***************************************************************************)
EXTENDS Integers

CONSTANTS
  Versions,
  Mode,        \* [Versions -> {"legacy", "preview", "candidate"}]
  Parent,      \* expected_parent of a version's coverage receipt, or None
  Scope,       \* signing scope of a population, None for a legacy version
  Fits,        \* the scopes that contain every row of a legacy version
  Scopes,
  Processes,
  MaxFailures, \* bound on process deaths and write errors, for model checking
  None

Legacy == {v \in Versions : Mode[v] = "legacy"}
Candidates == {v \in Versions : Mode[v] = "candidate"}
Previews == {v \in Versions : Mode[v] = "preview"}

ASSUME NoneAssumption == None \notin Versions \cup Scopes
ASSUME ManifestAssumption ==
  /\ Mode \in [Versions -> {"legacy", "preview", "candidate"}]
  /\ Parent \in [Versions -> (Versions \ Previews) \cup {None}]
  /\ Scope \in [Versions -> Scopes \cup {None}]
  /\ Fits \in [Versions -> SUBSET Scopes]
  /\ \A v \in Versions : Scope[v] = None <=> v \in Legacy
ASSUME FailureAssumption == MaxFailures \in Nat

VARIABLES
  published,  \* versions/
  current,    \* current.json
  bound,      \* population_scope.json
  registry,   \* selection_registry.json
  adopted,    \* population_adoptions/<version>.json: a scope, or None
  pc,
  cmd,        \* the command: operation, target and its argument
  chosen,     \* history: every version that was ever current
  failures

files == <<current, bound, registry, adopted>>
vars == <<published, files, pc, cmd, chosen, failures>>

-----------------------------------------------------------------------------

NoCommand == [op |-> "none", target |-> None, arg |-> None]

\* A workspace that is new, or was last used by a writer of envelopes 1 and 2.
Init ==
  /\ published = Legacy
  /\ current \in Legacy \cup {None}
  /\ registry \in SUBSET ({current} \ {None})
  /\ bound = None
  /\ adopted = [v \in Versions |-> None]
  /\ pc = [p \in Processes |-> "idle"]
  /\ cmd = [p \in Processes |-> NoCommand]
  /\ chosen = {current} \ {None}
  /\ failures = 0

\* A population's scope, or the one a legacy version was adopted under.
ScopeOf(v) == IF v \in Candidates THEN Scope[v] ELSE adopted[v]

Issue(p, step, op, v, arg) ==
  /\ pc[p] = "idle"
  /\ pc' = [pc EXCEPT ![p] = step]
  /\ cmd' = [cmd EXCEPT ![p] = [op |-> op, target |-> v, arg |-> arg]]
  /\ UNCHANGED <<published, files, chosen, failures>>

\* _baseline(): the baseline must be a population of the same scope.
BaselineAccepted(v) ==
  Parent[v] # None =>
    /\ Parent[v] \in published
    /\ ScopeOf(Parent[v]) = Scope[v]
    /\ bound \in {None, Scope[v]}

\* run-population: an existing candidate is selected again, a preview never.
Populate(p, v) ==
  /\ v \notin Legacy
  /\ BaselineAccepted(v)
  /\ v \in published => v \in Candidates
  /\ Issue(p, IF v \in published THEN "wait" ELSE "build", "select", v, None)

Rollback(p, v) ==
  /\ v \in published \ Previews
  /\ Issue(p, "wait", "select", v, None)

Restore(p, v, expected) ==
  /\ v \in published \ Previews
  /\ Issue(p, "wait", "restore", v, expected)

Adopt(p, v, scope) ==
  /\ v \in published \cap Legacy
  /\ scope \in Fits[v]
  /\ Issue(p, "wait", "adopt", v, scope)

End(p) ==
  /\ pc' = [pc EXCEPT ![p] = "idle"]
  /\ cmd' = [cmd EXCEPT ![p] = NoCommand]

Goto(p, step) == pc' = [pc EXCEPT ![p] = step] /\ UNCHANGED cmd

\* promote(): the version's directory, and a preview ends there.
Promote(p) ==
  /\ pc[p] = "build"
  /\ published' = published \cup {cmd[p].target}
  /\ IF cmd[p].target \in Previews THEN End(p) ELSE Goto(p, "wait")
  /\ UNCHANGED <<files, chosen, failures>>

-----------------------------------------------------------------------------
(* Under the lock *)

Holding == {"adopt", "bind", "point", "register"}

\* Variant: one lock per version.
LockFreeForVersion(p) ==
  \A q \in Processes : pc[q] \in Holding => cmd[q].target # cmd[p].target

LockFree(p) == \A q \in Processes : pc[q] \notin Holding

InBoundScope(v) == bound # None => ScopeOf(v) = bound

\* Variant: the restoration does not say what it replaces.
RestorableOver(v, expected) == v \in registry /\ expected \in Versions

Restorable(v, expected) == v \in registry /\ expected = current

\* Variant: a population without a baseline may follow anything.
AdvancesUnrelated(v) ==
  /\ v \in Candidates
  /\ Parent[v] \in {current, None}
  /\ current # None => bound # None

\* A new population continues the current one, inside a bound workspace.
Advances(v) ==
  /\ v \in Candidates
  /\ Parent[v] = current
  /\ current # None => bound # None

SelectAllowed(p) ==
  LET v == cmd[p].target
  IN /\ InBoundScope(v)
     /\ \/ v = current /\ (v \in Candidates => bound # None)
        \/ v # current /\ cmd[p].op = "restore" /\ Restorable(v, cmd[p].arg)
        \/ v # current /\ cmd[p].op = "select" /\ Advances(v)

AdoptAllowed(p) ==
  LET v == cmd[p].target
  IN /\ v = current
     /\ bound \in {None, cmd[p].arg}
     /\ adopted[v] \in {None, cmd[p].arg}

Allowed(p) == IF cmd[p].op = "adopt" THEN AdoptAllowed(p) ELSE SelectAllowed(p)

\* Variant: selecting the current version does not look at the registry.
FirstWriteOfMove(p) ==
  LET v == cmd[p].target
  IN CASE cmd[p].op = "adopt" -> "adopt"
       [] cmd[p].op # "adopt" /\ v = current -> "idle"
       [] cmd[p].op # "adopt" /\ v # current /\ v \in Candidates /\ bound = None -> "bind"
       [] OTHER -> "point"

\* What an allowed command writes first; "idle" when nothing is left to write.
FirstWrite(p) ==
  LET v == cmd[p].target
  IN CASE cmd[p].op = "adopt" -> "adopt"
       [] cmd[p].op # "adopt" /\ v = current -> IF v \in registry THEN "idle" ELSE "register"
       [] cmd[p].op # "adopt" /\ v # current /\ v \in Candidates /\ bound = None -> "bind"
       [] OTHER -> "point"

Decide(p) ==
  /\ pc[p] = "wait"
  /\ LockFree(p)
  /\ \/ /\ Allowed(p) /\ FirstWrite(p) # "idle"
        /\ Goto(p, FirstWrite(p))
     \/ /\ ~Allowed(p) \/ FirstWrite(p) = "idle"
        /\ End(p)
  /\ UNCHANGED <<published, files, chosen, failures>>

WriteAdoption(p) ==
  /\ pc[p] = "adopt"
  /\ adopted' = [adopted EXCEPT ![cmd[p].target] = cmd[p].arg]
  /\ Goto(p, "bind")
  /\ UNCHANGED <<published, current, bound, registry, chosen, failures>>

\* Variant: a population's scope is left unbound.
WriteScopeOfReceipt(p) ==
  /\ pc[p] = "bind"
  /\ bound' = IF cmd[p].op = "adopt" THEN cmd[p].arg ELSE None
  /\ Goto(p, IF cmd[p].op = "adopt" THEN "register" ELSE "point")
  /\ UNCHANGED <<published, current, registry, adopted, chosen, failures>>

WriteScope(p) ==
  /\ pc[p] = "bind"
  /\ bound' = IF cmd[p].op = "adopt" THEN cmd[p].arg ELSE Scope[cmd[p].target]
  /\ Goto(p, IF cmd[p].op = "adopt" THEN "register" ELSE "point")
  /\ UNCHANGED <<published, current, registry, adopted, chosen, failures>>

WriteCurrent(p) ==
  /\ pc[p] = "point"
  /\ current' = cmd[p].target
  /\ chosen' = chosen \cup {cmd[p].target}
  /\ Goto(p, "register")
  /\ UNCHANGED <<published, bound, registry, adopted, failures>>

WriteRegistry(p) ==
  /\ pc[p] = "register"
  /\ registry' = registry \cup {cmd[p].target}
  /\ End(p)
  /\ UNCHANGED <<published, current, bound, adopted, chosen, failures>>

\* The process dies, or a write raises OSError: what was written stays.
Interrupt(p) ==
  /\ pc[p] # "idle"
  /\ failures < MaxFailures
  /\ failures' = failures + 1
  /\ End(p)
  /\ UNCHANGED <<published, files, chosen>>

Work(p) ==
  \/ Promote(p) \/ Decide(p) \/ WriteAdoption(p) \/ WriteScope(p)
  \/ WriteCurrent(p) \/ WriteRegistry(p)

Command(p) ==
  \E v \in Versions :
    \/ Populate(p, v)
    \/ Rollback(p, v)
    \/ \E expected \in Versions : Restore(p, v, expected)
    \/ \E scope \in Scopes : Adopt(p, v, scope)

Next == \E p \in Processes : Command(p) \/ Work(p) \/ Interrupt(p)

Spec == Init /\ [][Next]_vars

-----------------------------------------------------------------------------
(* Properties *)

Operations == {"none", "select", "restore", "adopt"}

\* Types, and one process is past the lock.
TypeOK ==
  /\ \A p, q \in Processes : pc[p] \in Holding /\ pc[q] \in Holding => p = q
  /\ published \in SUBSET Versions
  /\ current \in Versions \cup {None}
  /\ bound \in Scopes \cup {None}
  /\ registry \in SUBSET Versions
  /\ adopted \in [Versions -> Scopes \cup {None}]
  /\ pc \in [Processes -> {"idle", "build", "wait"} \cup Holding]
  /\ cmd \in [Processes -> [op : Operations, target : Versions \cup {None},
                            arg : Versions \cup Scopes \cup {None}]]
  /\ chosen \in SUBSET Versions
  /\ failures \in Nat

\* A version that continues no other.
Root(v) == v \in Legacy \/ Parent[v] = None

\* All that was ever authoritative is one population: it has one root, every
\* other version continues one that was authoritative before it, and none is a
\* preview.  No interleaving, death or restoration replaces a population by an
\* unrelated one, and only what was authoritative can be restored
\* (selection.py:103-122, 138-139).
OnePopulation ==
  /\ current # None => current \in chosen
  /\ registry \subseteq chosen
  /\ \A v \in chosen : v \notin Previews /\ (Root(v) \/ Parent[v] \in chosen)
  /\ \A v, w \in chosen : Root(v) /\ Root(w) => v = w

\* Everything authoritative has the scope the workspace is bound to
\* (selection.py:81-90, 123-134, docs/population-recovery.md:58).
OneScope ==
  /\ \A v \in chosen \cap Candidates : Scope[v] = bound
  /\ current # None => InBoundScope(current)

\* What a command relies on between the lock and each of its writes: what it
\* decided on is still there, because nobody else is past the lock.
Sound(p) ==
  LET v == cmd[p].target
  IN /\ pc[p] # "idle" => v \in Versions /\ cmd[p].op # "none"
     /\ pc[p] \notin {"idle", "build"} => v \notin Previews
     /\ pc[p] = "build" => cmd[p].op = "select"
     /\ cmd[p].op = "adopt" => v \in Legacy /\ cmd[p].arg \in Scopes
     /\ pc[p] = "adopt" =>
          cmd[p].op = "adopt" /\ v = current /\ bound \in {None, cmd[p].arg}
     /\ pc[p] = "bind" =>
          \/ /\ cmd[p].op = "adopt" /\ v = current
             /\ bound \in {None, cmd[p].arg} /\ adopted[v] = cmd[p].arg
          \/ /\ cmd[p].op = "select" /\ v \in Candidates /\ Parent[v] = None
             /\ current = None /\ bound = None
     /\ pc[p] = "point" =>
          /\ v \in Candidates => bound # None
          /\ InBoundScope(v)
          /\ \/ cmd[p].op = "restore" /\ v \in registry /\ cmd[p].arg = current
             \/ cmd[p].op = "select" /\ v \in Candidates /\ Parent[v] = current
     /\ pc[p] = "register" => v = current

CommandSound == \A p \in Processes : Sound(p)

\* The inductive strengthening of OnePopulation and OneScope.
IInv ==
  /\ TypeOK
  /\ OnePopulation
  /\ current = None => chosen = {}
  /\ OneScope
  /\ CommandSound

Population == INSTANCE AuthoritativePopulation

\* The Silver root is one authoritative population: every write of a command is
\* a step of the promise that the warehouse makes too, or none.
PopulationSpec == Population!Spec

\* The pointer moves to a version that continues the one it leaves, or to a
\* registered one for whoever named the one it leaves: no decision taken on an
\* older pointer takes effect (selection.py:91-122).
MovesAreFresh ==
  [][current' # current =>
       \/ Parent[current'] = current
       \/ \E p \in Processes :
            cmd[p] = [op |-> "restore", target |-> current', arg |-> current]
            /\ current' \in registry]_vars

\* Whatever write a selection died after, selecting the current version again is
\* never refused and leaves it registered (selection.py:81-102, 135-136).
InterruptedIsRepaired ==
  [][\A p \in Processes :
       /\ pc[p] = "wait" /\ pc'[p] # "wait" /\ failures' = failures
       /\ cmd[p].op = "select" /\ cmd[p].target = current
       => pc'[p] = "register" \/ current \in registry]_vars

=============================================================================
