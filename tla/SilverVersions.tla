----------------------------- MODULE SilverVersions -----------------------------
(***************************************************************************)
(* How a Silver version comes to exist: processing/silver/storage.py under *)
(* the control of runner.py and population.py.  A version's identifier is  *)
(* a digest of its inputs, so the processes here all build the same one:   *)
(* they write it under staging/, read it back, and rename it into          *)
(* versions/ (or invalid/, when a critical control fails).  Neither the    *)
(* builders nor secop-silver clean-staging take a lock.                    *)
(*                                                                         *)
(* A directory keeps its identity when it is renamed, and shutil.rmtree    *)
(* deletes through an open descriptor: it follows the directory it opened. *)
(***************************************************************************)
EXTENDS Integers, Sequences

CONSTANTS
  Builders,     \* processes running secop-silver run or run-population
  Cleaners,     \* processes running secop-silver clean-staging
  Schedules,    \* "serial": one command at a time, as the DAG's writer pool runs them
  MaxBuilds,    \* bound on builds started, for model checking
  MaxCleans,    \* bound on clean-staging commands, for model checking
  MaxCrashes,   \* bound on process deaths, for model checking
  None

Processes == Builders \cup Cleaners

ASSUME ProcessAssumption ==
  Builders \cap Cleaners = {} /\ None \notin Processes /\ None \notin Nat
ASSUME BoundAssumption ==
  /\ Schedules \subseteq {"serial", "overlapping"}
  /\ MaxBuilds \in Nat /\ MaxCleans \in Nat /\ MaxCrashes \in Nat

VARIABLES
  schedule,  \* how the commands are run
  passes,    \* the critical controls pass: a function of the inputs
  content,   \* the directories ever made, by identity
  staging,   \* staging/<id>: a directory, or None
  version,   \* versions/<id>
  invalid,   \* invalid/<id>
  pc,        \* where each process is
  listing,   \* the manifest a builder holds in memory
  held,      \* the directory a process is removing
  selected,  \* manifests that reached the selection of an authoritative version
  builds, cleans, crashes

disk == <<content, staging, version, invalid>>
private == <<pc, listing, held>>
given == <<schedule, passes>>
bounds == <<builds, cleans, crashes>>
vars == <<given, disk, private, selected, bounds>>

-----------------------------------------------------------------------------

\* Spark names part files at random: data is known by its writer.  Evidence
\* and quality files are a function of the inputs.
Empty == [data |-> None, evidence |-> FALSE, manifest |-> None]
Inventory(d) == [data |-> content[d].data, evidence |-> content[d].evidence]
Nothing == [data |-> None, evidence |-> FALSE]

Init ==
  /\ schedule \in Schedules
  /\ passes \in BOOLEAN
  /\ content = <<>> /\ staging = None /\ version = None /\ invalid = None
  /\ pc = [p \in Processes |-> "idle"]
  /\ listing = [p \in Processes |-> Nothing]
  /\ held = [p \in Processes |-> None]
  /\ selected = {}
  /\ builds = 0 /\ cleans = 0 /\ crashes = 0

Goto(p, step) == pc' = [pc EXCEPT ![p] = step] /\ UNCHANGED <<listing, held>>

\* The command ends, in success or with an exception.
End(p) ==
  /\ pc' = [pc EXCEPT ![p] = "idle"]
  /\ listing' = [listing EXCEPT ![p] = Nothing]
  /\ held' = [held EXCEPT ![p] = None]

Refuse(p) == End(p) /\ UNCHANGED disk

Remove(p, d, step) ==
  /\ held' = [held EXCEPT ![p] = d]
  /\ pc' = [pc EXCEPT ![p] = step]
  /\ UNCHANGED <<disk, listing>>

\* A write under staging/<id> makes the directory when it is missing.
Written(part, value) ==
  /\ IF staging = None
     THEN /\ content' = Append(content, [Empty EXCEPT ![part] = value])
          /\ staging' = Len(content) + 1
     ELSE /\ content' = [content EXCEPT ![staging][part] = value]
          /\ UNCHANGED staging
  /\ UNCHANGED <<version, invalid>>

Start(p, step) ==
  /\ pc[p] = "idle"
  /\ schedule = "serial" => \A q \in Processes : pc[q] = "idle"
  /\ Goto(p, step)
  /\ UNCHANGED <<given, disk, selected, crashes>>

\* An existing version is verified and returned; otherwise the inputs are read.
Build(p) ==
  /\ version = None
  /\ builds < MaxBuilds /\ builds' = builds + 1
  /\ Start(p, "transform")
  /\ UNCHANGED cleans

Clean(p) ==
  /\ cleans < MaxCleans /\ cleans' = cleans + 1
  /\ Start(p, "list")
  /\ UNCHANGED builds

\* Variant: a staging left by a crash is taken up again where it is listed.
StageReusing(p) ==
  /\ pc[p] = "transform"
  /\ IF version # None THEN Refuse(p)
     ELSE IF staging # None THEN Goto(p, "inventory") /\ UNCHANGED disk
     ELSE Goto(p, "make") /\ UNCHANGED disk
  /\ UNCHANGED <<given, selected, bounds>>

\* Variant: an abandoned staging is not removed.
StageRefusing(p) ==
  /\ pc[p] = "transform"
  /\ IF version # None \/ staging # None THEN Refuse(p) ELSE Goto(p, "make") /\ UNCHANGED disk
  /\ UNCHANGED <<given, selected, bounds>>

\* create_staging(): refuse an existing version, remove an abandoned staging.
Stage(p) ==
  /\ pc[p] = "transform"
  /\ IF version # None THEN Refuse(p)
     ELSE IF staging # None THEN Remove(p, staging, "replace")
     ELSE Goto(p, "make") /\ UNCHANGED disk
  /\ UNCHANGED <<given, selected, bounds>>

List(p) ==
  /\ pc[p] = "list"
  /\ IF staging = None THEN Refuse(p) ELSE Remove(p, staging, "remove")
  /\ UNCHANGED <<given, selected, bounds>>

\* rmtree: the entries of the directory it opened, in any order, ...
Unlink(p) ==
  /\ pc[p] \in {"replace", "remove", "drop"}
  /\ \E part \in DOMAIN Empty :
       /\ content[held[p]][part] # Empty[part]
       /\ content' = [content EXCEPT ![held[p]][part] = Empty[part]]
  /\ UNCHANGED <<given, staging, version, invalid, private, selected, bounds>>

\* ... and at the end the directory that has its name, if that is empty.
RemoveDirectory(p) ==
  /\ pc[p] \in {"replace", "remove", "drop"}
  /\ content[held[p]] = Empty
  /\ IF staging # None /\ content[staging] = Empty
     THEN /\ staging' = None
          /\ UNCHANGED <<content, version, invalid>>
          /\ CASE pc[p] = "replace" -> Goto(p, "make")
               [] pc[p] = "drop" -> Goto(p, "select")
               [] pc[p] = "remove" -> End(p)
     ELSE Refuse(p)
  /\ UNCHANGED <<given, selected, bounds>>

MakeStaging(p) ==
  /\ pc[p] = "make"
  /\ IF staging # None THEN Refuse(p)
     ELSE /\ content' = Append(content, Empty)
          /\ staging' = Len(content) + 1
          /\ Goto(p, "data")
          /\ UNCHANGED <<version, invalid>>
  /\ UNCHANGED <<given, selected, bounds>>

\* write_data(): errorifexists.
WriteData(p) ==
  /\ pc[p] = "data"
  /\ IF staging # None /\ content[staging].data # None THEN Refuse(p)
     ELSE Written("data", p) /\ Goto(p, "evidence")
  /\ UNCHANGED <<given, selected, bounds>>

WriteEvidence(p) ==
  /\ pc[p] = "evidence"
  /\ Written("evidence", TRUE)
  /\ Goto(p, "inventory")
  /\ UNCHANGED <<given, selected, bounds>>

WriteManifest(p) ==
  /\ pc[p] = "inventory"
  /\ LET found == IF staging = None THEN Nothing ELSE Inventory(staging)
     IN /\ Written("manifest", found)
        /\ listing' = [listing EXCEPT ![p] = found]
  /\ pc' = [pc EXCEPT ![p] = "verify"]
  /\ UNCHANGED <<given, held, selected, bounds>>

\* verify_staging(): every listed file by hash, then the tables read back.
Verified(p) ==
  /\ staging # None
  /\ content[staging].data = listing[p].data /\ listing[p].data # None
  /\ listing[p].evidence => content[staging].evidence

Verify(p) ==
  /\ pc[p] = "verify"
  /\ IF Verified(p) THEN Goto(p, IF passes THEN "promote" ELSE "invalidate") /\ UNCHANGED disk
     ELSE Refuse(p)
  /\ UNCHANGED <<given, selected, bounds>>

\* promote(): an existing version must have the manifest just written.
SameManifest(p) == content[version].manifest = listing[p]

Promote(p) ==
  /\ pc[p] = "promote"
  /\ \/ /\ version = None
        /\ Goto(p, "rename") /\ UNCHANGED disk
     \/ /\ version # None /\ ~SameManifest(p)
        /\ Refuse(p)
     \/ /\ version # None /\ SameManifest(p) /\ staging = None
        /\ Goto(p, "select") /\ UNCHANGED disk
     \/ /\ version # None /\ SameManifest(p) /\ staging # None
        /\ Remove(p, staging, "drop")
  /\ UNCHANGED <<given, selected, bounds>>

\* Variant: the version is a link to what staging still names.
RenameLinking(p) ==
  /\ pc[p] = "rename"
  /\ IF staging = None \/ (version # None /\ content[version] # Empty)
     THEN Refuse(p)
     ELSE /\ version' = staging
          /\ Goto(p, "select")
          /\ UNCHANGED <<content, staging, invalid>>
  /\ UNCHANGED <<given, selected, bounds>>

\* os.replace: the target may only be an empty directory.
Rename(p) ==
  /\ pc[p] = "rename"
  /\ IF staging = None \/ (version # None /\ content[version] # Empty)
     THEN Refuse(p)
     ELSE /\ version' = staging /\ staging' = None
          /\ Goto(p, "select")
          /\ UNCHANGED <<content, invalid>>
  /\ UNCHANGED <<given, selected, bounds>>

\* select() verifies the files of the version before it moves any pointer.
Select(p) ==
  /\ pc[p] = "select"
  /\ Refuse(p)
  /\ selected' = IF content[version].data = listing[p].data
                    /\ (listing[p].evidence => content[version].evidence)
                 THEN selected \cup {listing[p]} ELSE selected
  /\ UNCHANGED <<given, bounds>>

Invalidate(p) ==
  /\ pc[p] = "invalidate"
  /\ IF staging = None THEN Refuse(p)
     ELSE /\ invalid' = staging /\ staging' = None
          /\ End(p)
          /\ UNCHANGED <<content, version>>
  /\ UNCHANGED <<given, selected, bounds>>

Crash(p) ==
  /\ pc[p] # "idle"
  /\ crashes < MaxCrashes
  /\ crashes' = crashes + 1
  /\ End(p)
  /\ UNCHANGED <<given, disk, selected, builds, cleans>>

Work(p) ==
  \/ Stage(p) \/ List(p) \/ Unlink(p) \/ RemoveDirectory(p) \/ MakeStaging(p)
  \/ WriteData(p) \/ WriteEvidence(p) \/ WriteManifest(p) \/ Verify(p)
  \/ Promote(p) \/ Rename(p) \/ Select(p) \/ Invalidate(p)

Next ==
  \/ \E p \in Builders : Build(p)
  \/ \E p \in Cleaners : Clean(p)
  \/ \E p \in Processes : Work(p) \/ Crash(p)

Spec == Init /\ [][Next]_vars

\* A build that has not produced its version is asked for again.
FairSpec ==
  /\ Spec
  /\ \A p \in Processes : WF_vars(Work(p))
  /\ \A p \in Builders : WF_vars(Build(p))

-----------------------------------------------------------------------------

Listing == [data : Builders \cup {None}, evidence : BOOLEAN]
Entry == [data : Builders \cup {None}, evidence : BOOLEAN, manifest : Listing \cup {None}]
Directory == DOMAIN content \cup {None}

Cleaning == {"list", "remove"}
Building == {"transform", "replace", "drop", "make", "data", "evidence", "inventory",
             "verify", "promote", "rename", "select", "invalidate"}

DiskTypes ==
  /\ content \in Seq(Entry)
  /\ staging \in Directory /\ version \in Directory /\ invalid \in Directory
  /\ staging # None => staging # version /\ staging # invalid
  /\ version # None => version # invalid

ProcessTypes ==
  /\ pc \in [Processes -> {"idle"} \cup Building \cup Cleaning]
  /\ \A p \in Processes : pc[p] \in Building => p \in Builders
  /\ \A p \in Processes : pc[p] \in Cleaning => p \in Cleaners
  /\ listing \in [Processes -> Listing]
  /\ held \in [Processes -> Directory]

\* Types, and a directory is in one place.
TypeOK ==
  /\ schedule \in Schedules /\ passes \in BOOLEAN
  /\ DiskTypes
  /\ ProcessTypes

\* A directory under versions/ holds every file its manifest lists, and its
\* manifest lists what a version has, from the rename on and for ever
\* (docs/silver-quality.md:128,145).
VersionWhole ==
  version # None =>
    /\ content[version].manifest = Inventory(version)
    /\ content[version].data # None /\ content[version].evidence

\* What reached the selection is what the version holds, ever after.
SelectedStays == \A m \in selected : version # None /\ m = Inventory(version)

\* One command at a time leaves no torn version, wherever it dies, and what was
\* selected is never built again with other data (storage.py:56-63,153-167).
WholeWhenSerial == schedule = "serial" => VersionWhole /\ SelectedStays

\* Its inductive strengthening: alone, a builder finds no version, and staging
\* holds what its steps so far have written and nothing of another's.
Filled == {"evidence", "inventory", "verify", "promote", "rename", "invalidate"}
Phase(p) ==
  /\ pc[p] # "drop"
  /\ pc[p] \in Building \ {"select"} => version = None
  /\ pc[p] \in {"replace", "remove"} => staging # None /\ held[p] = staging
  /\ pc[p] = "make" => staging = None
  /\ pc[p] \in Filled \cup {"data"} => staging # None
  /\ pc[p] \in Filled => content[staging].data # None
  /\ pc[p] \in Filled \ {"evidence"} => content[staging].evidence
  /\ pc[p] \in Filled \ {"evidence", "inventory"} =>
       content[staging].manifest = Inventory(staging) /\ listing[p] = Inventory(staging)
  /\ pc[p] = "select" => version # None /\ listing[p] = Inventory(version)

SerialIInv ==
  /\ TypeOK
  /\ schedule = "serial" =>
       /\ \A p, q \in Processes : pc[p] # "idle" /\ pc[q] # "idle" => p = q
       /\ VersionWhole /\ SelectedStays
       /\ \A p \in Processes : Phase(p)

\* A file of a version never changes, however commands overlap: it may be lost to
\* a removal that began in staging, but nothing is written or renamed over it
\* (storage.py:153-167, docs/silver-quality.md:128).
NeverAltered ==
  [][\A part \in DOMAIN Empty :
       version # None /\ content[version][part] # Empty[part] =>
         version' # None /\ content'[version'][part] \in {content[version][part], Empty[part]}]_vars

\* One command at a time: whatever a crash left in staging, a repeated build ends in a version, or in
\* invalid/ when a critical control fails (storage.py:56-63).
EventuallyBuilt ==
  schedule = "serial" => <>IF passes THEN version # None ELSE invalid # None

=============================================================================
