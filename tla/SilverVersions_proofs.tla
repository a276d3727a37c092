------------------------- MODULE SilverVersions_proofs -------------------------
(* Proofs about SilverVersions, for any builders and cleaners, and any number  *)
(* of builds, clean-staging commands and deaths.                                *)
EXTENDS SilverVersions, SequenceTheorems, TLAPS

-----------------------------------------------------------------------------
(* The directories *)

\* One field of one directory is written or deleted: the others stay.
LEMMA PutKeeps ==
  ASSUME content \in Seq(Entry), NEW d \in DOMAIN content, NEW e \in Entry
  PROVE  LET c == [content EXCEPT ![d] = e]
         IN /\ c \in Seq(Entry) /\ DOMAIN c = DOMAIN content
            /\ c[d] = e
            /\ \A o \in DOMAIN content : o # d => c[o] = content[o]
<1>1. d \in 1 .. Len(content)
  BY LenProperties
<1>. QED
  BY <1>1, ExceptSeq, LenProperties

\* A directory is made: it has a new identity.
LEMMA NewKeeps ==
  ASSUME content \in Seq(Entry), NEW e \in Entry
  PROVE  LET c == Append(content, e)
             n == Len(content) + 1
         IN /\ c \in Seq(Entry) /\ DOMAIN c = DOMAIN content \cup {n}
            /\ n \notin DOMAIN content /\ n # None
            /\ c[n] = e
            /\ \A o \in DOMAIN content : c[o] = content[o]
<1>1. /\ Append(content, e) \in Seq(Entry) /\ Len(content) \in Nat
      /\ Len(Append(content, e)) = Len(content) + 1
      /\ Append(content, e)[Len(content) + 1] = e
      /\ \A o \in 1 .. Len(content) : Append(content, e)[o] = content[o]
  BY AppendProperties, LenProperties
<1>2. DOMAIN content = 1 .. Len(content)
  BY LenProperties
<1>3. DOMAIN Append(content, e) = 1 .. Len(content) + 1
  BY <1>1, LenProperties
<1>4. Len(content) + 1 # None
  BY <1>1, ProcessAssumption
<1>. QED
  BY <1>1, <1>2, <1>3, <1>4

\* What staging holds, an empty directory when there is none.
Staged == IF staging = None THEN Empty ELSE content[staging]

LEMMA EmptyEntry == Empty \in Entry
  BY DEF Empty, Entry

\* A write under staging/<id> changes one file there, and no other directory.
LEMMA WriteKeeps ==
  ASSUME DiskTypes, NEW part \in DOMAIN Empty, NEW value, Written(part, value),
         \/ part = "data" /\ value \in Builders
         \/ part = "evidence" /\ value = TRUE
         \/ part = "manifest" /\ value \in Listing
  PROVE  /\ DiskTypes' /\ DOMAIN content \subseteq DOMAIN content'
         /\ staging' # None /\ content'[staging'] = [Staged EXCEPT ![part] = value]
         /\ Staged \in Entry
         /\ version' = version
         /\ version # None => content'[version] = content[version]
<1>1. \A e \in Entry : [e EXCEPT ![part] = value] \in Entry
  <2>. SUFFICES ASSUME NEW e \in Entry
                PROVE  [e EXCEPT ![part] = value] \in Entry
    OBVIOUS
  <2>1. CASE part = "data" /\ value \in Builders
    BY <2>1 DEF Entry
  <2>2. CASE part = "evidence" /\ value = TRUE
    BY <2>2 DEF Entry
  <2>3. CASE part = "manifest" /\ value \in Listing
    BY <2>3 DEF Entry
  <2>. QED
    BY <2>1, <2>2, <2>3
<1>2. Staged \in Entry
  <2>1. staging # None => content[staging] \in Entry
    BY ElementOfSeq, LenProperties DEF DiskTypes, Directory
  <2>. QED
    BY <2>1, EmptyEntry DEF Staged
<1>. DEFINE e == [Staged EXCEPT ![part] = value]
<1>3. e \in Entry
  BY <1>1, <1>2
<1>4. CASE staging = None
  <2>1. content' = Append(content, e) /\ staging' = Len(content) + 1
        /\ UNCHANGED <<version, invalid>>
    BY <1>4 DEF Written, Staged
  <2>. HIDE DEF e
  <2>. QED
    BY <1>2, <1>3, <2>1, NewKeeps DEF DiskTypes, Directory, e
<1>5. CASE staging # None
  <2>1. content' = [content EXCEPT ![staging] = e] /\ UNCHANGED <<staging, version, invalid>>
    BY <1>5 DEF Written, Staged
  <2>2. staging \in DOMAIN content
    BY <1>5 DEF DiskTypes, Directory
  <2>. HIDE DEF e
  <2>. QED
    BY <1>2, <1>3, <1>5, <2>1, <2>2, PutKeeps DEF DiskTypes, Directory, e
<1>. QED
  BY <1>4, <1>5

-----------------------------------------------------------------------------
(* The processes *)

\* What a version is, alone: whole, and what was selected.
Whole == VersionWhole /\ SelectedStays

\* While its directory is as it was, so is the version.
LEMMA WholeStays ==
  ASSUME Whole, UNCHANGED <<version, selected>>,
         version # None => content'[version] = content[version]
  PROVE  Whole'
<1>1. version # None => Inventory(version)' = Inventory(version)
  BY DEF Inventory
<1>2. VersionWhole'
  BY <1>1 DEF Whole, VersionWhole
<1>3. SelectedStays'
  BY <1>1 DEF Whole, SelectedStays
<1>. QED
  BY <1>2, <1>3 DEF Whole

\* The steps a process may be at.
StepsOf(p) ==
  {"idle"} \cup (IF p \in Builders THEN Building ELSE {}) \cup (IF p \in Cleaners THEN Cleaning ELSE {})

\* One process moves: the rest is as it was, and alone means all the others idle.
LEMMA MoveKeeps ==
  ASSUME SerialIInv, NEW p \in Processes, NEW step \in StepsOf(p), UNCHANGED given,
         pc' = [pc EXCEPT ![p] = step],
         listing' \in [Processes -> Listing], held' \in [Processes -> Directory'],
         DiskTypes',
         schedule = "serial" => pc[p] # "idle" \/ \A q \in Processes : pc[q] = "idle",
         schedule = "serial" => Whole' /\ Phase(p)'
  PROVE  SerialIInv'
<1>1. TypeOK /\ schedule' = schedule /\ passes' = passes
  BY DEF SerialIInv, given
<1>2. /\ DOMAIN pc = Processes /\ pc'[p] = step /\ DOMAIN pc' = Processes
      /\ \A q \in Processes : q # p => pc'[q] = pc[q]
  BY <1>1 DEF TypeOK, ProcessTypes
<1>3. TypeOK'
  <2>1. /\ step \in {"idle"} \cup Building \cup Cleaning
        /\ step \in Building => p \in Builders
        /\ step \in Cleaning => p \in Cleaners
    BY DEF StepsOf, Building, Cleaning
  <2>2. pc' \in [Processes -> {"idle"} \cup Building \cup Cleaning]
    BY <1>1, <2>1 DEF TypeOK, ProcessTypes
  <2>3. \A q \in Processes : pc'[q] \in Building => q \in Builders
    BY <1>1, <1>2, <2>1 DEF TypeOK, ProcessTypes
  <2>4. \A q \in Processes : pc'[q] \in Cleaning => q \in Cleaners
    BY <1>1, <1>2, <2>1 DEF TypeOK, ProcessTypes
  <2>. QED
    BY <1>1, <2>2, <2>3, <2>4 DEF TypeOK, ProcessTypes
<1>4. ASSUME schedule = "serial"
      PROVE  /\ \A q \in Processes : q # p => pc'[q] = "idle"
             /\ Whole' /\ Phase(p)'
  BY <1>2, <1>4 DEF SerialIInv
<1>5. ASSUME NEW q \in Processes, pc'[q] = "idle"
      PROVE  Phase(q)'
  BY <1>5 DEF Phase, Building, Filled
<1>. QED
  BY <1>1, <1>3, <1>4, <1>5 DEF SerialIInv, Whole

\* Goto, End and Remove move one process.
LEMMA Moved ==
  ASSUME TypeOK, NEW p \in Processes, NEW step,
         Goto(p, step) \/ (End(p) /\ step = "idle") \/ (Remove(p, staging, step)),
         DOMAIN content \subseteq DOMAIN content'
  PROVE  /\ pc' = [pc EXCEPT ![p] = step]
         /\ listing' \in [Processes -> Listing] /\ held' \in [Processes -> Directory']
<1>1. Nothing \in Listing
  BY DEF Nothing, Listing
<1>2. staging \in Directory /\ None \in Directory /\ Directory \subseteq Directory'
  BY DEF TypeOK, DiskTypes, Directory
<1>. QED
  BY <1>1, <1>2 DEF Goto, End, Remove, TypeOK, ProcessTypes

\* A process that ends leaves the disk to the others.
LEMMA EndKeeps ==
  ASSUME SerialIInv, NEW p \in Processes, pc[p] # "idle", UNCHANGED given, End(p),
         DiskTypes', DOMAIN content \subseteq DOMAIN content',
         schedule = "serial" => Whole'
  PROVE  SerialIInv'
<1>1. TypeOK /\ "idle" \in StepsOf(p)
  BY DEF SerialIInv, StepsOf
<1>2. /\ pc' = [pc EXCEPT ![p] = "idle"]
      /\ listing' \in [Processes -> Listing] /\ held' \in [Processes -> Directory']
  BY <1>1, Moved
<1>3. pc'[p] = "idle"
  BY <1>1, <1>2 DEF TypeOK, ProcessTypes
<1>4. Phase(p)'
  BY <1>3 DEF Phase, Building, Filled
<1>. QED
  BY <1>1, <1>2, <1>4, MoveKeeps

\* Nothing on disk changes: what is left is what the new step asks for.
LEMMA QuietKeeps ==
  ASSUME SerialIInv, NEW p \in Processes, pc[p] # "idle", NEW step \in StepsOf(p),
         UNCHANGED <<given, disk, selected>>,
         Goto(p, step) \/ (End(p) /\ step = "idle") \/ Remove(p, staging, step),
         schedule = "serial" => Phase(p)'
  PROVE  SerialIInv'
<1>1. TypeOK /\ DiskTypes' /\ DOMAIN content \subseteq DOMAIN content'
  BY DEF SerialIInv, TypeOK, DiskTypes, Directory, disk
<1>2. /\ pc' = [pc EXCEPT ![p] = step]
      /\ listing' \in [Processes -> Listing] /\ held' \in [Processes -> Directory']
  BY <1>1, Moved
<1>3. schedule = "serial" => Whole'
  BY DEF SerialIInv, Whole, VersionWhole, SelectedStays, Inventory, disk
<1>. QED
  BY <1>1, <1>2, <1>3, MoveKeeps DEF given

LEMMA RefuseKeeps ==
  ASSUME SerialIInv, NEW p \in Processes, pc[p] # "idle", UNCHANGED <<given, selected>>, Refuse(p)
  PROVE  SerialIInv'
<1>1. DiskTypes' /\ DOMAIN content \subseteq DOMAIN content' /\ (schedule = "serial" => Whole')
  BY DEF SerialIInv, TypeOK, DiskTypes, Directory, disk, Whole, VersionWhole, SelectedStays,
         Inventory, Refuse
<1>. QED
  BY <1>1, EndKeeps DEF Refuse

\* Where each step of a process may be taken, and what its step says.
LEMMA At ==
  ASSUME SerialIInv, NEW p \in Processes
  PROVE  /\ TypeOK /\ pc[p] \in StepsOf(p) /\ DOMAIN pc = Processes
         /\ pc[p] \in Building => p \in Builders /\ Building \subseteq StepsOf(p)
         /\ pc[p] \in Cleaning => Cleaning \subseteq StepsOf(p)
         /\ "idle" \in StepsOf(p)
         /\ schedule = "serial" => Whole /\ Phase(p)
  BY DEF SerialIInv, TypeOK, ProcessTypes, StepsOf, Building, Cleaning, Whole

-----------------------------------------------------------------------------
(* Each step *)

LEMMA StartKeeps ==
  ASSUME SerialIInv, NEW p \in Processes,
         (p \in Builders /\ Build(p)) \/ (p \in Cleaners /\ Clean(p))
  PROVE  SerialIInv'
<1>1. PICK step : /\ Start(p, step)
                  /\ \/ step = "transform" /\ p \in Builders /\ version = None
                     \/ step = "list" /\ p \in Cleaners
  BY DEF Build, Clean
<1>2. step \in StepsOf(p)
  BY <1>1, ProcessAssumption DEF StepsOf, Building, Cleaning
<1>3. Goto(p, step) /\ UNCHANGED <<given, disk, selected>> /\ pc[p] = "idle"
      /\ (schedule = "serial" => \A q \in Processes : pc[q] = "idle")
  BY <1>1 DEF Start
<1>4. TypeOK /\ DiskTypes' /\ DOMAIN content \subseteq DOMAIN content'
  BY <1>3 DEF SerialIInv, TypeOK, DiskTypes, Directory, disk
<1>5. /\ pc' = [pc EXCEPT ![p] = step] /\ pc'[p] = step
      /\ listing' \in [Processes -> Listing] /\ held' \in [Processes -> Directory']
  BY <1>3, <1>4, Moved DEF TypeOK, ProcessTypes
<1>6. Phase(p)'
  BY <1>1, <1>3, <1>5 DEF Phase, Building, Filled, disk
<1>7. schedule = "serial" => Whole'
  BY <1>3 DEF SerialIInv, Whole, VersionWhole, SelectedStays, Inventory, disk
<1>. QED
  BY <1>2, <1>3, <1>4, <1>5, <1>6, <1>7, MoveKeeps DEF given

\* The builder looks at staging, and the cleaner too.
LEMMA LookKeeps ==
  ASSUME SerialIInv, NEW p \in Processes, Stage(p) \/ List(p) \/ Verify(p)
  PROVE  SerialIInv'
<1>1. pc[p] \in {"transform", "list", "verify"} /\ UNCHANGED <<given, selected>>
  BY DEF Stage, List, Verify, given
<1>2. TypeOK /\ DOMAIN pc = Processes
  BY At
<1>3. CASE Refuse(p)
  BY <1>1, <1>3, RefuseKeeps
<1>4. CASE Stage(p) /\ ~Refuse(p)
  <2>1. pc[p] = "transform" /\ UNCHANGED disk
    BY <1>4 DEF Stage, Remove
  <2>2. \/ staging # None /\ Remove(p, staging, "replace")
        \/ staging = None /\ Goto(p, "make")
    BY <1>4 DEF Stage
  <2>3. {"replace", "make"} \subseteq StepsOf(p)
    BY <2>1, At DEF Building
  <2>4. CASE staging # None /\ Remove(p, staging, "replace")
    <3>1. pc'[p] = "replace" /\ held'[p] = staging
      BY <1>2, <2>4 DEF Remove, TypeOK, ProcessTypes
    <3>2. schedule = "serial" => Phase(p)'
      BY <2>1, <2>4, <3>1, At DEF Phase, Building, Filled, disk
    <3>. QED
      BY <1>1, <2>1, <2>3, <2>4, <3>2, QuietKeeps
  <2>5. CASE staging = None /\ Goto(p, "make")
    <3>1. pc'[p] = "make"
      BY <1>2, <2>5 DEF Goto
    <3>2. schedule = "serial" => Phase(p)'
      BY <2>1, <2>5, <3>1, At DEF Phase, Building, Filled, disk
    <3>. QED
      BY <1>1, <2>1, <2>3, <2>5, <3>2, QuietKeeps
  <2>. QED
    BY <2>2, <2>4, <2>5
<1>5. CASE List(p) /\ ~Refuse(p)
  <2>1. pc[p] = "list" /\ staging # None /\ Remove(p, staging, "remove") /\ UNCHANGED disk
    BY <1>5 DEF List, Remove
  <2>2. "remove" \in StepsOf(p)
    BY <2>1, At DEF Cleaning
  <2>3. pc'[p] = "remove" /\ held'[p] = staging
    BY <1>2, <2>1 DEF Remove, TypeOK, ProcessTypes
  <2>4. schedule = "serial" => Phase(p)'
    BY <2>1, <2>3 DEF Phase, Building, Filled, disk
  <2>. QED
    BY <1>1, <2>1, <2>2, <2>4, QuietKeeps
<1>6. CASE Verify(p) /\ ~Refuse(p)
  <2>1. PICK step \in {"promote", "invalidate"} : Goto(p, step) /\ UNCHANGED disk /\ pc[p] = "verify"
    BY <1>6 DEF Verify
  <2>2. step \in StepsOf(p)
    BY <2>1, At DEF Building
  <2>3. pc'[p] = step
    BY <1>2, <2>1 DEF Goto
  <2>4. schedule = "serial" => Phase(p)'
    BY <2>1, <2>3, At DEF Phase, Building, Filled, Inventory, disk, Goto
  <2>. QED
    BY <1>1, <2>1, <2>2, <2>4, QuietKeeps
<1>. QED
  BY <1>3, <1>4, <1>5, <1>6

\* A builder at its end selects what it built, which is the version.
LEMMA SelectKeeps ==
  ASSUME SerialIInv, NEW p \in Processes, Select(p)
  PROVE  SerialIInv'
<1>1. pc[p] = "select" /\ UNCHANGED <<given, disk>> /\ End(p) /\ TypeOK
      /\ selected' \subseteq selected \cup {listing[p]}
  BY At DEF Select, Refuse
<1>2. DiskTypes' /\ DOMAIN content \subseteq DOMAIN content'
  BY <1>1 DEF TypeOK, DiskTypes, Directory, disk
<1>3. ASSUME schedule = "serial" PROVE Whole'
  <2>1. Whole /\ version # None /\ listing[p] = Inventory(version)
    BY <1>1, <1>3, At DEF Phase
  <2>2. Inventory(version)' = Inventory(version) /\ version' = version /\ content' = content
    BY <1>1 DEF Inventory, disk
  <2>3. VersionWhole'
    BY <2>1, <2>2 DEF Whole, VersionWhole
  <2>4. SelectedStays'
    BY <1>1, <2>1, <2>2 DEF Whole, SelectedStays
  <2>. QED
    BY <2>3, <2>4 DEF Whole
<1>. QED
  BY <1>1, <1>2, <1>3, EndKeeps

LEMMA PromoteKeeps ==
  ASSUME SerialIInv, NEW p \in Processes, Promote(p)
  PROVE  SerialIInv'
<1>1. pc[p] = "promote" /\ UNCHANGED <<given, selected>> /\ DOMAIN pc = Processes
  BY At DEF Promote
<1>2. {"rename", "select", "drop"} \subseteq StepsOf(p)
  BY <1>1, At DEF Building
<1>3. schedule = "serial" => version = None
  BY <1>1, At DEF Phase, Building
<1>4. CASE Refuse(p)
  BY <1>1, <1>4, RefuseKeeps
<1>5. CASE version = None /\ Goto(p, "rename") /\ UNCHANGED disk
  <2>1. pc'[p] = "rename"
    BY <1>1, <1>5 DEF Goto
  <2>2. schedule = "serial" => Phase(p)'
    BY <1>1, <1>5, <2>1, At DEF Phase, Building, Filled, Inventory, disk, Goto
  <2>. QED
    BY <1>1, <1>2, <1>5, <2>2, QuietKeeps
<1>6. CASE version # None /\ Goto(p, "select") /\ UNCHANGED disk
  BY <1>1, <1>2, <1>3, <1>6, QuietKeeps
<1>7. CASE version # None /\ Remove(p, staging, "drop")
  <2>1. UNCHANGED disk
    BY <1>7 DEF Remove
  <2>. QED
    BY <1>1, <1>2, <1>3, <1>7, <2>1, QuietKeeps
<1>. QED
  BY <1>4, <1>5, <1>6, <1>7 DEF Promote

\* shutil.rmtree, alone, deletes what staging holds and then staging.
LEMMA RemovalKeeps ==
  ASSUME SerialIInv, NEW p \in Processes, Unlink(p) \/ RemoveDirectory(p)
  PROVE  SerialIInv'
<1>1. /\ pc[p] \in {"replace", "remove", "drop"} /\ UNCHANGED <<given, selected>>
      /\ TypeOK /\ DOMAIN pc = Processes /\ pc[p] \in StepsOf(p)
  BY At DEF Unlink, RemoveDirectory
<1>2. schedule = "serial" =>
        /\ pc[p] # "drop" /\ staging # None /\ held[p] = staging
        /\ pc[p] = "replace" => version = None
        /\ Whole
  BY <1>1, At DEF Phase, Building
<1>3. CASE Unlink(p)
  <2>1. PICK part \in DOMAIN Empty : content' = [content EXCEPT ![held[p]][part] = Empty[part]]
    BY <1>3 DEF Unlink
  <2>2. UNCHANGED <<staging, version, invalid, pc, listing, held>>
    BY <1>3 DEF Unlink, private
  <2>3. /\ DiskTypes' /\ DOMAIN content' = DOMAIN content
        /\ \A o \in DOMAIN content : o # held[p] => content'[o] = content[o]
    <3>. DEFINE d == held[p]
                e == [content[d] EXCEPT ![part] = Empty[part]]
    <3>1. CASE d \in DOMAIN content
      <4>1. content[d] \in Entry
        BY <1>1, <3>1, ElementOfSeq, LenProperties DEF TypeOK, DiskTypes
      <4>2. e \in Entry
        <5>1. CASE part = "data"
          BY <4>1, <5>1 DEF Entry, Empty
        <5>2. CASE part = "evidence"
          BY <4>1, <5>2 DEF Entry, Empty
        <5>3. CASE part = "manifest"
          BY <4>1, <5>3 DEF Entry, Empty
        <5>. QED
          BY <5>1, <5>2, <5>3 DEF Empty
      <4>3. content' = [content EXCEPT ![d] = e]
        BY <2>1
      <4>. HIDE DEF e
      <4>. QED
        BY <1>1, <2>2, <3>1, <4>2, <4>3, PutKeeps DEF TypeOK, DiskTypes, Directory
    <3>2. CASE d \notin DOMAIN content
      <4>1. content' = content
        BY <1>1, <2>1, <3>2 DEF TypeOK, DiskTypes
      <4>. QED
        BY <1>1, <2>2, <4>1 DEF TypeOK, DiskTypes, Directory
    <3>. QED
      BY <3>1, <3>2
  <2>4. schedule = "serial" => Whole' /\ Phase(p)'
    <3>. SUFFICES ASSUME schedule = "serial"
                  PROVE  Whole' /\ Phase(p)'
      OBVIOUS
    <3>1. version # None => version \in DOMAIN content /\ content'[version] = content[version]
      BY <1>1, <1>2, <2>3 DEF TypeOK, DiskTypes, Directory
    <3>2. Whole'
      BY <1>1, <1>2, <2>2, <3>1, WholeStays
    <3>3. Phase(p)'
      BY <1>1, <1>2, <2>2 DEF Phase, Building, Filled
    <3>. QED
      BY <3>2, <3>3
  <2>5. /\ pc' = [pc EXCEPT ![p] = pc[p]]
        /\ listing' \in [Processes -> Listing] /\ held' \in [Processes -> Directory']
    BY <1>1, <2>2, <2>3 DEF TypeOK, ProcessTypes, Directory
  <2>. QED
    BY <1>1, <2>3, <2>4, <2>5, MoveKeeps
<1>4. CASE RemoveDirectory(p) /\ Refuse(p)
  BY <1>1, <1>4, RefuseKeeps
<1>5. CASE RemoveDirectory(p) /\ ~Refuse(p)
  <2>1. /\ staging' = None /\ UNCHANGED <<content, version, invalid>>
        /\ \/ pc[p] = "replace" /\ Goto(p, "make")
           \/ pc[p] = "drop" /\ Goto(p, "select")
           \/ pc[p] = "remove" /\ End(p)
    BY <1>1, <1>5 DEF RemoveDirectory
  <2>2. DiskTypes' /\ DOMAIN content \subseteq DOMAIN content'
    BY <1>1, <2>1 DEF TypeOK, DiskTypes, Directory
  <2>3. schedule = "serial" => Whole'
    BY <1>1, <1>2, <2>1, WholeStays
  <2>4. CASE pc[p] = "remove" /\ End(p)
    BY <1>1, <2>2, <2>3, <2>4, EndKeeps
  <2>5. ASSUME NEW step \in {"make", "select"}, Goto(p, step),
               (step = "make" /\ pc[p] = "replace") \/ (step = "select" /\ pc[p] = "drop")
        PROVE  SerialIInv'
    <3>1. step \in StepsOf(p)
      BY <2>5, At DEF Building
    <3>2. /\ pc' = [pc EXCEPT ![p] = step] /\ pc'[p] = step
          /\ listing' \in [Processes -> Listing] /\ held' \in [Processes -> Directory']
      BY <1>1, <2>2, <2>5, Moved
    <3>3. schedule = "serial" => Phase(p)'
      BY <1>2, <2>1, <2>5, <3>2 DEF Phase, Building, Filled
    <3>. QED
      BY <1>1, <2>2, <2>3, <3>1, <3>2, <3>3, MoveKeeps
  <2>. QED
    BY <2>1, <2>4, <2>5
<1>. QED
  BY <1>3, <1>4, <1>5

\* The staging directory is made; it is no version.
LEMMA MakeKeeps ==
  ASSUME SerialIInv, NEW p \in Processes, MakeStaging(p)
  PROVE  SerialIInv'
<1>1. /\ pc[p] = "make" /\ UNCHANGED <<given, selected>> /\ TypeOK /\ DOMAIN pc = Processes
      /\ "data" \in StepsOf(p)
  BY At DEF MakeStaging, Building
<1>2. CASE Refuse(p)
  BY <1>1, <1>2, RefuseKeeps
<1>3. CASE ~Refuse(p)
  <2>1. /\ content' = Append(content, Empty) /\ staging' = Len(content) + 1
        /\ Goto(p, "data") /\ UNCHANGED <<version, invalid>>
    BY <1>3 DEF MakeStaging
  <2>2. /\ content' \in Seq(Entry) /\ DOMAIN content' = DOMAIN content \cup {staging'}
        /\ staging' \notin DOMAIN content /\ staging' # None
        /\ \A o \in DOMAIN content : content'[o] = content[o]
    BY <1>1, <2>1, EmptyEntry, NewKeeps DEF TypeOK, DiskTypes
  <2>3. DiskTypes'
    BY <1>1, <2>1, <2>2 DEF TypeOK, DiskTypes, Directory
  <2>4. /\ pc' = [pc EXCEPT ![p] = "data"] /\ pc'[p] = "data"
        /\ listing' \in [Processes -> Listing] /\ held' \in [Processes -> Directory']
    BY <1>1, <2>1, <2>2, Moved
  <2>5. ASSUME schedule = "serial"
        PROVE  Whole' /\ Phase(p)'
    <3>1. version = None
      BY <1>1, <2>5, At DEF Phase, Building
    <3>2. Whole'
      BY <1>1, <2>1, <2>5, <3>1, At, WholeStays
    <3>3. Phase(p)'
      BY <2>1, <2>2, <2>4, <3>1 DEF Phase, Building, Filled
    <3>. QED
      BY <3>2, <3>3
  <2>. QED
    BY <1>1, <2>3, <2>4, <2>5, MoveKeeps
<1>. QED
  BY <1>2, <1>3

\* The three writes: alone, each finds what the one before it left.
LEMMA WritesKeep ==
  ASSUME SerialIInv, NEW p \in Processes,
         WriteData(p) \/ WriteEvidence(p) \/ WriteManifest(p)
  PROVE  SerialIInv'
<1>1. /\ pc[p] \in {"data", "evidence", "inventory"} /\ UNCHANGED <<given, selected>>
      /\ TypeOK /\ DOMAIN pc = Processes
  BY At DEF WriteData, WriteEvidence, WriteManifest
<1>2. p \in Builders /\ {"evidence", "inventory", "verify"} \subseteq StepsOf(p) /\ p # None
  BY <1>1, At, ProcessAssumption DEF Building
<1>3. CASE Refuse(p)
  BY <1>1, <1>3, RefuseKeeps
<1>4. PICK found \in Listing : found = IF staging = None THEN Nothing ELSE Inventory(staging)
  <2>1. staging # None => content[staging] \in Entry
    BY <1>1, ElementOfSeq, LenProperties DEF TypeOK, DiskTypes, Directory
  <2>2. Nothing \in Listing
    BY DEF Nothing, Listing
  <2>3. staging # None => Inventory(staging) \in Listing
    BY <2>1 DEF Inventory, Listing, Entry
  <2>. QED
    BY <2>2, <2>3
<1>5. ASSUME NEW part \in DOMAIN Empty, NEW value, NEW step, Written(part, value),
             pc' = [pc EXCEPT ![p] = step], listing' \in [Processes -> Listing],
             held' = held, selected' = selected,
             part = "manifest" => listing'[p] = value,
             \/ part = "data" /\ value = p /\ pc[p] = "data" /\ step = "evidence"
             \/ part = "evidence" /\ value = TRUE /\ pc[p] = "evidence" /\ step = "inventory"
             \/ part = "manifest" /\ value = found /\ pc[p] = "inventory" /\ step = "verify"
      PROVE  SerialIInv'
  <2>. DEFINE e == [Staged EXCEPT ![part] = value]
  <2>1. /\ DiskTypes' /\ DOMAIN content \subseteq DOMAIN content'
        /\ staging' # None /\ content'[staging'] = e /\ Staged \in Entry
        /\ version' = version
        /\ version # None => content'[version] = content[version]
    BY <1>1, <1>2, <1>4, <1>5, WriteKeeps DEF TypeOK
  <2>2. pc'[p] = step
    BY <1>1, <1>5
  <2>3. held' \in [Processes -> Directory']
    BY <1>1, <1>5, <2>1 DEF TypeOK, ProcessTypes, Directory
  <2>4. ASSUME schedule = "serial"
        PROVE  Whole' /\ Phase(p)'
    <3>1. version = None /\ staging # None
          /\ (pc[p] # "data" => content[staging].data # None)
          /\ (pc[p] = "inventory" => content[staging].evidence)
      BY <1>1, <2>4, At DEF Phase, Building, Filled
    <3>2. Staged = content[staging]
      BY <3>1 DEF Staged
    <3>3. Whole'
      BY <1>5, <2>1, <2>4, <3>1, At, WholeStays
    <3>4. CASE part = "data" /\ value = p /\ step = "evidence"
      <4>1. content'[staging'].data = p
        BY <2>1, <3>4 DEF Entry
      <4>. QED
        BY <1>2, <2>1, <2>2, <3>1, <3>3, <3>4, <4>1 DEF Phase, Building, Filled
    <3>5. CASE part = "evidence" /\ value = TRUE /\ step = "inventory" /\ pc[p] = "evidence"
      <4>1. content'[staging'].data = content[staging].data /\ content'[staging'].evidence
        BY <2>1, <3>2, <3>5 DEF Entry
      <4>. QED
        BY <2>1, <2>2, <3>1, <3>3, <3>5, <4>1 DEF Phase, Building, Filled
    <3>6. CASE part = "manifest" /\ value = found /\ step = "verify" /\ pc[p] = "inventory"
      <4>1. /\ content'[staging'].data = content[staging].data
            /\ content'[staging'].evidence = content[staging].evidence
            /\ content'[staging'].manifest = found
        BY <2>1, <3>2, <3>6 DEF Entry
      <4>2. Inventory(staging)' = found
        BY <1>4, <3>1, <4>1 DEF Inventory
      <4>. QED
        BY <1>5, <2>1, <2>2, <3>1, <3>3, <3>6, <4>1, <4>2 DEF Phase, Building, Filled
    <3>. QED
      BY <1>5, <3>3, <3>4, <3>5, <3>6
  <2>. QED
    BY <1>1, <1>2, <1>5, <2>1, <2>3, <2>4, MoveKeeps
<1>6. CASE WriteData(p) /\ ~Refuse(p)
  BY <1>1, <1>5, <1>6 DEF WriteData, Goto, Empty, TypeOK, ProcessTypes
<1>7. CASE WriteEvidence(p)
  BY <1>1, <1>5, <1>7 DEF WriteEvidence, Goto, Empty, TypeOK, ProcessTypes
<1>8. CASE WriteManifest(p)
  <2>1. /\ Written("manifest", found) /\ listing' = [listing EXCEPT ![p] = found]
        /\ pc' = [pc EXCEPT ![p] = "verify"] /\ held' = held /\ pc[p] = "inventory"
        /\ selected' = selected
    BY <1>4, <1>8 DEF WriteManifest
  <2>2. listing' \in [Processes -> Listing] /\ listing'[p] = found
    BY <1>1, <2>1 DEF TypeOK, ProcessTypes
  <2>. QED
    BY <1>5, <2>1, <2>2 DEF Empty
<1>. QED
  BY <1>3, <1>6, <1>7, <1>8

\* The rename into versions/ or invalid/ takes what was verified.
LEMMA RenameKeeps ==
  ASSUME SerialIInv, NEW p \in Processes, Rename(p) \/ Invalidate(p)
  PROVE  SerialIInv'
<1>1. /\ pc[p] \in {"rename", "invalidate"} /\ UNCHANGED <<given, selected>>
      /\ TypeOK /\ DOMAIN pc = Processes
  BY At DEF Rename, Invalidate
<1>2. CASE Refuse(p)
  BY <1>1, <1>2, RefuseKeeps
<1>3. CASE Rename(p) /\ ~Refuse(p)
  <2>1. /\ pc[p] = "rename" /\ staging # None /\ version' = staging /\ staging' = None
        /\ Goto(p, "select") /\ UNCHANGED <<content, invalid>>
    BY <1>3 DEF Rename
  <2>2. "select" \in StepsOf(p)
    BY <2>1, At DEF Building
  <2>3. DiskTypes' /\ DOMAIN content \subseteq DOMAIN content'
    BY <1>1, <2>1 DEF TypeOK, DiskTypes, Directory
  <2>4. /\ pc' = [pc EXCEPT ![p] = "select"] /\ pc'[p] = "select"
        /\ listing' \in [Processes -> Listing] /\ held' \in [Processes -> Directory']
    BY <1>1, <2>1, <2>3, Moved
  <2>5. ASSUME schedule = "serial"
        PROVE  Whole' /\ Phase(p)'
    <3>1. /\ version = None /\ listing[p] = Inventory(staging)
          /\ content[staging].manifest = Inventory(staging)
          /\ content[staging].data # None /\ content[staging].evidence
      BY <2>1, <2>5, At DEF Phase, Building, Filled
    <3>2. selected' = {}
      BY <1>1, <2>5, <3>1, At DEF Whole, SelectedStays
    <3>3. Inventory(version)' = Inventory(staging)
      BY <2>1 DEF Inventory
    <3>4. Whole'
      BY <2>1, <3>1, <3>2, <3>3 DEF Whole, VersionWhole, SelectedStays
    <3>5. Phase(p)'
      BY <2>1, <2>4, <3>1, <3>3 DEF Goto, Phase, Building, Filled
    <3>. QED
      BY <3>4, <3>5
  <2>. QED
    BY <1>1, <2>1, <2>2, <2>3, <2>4, <2>5, MoveKeeps
<1>4. CASE Invalidate(p) /\ ~Refuse(p)
  <2>1. /\ invalid' = staging /\ staging' = None /\ staging # None /\ End(p)
        /\ UNCHANGED <<content, version>>
    BY <1>4 DEF Invalidate
  <2>2. DiskTypes' /\ DOMAIN content \subseteq DOMAIN content'
    BY <1>1, <2>1 DEF TypeOK, DiskTypes, Directory
  <2>3. schedule = "serial" => Whole'
    BY <1>1, <2>1, At, WholeStays
  <2>. QED
    BY <1>1, <2>1, <2>2, <2>3, EndKeeps
<1>. QED
  BY <1>2, <1>3, <1>4

\* A death is an end that nobody planned.
LEMMA CrashKeeps ==
  ASSUME SerialIInv, NEW p \in Processes, Crash(p)
  PROVE  SerialIInv'
<1>. QED
  BY RefuseKeeps DEF Crash, Refuse

-----------------------------------------------------------------------------
(* The theorems *)

\* SerialIInv is inductive: types hold however the commands are run; alone, a
\* command finds in staging only what its own steps have written.
THEOREM SerialInductive == Spec => []SerialIInv
<1>1. Init => SerialIInv
  <2>. SUFFICES ASSUME Init
                PROVE  SerialIInv
    OBVIOUS
  <2>1. TypeOK
    BY EmptySeq DEF Init, TypeOK, DiskTypes, ProcessTypes, Directory, Listing, Nothing,
                    Building, Cleaning
  <2>. QED
    BY <2>1 DEF Init, SerialIInv, VersionWhole, SelectedStays, Phase, Building, Filled
<1>2. SerialIInv /\ [Next]_vars => SerialIInv'
  <2>. SUFFICES ASSUME SerialIInv, [Next]_vars
                PROVE  SerialIInv'
    OBVIOUS
  <2>1. ASSUME NEW p \in Builders, Build(p)
        PROVE  SerialIInv'
    BY <2>1, StartKeeps DEF Processes
  <2>2. ASSUME NEW p \in Cleaners, Clean(p)
        PROVE  SerialIInv'
    BY <2>2, StartKeeps DEF Processes
  <2>3. ASSUME NEW p \in Processes, Work(p) \/ Crash(p)
        PROVE  SerialIInv'
    BY <2>3, LookKeeps, SelectKeeps, RemovalKeeps, MakeKeeps, WritesKeep, PromoteKeeps, RenameKeeps,
       CrashKeeps DEF Work
  <2>4. CASE UNCHANGED vars
    BY <2>4 DEF SerialIInv, TypeOK, DiskTypes, ProcessTypes, Directory, VersionWhole, SelectedStays,
                Inventory, Phase, vars, disk, private, given
  <2>. QED
    BY <2>1, <2>2, <2>3, <2>4 DEF Next
<1>. QED
  BY <1>1, <1>2, PTL DEF Spec

\* WholeWhenSerial holds of any number of commands run one at a time, wherever
\* they die: a directory under versions/ holds every file its manifest lists
\* (storage.py:56-63,153-167).  Overlapping commands have no such theorem.
THEOREM SerialIsWhole == Spec => []WholeWhenSerial
<1>1. SerialIInv => WholeWhenSerial
  BY DEF SerialIInv, WholeWhenSerial
<1>. QED
  BY <1>1, SerialInductive, PTL

\* One step: a version's files are written by no step, and lost only to a removal.
LEMMA StepAlters ==
  ASSUME SerialIInv, [Next]_vars, NEW part \in DOMAIN Empty,
         version # None, content[version][part] # Empty[part]
  PROVE  version' # None /\ content'[version'][part] \in {content[version][part], Empty[part]}
<1>1. /\ DiskTypes /\ version \in DOMAIN content /\ content[version] \in Entry
      /\ staging # version
  BY ElementOfSeq, LenProperties DEF SerialIInv, TypeOK, DiskTypes, Directory
<1>2. content[version] # Empty
  BY DEF Empty
<1>3. CASE UNCHANGED <<content, version>>
  BY <1>1, <1>3 DEF Directory
<1>4. ASSUME NEW p \in Processes, Unlink(p)
      PROVE  version' = version /\ content'[version][part] \in {content[version][part], Empty[part]}
  <2>1. PICK gone \in DOMAIN Empty :
          content' = [content EXCEPT ![held[p]][gone] = Empty[gone]] /\ version' = version
    BY <1>4 DEF Unlink
  <2>2. CASE held[p] = version /\ gone = part
    BY <1>1, <2>1, <2>2 DEF Entry, Empty
  <2>3. CASE held[p] = version /\ gone # part
    BY <1>1, <2>1, <2>3 DEF Entry, Empty
  <2>4. CASE held[p] # version
    BY <1>1, <2>1, <2>4
  <2>. QED
    BY <2>1, <2>2, <2>3, <2>4
<1>5. ASSUME NEW p \in Processes,
             (MakeStaging(p) \/ WriteData(p) \/ WriteEvidence(p) \/ WriteManifest(p)) /\ ~Refuse(p)
      PROVE  version' = version /\ content'[version] = content[version]
  <2>1. \/ \E e : content' = Append(content, e) /\ version' = version
        \/ \E e : content' = [content EXCEPT ![staging] = e] /\ version' = version
    BY <1>5 DEF MakeStaging, WriteData, WriteEvidence, WriteManifest, Written
  <2>. QED
    BY <1>1, <2>1, LenProperties DEF DiskTypes
<1>6. ASSUME NEW p \in Processes, Rename(p)
      PROVE  UNCHANGED <<content, version>>
  BY <1>2, <1>6 DEF Rename, Refuse, disk
<1>7. ASSUME NEW p \in Processes, Refuse(p)
      PROVE  UNCHANGED <<content, version>>
  BY <1>7 DEF Refuse, disk
<1>8. ASSUME NEW p \in Processes,
             Stage(p) \/ List(p) \/ RemoveDirectory(p) \/ Verify(p) \/ Promote(p) \/ Select(p)
             \/ Invalidate(p) \/ Crash(p)
      PROVE  UNCHANGED <<content, version>>
  BY <1>8 DEF Stage, List, RemoveDirectory, Verify, Promote, Select, Invalidate, Crash, Refuse,
              Remove, disk
<1>9. CASE (\E p \in Builders : Build(p)) \/ (\E p \in Cleaners : Clean(p)) \/ UNCHANGED vars
  BY <1>3, <1>9 DEF Build, Clean, Start, disk, vars
<1>10. ASSUME NEW p \in Processes, Work(p) \/ Crash(p)
       PROVE  version' # None /\ content'[version'][part] \in {content[version][part], Empty[part]}
  BY <1>3, <1>4, <1>5, <1>6, <1>7, <1>8, <1>10 DEF Work
<1>. QED
  BY <1>9, <1>10 DEF Next

\* NeverAltered holds of any number of commands, overlapping and dying as they
\* may: no build writes or renames over a file of an existing version
\* (storage.py:153-167), so what a reader finds there is what was verified, or
\* nothing.
THEOREM VersionNeverAltered == Spec => NeverAltered
<1>1. SerialIInv /\ [Next]_vars =>
        [\A part \in DOMAIN Empty :
           version # None /\ content[version][part] # Empty[part] =>
             version' # None
             /\ content'[version'][part] \in {content[version][part], Empty[part]}]_vars
  BY StepAlters
<1>. QED
  BY <1>1, SerialInductive, PTL DEF Spec, NeverAltered

================================================================================
