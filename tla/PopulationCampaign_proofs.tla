----------------------- MODULE PopulationCampaign_proofs -----------------------
(* Proofs about PopulationCampaign, for any source, ceilings, grants and keys,  *)
(* and any number of invocations, deaths and clean-staging commands.            *)
EXTENDS PopulationCampaign, SequenceTheorems, FiniteSetTheorems, WellFoundedInduction, TLAPS

-----------------------------------------------------------------------------
(* The ledger *)

\* Invocations are counted from one.
LEMMA LedgerLength ==
  ASSUME NEW x, HasLedger(x)
  PROVE  /\ Current(x) \in Nat /\ DOMAIN x.invocations = 1 .. Current(x)
         /\ x.invocations # <<>> => Current(x) \in DOMAIN x.invocations
  BY DEF HasLedger, Current

\* A sequence is one of its own elements.
LEMMA OwnRange ==
  ASSUME NEW S, NEW t \in Seq(S)
  PROVE  t \in Seq({t[i] : i \in DOMAIN t})
<1>. DEFINE R == {t[i] : i \in DOMAIN t}
<1>1. DOMAIN t = 1 .. Len(t) /\ Len(t) \in Nat /\ t \in [1 .. Len(t) -> S]
  BY LenProperties
<1>2. t \in [1 .. Len(t) -> R]
  BY <1>1
<1>. HIDE DEF R
<1>3. t \in Seq(R)
  BY <1>1, <1>2, SeqDef
<1>. QED
  BY <1>3 DEF R

\* The last invocation is written anew, with its key and its grant.
LEMMA EntryLedger ==
  ASSUME NEW x, NEW a, HasLedger(x), x.invocations # <<>>,
         DOMAIN a = {"key", "grant", "state", "consumed"},
         a.key = x.invocations[Current(x)].key, a.grant = x.invocations[Current(x)].grant
  PROVE  LET y == [x EXCEPT !.invocations = [x.invocations EXCEPT ![Current(x)] = a]]
         IN /\ HasLedger(y) /\ Current(y) = Current(x)
            /\ y.invocations[Current(x)] = a /\ y.invocations # <<>>
            /\ \A i \in DOMAIN x.invocations :
                 /\ y.invocations[i].key = x.invocations[i].key
                 /\ y.invocations[i].grant = x.invocations[i].grant
<1>. DEFINE n == Current(x)
            s == x.invocations
            t == [s EXCEPT ![n] = a]
            S == {s[i] : i \in DOMAIN s} \cup {a}
            y == [x EXCEPT !.invocations = t]
<1>1. n \in DOMAIN s /\ DOMAIN s = 1 .. n /\ n \in Nat /\ n = Len(s)
  BY LedgerLength DEF Current
<1>2. s \in Seq(S)
  BY SeqMonotonic DEF HasLedger
<1>3. \A i \in DOMAIN s : DOMAIN s[i] = {"key", "grant", "state", "consumed"}
  BY DEF HasLedger
<1>4. DOMAIN y = DOMAIN x /\ y.invocations = t
  BY DEF HasLedger, Planned
<1>. HIDE DEF s, S, n
<1>5. /\ t \in Seq(S) /\ Len(t) = n /\ DOMAIN t = 1 .. n
      /\ \A i \in 1 .. n : t[i] = IF i = n THEN a ELSE s[i]
  <2>1. a \in S /\ n \in 1 .. Len(s)
    BY <1>1 DEF S
  <2>. QED
    BY <1>1, <1>2, <2>1, ExceptSeq, LenProperties
<1>. HIDE DEF t, y
<1>6. t \in Seq({t[i] : i \in DOMAIN t})
  BY <1>5, OwnRange
<1>7. t # <<>>
  <2>1. n \in 1 .. n
    BY <1>1
  <2>2. DOMAIN t # {}
    BY <1>5, <2>1
  <2>. QED
    BY <2>2
<1>8. HasLedger(y)
  BY <1>1, <1>3, <1>4, <1>5, <1>6 DEF HasLedger
<1>9. /\ a.key = s[n].key /\ a.grant = s[n].grant
  BY DEF s, n
<1>10. \A i \in DOMAIN s : y.invocations[i].key = s[i].key /\ y.invocations[i].grant = s[i].grant
  BY <1>1, <1>4, <1>5, <1>9
<1>11. Current(y) = n /\ y.invocations[n] = a /\ y.invocations # <<>>
  BY <1>1, <1>4, <1>5, <1>7 DEF Current
<1>. QED
  BY <1>8, <1>10, <1>11 DEF y, t, s, n

\* Recording an invocation changes no key and no grant.
LEMMA RecordLedger ==
  ASSUME NEW x, NEW s, HasLedger(x)
  PROVE  LET y == RecordInvocation(x, s)
         IN /\ HasLedger(y) /\ Current(y) = Current(x)
            /\ \A i \in DOMAIN x.invocations :
                 /\ y.invocations[i].key = x.invocations[i].key
                 /\ y.invocations[i].grant = x.invocations[i].grant
<1>. DEFINE n == Current(x)
            u == Usage(x, n)
            y == RecordInvocation(x, s)
<1>1. CASE x.invocations = <<>>
  BY <1>1 DEF RecordInvocation
<1>2. CASE x.invocations # <<>>
  <2>. DEFINE a == [x.invocations[n] EXCEPT !.consumed = u]
              z == [x EXCEPT !.invocations = [x.invocations EXCEPT ![n] = a]]
              b == [z.invocations[n] EXCEPT !.state = s]
  <2>1. n \in DOMAIN x.invocations
    BY <1>2, LedgerLength
  <2>2. y = [z EXCEPT !.invocations = [z.invocations EXCEPT ![n] = b]]
    BY <1>2 DEF RecordInvocation
  <2>. HIDE DEF u, y, n
  <2>3. DOMAIN a = {"key", "grant", "state", "consumed"}
        /\ a.key = x.invocations[n].key /\ a.grant = x.invocations[n].grant
    BY <2>1 DEF HasLedger
  <2>. HIDE DEF a
  <2>4. /\ HasLedger(z) /\ Current(z) = n /\ z.invocations[n] = a /\ z.invocations # <<>>
        /\ \A i \in DOMAIN x.invocations :
             /\ z.invocations[i].key = x.invocations[i].key
             /\ z.invocations[i].grant = x.invocations[i].grant
    BY <1>2, <2>3, EntryLedger DEF n
  <2>. HIDE DEF z
  <2>5. DOMAIN b = {"key", "grant", "state", "consumed"}
        /\ b.key = z.invocations[n].key /\ b.grant = z.invocations[n].grant
    BY <2>3, <2>4
  <2>6. DOMAIN z.invocations = DOMAIN x.invocations
    BY <2>4, LedgerLength DEF n
  <2>. HIDE DEF b
  <2>7. /\ HasLedger(y) /\ Current(y) = n
        /\ \A i \in DOMAIN z.invocations :
             /\ y.invocations[i].key = z.invocations[i].key
             /\ y.invocations[i].grant = z.invocations[i].grant
    BY <2>2, <2>4, <2>5, EntryLedger
  <2>. QED
    BY <2>4, <2>6, <2>7 DEF y, n
<1>. QED
  BY <1>1, <1>2

\* Every persist keeps the ledger, its keys and its grants.
LEMMA PersistedLedger ==
  ASSUME NEW x, NEW s, HasLedger(x)
  PROVE  LET y == Persisted(x, s)
         IN /\ HasLedger(y) /\ Current(y) = Current(x)
            /\ \A i \in DOMAIN x.invocations :
                 /\ y.invocations[i].key = x.invocations[i].key
                 /\ y.invocations[i].grant = x.invocations[i].grant
<1>. DEFINE r == RecordInvocation(x, s)
            c == Complete(x)
<1>1. /\ HasLedger(r) /\ Current(r) = Current(x)
      /\ \A i \in DOMAIN x.invocations :
           /\ r.invocations[i].key = x.invocations[i].key
           /\ r.invocations[i].grant = x.invocations[i].grant
  BY RecordLedger
<1>2. Persisted(x, s) = [r EXCEPT !.state = s, !.complete = c]
  BY DEF Persisted
<1>. HIDE DEF r, c
<1>. QED
  BY <1>1, <1>2 DEF HasLedger, Planned, Current

\* So does the publication.
LEMMA PublishedLedger ==
  ASSUME NEW x, HasLedger(x)
  PROVE  HasLedger(Published(x))
<1>. DEFINE r == RecordInvocation(x, outcome)
<1>1. HasLedger(r)
  BY RecordLedger
<1>2. Published(x) = [r EXCEPT !.state = outcome]
  BY DEF Published
<1>. HIDE DEF r
<1>. QED
  BY <1>1, <1>2 DEF HasLedger, Planned

\* A reservation and a receipt leave the invocations alone.
LEMMA ReservedLedger ==
  ASSUME NEW x, NEW r, HasLedger(x)
  PROVE  LET y == [x EXCEPT !.reservations = Append(@, r)]
         IN HasLedger(y) /\ y.invocations = x.invocations
<1>. DEFINE a == Append(x.reservations, r)
<1>1. [x EXCEPT !.reservations = Append(@, r)] = [x EXCEPT !.reservations = a]
  OBVIOUS
<1>. HIDE DEF a
<1>. QED
  BY <1>1 DEF HasLedger, Planned

\* A recorded answer leaves the invocations as they are.
LEMMA RecordedLedger ==
  ASSUME NEW x, NEW q, HasLedger(x), q.lane \in {"metadata", "scope_scan", "baseline_check"}
  PROVE  HasLedger(Recorded(x, q)) /\ Recorded(x, q).invocations = x.invocations
<1>. DEFINE y == Recorded(x, q)
<1>1. DOMAIN y = DOMAIN x /\ y.invocations = x.invocations
  BY DEF Recorded, HasLedger, Planned
<1>. HIDE DEF y
<1>. QED
  BY <1>1 DEF HasLedger, y

\* A new invocation is the last one.
LEMMA GrantedLedger ==
  ASSUME NEW x, HasLedger(x)
  PROVE  LET y == Granted(x)
         IN HasLedger(y) /\ Last(y).key = args.key /\ Last(y).grant = args.grant
                         /\ Current(y) \in DOMAIN y.invocations
<1>. DEFINE z == Interrupted(x)
            n == Current(x)
            e == [key |-> args.key, grant |-> args.grant, state |-> "extracting",
                  consumed |-> [kind \in Kinds |-> 0]]
<1>1. HasLedger(z) /\ Current(z) = n
  <2>1. CASE x.invocations # <<>> /\ Last(x).state = "extracting"
    <3>. DEFINE a == [x.invocations[n] EXCEPT !.state = "interrupted"]
    <3>1. n \in DOMAIN x.invocations
      BY <2>1, LedgerLength
    <3>2. z = [x EXCEPT !.invocations = [x.invocations EXCEPT ![n] = a]]
      BY <2>1 DEF Interrupted
    <3>3. DOMAIN a = {"key", "grant", "state", "consumed"}
          /\ a.key = x.invocations[n].key /\ a.grant = x.invocations[n].grant
      BY <3>1 DEF HasLedger
    <3>. HIDE DEF a, z
    <3>. QED
      BY <2>1, <3>2, <3>3, EntryLedger
  <2>2. CASE ~(x.invocations # <<>> /\ Last(x).state = "extracting")
    BY <2>2 DEF Interrupted
  <2>. QED
    BY <2>1, <2>2
<1>2. Granted(x) = [x EXCEPT !.invocations = Append(z.invocations, e)]
  BY DEF Granted, Opened
<1>. DEFINE t == Append(z.invocations, e)
<1>. HIDE DEF z
<1>3. /\ DOMAIN t = 1 .. n + 1 /\ t[n + 1] = e /\ n \in Nat
      /\ \A i \in 1 .. n : t[i] = z.invocations[i] /\ DOMAIN t[i] = {"key", "grant", "state", "consumed"}
      /\ t \in Seq({t[i] : i \in DOMAIN t}) /\ Len(t) = n + 1
  <2>. DEFINE S == {z.invocations[i] : i \in DOMAIN z.invocations}
  <2>1. z.invocations \in Seq(S) /\ Len(z.invocations) = n /\ n \in Nat
    BY <1>1 DEF HasLedger, Current
  <2>2. \A i \in 1 .. n : DOMAIN z.invocations[i] = {"key", "grant", "state", "consumed"}
    BY <1>1, <2>1 DEF HasLedger
  <2>. HIDE DEF S, e
  <2>3. z.invocations \in Seq(S \cup {e}) /\ e \in S \cup {e}
    BY <2>1
  <2>4. DOMAIN t = 1 .. n + 1 /\ t[n + 1] = e /\ Len(t) = n + 1
        /\ (\A i \in 1 .. n : t[i] = z.invocations[i]) /\ t \in Seq(S \cup {e})
    BY <2>1, <2>3
  <2>. HIDE DEF t
  <2>5. t \in Seq({t[i] : i \in DOMAIN t})
    BY <2>4, OwnRange
  <2>. QED
    BY <2>1, <2>2, <2>4, <2>5
<1>4. DOMAIN e = {"key", "grant", "state", "consumed"} /\ e.key = args.key /\ e.grant = args.grant
  OBVIOUS
<1>. DEFINE y == Granted(x)
<1>. HIDE DEF t, e
<1>5. DOMAIN y = DOMAIN Planned /\ y.invocations = t
  BY <1>2 DEF HasLedger, Planned, t
<1>. HIDE DEF y
<1>6. \A i \in DOMAIN t : DOMAIN t[i] = {"key", "grant", "state", "consumed"}
  BY <1>3, <1>4
<1>7. HasLedger(y)
  BY <1>3, <1>5, <1>6 DEF HasLedger
<1>8. Last(y) = e /\ Current(y) \in DOMAIN y.invocations
  BY <1>3, <1>5 DEF Last, Current
<1>. QED
  BY <1>4, <1>7, <1>8 DEF y

-----------------------------------------------------------------------------
(* The process *)

\* What KeyHoldsGrant says of one manifest.
Holds(x) == Last(x).key = args.key /\ Last(x).grant = args.grant

\* A persist keeps the last invocation's key and grant.
LEMMA PersistedHolds ==
  ASSUME NEW x, NEW s, HasLedger(x), x.invocations # <<>>, Holds(x)
  PROVE  /\ HasLedger(Persisted(x, s)) /\ Holds(Persisted(x, s))
         /\ Persisted(x, s).invocations # <<>>
<1>. DEFINE y == Persisted(x, s)
<1>1. Current(x) \in DOMAIN x.invocations
  BY LedgerLength
<1>2. HasLedger(y) /\ Current(y) = Current(x) /\ Holds(y)
  BY <1>1, PersistedLedger DEF Holds, Last
<1>. HIDE DEF y
<1>3. DOMAIN y.invocations = 1 .. Current(y) /\ DOMAIN x.invocations = 1 .. Current(x)
  BY <1>2, LedgerLength
<1>4. y.invocations # <<>>
  BY <1>1, <1>2, <1>3
<1>. QED
  BY <1>2, <1>4 DEF y

\* Only working processes have something to hold.
LEMMA AtWork ==
  ASSUME KeyIInv, pc \in {"plan", "reserved", "waiting", "received"}
  PROVE  HasLedger(m) /\ Holds(m) /\ m.invocations # <<>>
  BY DEF KeyIInv, KeyHoldsGrant, Holds

\* A process that ends leaves what is on the disk.
LEMMA ExitKeeps ==
  ASSUME KeyIInv, Exit, page' # None => HasLedger(page')
  PROVE  KeyIInv'
  BY DEF KeyIInv, Exit, KeyHoldsGrant, HasLedger

\* An exception persists the ledger, if staging is still there.
LEMMA RaiseKeeps ==
  ASSUME KeyIInv, NEW x, HasLedger(x), Raise(x)
  PROVE  KeyIInv'
<1>1. page' # None => HasLedger(page')
  BY PersistedLedger DEF Raise, Persist, Write, KeyIInv, disk, staging
<1>. QED
  BY <1>1, ExitKeeps DEF Raise

\* A refused attempt ends the campaign or persists its pause.
LEMMA StopKeeps ==
  ASSUME KeyIInv, NEW x, NEW refusal, HasLedger(x), Stop(x, refusal)
  PROVE  KeyIInv'
<1>1. CASE refusal = "campaign" /\ m' = x /\ pc' = "finish" /\ UNCHANGED <<disk, args>>
  BY <1>1 DEF KeyIInv, KeyHoldsGrant, disk, staging, HasLedger
<1>2. CASE Persist(x, "paused_budget") /\ Exit
  BY <1>2, PersistedLedger, ExitKeeps DEF Persist, Write
<1>. QED
  BY <1>1, <1>2 DEF Stop

\* The steps of a command before it is granted anything, its end, and clean-staging.
LEMMA OpenKeeps ==
  ASSUME KeyIInv,
         \/ \E key \in Keys, grant \in Grants : Invoke(key, grant)
         \/ Reconcile \/ CommitRun \/ MarkCommitted \/ AlreadyPublished \/ Start
         \/ Crash \/ Clean
  PROVE  KeyIInv'
<1>1. page' \in {page, None} /\ (Exit \/ UNCHANGED process \/ pc' \in {"open", "reconcile", "create"})
  <2>1. CASE (\E key \in Keys, grant \in Grants : Invoke(key, grant)) \/ Start
    BY <2>1 DEF Invoke, Start, Goto, disk, staging
  <2>2. CASE Reconcile \/ CommitRun \/ MarkCommitted
    BY <2>2 DEF Reconcile, CommitRun, MarkCommitted, Goto, disk, staging
  <2>3. CASE AlreadyPublished \/ Crash
    BY <2>3 DEF AlreadyPublished, Crash, disk, staging
  <2>4. CASE Clean
    BY <2>4 DEF Clean, CleanOpens, CleanUnlinks, CleanEnds, disk, staging
  <2>. QED
    BY <2>1, <2>2, <2>3, <2>4
<1>2. CASE Exit
  BY <1>1, <1>2, ExitKeeps DEF KeyIInv
<1>3. CASE UNCHANGED process
  BY <1>1, <1>3 DEF KeyIInv, KeyHoldsGrant, HasLedger, process, Last, Current, Matches
<1>4. CASE pc' \in {"open", "reconcile", "create"}
  BY <1>1, <1>4 DEF KeyIInv, KeyHoldsGrant, HasLedger
<1>. QED
  BY <1>1, <1>2, <1>3, <1>4

\* A campaign is begun, or taken up again unless the key was superseded.
LEMMA LoadKeeps ==
  ASSUME KeyIInv, Create \/ Load
  PROVE  KeyIInv'
<1>1. HasLedger(Planned) /\ Planned.invocations = <<>>
  BY EmptySeq DEF HasLedger, Planned
<1>2. CASE Create
  <2>1. m' = Planned /\ page' = Planned /\ pc' = "grant"
    BY <1>2 DEF Create, Write, Goto
  <2>2. Matches(m)' = {}
    BY <1>1, <2>1 DEF Matches
  <2>3. HasLedger(m') /\ HasLedger(page')
    BY <1>1, <2>1
  <2>. QED
    BY <2>1, <2>2, <2>3 DEF KeyIInv, KeyHoldsGrant, HasLedger
<1>3. CASE Load /\ Exit
  BY <1>3, ExitKeeps DEF Load, disk, staging, KeyIInv
<1>4. CASE /\ Load /\ page # None /\ m' = page /\ ~KeyRefused(page)
           /\ pc' \in {"recovered", "grant"} /\ args' = args
  <2>1. page' = page /\ HasLedger(page)
    BY <1>4 DEF Load, disk, staging, KeyIInv
  <2>2. \A i \in Matches(page) : i = Current(page) /\ page.invocations[i].grant = args.grant
    BY <1>4 DEF KeyRefused
  <2>3. Matches(m)' = Matches(page) /\ Current(m)' = Current(page)
    BY <1>4 DEF Matches, Current
  <2>. QED
    BY <1>4, <2>1, <2>2, <2>3 DEF KeyIInv, KeyHoldsGrant, HasLedger
<1>. QED
  BY <1>2, <1>3, <1>4 DEF Load, Goto

\* The invocation in force is the one of the key: resumed, or new.
LEMMA GrantKeeps ==
  ASSUME KeyIInv, ResumeGrant \/ NewGrant
  PROVE  KeyIInv'
<1>1. HasLedger(m) /\ pc = "grant"
  BY DEF KeyIInv, ResumeGrant, Write, NewGrant
<1>2. ASSUME NEW x, HasLedger(x), x.invocations # <<>>, Holds(x),
             m' = Persisted(x, "extracting"), page' = m', Goto("plan")
      PROVE  KeyIInv'
  <2>1. HasLedger(m') /\ Holds(Persisted(x, "extracting")) /\ m'.invocations # <<>>
    BY <1>2, PersistedHolds
  <2>2. pc' = "plan" /\ args' = args
    BY <1>2 DEF Goto
  <2>. HIDE DEF Persisted
  <2>3. KeyHoldsGrant'
    BY <1>2, <2>1, <2>2 DEF KeyHoldsGrant, Holds, Last, Current
  <2>. QED
    BY <1>2, <2>1, <2>2, <2>3 DEF KeyIInv, HasLedger
<1>3. CASE ResumeGrant
  <2>1. PICK i \in Matches(m) : TRUE
    BY <1>3 DEF ResumeGrant, Write
  <2>2. i = Current(m) /\ m.invocations[i].grant = args.grant /\ m.invocations[i].key = args.key
        /\ i \in DOMAIN m.invocations
    BY <1>1, <2>1 DEF KeyIInv, Matches
  <2>3. Holds(m) /\ m.invocations # <<>>
    BY <2>2 DEF Holds, Last
  <2>. QED
    BY <1>1, <1>2, <1>3, <2>3 DEF ResumeGrant, Write
<1>4. CASE NewGrant
  <2>1. CASE Stop(m, "campaign")
    BY <1>1, <2>1, StopKeeps
  <2>2. CASE Raise(m)
    BY <1>1, <2>2, RaiseKeeps
  <2>3. CASE m' = Persisted(Granted(m), "extracting") /\ page' = m' /\ Goto("plan")
    <3>1. HasLedger(Granted(m)) /\ Holds(Granted(m)) /\ Granted(m).invocations # <<>>
      BY <1>1, GrantedLedger DEF Holds
    <3>. QED
      BY <1>2, <2>3, <3>1
  <2>. QED
    BY <1>4, <2>1, <2>2, <2>3 DEF NewGrant, Write
<1>. QED
  BY <1>3, <1>4

-----------------------------------------------------------------------------
(* Asking the source *)

\* A process at work writes a manifest that still holds its grant.
LEMMA WorkKeeps ==
  ASSUME KeyIInv, NEW x, HasLedger(x), Holds(x), x.invocations # <<>>, m' = x,
         page' = page \/ page' = x,
         pc' \in {"plan", "reserved"}, UNCHANGED args,
         pc' = "reserved" => query'.lane \in {"metadata", "scope_scan", "baseline_check"}
  PROVE  KeyIInv'
<1>1. KeyHoldsGrant'
  BY DEF KeyHoldsGrant, Holds, Last, Current
<1>. QED
  BY <1>1 DEF KeyIInv, HasLedger

\* A reservation is persisted under the grant it is charged to.
LEMMA ReserveKeeps ==
  ASSUME KeyIInv, NEW q, Reserve(q), pc \in {"plan", "waiting"},
         q.lane \in {"metadata", "scope_scan", "baseline_check"}
  PROVE  KeyIInv'
<1>. DEFINE r == Reservation(m, q)
            x == [m EXCEPT !.reservations = Append(@, r)]
            y == Persisted(x, "extracting")
<1>1. HasLedger(m) /\ Holds(m) /\ m.invocations # <<>>
  BY AtWork
<1>2. m' = y /\ page' = y /\ query' = q /\ pc' = "reserved" /\ UNCHANGED args
  BY DEF Reserve, Write
<1>. HIDE DEF r
<1>3. HasLedger(x) /\ x.invocations = m.invocations
  BY <1>1, ReservedLedger
<1>. HIDE DEF x
<1>4. Holds(x) /\ x.invocations # <<>>
  BY <1>1, <1>3 DEF Holds, Last, Current
<1>5. HasLedger(y) /\ Holds(y) /\ y.invocations # <<>>
  BY <1>3, <1>4, PersistedHolds
<1>. HIDE DEF y
<1>. QED
  BY <1>2, <1>5, WorkKeeps

\* A first attempt and a retry are reserved, or the campaign stops.
LEMMA AskKeeps ==
  ASSUME KeyIInv, Request \/ Retry
  PROVE  KeyIInv'
<1>1. pc \in {"plan", "waiting"} /\ HasLedger(m)
  BY AtWork DEF Request, Retry
<1>2. CASE \E refusal : Stop(m, refusal)
  BY <1>1, <1>2, StopKeeps
<1>3. CASE Request /\ ~\E refusal : Stop(m, refusal)
  <2>. DEFINE q == [lane |-> Lane(m), limit |-> Limit(m), attempt |-> 1, answer |-> {}]
  <2>1. Reserve(q) /\ Lane(m) # None
    BY <1>3 DEF Request
  <2>2. Lane(m) \in {"metadata", "scope_scan", "baseline_check"}
    <3>. DEFINE v == m.verified
                s == m.scanned
    <3>1. Lane(m) = IF ~v THEN "metadata" ELSE IF ~s THEN "scope_scan"
                    ELSE IF ~MembersDone(m) THEN "baseline_check" ELSE None
      BY DEF Lane
    <3>. QED
      BY <2>1, <3>1
  <2>3. q.lane = Lane(m)
    OBVIOUS
  <2>. HIDE DEF q
  <2>. QED
    BY <1>1, <2>1, <2>2, <2>3, ReserveKeeps
<1>4. CASE Retry /\ ~\E refusal : Stop(m, refusal)
  <2>. DEFINE q == [query EXCEPT !.attempt = @ + 1, !.answer = {}]
  <2>1. Reserve(q)
    BY <1>4 DEF Retry
  <2>2. q.lane = query.lane \/ q.lane = query.lane
    OBVIOUS
  <2>3. query.lane \in {"metadata", "scope_scan", "baseline_check"}
    BY <1>4 DEF Retry, KeyIInv
  <2>. HIDE DEF q
  <2>. QED
    BY <1>1, <2>1, <2>2, <2>3, ReserveKeeps
<1>. QED
  BY <1>2, <1>3, <1>4

\* The source answers, and the answer is written and recorded.
LEMMA AnswerKeeps ==
  ASSUME KeyIInv, (\E v \in Versions : Send(v)) \/ WritePage \/ Record
  PROVE  KeyIInv'
<1>1. HasLedger(m) /\ Holds(m) /\ m.invocations # <<>>
      /\ query.lane \in {"metadata", "scope_scan", "baseline_check"}
  <2>1. pc \in {"reserved", "waiting", "received"}
    BY DEF Send, WritePage, Record, Write
  <2>. QED
    BY <2>1, AtWork DEF KeyIInv
<1>2. CASE (\E v \in Versions : Send(v)) \/ WritePage
  <2>1. /\ UNCHANGED <<page, m, args>> /\ pc' \in {"waiting", "received"}
        /\ query'.lane = query.lane
    <3>1. CASE WritePage
      BY <3>1 DEF WritePage, Goto
    <3>2. ASSUME NEW v \in Versions, Send(v)
          PROVE  /\ UNCHANGED <<page, m, args>> /\ pc' = "waiting"
                 /\ query'.lane = query.lane
      <4>. DEFINE rows == Answer(m, query.lane, query.limit, v)
      <4>1. query' = [query EXCEPT !.answer = rows] /\ UNCHANGED <<disk, args, m>>
            /\ pc' = "waiting"
        BY <3>2 DEF Send
      <4>. HIDE DEF rows
      <4>. QED
        BY <4>1 DEF disk, staging
    <3>. QED
      BY <1>2, <3>1, <3>2
  <2>. QED
    BY <1>1, <2>1 DEF KeyIInv, KeyHoldsGrant, Holds, Last, Current, HasLedger
<1>3. CASE Record
  <2>. DEFINE x == Recorded(m, query)
              y == Persisted(x, "extracting")
  <2>1. m' = y /\ page' = y /\ pc' = "plan" /\ UNCHANGED args
    BY <1>3 DEF Record, Write
  <2>2. HasLedger(x) /\ x.invocations = m.invocations
    BY <1>1, RecordedLedger
  <2>. HIDE DEF x
  <2>3. Holds(x) /\ x.invocations # <<>>
    BY <1>1, <2>2 DEF Holds, Last, Current
  <2>4. HasLedger(y) /\ Holds(y) /\ y.invocations # <<>>
    BY <2>2, <2>3, PersistedHolds
  <2>. HIDE DEF y
  <2>. QED
    BY <2>1, <2>4, WorkKeeps
<1>. QED
  BY <1>2, <1>3

\* A failed exchange, the end of the plan and the publication.
LEMMA EndKeeps ==
  ASSUME KeyIInv, Fail \/ Finish \/ Prepare
  PROVE  KeyIInv'
<1>1. HasLedger(m)
  BY DEF KeyIInv, Fail, Finish, Prepare
<1>2. CASE Fail
  BY <1>1, <1>2, RaiseKeeps DEF Fail
<1>3. CASE Finish
  BY <1>1, <1>3 DEF Finish, KeyIInv, KeyHoldsGrant, disk, staging, HasLedger
<1>4. CASE Prepare
  <2>. DEFINE x == Published(m)
  <2>1. HasLedger(x)
    BY <1>1, PublishedLedger
  <2>2. CASE Raise(x)
    BY <2>1, <2>2, RaiseKeeps
  <2>3. CASE Exit /\ UNCHANGED disk
    BY <2>3, ExitKeeps DEF KeyIInv, disk, staging
  <2>4. CASE page' = None /\ pc' = "commit"
    BY <2>4 DEF KeyIInv, KeyHoldsGrant
  <2>. QED
    BY <1>4, <2>2, <2>3, <2>4 DEF Prepare
<1>. QED
  BY <1>2, <1>3, <1>4

-----------------------------------------------------------------------------
(* The theorems *)

\* KeyIInv is inductive: the manifests of staging and of the process always
\* hold a ledger of invocations, and no step of a process, no death and no
\* clean-staging makes it work under a grant that is not its key's.
THEOREM KeyInductive == Spec => []KeyIInv
<1>1. Init => KeyIInv
  BY DEF Init, KeyIInv, KeyHoldsGrant
<1>2. KeyIInv /\ [Next]_vars => KeyIInv'
  <2>. SUFFICES ASSUME KeyIInv, [Next]_vars
                PROVE  KeyIInv'
    OBVIOUS
  <2>1. CASE \/ \E key \in Keys, grant \in Grants : Invoke(key, grant)
             \/ Reconcile \/ CommitRun \/ MarkCommitted \/ AlreadyPublished \/ Start
             \/ Crash \/ Clean
    BY <2>1, OpenKeeps
  <2>2. CASE Create \/ Load
    BY <2>2, LoadKeeps
  <2>3. CASE ResumeGrant \/ NewGrant
    BY <2>3, GrantKeeps
  <2>4. CASE Request \/ Retry
    BY <2>4, AskKeeps
  <2>5. CASE (\E v \in Versions : Send(v)) \/ WritePage \/ Record
    BY <2>5, AnswerKeeps
  <2>6. CASE Fail \/ Finish \/ Prepare
    BY <2>6, EndKeeps
  <2>7. CASE UNCHANGED vars
    BY <2>7 DEF KeyIInv, KeyHoldsGrant, HasLedger, Last, Current, Matches, vars, disk,
         staging, process
  <2>. QED
    BY <2>1, <2>2, <2>3, <2>4, <2>5, <2>6, <2>7 DEF Next, Work, Exchange
<1>. QED
  BY <1>1, <1>2, PTL DEF Spec

\* KeyHoldsGrant holds of every campaign: while a process works under an
\* --invocation-key, the invocation in force is the one granted to that key,
\* with its limits; a superseded key never works again (reconcile.py:132-160).
THEOREM KeysHold == Spec => []KeyHoldsGrant
<1>1. KeyIInv => KeyHoldsGrant
  BY DEF KeyIInv
<1>. QED
  BY <1>1, KeyInductive, PTL

-----------------------------------------------------------------------------
(* What is published *)

\* Until the rename, no step but Prepare makes a run, and staging is a directory
\* with files or nothing.
LEMMA UnpublishedSteps ==
  ASSUME PublishedIInv, run = NoRun, [Next]_vars
  PROVE  \/ /\ run' = run /\ pc' \notin {"reconcile", "commit"}
            /\ removal' \in {removal, "none", "staging"}
            /\ ~staged' => page' = None /\ files' = <<>>
            /\ pc' = "create" => page' = None /\ files' = <<>>
         \/ /\ run' = [manifest |-> Published(m), files |-> files, status |-> "prepared"]
            /\ ~staged' /\ page' = None /\ files' = <<>> /\ pc' = "commit"
            /\ removal' = IF removal = "staging" THEN "run" ELSE removal
<1>. DEFINE Kept == /\ run' = run /\ pc' \notin {"reconcile", "commit"}
                    /\ removal' \in {removal, "none", "staging"}
                    /\ ~staged' => page' = None /\ files' = <<>>
                    /\ pc' = "create" => page' = None /\ files' = <<>>
<1>1. /\ pc \notin {"reconcile", "commit"} /\ removal # "run"
      /\ ~staged => page = None /\ files = <<>>
      /\ pc = "create" => page = None /\ files = <<>>
  BY DEF PublishedIInv
<1>2. CASE (\E key \in Keys, grant \in Grants : Invoke(key, grant)) \/ AlreadyPublished
           \/ Crash \/ Start \/ Load \/ Finish
  BY <1>1, <1>2 DEF Invoke, AlreadyPublished, Crash, Start, Load, Finish, Exit, Goto, disk, staging
<1>3. CASE Reconcile \/ CommitRun \/ MarkCommitted
  BY <1>1, <1>3 DEF Reconcile, Prepared, CommitRun, MarkCommitted
<1>4. CASE Clean
  <2>1. CASE CleanOpens
    BY <1>1, <2>1 DEF CleanOpens, disk, staging, process
  <2>2. CASE CleanUnlinks
    <3>1. staged' = staged /\ run' = run /\ pc' = pc /\ removal' = removal /\ removal = "staging"
      BY <1>1, <2>2 DEF CleanUnlinks, process
    <3>2. files = <<>> => Unlinked(files) = {}
      BY <1>1 DEF Unlinked
    <3>. QED
      BY <1>1, <2>2, <3>1, <3>2 DEF CleanUnlinks
  <2>3. CASE CleanEnds
    BY <1>1, <2>3 DEF CleanEnds, process
  <2>. QED
    BY <1>4, <2>1, <2>2, <2>3 DEF Clean
<1>5. ASSUME NEW x, Write(x), pc' \notin {"reconcile", "commit", "create"}, UNCHANGED removal
      PROVE  Kept
  BY <1>5 DEF Write
<1>6. ASSUME NEW x, Raise(x), UNCHANGED removal
      PROVE  Kept
  BY <1>1, <1>5, <1>6 DEF Raise, Persist, Exit, disk, staging
<1>7. ASSUME NEW x, NEW refusal, Stop(x, refusal), UNCHANGED removal
      PROVE  Kept
  BY <1>1, <1>5, <1>7 DEF Stop, Persist, Exit, disk, staging
<1>8. CASE Create \/ ResumeGrant \/ Record
  BY <1>5, <1>8 DEF Create, ResumeGrant, Record, Goto
<1>9. CASE NewGrant
  BY <1>5, <1>6, <1>7, <1>9 DEF NewGrant, Goto
<1>10. CASE Request \/ Retry
  BY <1>5, <1>7, <1>10 DEF Request, Retry, Reserve
<1>11. CASE Fail
  BY <1>6, <1>11 DEF Fail
<1>12. CASE WritePage \/ \E v \in Versions : Send(v)
  BY <1>1, <1>12 DEF WritePage, Send, Goto, disk, staging
<1>13. CASE Prepare
  <2>1. CASE ~Verified(Published(m), files)
    BY <1>1, <1>6, <1>13, <2>1 DEF Prepare, Exit, disk, staging
  <2>2. CASE Verified(Published(m), files)
    BY <1>13, <2>2 DEF Prepare
  <2>. QED
    BY <2>1, <2>2
<1>14. CASE UNCHANGED vars
  BY <1>1, <1>14 DEF vars, disk, staging, process
<1>. QED
  BY <1>2, <1>3, <1>4, <1>8, <1>9, <1>10, <1>11, <1>12, <1>13, <1>14 DEF Next, Work, Exchange

\* No step of a published campaign touches more than its two commit marks, but for
\* a removal that the rename overtook.
LEMMA PublishedSteps ==
  ASSUME PublishedIInv, run # NoRun, [Next]_vars
  PROVE  /\ UNCHANGED <<staging, asked, removal>>
         /\ \/ UNCHANGED <<run, committed>> /\ pc' \in {"off", "open", "reconcile", pc}
            \/ CommitRun \/ MarkCommitted \/ (CleanUnlinks /\ removal = "run")
<1>1. /\ page = None /\ ~staged /\ removal # "staging"
      /\ pc \in {"off", "open", "reconcile", "commit"}
  BY DEF PublishedIInv
<1>2. CASE (\E key \in Keys, grant \in Grants : Invoke(key, grant)) \/ AlreadyPublished \/ Crash
           \/ Reconcile
  BY <1>2 DEF Invoke, AlreadyPublished, Crash, Reconcile, Exit, Goto, disk, staging
<1>3. CASE Clean
  BY <1>1, <1>3 DEF Clean, CleanOpens, CleanUnlinks, CleanEnds, staging
<1>4. CASE CommitRun \/ MarkCommitted
  BY <1>4 DEF CommitRun, MarkCommitted
<1>5. CASE Start \/ Create \/ Load \/ ResumeGrant \/ NewGrant \/ Request \/ Retry \/ Fail
           \/ Finish \/ WritePage \/ Record \/ Prepare
  BY <1>1, <1>5 DEF Start, Create, Load, ResumeGrant, NewGrant, Request, Retry, Fail, Finish,
                    WritePage, Record, Prepare
<1>6. CASE \E v \in Versions : Send(v)
  BY <1>1, <1>6 DEF Send
<1>7. CASE UNCHANGED vars
  BY <1>7 DEF vars, disk, process
<1>. QED
  BY <1>2, <1>3, <1>4, <1>5, <1>6, <1>7 DEF Next, Work, Exchange

\* PublishedIInv is inductive.
THEOREM PublishedInductive == Spec => []PublishedIInv
<1>1. Init => PublishedIInv
  BY DEF Init, PublishedIInv
<1>2. PublishedIInv /\ [Next]_vars => PublishedIInv'
  <2>. SUFFICES ASSUME PublishedIInv, [Next]_vars
                PROVE  PublishedIInv'
    OBVIOUS
  <2>1. CASE run = NoRun
    <3>1. NoRun' = NoRun /\ removal # "run"
      BY <2>1 DEF NoRun, PublishedIInv
    <3>2. CASE /\ run' = run /\ pc' \notin {"reconcile", "commit"}
               /\ removal' \in {removal, "none", "staging"}
               /\ ~staged' => page' = None /\ files' = <<>>
               /\ pc' = "create" => page' = None /\ files' = <<>>
      BY <2>1, <3>1, <3>2 DEF PublishedIInv
    <3>. DEFINE x == Published(m)
    <3>3. CASE /\ run' = [manifest |-> x, files |-> files, status |-> "prepared"]
               /\ ~staged' /\ page' = None /\ files' = <<>> /\ pc' = "commit"
               /\ removal' = IF removal = "staging" THEN "run" ELSE removal
      <4>. HIDE DEF x
      <4>1. /\ run' = [manifest |-> run'.manifest, files |-> run'.files, status |-> run'.status]
            /\ run'.status = "prepared" /\ removal' \in {"none", "run"}
        BY <2>1, <3>1, <3>3 DEF PublishedIInv
      <4>2. run' # NoRun
        BY <4>1 DEF NoRun
      <4>. QED
        BY <3>1, <3>3, <4>1, <4>2 DEF PublishedIInv
    <3>. QED
      BY <2>1, <3>2, <3>3, UnpublishedSteps
  <2>2. CASE run # NoRun
    <3>1. /\ UNCHANGED <<staging, removal>>
          /\ \/ UNCHANGED <<run, committed>> /\ pc' \in {"off", "open", "reconcile", pc}
             \/ CommitRun \/ MarkCommitted \/ (CleanUnlinks /\ removal = "run")
      BY <2>2, PublishedSteps
    <3>2. CASE UNCHANGED <<run, committed>> /\ pc' \in {"off", "open", "reconcile", pc}
      BY <2>2, <3>1, <3>2 DEF PublishedIInv, staging
    <3>3. CASE CommitRun
      BY <2>2, <3>1, <3>3 DEF CommitRun, PublishedIInv, Exit, process, staging
    <3>4. CASE MarkCommitted
      <4>1. run' # NoRun
        BY <3>4 DEF MarkCommitted, PublishedIInv, NoRun
      <4>. QED
        BY <2>2, <3>1, <3>4, <4>1 DEF MarkCommitted, PublishedIInv, Exit, Goto, staging
    <3>5. CASE CleanUnlinks /\ removal = "run"
      <4>1. run = [manifest |-> run.manifest, files |-> run.files, status |-> run.status]
            /\ run.status \in {"prepared", "committed", "unreadable"}
            /\ (run.status = "committed" => committed)
        BY <2>2 DEF PublishedIInv
      <4>2. run' = [manifest |-> run'.manifest, files |-> run'.files, status |-> run'.status]
            /\ run'.status \in {run.status, "unreadable"}
        <5>1. CASE run' = [run EXCEPT !.status = "unreadable"]
          BY <4>1, <5>1
        <5>2. ASSUME NEW pages \in Unlinked(run.files), run' = [run EXCEPT !.files = pages]
              PROVE  /\ run' = [manifest |-> run'.manifest, files |-> run'.files, status |-> run'.status]
                     /\ run'.status = run.status
          BY <4>1, <5>2
        <5>. QED
          BY <3>5, <5>1, <5>2 DEF CleanUnlinks
      <4>3. run' # NoRun
        BY <4>1, <4>2 DEF NoRun
      <4>4. UNCHANGED <<committed, process>>
        BY <3>5 DEF CleanUnlinks
      <4>. QED
        BY <2>2, <3>1, <4>1, <4>2, <4>3, <4>4 DEF PublishedIInv, process, staging
    <3>. QED
      BY <3>1, <3>2, <3>3, <3>4, <3>5
  <2>. QED
    BY <2>1, <2>2
<1>. QED
  BY <1>1, <1>2, PTL DEF Spec

\* PublishedForGood holds of every campaign: what was renamed into runs/ keeps its
\* manifest, is committed once and marked after, no staging and no request to the
\* source follow it, and only a removal that the rename overtook takes files from it
\* (reconcile.py:79-83, storage.py:138-144).
THEOREM PublicationIsFinal == Spec => PublishedForGood
<1>. DEFINE Final ==
       run # NoRun =>
         /\ ~staged' /\ page' = None
         /\ committed => committed'
         /\ run'.manifest = run.manifest
         /\ run'.status = "committed" => committed
         /\ run.status = "committed" => UNCHANGED asked
         /\ \A n \in DOMAIN run'.files : n \in DOMAIN run.files /\ run'.files[n] = run.files[n]
         /\ run' # run /\ removal # "run" =>
              run' = [run EXCEPT !.status = "committed"] /\ run.status # "committed"
<1>1. PublishedIInv /\ [Next]_vars => Final
  <2>. SUFFICES ASSUME PublishedIInv, [Next]_vars, run # NoRun
                PROVE  Final
    OBVIOUS
  <2>1. /\ UNCHANGED <<staging, asked>> /\ ~staged /\ page = None
        /\ run.status = "committed" => committed
        /\ run = [manifest |-> run.manifest, files |-> run.files, status |-> run.status]
    BY PublishedSteps DEF PublishedIInv
  <2>2. CASE UNCHANGED <<run, committed>>
    BY <2>1, <2>2 DEF staging
  <2>3. CASE CommitRun
    BY <2>1, <2>3 DEF CommitRun, staging
  <2>4. CASE MarkCommitted
    <3>1. run' = [run EXCEPT !.status = "committed"] /\ committed /\ committed' = committed
      BY <2>4 DEF MarkCommitted
    <3>2. run'.files = run.files /\ run'.manifest = run.manifest
      BY <2>1, <3>1
    <3>3. run.status = "committed" => run' = run
      BY <2>1, <3>1
    <3>. QED
      BY <2>1, <3>1, <3>2, <3>3 DEF staging
  <2>5. CASE CleanUnlinks /\ removal = "run"
    <3>1. /\ committed' = committed
          /\ \/ run' = [run EXCEPT !.status = "unreadable"]
             \/ \E pages \in Unlinked(run.files) : run' = [run EXCEPT !.files = pages]
      BY <2>5 DEF CleanUnlinks
    <3>2. CASE run' = [run EXCEPT !.status = "unreadable"]
      BY <2>1, <2>5, <3>1, <3>2 DEF staging
    <3>3. ASSUME NEW n \in DOMAIN run.files,
                 run' = [run EXCEPT !.files = Restrict(run.files, DOMAIN run.files \ {n})]
          PROVE  Final
      <4>1. /\ run'.files = [i \in DOMAIN run.files \cap (DOMAIN run.files \ {n}) |-> run.files[i]]
            /\ run'.manifest = run.manifest /\ run'.status = run.status
        BY <2>1, <3>3 DEF Restrict
      <4>. QED
        BY <2>1, <2>5, <3>1, <4>1 DEF staging
    <3>. QED
      BY <3>1, <3>2, <3>3 DEF Unlinked
  <2>. QED
    BY <2>2, <2>3, <2>4, <2>5, PublishedSteps
<1>2. PublishedIInv /\ [Next]_vars => [Final]_vars
  BY <1>1
<1>. QED
  BY <1>2, PublishedInductive, PTL DEF Spec, PublishedForGood

-----------------------------------------------------------------------------
(* Types *)

\* TypeOK holds of every campaign: in particular a request is attempted at most
\* max_retries + 1 times, however the attempts fail (transport.py).
THEOREM TypeCorrect == Spec => []TypeOK
<1>1. Init => TypeOK
  <2>1. NoQuery.attempt = 0 /\ 0 \in 0 .. MaxRetries + 1
    BY TransportAssumption DEF NoQuery
  <2>. QED
    BY <2>1 DEF Init, TypeOK
<1>2. TypeOK /\ [Next]_vars => TypeOK'
  <2>. SUFFICES ASSUME TypeOK, [Next]_vars
                PROVE  TypeOK'
    OBVIOUS
  <2>1. DOMAIN NoQuery = {"lane", "limit", "attempt", "answer"} /\ NoQuery.attempt = 0
        /\ 0 \in 0 .. MaxRetries + 1 /\ MaxRetries \in Nat
    BY TransportAssumption DEF NoQuery
  <2>2. Exit => pc' = "off" /\ outcome' = None /\ query' = NoQuery
    BY DEF Exit
  <2>3. CASE \E key \in Keys, grant \in Grants : Invoke(key, grant)
    BY <2>3 DEF Invoke, TypeOK, disk, staging
  <2>4. CASE Reconcile \/ CommitRun \/ MarkCommitted \/ AlreadyPublished \/ Crash
    BY <2>1, <2>2, <2>4 DEF Reconcile, CommitRun, MarkCommitted, AlreadyPublished, Crash, Goto,
         TypeOK, disk, staging, process
  <2>5. CASE Start \/ Create \/ Load \/ ResumeGrant \/ Finish \/ WritePage
    BY <2>1, <2>2, <2>5 DEF Start, Create, Load, ResumeGrant, Write, Finish, WritePage, Goto,
         TypeOK, disk, staging
  <2>17. CASE Clean
    BY <2>1, <2>17 DEF Clean, CleanOpens, CleanUnlinks, CleanEnds, TypeOK, disk, staging, process
  <2>6. ASSUME NEW x, Raise(x), UNCHANGED removal
        PROVE  TypeOK'
    BY <2>1, <2>2, <2>6 DEF Raise, Persist, Write, TypeOK, disk, staging
  <2>7. ASSUME NEW x, NEW refusal, Stop(x, refusal), UNCHANGED removal
        PROVE  TypeOK'
    BY <2>1, <2>2, <2>7 DEF Stop, Persist, Write, TypeOK, disk, staging
  <2>8. ASSUME NEW q, Reserve(q), DOMAIN q = DOMAIN NoQuery, q.attempt \in 0 .. MaxRetries + 1,
               UNCHANGED removal
        PROVE  TypeOK'
    BY <2>8 DEF Reserve, Write, TypeOK
  <2>9. CASE NewGrant
    BY <2>6, <2>7, <2>9 DEF NewGrant, Write, Goto, TypeOK
  <2>10. CASE Request
    <3>. DEFINE q == [lane |-> Lane(m), limit |-> Limit(m), attempt |-> 1, answer |-> {}]
    <3>1. DOMAIN q = DOMAIN NoQuery /\ q.attempt \in 0 .. MaxRetries + 1
      BY <2>1
    <3>2. UNCHANGED removal /\ (Reserve(q) \/ \E refusal : Stop(m, refusal))
      BY <2>10 DEF Request
    <3>. HIDE DEF q
    <3>. QED
      BY <2>7, <2>8, <3>1, <3>2
  <2>11. CASE Retry
    <3>. DEFINE q == [query EXCEPT !.attempt = @ + 1, !.answer = {}]
    <3>1. query.attempt <= MaxRetries
      BY <2>11 DEF Retry
    <3>2. DOMAIN q = DOMAIN query /\ q.attempt = query.attempt + 1
      BY <2>1 DEF TypeOK
    <3>3. UNCHANGED removal /\ (Reserve(q) \/ \E refusal : Stop(m, refusal))
      BY <2>11 DEF Retry
    <3>. HIDE DEF q
    <3>4. DOMAIN q = DOMAIN NoQuery /\ q.attempt \in 0 .. MaxRetries + 1
      BY <2>1, <3>1, <3>2 DEF TypeOK
    <3>. QED
      BY <2>7, <2>8, <3>3, <3>4
  <2>12. CASE Fail
    BY <2>6, <2>12 DEF Fail
  <2>13. CASE Record
    BY <2>1, <2>13 DEF Record, Write, TypeOK
  <2>14. ASSUME NEW v \in Versions, Send(v)
         PROVE  TypeOK'
    <3>. DEFINE rows == Answer(m, query.lane, query.limit, v)
    <3>1. query' = [query EXCEPT !.answer = rows] /\ pc' = "waiting"
          /\ UNCHANGED <<staged, committed, removal, outcome>>
      BY <2>14 DEF Send, disk, staging
    <3>. HIDE DEF rows
    <3>. QED
      BY <2>1, <3>1 DEF TypeOK
  <2>15. CASE Prepare
    <3>1. CASE Raise(Published(m)) /\ UNCHANGED removal
      BY <2>6, <3>1
    <3>2. CASE Exit /\ UNCHANGED <<disk, removal>>
      BY <2>1, <2>2, <3>2 DEF TypeOK, disk, staging
    <3>3. CASE /\ pc' = "commit" /\ query' = NoQuery /\ outcome' = None /\ UNCHANGED committed
               /\ staged' = FALSE /\ removal' \in {removal, "run"}
      BY <2>1, <3>3 DEF TypeOK
    <3>. QED
      BY <2>15, <3>1, <3>2, <3>3 DEF Prepare
  <2>16. CASE UNCHANGED vars
    BY <2>16 DEF vars, disk, staging, process, TypeOK
  <2>. QED
    BY <2>3, <2>4, <2>5, <2>9, <2>10, <2>11, <2>12, <2>13, <2>14, <2>15, <2>16, <2>17
       DEF Next, Work, Exchange
<1>. QED
  BY <1>1, <1>2, PTL DEF Spec

-----------------------------------------------------------------------------
(* Sums *)

\* Every non-empty family of subsets of a finite set has a minimal member.
LEMMA MinimalMember ==
  ASSUME NEW S, IsFiniteSet(S), NEW F, F \subseteq SUBSET S, F # {}
  PROVE  \E A \in F : \A B \in F : B \subseteq A => B = A
<1>1. IsWellFoundedOn(StrictSubsetOrdering(S), FiniteSubsetsOf(S))
  BY FS_StrictSubsetOrderingWellFounded
<1>2. FiniteSubsetsOf(S) = SUBSET S
  BY FS_FiniteSubsetsOfFinite
<1>3. \E A \in F : \A B \in F : <<B, A>> \notin StrictSubsetOrdering(S)
  BY <1>1, <1>2, WFMin, Zenon
<1>. QED
  BY <1>3 DEF StrictSubsetOrdering

\* The term a sum over s takes first, and the sums over all subsets of S.
Pick(s) == CHOOSE x \in s : TRUE
Rest(s) == s \ {Pick(s)}

Sums(f, S, g) == g = [s \in SUBSET S |-> IF s = {} THEN 0 ELSE f[Pick(s)] + g[Rest(s)]]

\* The term taken first is one of them, and fewer are left.
LEMMA RestOf ==
  ASSUME NEW s, s # {}
  PROVE  Pick(s) \in s /\ Rest(s) \subseteq s /\ Rest(s) # s
  BY DEF Pick, Rest

\* They are determined by the terms.
LEMMA SumsUnique ==
  ASSUME NEW S, IsFiniteSet(S), NEW T, T \subseteq S, NEW f, NEW h, \A x \in T : f[x] = h[x],
         NEW g, Sums(f, S, g), NEW k, Sums(h, T, k)
  PROVE  \A s \in SUBSET T : g[s] = k[s]
<1>1. /\ \A s \in SUBSET S : g[s] = IF s = {} THEN 0 ELSE f[Pick(s)] + g[Rest(s)]
      /\ \A s \in SUBSET T : k[s] = IF s = {} THEN 0 ELSE h[Pick(s)] + k[Rest(s)]
  BY DEF Sums
<1>2. PICK F : F = {s \in SUBSET T : g[s] # k[s]}
  OBVIOUS
<1>3. ASSUME F # {} PROVE FALSE
  <2>1. PICK A \in F : \A B \in F : B \subseteq A => B = A
    BY <1>2, <1>3, MinimalMember
  <2>2. A \in SUBSET T /\ A \in SUBSET S /\ g[A] # k[A]
    BY <1>2, <2>1
  <2>3. A # {}
    BY <1>1, <2>2
  <2>4. Pick(A) \in A /\ Rest(A) \subseteq A /\ Rest(A) # A
    BY <2>3, RestOf
  <2>5. g[Rest(A)] = k[Rest(A)]
    BY <1>2, <2>1, <2>2, <2>4
  <2>. QED
    BY <1>1, <2>2, <2>3, <2>4, <2>5
<1>. QED
  BY <1>2, <1>3

\* They exist: those of a smallest set without would be made from its subsets'.
LEMMA SumsExist ==
  ASSUME NEW S, IsFiniteSet(S), NEW f
  PROVE  \E g : Sums(f, S, g)
<1>1. PICK F : F = {T \in SUBSET S : ~\E g : Sums(f, T, g)}
  OBVIOUS
<1>2. ASSUME F # {} PROVE FALSE
  <2>0. F \subseteq SUBSET S
    BY <1>1
  <2>1. PICK A \in F : \A B \in F : B \subseteq A => B = A
    BY <1>2, <2>0, MinimalMember
  <2>2. A \subseteq S /\ IsFiniteSet(A) /\ ~\E g : Sums(f, A, g)
    BY <1>1, <2>1, FS_Subset
  <2>. DEFINE Smaller(t) == CHOOSE g : Sums(f, t, g)
  <2>3. \A t : t \subseteq A /\ t # A => Sums(f, t, Smaller(t))
    BY <1>1, <2>1, <2>2
  <2>. HIDE DEF Smaller
  <2>4. PICK h : h = [s \in SUBSET A |-> IF s = {} THEN 0 ELSE f[Pick(s)] + Smaller(Rest(s))[Rest(s)]]
    OBVIOUS
  <2>5. ASSUME NEW t, t \subseteq A, t # A
        PROVE  h[t] = Smaller(t)[t]
    <3>1. Sums(f, t, Smaller(t)) /\ IsFiniteSet(t)
      BY <2>2, <2>3, <2>5, FS_Subset
    <3>2. Smaller(t)[t] = IF t = {} THEN 0 ELSE f[Pick(t)] + Smaller(t)[Rest(t)]
      BY <3>1 DEF Sums
    <3>3. h[t] = IF t = {} THEN 0 ELSE f[Pick(t)] + Smaller(Rest(t))[Rest(t)]
      BY <2>4, <2>5
    <3>4. ASSUME t # {} PROVE Smaller(Rest(t))[Rest(t)] = Smaller(t)[Rest(t)]
      <4>1. Rest(t) \subseteq t /\ Rest(t) \subseteq A /\ Rest(t) # A
        BY <2>5, <3>4, RestOf
      <4>2. Sums(f, Rest(t), Smaller(Rest(t)))
        BY <2>3, <4>1
      <4>. QED
        BY <3>1, <4>1, <4>2, SumsUnique
    <3>. QED
      BY <3>2, <3>3, <3>4
  <2>6. \A s \in SUBSET A : s # {} => h[Rest(s)] = Smaller(Rest(s))[Rest(s)]
    <3>. SUFFICES ASSUME NEW s \in SUBSET A, s # {}
                  PROVE  h[Rest(s)] = Smaller(Rest(s))[Rest(s)]
      OBVIOUS
    <3>1. Rest(s) \subseteq A /\ Rest(s) # A
      BY RestOf
    <3>. QED
      BY <2>5, <3>1
  <2>7. h = [s \in SUBSET A |-> IF s = {} THEN 0 ELSE f[Pick(s)] + h[Rest(s)]]
    BY <2>4, <2>6
  <2>. QED
    BY <2>2, <2>7 DEF Sums
<1>. QED
  BY <1>1, <1>2

\* A sum is one of them.
LEMMA SumIs ==
  ASSUME NEW f, NEW S, IsFiniteSet(S)
  PROVE  \E g : Sums(f, S, g) /\ SumFunctionOnSet(f, S) = g[S]
<1>1. SumFunctionOnSet(f, S) = (CHOOSE g : Sums(f, S, g))[S]
  BY DEF SumFunctionOnSet, FoldFunctionOnSet, MapThenFoldSet, Sums, Pick, Rest
<1>. QED
  BY <1>1, SumsExist

\* Terms that agree have the same sum.
LEMMA SumSame ==
  ASSUME NEW S, IsFiniteSet(S), NEW f, NEW h, \A x \in S : f[x] = h[x]
  PROVE  SumFunctionOnSet(f, S) = SumFunctionOnSet(h, S)
<1>1. PICK g : Sums(f, S, g) /\ SumFunctionOnSet(f, S) = g[S]
  BY SumIs
<1>2. PICK k : Sums(h, S, k) /\ SumFunctionOnSet(h, S) = k[S]
  BY SumIs
<1>3. \A s \in SUBSET S : g[s] = k[s]
  BY <1>1, <1>2, SumsUnique
<1>. QED
  BY <1>1, <1>2, <1>3

\* Whichever term is taken out first.
LEMMA SumWithout ==
  ASSUME NEW S, IsFiniteSet(S), NEW f, \A x \in S : f[x] \in Nat
  PROVE  /\ SumFunctionOnSet(f, S) \in Nat
         /\ S = {} => SumFunctionOnSet(f, S) = 0
         /\ \A a \in S : SumFunctionOnSet(f, S) = f[a] + SumFunctionOnSet(f, S \ {a})
<1>1. PICK g : Sums(f, S, g) /\ SumFunctionOnSet(f, S) = g[S]
  BY SumIs
<1>2. \A s \in SUBSET S : g[s] = IF s = {} THEN 0 ELSE f[Pick(s)] + g[Rest(s)]
  BY <1>1 DEF Sums
<1>3. \A s \in SUBSET S : g[s] = SumFunctionOnSet(f, s)
  <2>. SUFFICES ASSUME NEW s \in SUBSET S PROVE g[s] = SumFunctionOnSet(f, s)
    OBVIOUS
  <2>1. IsFiniteSet(s)
    BY FS_Subset
  <2>2. PICK k : Sums(f, s, k) /\ SumFunctionOnSet(f, s) = k[s]
    BY <2>1, SumIs
  <2>. QED
    BY <1>1, <2>2, SumsUnique
<1>4. \A s \in SUBSET S : g[s] \in Nat
  <2>1. PICK F : F = {s \in SUBSET S : g[s] \notin Nat}
    OBVIOUS
  <2>2. ASSUME F # {} PROVE FALSE
    <3>0. F \subseteq SUBSET S
      BY <2>1
    <3>1. PICK A \in F : \A B \in F : B \subseteq A => B = A
      BY <2>2, <3>0, MinimalMember
    <3>. A \in SUBSET S /\ g[A] \notin Nat
      BY <2>1, <3>1
    <3>2. A # {} /\ A \subseteq S
      <4>1. g[{}] = 0
        BY <1>2
      <4>. QED
        BY <4>1
    <3>3. Pick(A) \in A /\ Rest(A) \subseteq A /\ Rest(A) # A
      BY <3>2, RestOf
    <3>4. g[Rest(A)] \in Nat /\ f[Pick(A)] \in Nat
      BY <2>1, <3>1, <3>2, <3>3
    <3>. QED
      BY <1>2, <2>1, <3>1, <3>2, <3>4
  <2>. QED
    BY <2>1, <2>2
<1>5. \A s \in SUBSET S : \A a \in s : g[s] = f[a] + g[s \ {a}]
  <2>1. PICK F : F = {s \in SUBSET S : \E a \in s : g[s] # f[a] + g[s \ {a}]}
    OBVIOUS
  <2>2. ASSUME F # {} PROVE FALSE
    <3>0. F \subseteq SUBSET S
      BY <2>1
    <3>1. PICK A \in F : \A B \in F : B \subseteq A => B = A
      BY <2>2, <3>0, MinimalMember
    <3>2. PICK a \in A : g[A] # f[a] + g[A \ {a}]
      BY <2>1, <3>1
    <3>3. A \subseteq S /\ A # {}
      BY <2>1, <3>1
    <3>4. PICK x : x = Pick(A) /\ x \in A /\ Rest(A) = A \ {x}
      BY <3>3, RestOf DEF Rest
    <3>5. g[A] = f[x] + g[A \ {x}]
      BY <1>2, <3>3, <3>4
    <3>6. x # a
      BY <3>2, <3>5
    <3>7. A \ {x} \notin F /\ A \ {a} \notin F
      BY <3>1, <3>2, <3>4
    <3>8. g[A \ {x}] = f[a] + g[(A \ {x}) \ {a}]
      BY <2>1, <3>2, <3>3, <3>6, <3>7
    <3>9. g[A \ {a}] = f[x] + g[(A \ {a}) \ {x}]
      BY <2>1, <3>3, <3>4, <3>6, <3>7
    <3>10. (A \ {x}) \ {a} = (A \ {a}) \ {x}
      OBVIOUS
    <3>11. f[x] \in Nat /\ f[a] \in Nat /\ g[(A \ {a}) \ {x}] \in Nat
      BY <1>4, <3>2, <3>3, <3>4
    <3>12. PICK r \in Nat : g[A \ {x}] = f[a] + r /\ g[A \ {a}] = f[x] + r
      BY <3>8, <3>9, <3>10, <3>11
    <3>13. g[A] = f[a] + g[A \ {a}]
      BY <3>5, <3>11, <3>12
    <3>. QED
      BY <3>2, <3>13
  <2>. QED
    BY <2>1, <2>2
<1>. QED
  BY <1>1, <1>2, <1>3, <1>4, <1>5

-----------------------------------------------------------------------------
(* What reservations cost *)

\* The reservations of some invocations, and what they charge together.
Terms(r, kind) == [i \in DOMAIN r |-> Charge(r[i], kind)]
Of(r, invocations) == {i \in DOMAIN r : r[i].invocation \in invocations}
Cost(r, invocations, kind) == SumFunctionOnSet(Terms(r, kind), Of(r, invocations))

\* The cost of some invocations is a number, and nothing when they reserved nothing.
LEMMA CostOf ==
  ASSUME NEW r \in Seq(Receipt), NEW S, NEW kind \in Kinds
  PROVE  /\ IsFiniteSet(DOMAIN r) /\ IsFiniteSet(Of(r, S))
         /\ \A i \in DOMAIN r : Terms(r, kind)[i] = Charge(r[i], kind) /\ Charge(r[i], kind) \in Nat
         /\ \A i \in Of(r, S) : Terms(r, kind)[i] \in Nat
         /\ Cost(r, S, kind) \in Nat
         /\ Of(r, S) = {} => Cost(r, S, kind) = 0
<1>1. DOMAIN r = 1 .. Len(r) /\ Len(r) \in Nat /\ \A i \in DOMAIN r : r[i] \in Receipt
  BY LenProperties, ElementOfSeq
<1>2. IsFiniteSet(DOMAIN r)
  BY <1>1, FS_Interval
<1>3. IsFiniteSet(Of(r, S))
  BY <1>2, FS_Subset DEF Of
<1>4. \A i \in DOMAIN r : Charge(r[i], kind) \in Nat
  BY <1>1 DEF Receipt, Charge
<1>5. \A i \in DOMAIN r : Terms(r, kind)[i] = Charge(r[i], kind)
  BY DEF Terms
<1>6. \A i \in Of(r, S) : Terms(r, kind)[i] \in Nat
  BY <1>4, <1>5 DEF Of
<1>7. Cost(r, S, kind) \in Nat /\ (Of(r, S) = {} => Cost(r, S, kind) = 0)
  BY <1>3, <1>6, SumWithout DEF Cost
<1>. QED
  BY <1>2, <1>3, <1>4, <1>5, <1>6, <1>7

\* What is charged without one of the reservations.
LEMMA CostBut ==
  ASSUME NEW u \in Seq(Receipt), NEW S, NEW kind \in Kinds, NEW n \in Of(u, S),
         NEW R, R = Of(u, S) \ {n}
  PROVE  /\ SumFunctionOnSet(Terms(u, kind), R) \in Nat
         /\ Cost(u, S, kind) = Charge(u[n], kind) + SumFunctionOnSet(Terms(u, kind), R)
<1>1. /\ IsFiniteSet(Of(u, S)) /\ IsFiniteSet(R)
      /\ \A i \in Of(u, S) : Terms(u, kind)[i] \in Nat
      /\ Terms(u, kind)[n] = Charge(u[n], kind)
  BY CostOf, FS_Subset DEF Of
<1>2. SumFunctionOnSet(Terms(u, kind), R) \in Nat
  BY <1>1, SumWithout
<1>3. SumFunctionOnSet(Terms(u, kind), Of(u, S))
        = Terms(u, kind)[n] + SumFunctionOnSet(Terms(u, kind), R)
  BY <1>1, SumWithout
<1>. QED
  BY <1>1, <1>2, <1>3 DEF Cost

\* Two ledgers that differ in one reservation, or of which one lacks it.
LEMMA CostDiffers ==
  ASSUME NEW r \in Seq(Receipt), NEW t \in Seq(Receipt), NEW S, NEW kind \in Kinds, NEW n,
         DOMAIN t \ {n} = DOMAIN r \ {n}, \A i \in DOMAIN r \ {n} : t[i] = r[i]
  PROVE  /\ n \notin Of(r, S) /\ n \notin Of(t, S) => Cost(t, S, kind) = Cost(r, S, kind)
         /\ n \notin Of(r, S) /\ n \in Of(t, S) =>
              Cost(t, S, kind) = Cost(r, S, kind) + Charge(t[n], kind)
         /\ n \in Of(r, S) /\ n \in Of(t, S) =>
              Cost(t, S, kind) = Cost(r, S, kind) - Charge(r[n], kind) + Charge(t[n], kind)
<1>1. PICK R : R = Of(r, S) \ {n}
  OBVIOUS
<1>2. R = Of(t, S) \ {n}
  BY <1>1 DEF Of
<1>3. IsFiniteSet(R) /\ \A i \in R : i \in DOMAIN r /\ i \in DOMAIN t /\ t[i] = r[i]
  <2>1. IsFiniteSet(Of(r, S))
    BY CostOf
  <2>. QED
    BY <1>1, <1>2, <2>1, FS_Subset DEF Of
<1>4. \A i \in R : Terms(t, kind)[i] = Terms(r, kind)[i]
  BY <1>3 DEF Terms
<1>5. SumFunctionOnSet(Terms(t, kind), R) = SumFunctionOnSet(Terms(r, kind), R)
  BY <1>3, <1>4, SumSame
<1>6. /\ n \notin Of(r, S) => Cost(r, S, kind) = SumFunctionOnSet(Terms(r, kind), R)
      /\ n \notin Of(t, S) => Cost(t, S, kind) = SumFunctionOnSet(Terms(t, kind), R)
  <2>1. n \notin Of(r, S) => R = Of(r, S)
    BY <1>1
  <2>2. n \notin Of(t, S) => R = Of(t, S)
    BY <1>2
  <2>. QED
    BY <2>1, <2>2 DEF Cost
<1>7. ASSUME n \in Of(r, S)
      PROVE  /\ SumFunctionOnSet(Terms(r, kind), R) \in Nat
             /\ Cost(r, S, kind) = Charge(r[n], kind) + SumFunctionOnSet(Terms(r, kind), R)
  BY <1>1, <1>7, CostBut
<1>8. ASSUME n \in Of(t, S)
      PROVE  /\ SumFunctionOnSet(Terms(t, kind), R) \in Nat
             /\ Cost(t, S, kind) = Charge(t[n], kind) + SumFunctionOnSet(Terms(t, kind), R)
  BY <1>2, <1>8, CostBut
<1>9. /\ n \in Of(r, S) => Charge(r[n], kind) \in Nat
      /\ n \in Of(t, S) => Charge(t[n], kind) \in Nat
  BY CostOf DEF Of
<1>10. PICK u : u = SumFunctionOnSet(Terms(r, kind), R) /\ u = SumFunctionOnSet(Terms(t, kind), R)
  BY <1>5
<1>11. /\ n \notin Of(r, S) => Cost(r, S, kind) = u
       /\ n \notin Of(t, S) => Cost(t, S, kind) = u
       /\ n \in Of(r, S) => u \in Nat /\ Cost(r, S, kind) = Charge(r[n], kind) + u
       /\ n \in Of(t, S) => u \in Nat /\ Cost(t, S, kind) = Charge(t[n], kind) + u
  BY <1>6, <1>7, <1>8, <1>10
<1>. QED
  BY <1>9, <1>11

\* A reservation is appended.
LEMMA CostAppend ==
  ASSUME NEW r \in Seq(Receipt), NEW e \in Receipt, NEW S, NEW kind \in Kinds
  PROVE  Cost(Append(r, e), S, kind)
           = Cost(r, S, kind) + IF e.invocation \in S THEN Charge(e, kind) ELSE 0
<1>. DEFINE n == Len(r) + 1
<1>1. PICK t : t = Append(r, e)
  OBVIOUS
<1>2. t \in Seq(Receipt) /\ DOMAIN t = 1 .. n /\ t[n] = e /\ DOMAIN r = 1 .. Len(r)
      /\ Len(r) \in Nat /\ \A i \in 1 .. Len(r) : t[i] = r[i]
  BY <1>1, AppendProperties, LenProperties
<1>3. DOMAIN t \ {n} = DOMAIN r \ {n} /\ n \notin DOMAIN r /\ n \in DOMAIN t
      /\ \A i \in DOMAIN r \ {n} : t[i] = r[i]
  BY <1>2
<1>. HIDE DEF n
<1>4. n \notin Of(r, S) /\ (n \in Of(t, S) <=> e.invocation \in S)
  BY <1>2, <1>3 DEF Of
<1>5. Cost(r, S, kind) \in Nat
  BY CostOf
<1>6. /\ n \notin Of(t, S) => Cost(t, S, kind) = Cost(r, S, kind)
      /\ n \in Of(t, S) => Cost(t, S, kind) = Cost(r, S, kind) + Charge(t[n], kind)
  <2>1. DOMAIN t \ {n} = DOMAIN r \ {n}
    BY <1>3
  <2>2. \A i \in DOMAIN r \ {n} : t[i] = r[i]
    BY <1>3
  <2>3. t \in Seq(Receipt) /\ n \notin Of(r, S)
    BY <1>2, <1>4
  <2>. QED
    BY <2>1, <2>2, <2>3, CostDiffers
<1>. QED
  BY <1>1, <1>2, <1>4, <1>5, <1>6

\* The last reservation is written anew.
LEMMA LastPut ==
  ASSUME NEW T, NEW r \in Seq(T), r # <<>>, NEW v \in T
  PROVE  LET n == Len(r)
             t == [r EXCEPT ![n] = v]
         IN /\ t \in Seq(T) /\ Len(t) = n /\ n \in DOMAIN r /\ t[n] = v /\ r[n] \in T /\ t # <<>>
            /\ DOMAIN t = DOMAIN r /\ DOMAIN r = 1 .. n /\ n \in Nat
            /\ \A i \in DOMAIN r : i # n => t[i] = r[i]
<1>. DEFINE t == [r EXCEPT ![Len(r)] = v]
<1>1. DOMAIN r = 1 .. Len(r) /\ Len(r) \in Nat /\ Len(r) # 0 /\ Len(r) \in 1 .. Len(r)
  BY LenProperties, EmptySeq
<1>2. t \in Seq(T) /\ Len(t) = Len(r) /\ t[Len(r)] = v
      /\ \A i \in 1 .. Len(r) : i # Len(r) => t[i] = r[i]
  <2>1. PICK n : n = Len(r)
    OBVIOUS
  <2>2. PICK w : w = [r EXCEPT ![n] = v]
    OBVIOUS
  <2>3. n \in 1 .. Len(r)
    BY <1>1, <2>1
  <2>4. /\ w \in Seq(T) /\ Len(w) = Len(r)
        /\ \A j \in 1 .. Len(r) : w[j] = IF j = n THEN v ELSE r[j]
    BY <2>2, <2>3, ExceptSeq
  <2>. QED
    BY <1>1, <2>1, <2>2, <2>4
<1>. HIDE DEF t
<1>3. DOMAIN t = 1 .. Len(r) /\ t # <<>>
  BY <1>1, <1>2, LenProperties
<1>4. r[Len(r)] \in T
  BY <1>1, ElementOfSeq
<1>. QED
  BY <1>1, <1>2, <1>3, <1>4 DEF t

\* Rewriting the last reservation moves the cost by the difference of the charges.
LEMMA CostPut ==
  ASSUME NEW r \in Seq(Receipt), r # <<>>, NEW e \in Receipt,
         e.invocation = r[Len(r)].invocation, NEW S, NEW kind \in Kinds
  PROVE  Cost([r EXCEPT ![Len(r)] = e], S, kind)
           = IF e.invocation \in S
             THEN Cost(r, S, kind) - Charge(r[Len(r)], kind) + Charge(e, kind)
             ELSE Cost(r, S, kind)
<1>. DEFINE n == Len(r)
<1>1. PICK t : t = [r EXCEPT ![n] = e]
  OBVIOUS
<1>2. /\ t \in Seq(Receipt) /\ n \in DOMAIN r /\ t[n] = e /\ DOMAIN t = DOMAIN r
      /\ \A i \in DOMAIN r \ {n} : t[i] = r[i]
  BY <1>1, LastPut
<1>3. e.invocation = r[n].invocation
  OBVIOUS
<1>. HIDE DEF n
<1>4. /\ n \in Of(r, S) <=> e.invocation \in S
      /\ n \in Of(t, S) <=> e.invocation \in S
  BY <1>2, <1>3 DEF Of
<1>5. DOMAIN t \ {n} = DOMAIN r \ {n}
  BY <1>2
<1>6. Cost(t, S, kind) = IF e.invocation \in S
             THEN Cost(r, S, kind) - Charge(r[n], kind) + Charge(e, kind)
             ELSE Cost(r, S, kind)
  BY <1>2, <1>4, <1>5, CostDiffers
<1>. QED
  BY <1>1, <1>6 DEF n

\* The ledger counts what its reservations cost.
LEMMA CostIs ==
  ASSUME NEW x, NEW S, NEW kind \in Kinds
  PROVE  Consumed(x, S, kind) = Cost(x.reservations, S, kind)
BY DEF Consumed, Cost, Terms, Of

-----------------------------------------------------------------------------
(* No answer is larger than its limit *)

\* Some member of a finite set has the smallest of the sets given to its members.
LEMMA SmallestOf ==
  ASSUME NEW S, IsFiniteSet(S), S # {}, NEW g, g \in [S -> SUBSET S]
  PROVE  \E c \in S : \A e \in S : g[e] \subseteq g[c] => g[e] = g[c]
<1>1. PICK F : F = {g[c] : c \in S}
  OBVIOUS
<1>2. F \subseteq SUBSET S /\ F # {}
  BY <1>1
<1>3. PICK A \in F : \A B \in F : B \subseteq A => B = A
  BY <1>2, MinimalMember
<1>4. PICK c \in S : A = g[c]
  BY <1>1
<1>5. ASSUME NEW e \in S, g[e] \subseteq g[c] PROVE g[e] = g[c]
  <2>1. g[e] \in F
    BY <1>1
  <2>. QED
    BY <1>3, <1>4, <1>5, <2>1
<1>. QED
  BY <1>5

\* The first n members of a set are at most n.
LEMMA FirstIsBounded ==
  ASSUME NEW S, S \subseteq Nat, IsFiniteSet(S), NEW n \in Nat
  PROVE  IsFiniteSet(First(S, n)) /\ Cardinality(First(S, n)) <= n
<1>. DEFINE first == First(S, n)
            upTo(c) == {d \in S : d <= c}
<1>1. first \subseteq S /\ \A c \in S : c \in first <=> Cardinality(upTo(c)) <= n
  BY DEF First
<1>2. \A T : T \subseteq S => IsFiniteSet(T)
  BY FS_Subset
<1>. HIDE DEF first
<1>3. CASE first = {}
  BY <1>3, FS_EmptySet DEF first
<1>4. CASE first # {}
  <2>1. PICK beyond : beyond = [c \in first |-> {d \in first : d > c}]
    OBVIOUS
  <2>2. beyond \in [first -> SUBSET first] /\ IsFiniteSet(first)
    BY <1>1, <1>2, <2>1
  <2>3. PICK c \in first : \A e \in first : beyond[e] \subseteq beyond[c] => beyond[e] = beyond[c]
    BY <1>4, <2>2, SmallestOf
  <2>4. \A e \in first : e \in Nat
    BY <1>1
  <2>5. ASSUME NEW e \in first, e > c PROVE FALSE
    <3>1. beyond[e] \subseteq beyond[c]
      BY <2>1, <2>4, <2>5
    <3>2. e \in beyond[c] /\ e \notin beyond[e]
      BY <2>1, <2>4, <2>5
    <3>. QED
      BY <2>3, <3>1, <3>2
  <2>6. first \subseteq upTo(c)
    BY <1>1, <2>4, <2>5
  <2>7. upTo(c) \subseteq S /\ Cardinality(upTo(c)) <= n
    BY <1>1
  <2>. HIDE DEF upTo
  <2>8. Cardinality(first) <= Cardinality(upTo(c)) /\ IsFiniteSet(first) /\ IsFiniteSet(upTo(c))
    BY <1>2, <2>6, <2>7, FS_Subset
  <2>9. Cardinality(first) \in Nat /\ Cardinality(upTo(c)) \in Nat
    BY <2>8, FS_CardinalityType
  <2>. QED
    BY <2>7, <2>8, <2>9 DEF first
<1>. QED
  BY <1>3, <1>4

\* An answer is finite and no larger than its request allows.
LEMMA AnswerIsBounded ==
  ASSUME NEW x, NEW lane \in {"metadata", "scope_scan", "baseline_check"}, NEW limit \in Nat,
         lane = "baseline_check" => limit = Cardinality(Batch(x.offset)), NEW v \in Versions
  PROVE  LET rows == Answer(x, lane, limit, v)
         IN IsFiniteSet(rows) /\ Cardinality(rows) \in Nat /\ Cardinality(rows) <= limit
<1>. DEFINE rows == Answer(x, lane, limit, v)
<1>1. v \subseteq Contracts /\ Baseline \subseteq Contracts
  BY DEF Contracts
<1>2. IsFiniteSet(rows) /\ Cardinality(rows) <= limit
  <2>1. CASE lane = "metadata"
    <3>1. rows = {}
      BY <2>1 DEF Answer
    <3>. QED
      BY <3>1, FS_EmptySet
  <2>2. CASE lane = "scope_scan"
    <3>. DEFINE S == {c \in v \cap InScope : c > x.cursor}
    <3>1. rows = First(S, limit)
      BY <2>2 DEF Answer
    <3>2. S \subseteq Contracts
      BY <1>1
    <3>. HIDE DEF S, rows
    <3>3. S \subseteq Nat /\ IsFiniteSet(S)
      BY <3>2, SourceAssumption, FS_Subset
    <3>. QED
      BY <3>1, <3>3, FirstIsBounded
  <2>3. CASE lane = "baseline_check"
    <3>1. rows = v \cap Batch(x.offset)
      BY <2>3 DEF Answer
    <3>2. Batch(x.offset) \subseteq Contracts
      BY <1>1 DEF Batch, First
    <3>. HIDE DEF rows
    <3>3. IsFiniteSet(Batch(x.offset))
      BY <3>2, SourceAssumption, FS_Subset
    <3>. QED
      BY <2>3, <3>1, <3>3, FS_Subset
  <2>. QED
    BY <2>1, <2>2, <2>3
<1>. HIDE DEF rows
<1>3. Cardinality(rows) \in Nat
  BY <1>2, FS_CardinalityType
<1>. QED
  BY <1>2, <1>3 DEF rows

-----------------------------------------------------------------------------
(* What a manifest has spent *)

\* A manifest that a persist brings within its grants: only the usage of its last
\* invocation may still have to be recorded.
Balanced(x) ==
  /\ x \in Manifest
  /\ \A i \in DOMAIN x.reservations : x.reservations[i].invocation \in DOMAIN x.invocations
  /\ \A i \in DOMAIN x.invocations : i # Current(x) => x.invocations[i].consumed = Usage(x, i)
  /\ \A i \in DOMAIN x.invocations :
       \A kind \in Kinds : Usage(x, i)[kind] <= x.invocations[i].grant[kind]
  /\ \A i, j \in DOMAIN x.invocations :
       x.invocations[i].key # NoKey /\ x.invocations[j].key = x.invocations[i].key => j = i
  /\ \A kind \in Kinds : Total(x, kind) <= Ceilings[kind]

\* The same plan and reservations, and the last usage recorded.
Rewrites(x, y) ==
  /\ \A field \in {"verified", "scanned", "cursor", "offset", "returned", "pages", "reservations"} :
       y[field] = x[field]
  /\ DOMAIN y.invocations = DOMAIN x.invocations /\ Current(y) = Current(x)
  /\ \A i \in DOMAIN x.invocations :
       /\ y.invocations[i].key = x.invocations[i].key
       /\ y.invocations[i].grant = x.invocations[i].grant
       /\ y.invocations[i].consumed
            = IF i = Current(x) THEN Usage(x, i) ELSE x.invocations[i].consumed

\* The parts of a manifest.
LEMMA Parts ==
  ASSUME NEW x \in Manifest
  PROVE  /\ x.invocations \in Seq(Invocation) /\ x.reservations \in Seq(Receipt)
         /\ x.pages \in Seq(Page)
         /\ Current(x) \in Nat /\ DOMAIN x.invocations = 1 .. Current(x)
         /\ x.invocations # <<>> => Current(x) \in DOMAIN x.invocations
         /\ \A i \in DOMAIN x.invocations : x.invocations[i] \in Invocation
         /\ \A i \in DOMAIN x.reservations : x.reservations[i] \in Receipt
         /\ DOMAIN x = DOMAIN Planned
<1>1. /\ x.invocations \in Seq(Invocation) /\ x.reservations \in Seq(Receipt)
      /\ x.pages \in Seq(Page) /\ DOMAIN x = DOMAIN Planned
  BY DEF Manifest, Planned
<1>2. /\ Current(x) \in Nat /\ DOMAIN x.invocations = 1 .. Current(x)
      /\ x.invocations # <<>> => Current(x) \in DOMAIN x.invocations
  BY <1>1, LenProperties, EmptySeq DEF Current
<1>3. \A i \in DOMAIN x.invocations : x.invocations[i] \in Invocation
  BY <1>1, ElementOfSeq, LenProperties
<1>4. \A i \in DOMAIN x.reservations : x.reservations[i] \in Receipt
  BY <1>1, ElementOfSeq, LenProperties
<1>. QED
  BY <1>1, <1>2, <1>3, <1>4

\* What the invocations consumed, as costs of the reservations.
LEMMA UsageOf ==
  ASSUME NEW x \in Manifest, NEW i
  PROVE  /\ Usage(x, i) \in [Kinds -> Nat]
         /\ \A kind \in Kinds : /\ Usage(x, i)[kind] = Cost(x.reservations, {i}, kind)
                                /\ Total(x, kind) = Cost(x.reservations, DOMAIN x.invocations, kind)
                                /\ Total(x, kind) \in Nat
<1>1. \A S, kind : Consumed(x, S, kind) = Cost(x.reservations, S, kind)
  BY DEF Consumed, Cost, Terms, Of
<1>2. \A S : \A kind \in Kinds : Cost(x.reservations, S, kind) \in Nat
  BY Parts, CostOf
<1>3. \A kind \in Kinds : /\ Usage(x, i)[kind] = Cost(x.reservations, {i}, kind)
                          /\ Total(x, kind) = Cost(x.reservations, DOMAIN x.invocations, kind)
  BY <1>1 DEF Usage, Total
<1>4. Usage(x, i) \in [Kinds -> Nat]
  <2>1. Usage(x, i) = [kind \in Kinds |-> Cost(x.reservations, {i}, kind)]
    BY <1>1 DEF Usage
  <2>. QED
    BY <1>2, <2>1
<1>. QED
  BY <1>2, <1>3, <1>4

\* What is read from the reservations is the same for the same reservations.
LEMMA SameUsage ==
  ASSUME NEW x, NEW y, y.reservations = x.reservations, DOMAIN y.invocations = DOMAIN x.invocations
  PROVE  /\ \A i : Usage(y, i) = Usage(x, i)
         /\ \A kind : Total(y, kind) = Total(x, kind)
BY DEF Usage, Total, Consumed

\* Every persist, and the publication, records the last usage.
LEMMA RecordRewrites ==
  ASSUME NEW x \in Manifest, NEW s \in States
  PROVE  /\ RecordInvocation(x, s) \in Manifest /\ Rewrites(x, RecordInvocation(x, s))
         /\ RecordInvocation(x, s).complete = x.complete
<1>. DEFINE n == Current(x)
            y == RecordInvocation(x, s)
<1>1. CASE x.invocations = <<>>
  <2>1. y = x /\ DOMAIN x.invocations = {}
    BY <1>1 DEF RecordInvocation
  <2>. QED
    BY <2>1 DEF Rewrites
<1>2. CASE x.invocations # <<>>
  <2>. DEFINE a == [x.invocations[n] EXCEPT !.consumed = Usage(x, n)]
              b == [a EXCEPT !.state = s]
              t == [x.invocations EXCEPT ![n] = b]
  <2>1. /\ x.invocations \in Seq(Invocation) /\ n = Len(x.invocations)
        /\ n \in DOMAIN x.invocations /\ x.invocations[n] \in Invocation
    BY <1>2, Parts DEF Current
  <2>2. Usage(x, n) \in [Kinds -> Nat]
    BY UsageOf
  <2>3. a \in Invocation /\ b \in Invocation
    BY <2>1, <2>2 DEF Invocation
  <2>4. /\ b.key = x.invocations[n].key /\ b.grant = x.invocations[n].grant
        /\ b.consumed = Usage(x, n)
    BY <2>1 DEF Invocation
  <2>5. y = [x EXCEPT !.invocations = t]
    <3>1. y = [x EXCEPT !.invocations =
                 [[x.invocations EXCEPT ![n] = a] EXCEPT ![n] =
                    [[x.invocations EXCEPT ![n] = a][n] EXCEPT !.state = s]]]
      BY <1>2, Parts DEF RecordInvocation, Planned
    <3>. HIDE DEF a
    <3>2. [x.invocations EXCEPT ![n] = a][n] = a
      BY <2>1
    <3>3. [[x.invocations EXCEPT ![n] = a] EXCEPT ![n] = b] = t
      BY <2>1
    <3>. QED
      BY <3>1, <3>2, <3>3
  <2>. HIDE DEF a, b, n
  <2>6. /\ t \in Seq(Invocation) /\ Len(t) = n /\ t[n] = b /\ DOMAIN t = DOMAIN x.invocations
        /\ \A i \in DOMAIN x.invocations : i # n => t[i] = x.invocations[i]
    <3>1. PICK r : r = x.invocations
      OBVIOUS
    <3>2. r \in Seq(Invocation) /\ r # <<>> /\ n = Len(r)
      BY <1>2, <2>1, <3>1
    <3>. QED
      BY <2>3, <3>1, <3>2, LastPut
  <2>. HIDE DEF t, y
  <2>7. y \in Manifest
    BY <2>5, <2>6 DEF Manifest
  <2>8. /\ y.invocations = t /\ y.complete = x.complete
        /\ \A field \in {"verified", "scanned", "cursor", "offset", "returned", "pages", "reservations"} :
             y[field] = x[field]
    BY <2>5 DEF Manifest
  <2>9. Rewrites(x, y)
    BY <2>4, <2>6, <2>8 DEF Rewrites, Current, n
  <2>. QED
    BY <2>7, <2>8, <2>9 DEF y
<1>. QED
  BY <1>1, <1>2

\* Every persist rewrites the state and the completeness, and records the last usage.
LEMMA PersistedRewrites ==
  ASSUME NEW x \in Manifest, NEW s \in States
  PROVE  /\ Persisted(x, s) \in Manifest /\ Rewrites(x, Persisted(x, s))
         /\ Persisted(x, s).complete = Complete(x) /\ Persisted(x, s).state = s
<1>. DEFINE r == RecordInvocation(x, s)
            c == Complete(x)
            y == Persisted(x, s)
<1>1. r \in Manifest /\ Rewrites(x, r)
  BY RecordRewrites
<1>2. c \in BOOLEAN
  BY DEF Complete, MembersDone, Manifest
<1>3. y = [r EXCEPT !.state = s, !.complete = c]
  BY DEF Persisted
<1>. HIDE DEF r, c, y
<1>4. y \in Manifest
  BY <1>1, <1>2, <1>3 DEF Manifest
<1>5. /\ \A field \in {"verified", "scanned", "cursor", "offset", "returned", "pages",
                       "reservations", "invocations"} : y[field] = r[field]
      /\ y.complete = c /\ y.state = s
  BY <1>1, <1>3 DEF Manifest
<1>6. Rewrites(x, y)
  BY <1>1, <1>5 DEF Rewrites, Current
<1>. QED
  BY <1>4, <1>5, <1>6 DEF c, y

\* The publication rewrites the state, and records the last usage.
LEMMA PublishedRewrites ==
  ASSUME NEW x \in Manifest, outcome \in States
  PROVE  /\ Published(x) \in Manifest /\ Rewrites(x, Published(x))
         /\ Published(x).complete = x.complete /\ Published(x).state = outcome
<1>. DEFINE r == RecordInvocation(x, outcome)
            y == Published(x)
<1>1. r \in Manifest /\ Rewrites(x, r) /\ r.complete = x.complete
  BY RecordRewrites
<1>3. y = [r EXCEPT !.state = outcome]
  BY DEF Published
<1>. HIDE DEF r, y
<1>4. y \in Manifest
  BY <1>1, <1>3 DEF Manifest
<1>5. /\ \A field \in {"verified", "scanned", "cursor", "offset", "returned", "pages",
                       "reservations", "invocations", "complete"} : y[field] = r[field]
      /\ y.state = outcome
  BY <1>1, <1>3 DEF Manifest
<1>6. Rewrites(x, y)
  BY <1>1, <1>5 DEF Rewrites, Current
<1>. QED
  BY <1>1, <1>4, <1>5, <1>6 DEF y

\* What is rewritten from a balanced manifest is within its grants.
LEMMA BalancedWithin ==
  ASSUME NEW x, Balanced(x), NEW y \in Manifest, Rewrites(x, y)
  PROVE  Within(y)
<1>1. y.reservations = x.reservations /\ DOMAIN y.invocations = DOMAIN x.invocations
  BY DEF Rewrites
<1>2. (\A i : Usage(y, i) = Usage(x, i)) /\ \A kind : Total(y, kind) = Total(x, kind)
  BY <1>1, SameUsage
<1>3. \A i \in DOMAIN y.reservations : y.reservations[i].invocation \in DOMAIN y.invocations
  BY <1>1 DEF Balanced
<1>4. \A i \in DOMAIN y.invocations :
        /\ y.invocations[i].consumed = Usage(y, i)
        /\ \A kind \in Kinds : Usage(y, i)[kind] <= y.invocations[i].grant[kind]
  BY <1>1, <1>2 DEF Balanced, Rewrites
<1>5. \A i, j \in DOMAIN y.invocations :
        y.invocations[i].key # NoKey /\ y.invocations[j].key = y.invocations[i].key => j = i
  BY <1>1 DEF Balanced, Rewrites
<1>6. \A kind \in Kinds : Total(y, kind) <= Ceilings[kind]
  BY <1>2 DEF Balanced
<1>7. GrantsRespected(y)
  BY <1>4, <1>5, <1>6 DEF GrantsRespected
<1>. QED
  BY <1>3, <1>7 DEF Within

\* A manifest within its grants has nothing left to record.
LEMMA WithinBalanced ==
  ASSUME NEW x, Within(x)
  PROVE  Balanced(x) /\ x \in Manifest
BY DEF Within, Balanced, GrantsRespected

\* A campaign as it is planned has spent nothing.
LEMMA PlannedWithin == Within(Planned)
<1>1. /\ Planned.reservations = <<>> /\ Planned.invocations = <<>>
      /\ DOMAIN Planned.reservations = {} /\ DOMAIN Planned.invocations = {}
  BY DEF Planned
<1>2. Planned \in Manifest
  <2>1. <<>> \in Seq(Page) /\ <<>> \in Seq(Receipt) /\ <<>> \in Seq(Invocation)
    BY EmptySeq
  <2>. QED
    BY <2>1 DEF Planned, Manifest, States
<1>3. \A kind \in Kinds : Total(Planned, kind) <= Ceilings[kind]
  <2>1. ASSUME NEW kind \in Kinds
        PROVE  Total(Planned, kind) <= Ceilings[kind]
    <3>1. Total(Planned, kind) = Cost(Planned.reservations, DOMAIN Planned.invocations, kind)
      BY <1>2, <2>1, UsageOf
    <3>2. Planned.reservations \in Seq(Receipt) /\ Of(Planned.reservations, DOMAIN Planned.invocations) = {}
      BY <1>1, <1>2, Parts DEF Of
    <3>3. Cost(Planned.reservations, DOMAIN Planned.invocations, kind) = 0
      BY <2>1, <3>2, CostOf
    <3>. QED
      BY <3>1, <3>3, BudgetAssumption DEF Budget, Kinds
  <2>. QED
    BY <2>1
<1>4. GrantsRespected(Planned)
  BY <1>1, <1>3 DEF GrantsRespected
<1>. QED
  BY <1>1, <1>2, <1>4 DEF Within

\* What is left of the campaign and of the current grant covers one attempt.
Affords(x, rows) ==
  /\ rows <= CampaignLeft(x, "rows") /\ rows <= GrantLeft(x, "rows")
  /\ 1 <= CampaignLeft(x, "attempts") /\ 1 <= GrantLeft(x, "attempts")

\* What is left is a number.
LEMMA LeftIsInt ==
  ASSUME NEW x \in Manifest, x.invocations # <<>>, NEW kind \in Kinds
  PROVE  /\ CampaignLeft(x, kind) \in Int /\ GrantLeft(x, kind) \in Int
         /\ Left(x, kind) \in {CampaignLeft(x, kind), GrantLeft(x, kind)}
         /\ Left(x, kind) <= CampaignLeft(x, kind) /\ Left(x, kind) <= GrantLeft(x, kind)
         /\ CampaignLeft(x, kind) = Ceilings[kind] - Total(x, kind)
         /\ GrantLeft(x, kind) = Last(x).grant[kind] - Usage(x, Current(x))[kind]
         /\ Last(x).grant[kind] \in Nat
<1>1. Ceilings[kind] \in Nat
  BY BudgetAssumption DEF Budget, Kinds
<1>2. Last(x).grant \in Grants
  BY Parts DEF Last, Invocation
<1>3. Last(x).grant[kind] \in Nat
  BY <1>2, BudgetAssumption DEF Budget, Kinds
<1>4. Total(x, kind) \in Nat /\ Usage(x, Current(x))[kind] \in Nat
  BY UsageOf
<1>5. Usage(x, Current(x))[kind] = Consumed(x, {Current(x)}, kind)
  BY DEF Usage
<1>. HIDE DEF Usage
<1>6. CampaignLeft(x, kind) = Ceilings[kind] - Total(x, kind)
      /\ GrantLeft(x, kind) = Last(x).grant[kind] - Usage(x, Current(x))[kind]
  BY <1>5 DEF CampaignLeft, GrantLeft
<1>7. CampaignLeft(x, kind) \in Int /\ GrantLeft(x, kind) \in Int
  BY <1>1, <1>3, <1>4, <1>6
<1>8. PICK c, g : c = CampaignLeft(x, kind) /\ g = GrantLeft(x, kind)
  OBVIOUS
<1>9. Left(x, kind) = IF c <= g THEN c ELSE g
  BY <1>8 DEF Left, Least
<1>. QED
  BY <1>3, <1>6, <1>7, <1>8, <1>9

\* An attempt that is not refused is covered.
LEMMA NotRefused ==
  ASSUME NEW x \in Manifest, x.invocations # <<>>, NEW rows \in Nat, Refusal(x, rows) = None
  PROVE  Affords(x, rows) /\ rows <= Left(x, "rows")
<1>. DEFINE a == rows > CampaignLeft(x, "rows")
            b == rows > Left(x, "rows")
            c == 1 > CampaignLeft(x, "attempts")
            d == 1 > Left(x, "attempts")
<1>1. Refusal(x, rows) = IF a THEN "campaign" ELSE IF b THEN "invocation"
                         ELSE IF c THEN "campaign" ELSE IF d THEN "invocation" ELSE None
  BY Zenon DEF Refusal
<1>. HIDE DEF a, b, c, d
<1>2. ~a /\ ~b /\ ~c /\ ~d
  BY <1>1, NoneAssumption
<1>3. "rows" \in Kinds /\ "attempts" \in Kinds
  BY DEF Kinds
<1>. QED
  BY <1>2, <1>3, LeftIsInt DEF a, b, c, d, Affords

\* Totals and usages are costs of the reservations.
LEMMA TotalOf ==
  ASSUME NEW x \in Manifest
  PROVE  /\ \A kind \in Kinds : /\ Total(x, kind) = Cost(x.reservations, DOMAIN x.invocations, kind)
                                 /\ Total(x, kind) \in Nat
         /\ \A i : /\ Usage(x, i) \in [Kinds -> Nat]
                   /\ \A kind \in Kinds : /\ Usage(x, i)[kind] = Cost(x.reservations, {i}, kind)
                                          /\ Usage(x, i)[kind] \in Nat
BY UsageOf

\* What a reservation adds to the ledger.
Price(q, kind) == IF kind = "rows" THEN q.limit ELSE 1

\* A covered attempt is reserved within the grants.
LEMMA ReservedBalanced ==
  ASSUME NEW x, Within(x), x.invocations # <<>>, NEW q, q.lane \in Lanes, q.limit \in Nat,
         Affords(x, q.limit),
         NEW y, y = [x EXCEPT !.reservations = Append(@, Reservation(x, q))]
  PROVE  /\ Balanced(y) /\ y.reservations = Append(x.reservations, Reservation(x, q))
         /\ y.invocations = x.invocations /\ Lane(y) = Lane(x) /\ Batch(y.offset) = Batch(x.offset)
         /\ \A kind \in Kinds : Total(y, kind) = Total(x, kind) + Price(q, kind)
<1>1. /\ x \in Manifest /\ Balanced(x)
      /\ x.reservations \in Seq(Receipt) /\ x.invocations \in Seq(Invocation)
      /\ Current(x) \in Nat /\ Current(x) \in DOMAIN x.invocations
  BY WithinBalanced, Parts
<1>2. PICK e : e = Reservation(x, q)
  OBVIOUS
<1>3. /\ e \in Receipt /\ e.invocation = Current(x)
      /\ \A kind \in Kinds : Charge(e, kind) = Price(q, kind) /\ Price(q, kind) \in Nat
  BY <1>1, <1>2 DEF Reservation, Receipt, Charge, Price, Kinds
<1>4. PICK r : r = Append(x.reservations, e)
  OBVIOUS
<1>5. r \in Seq(Receipt) /\ \A i \in DOMAIN r : r[i] = e \/ (i \in DOMAIN x.reservations /\ r[i] = x.reservations[i])
  <2>1. PICK o : o = x.reservations
    OBVIOUS
  <2>2. /\ o \in Seq(Receipt) /\ r = Append(o, e)
    BY <1>1, <1>4, <2>1
  <2>3. /\ DOMAIN o = 1 .. Len(o) /\ Len(o) \in Nat
        /\ r \in Seq(Receipt) /\ DOMAIN r = 1 .. (Len(o) + 1)
        /\ \A i \in 1 .. (Len(o) + 1) : r[i] = IF i = Len(o) + 1 THEN e ELSE o[i]
    BY <1>3, <2>2, AppendProperties, LenProperties
  <2>4. \A i \in DOMAIN r : r[i] = e \/ (i \in DOMAIN o /\ r[i] = o[i])
    BY <2>3
  <2>. QED
    BY <2>1, <2>3, <2>4
<1>6. y = [x EXCEPT !.reservations = r]
  BY <1>2, <1>4
<1>7. /\ y \in Manifest /\ y.reservations = r /\ y.invocations = x.invocations
      /\ y.verified = x.verified /\ y.scanned = x.scanned /\ y.offset = x.offset
  BY <1>1, <1>5, <1>6 DEF Manifest
<1>8. /\ Current(y) = Current(x) /\ Lane(y) = Lane(x) /\ Batch(y.offset) = Batch(x.offset)
  BY <1>7, Zenon DEF Current, Lane, MembersDone
<1>9. \A S : \A kind \in Kinds :
        Cost(r, S, kind) = Cost(x.reservations, S, kind)
                           + IF Current(x) \in S THEN Price(q, kind) ELSE 0
  <2>1. ASSUME NEW S, NEW kind \in Kinds
        PROVE  Cost(Append(x.reservations, e), S, kind)
                 = Cost(x.reservations, S, kind) + IF e.invocation \in S THEN Charge(e, kind) ELSE 0
    BY <1>1, <1>3, <2>1, CostAppend
  <2>. QED
    BY <1>3, <1>4, <2>1
<1>10. \A kind \in Kinds : Total(y, kind) = Total(x, kind) + Price(q, kind)
  <2>1. ASSUME NEW kind \in Kinds
        PROVE  Total(y, kind) = Total(x, kind) + Price(q, kind)
    <3>1. /\ Total(x, kind) = Cost(x.reservations, DOMAIN x.invocations, kind)
          /\ Total(y, kind) = Cost(y.reservations, DOMAIN y.invocations, kind)
      BY <1>1, <1>7, TotalOf
    <3>. QED
      BY <1>1, <1>7, <1>9, <3>1
  <2>. QED
    BY <2>1
<1>11. \A i \in DOMAIN x.invocations : \A kind \in Kinds :
         Usage(y, i)[kind] = Usage(x, i)[kind] + IF i = Current(x) THEN Price(q, kind) ELSE 0
  <2>1. ASSUME NEW i \in DOMAIN x.invocations, NEW kind \in Kinds
        PROVE  Usage(y, i)[kind] = Usage(x, i)[kind] + IF i = Current(x) THEN Price(q, kind) ELSE 0
    <3>1. /\ Usage(x, i)[kind] = Cost(x.reservations, {i}, kind)
          /\ Usage(y, i)[kind] = Cost(y.reservations, {i}, kind)
      BY <1>1, <1>7, TotalOf
    <3>2. Cost(r, {i}, kind) = Cost(x.reservations, {i}, kind)
                               + IF Current(x) \in {i} THEN Price(q, kind) ELSE 0
      BY <1>9
    <3>. QED
      BY <1>7, <3>1, <3>2
  <2>. QED
    BY <2>1
<1>12. \A i \in DOMAIN x.invocations : i # Current(x) => Usage(y, i) = Usage(x, i)
  <2>1. ASSUME NEW i \in DOMAIN x.invocations, i # Current(x)
        PROVE  Usage(y, i) = Usage(x, i)
    <3>1. Usage(y, i) \in [Kinds -> Nat] /\ Usage(x, i) \in [Kinds -> Nat]
      BY <1>1, <1>7, UsageOf
    <3>2. \A kind \in Kinds : Usage(y, i)[kind] = Usage(x, i)[kind]
      <4>1. \A kind \in Kinds : Usage(x, i)[kind] \in Nat
        BY <3>1
      <4>. QED
        BY <1>11, <2>1, <4>1
    <3>3. PICK f, g : f = Usage(y, i) /\ g = Usage(x, i)
      OBVIOUS
    <3>4. f \in [Kinds -> Nat] /\ g \in [Kinds -> Nat] /\ \A kind \in Kinds : f[kind] = g[kind]
      BY <3>1, <3>2, <3>3
    <3>5. f = g
      BY <3>4
    <3>. QED
      BY <3>3, <3>5
  <2>. QED
    BY <2>1
<1>13. \A kind \in Kinds :
         /\ Total(x, kind) + Price(q, kind) <= Ceilings[kind]
         /\ Usage(x, Current(x))[kind] + Price(q, kind) <= x.invocations[Current(x)].grant[kind]
  <2>1. ASSUME NEW kind \in Kinds
        PROVE  /\ Price(q, kind) <= CampaignLeft(x, kind) /\ Price(q, kind) <= GrantLeft(x, kind)
    BY DEF Affords, Price, Kinds
  <2>2. ASSUME NEW kind \in Kinds
        PROVE  /\ Total(x, kind) + Price(q, kind) <= Ceilings[kind]
               /\ Usage(x, Current(x))[kind] + Price(q, kind) <= Last(x).grant[kind]
    <3>1. /\ CampaignLeft(x, kind) = Ceilings[kind] - Total(x, kind)
          /\ GrantLeft(x, kind) = Last(x).grant[kind] - Usage(x, Current(x))[kind]
          /\ Last(x).grant[kind] \in Nat
      BY <1>1, <2>2, LeftIsInt
    <3>2. Ceilings[kind] \in Nat /\ Total(x, kind) \in Nat /\ Usage(x, Current(x))[kind] \in Nat
      BY <1>1, <2>2, UsageOf, BudgetAssumption DEF Budget, Kinds
    <3>3. Price(q, kind) \in Nat
      BY <1>3, <2>2
    <3>. QED
      BY <2>1, <2>2, <3>1, <3>2, <3>3
  <2>. QED
    BY <2>2 DEF Last
<1>14. \A i \in DOMAIN r : r[i].invocation \in DOMAIN x.invocations
  BY <1>1, <1>3, <1>5 DEF Balanced
<1>15. Balanced(y)
  <2>1. \A i \in DOMAIN y.reservations : y.reservations[i].invocation \in DOMAIN y.invocations
    BY <1>7, <1>14
  <2>2. \A i \in DOMAIN y.invocations : i # Current(y) => y.invocations[i].consumed = Usage(y, i)
    BY <1>1, <1>7, <1>8, <1>12 DEF Balanced
  <2>3. \A i \in DOMAIN y.invocations :
          \A kind \in Kinds : Usage(y, i)[kind] <= y.invocations[i].grant[kind]
    <3>1. ASSUME NEW i \in DOMAIN x.invocations, NEW kind \in Kinds
          PROVE  Usage(y, i)[kind] <= x.invocations[i].grant[kind]
      <4>1. Usage(x, i)[kind] <= x.invocations[i].grant[kind]
        BY <1>1 DEF Balanced
      <4>2. Usage(x, i)[kind] \in Nat
        BY <1>1, TotalOf
      <4>3. Usage(y, i)[kind] = Usage(x, i)[kind] + IF i = Current(x) THEN Price(q, kind) ELSE 0
        BY <1>11, <3>1
      <4>4. CASE i = Current(x)
        BY <1>13, <4>3, <4>4
      <4>5. CASE i # Current(x)
        BY <4>1, <4>2, <4>3, <4>5
      <4>. QED
        BY <4>4, <4>5
    <3>. QED
      BY <1>7, <3>1
  <2>4. \A i, j \in DOMAIN y.invocations :
          y.invocations[i].key # NoKey /\ y.invocations[j].key = y.invocations[i].key => j = i
    BY <1>1, <1>7 DEF Balanced
  <2>5. \A kind \in Kinds : Total(y, kind) <= Ceilings[kind]
    BY <1>10, <1>13
  <2>. QED
    BY <1>7, <2>1, <2>2, <2>3, <2>4, <2>5 DEF Balanced
<1>. QED
  BY <1>2, <1>4, <1>7, <1>8, <1>10, <1>15

\* The greatest of some contracts is one of them.
LEMMA GreatestIn ==
  ASSUME NEW S, \A c \in S : c \in Nat, IsFiniteSet(S), S # {}
  PROVE  Greatest(S) \in S /\ \A d \in S : d <= Greatest(S)
<1>1. PICK beyond : beyond = [c \in S |-> {d \in S : d > c}]
  OBVIOUS
<1>2. beyond \in [S -> SUBSET S]
  BY <1>1
<1>3. PICK c \in S : \A e \in S : beyond[e] \subseteq beyond[c] => beyond[e] = beyond[c]
  BY <1>2, SmallestOf
<1>4. ASSUME NEW e \in S, e > c PROVE FALSE
  <2>1. beyond[e] \subseteq beyond[c]
    BY <1>1, <1>4
  <2>2. e \in beyond[c] /\ e \notin beyond[e]
    BY <1>1, <1>4
  <2>. QED
    BY <1>3, <2>1, <2>2
<1>5. \A d \in S : d <= c
  BY <1>4
<1>. QED
  BY <1>5 DEF Greatest

\* A receipt, as it is written over its reservation.
Thrice(x, n, a, b, c) ==
  [x EXCEPT !.reservations[n].state = a, !.reservations[n].charged = b,
            !.reservations[n].page = c]

\* The receipt itself.
Over(r, a, b, c) == [r EXCEPT !.state = a, !.charged = b, !.page = c]

\* An entry written three times is written once.
LEMMA PutThrice ==
  ASSUME NEW x, "reservations" \in DOMAIN x, NEW n \in DOMAIN x.reservations,
         DOMAIN x.reservations[n] = {"invocation", "lane", "max", "charged", "state", "page"},
         NEW a, NEW b, NEW c
  PROVE  Thrice(x, n, a, b, c)
           = [x EXCEPT !.reservations =
                [x.reservations EXCEPT ![n] = Over(x.reservations[n], a, b, c)]]
<1>1. PICK r : r = x.reservations
  OBVIOUS
<1>2. PICK e1 : e1 = [r[n] EXCEPT !.state = a]
  OBVIOUS
<1>3. PICK e2 : e2 = [e1 EXCEPT !.charged = b]
  OBVIOUS
<1>4. PICK e3 : e3 = [e2 EXCEPT !.page = c]
  OBVIOUS
<1>6. PICK r1 : r1 = [r EXCEPT ![n] = e1]
  OBVIOUS
<1>7. PICK r2 : r2 = [r EXCEPT ![n] = e2]
  OBVIOUS
<1>8. PICK x1 : x1 = [x EXCEPT !.reservations = r1]
  OBVIOUS
<1>9. PICK x2 : x2 = [x EXCEPT !.reservations = r2]
  OBVIOUS
<1>10. x1 = [x EXCEPT !.reservations[n].state = a]
  BY <1>1, <1>2, <1>6, <1>8
<1>11. x1.reservations = r1 /\ r1[n] = e1 /\ [r1 EXCEPT ![n] = e2] = r2
  BY <1>1, <1>6, <1>7, <1>8
<1>12. x2 = [x1 EXCEPT !.reservations[n].charged = b]
  <2>1. [x1 EXCEPT !.reservations[n].charged = b] = [x1 EXCEPT !.reservations = r2]
    BY <1>3, <1>11
  <2>2. [x1 EXCEPT !.reservations = r2] = x2
    BY <1>8, <1>9
  <2>. QED
    BY <2>1, <2>2
<1>13. x2.reservations = r2 /\ r2[n] = e2 /\ [r2 EXCEPT ![n] = e3] = [r EXCEPT ![n] = e3]
  BY <1>1, <1>7, <1>9
<1>14. Thrice(x, n, a, b, c) = [x2 EXCEPT !.reservations[n].page = c]
  BY <1>10, <1>12 DEF Thrice
<1>15. [x2 EXCEPT !.reservations[n].page = c] = [x2 EXCEPT !.reservations = [r EXCEPT ![n] = e3]]
  BY <1>4, <1>13
<1>16. [x2 EXCEPT !.reservations = [r EXCEPT ![n] = e3]] = [x EXCEPT !.reservations = [r EXCEPT ![n] = e3]]
  BY <1>9
<1>17. e3 = Over(x.reservations[n], a, b, c)
  BY <1>1, <1>2, <1>3, <1>4 DEF Over
<1>. QED
  BY <1>1, <1>14, <1>15, <1>16, <1>17

\* An answer that fits its request, whose charge is the last reservation.
Answered(x, q) ==
  /\ x \in Manifest /\ q.lane \in Lanes /\ q.limit \in Nat
  /\ q.answer \subseteq Contracts /\ IsFiniteSet(q.answer)
  /\ Cardinality(q.answer) \in Nat /\ Cardinality(q.answer) <= q.limit
  /\ x.reservations # <<>> /\ x.reservations[Len(x.reservations)] = Reservation(x, q)

\* The charge an answer leaves.
Receipted(x, q) ==
  [Reservation(x, q) EXCEPT !.state = "response", !.charged = Cardinality(q.answer),
                            !.page = IF q.lane = "metadata" THEN None ELSE Len(x.pages) + 1]

\* The page that an answer becomes, and the progress of its lane.
PageOf(x, q) == [lane |-> q.lane, limit |-> q.limit, cursor |-> x.cursor, rows |-> q.answer]
Progressed(x, q, y) ==
  /\ q.lane = "metadata" =>
       /\ y.verified = TRUE /\ y.pages = x.pages /\ y.scanned = x.scanned
       /\ y.cursor = x.cursor /\ y.offset = x.offset /\ y.returned = x.returned
  /\ q.lane = "scope_scan" =>
       /\ y.pages = Append(x.pages, PageOf(x, q)) /\ y.scanned = Short(PageOf(x, q))
       /\ y.cursor = IF q.answer = {} THEN x.cursor ELSE Greatest(q.answer)
       /\ y.verified = x.verified /\ y.offset = x.offset /\ y.returned = x.returned
  /\ q.lane = "baseline_check" =>
       /\ y.pages = Append(x.pages, PageOf(x, q))
       /\ y.offset = x.offset + q.limit /\ y.returned = x.returned \cup q.answer
       /\ y.verified = x.verified /\ y.scanned = x.scanned /\ y.cursor = x.cursor

\* A recorded answer writes its receipt, and the progress of its lane.
LEMMA RecordedParts ==
  ASSUME NEW x, NEW q, Answered(x, q), NEW y, y = Recorded(x, q)
  PROVE  /\ y \in Manifest /\ Receipted(x, q) \in Receipt
         /\ y.reservations = [x.reservations EXCEPT ![Len(x.reservations)] = Receipted(x, q)]
         /\ y.invocations = x.invocations
         /\ Progressed(x, q, y)
<1>. DEFINE n == Len(x.reservations)
            e == Receipted(x, q)
<1>1. /\ x \in Manifest /\ x.reservations \in Seq(Receipt) /\ x.pages \in Seq(Page)
      /\ x.reservations # <<>> /\ Current(x) \in Nat
      /\ x.reservations[n] = Reservation(x, q)
  BY Parts DEF Answered
<1>2. n \in DOMAIN x.reservations /\ Len(x.pages) \in Nat
  BY <1>1, LenProperties, EmptySeq
<1>3. e \in Receipt
  <2>1. PICK k, g : k = Cardinality(q.answer)
                    /\ g = IF q.lane = "metadata" THEN None ELSE Len(x.pages) + 1
    OBVIOUS
  <2>2. k \in Nat /\ g \in Nat \cup {None}
    BY <1>2, <2>1 DEF Answered
  <2>3. PICK w : w = Reservation(x, q)
    OBVIOUS
  <2>4. w \in Receipt
    BY <1>1, <2>3 DEF Answered, Reservation, Receipt
  <2>5. e = [w EXCEPT !.state = "response", !.charged = k, !.page = g]
    BY <2>1, <2>3 DEF Receipted
  <2>. HIDE DEF e
  <2>. QED
    BY <2>2, <2>4, <2>5 DEF Receipt
<1>4. PICK t : t = [x.reservations EXCEPT ![n] = e]
  OBVIOUS
<1>5. t \in Seq(Receipt)
  <2>1. PICK r : r = x.reservations
    OBVIOUS
  <2>2. r \in Seq(Receipt) /\ r # <<>> /\ t = [r EXCEPT ![Len(r)] = e]
    BY <1>1, <1>4, <2>1
  <2>. QED
    BY <1>3, <2>2, LastPut
<1>6. PICK z : z = [x EXCEPT !.reservations = t]
  OBVIOUS
<1>7. z \in Manifest /\ DOMAIN z = DOMAIN Planned /\ z.reservations = t /\ z.invocations = x.invocations
      /\ z.pages = x.pages /\ z.cursor = x.cursor /\ z.offset = x.offset /\ z.returned = x.returned
  BY <1>1, <1>5, <1>6 DEF Manifest, Planned
<1>8. PICK p : p = [lane |-> q.lane, limit |-> q.limit, cursor |-> x.cursor, rows |-> q.answer]
  OBVIOUS
<1>9. p \in Page
  BY <1>1, <1>8 DEF Answered, Page, Manifest
<1>10. PICK c : c = IF q.answer = {} THEN x.cursor ELSE Greatest(q.answer)
  OBVIOUS
<1>11. c \in Nat
  <2>1. \A d \in q.answer : d \in Nat
    BY SourceAssumption DEF Answered
  <2>2. q.answer # {} => Greatest(q.answer) \in Nat
    BY <2>1, GreatestIn DEF Answered
  <2>. QED
    BY <1>1, <1>10, <2>2 DEF Manifest
<1>12. PICK a : a = Append(z.pages, p)
  OBVIOUS
<1>13. a \in Seq(Page)
  BY <1>1, <1>7, <1>9, <1>12, AppendProperties
<1>14. z = [x EXCEPT !.reservations[n].state = "response",
                     !.reservations[n].charged = Cardinality(q.answer),
                     !.reservations[n].page = IF q.lane = "metadata" THEN None ELSE Len(x.pages) + 1]
  <2>1. DOMAIN x.reservations[n] = {"invocation", "lane", "max", "charged", "state", "page"}
    BY <1>1 DEF Reservation
  <2>2. "reservations" \in DOMAIN x
    BY <1>1 DEF Manifest
  <2>3. PICK k, g : k = Cardinality(q.answer)
                    /\ g = IF q.lane = "metadata" THEN None ELSE Len(x.pages) + 1
    OBVIOUS
  <2>4. e = Over(x.reservations[n], "response", k, g)
    BY <1>1, <2>3 DEF Receipted, Over
  <2>. HIDE DEF n, e
  <2>5. Thrice(x, n, "response", k, g)
          = [x EXCEPT !.reservations =
               [x.reservations EXCEPT ![n] = Over(x.reservations[n], "response", k, g)]]
    BY <1>2, <2>1, <2>2, PutThrice
  <2>6. Thrice(x, n, "response", k, g) = [x EXCEPT !.reservations = t]
    BY <1>4, <2>4, <2>5
  <2>. QED
    BY <1>6, <2>3, <2>6 DEF n, Thrice
<1>15. /\ q.lane = "metadata" => y = [z EXCEPT !.verified = TRUE]
       /\ q.lane = "scope_scan" => y = [z EXCEPT !.pages = a, !.cursor = c, !.scanned = Short(p)]
       /\ q.lane = "baseline_check" =>
            y = [z EXCEPT !.pages = a, !.offset = z.offset + q.limit, !.returned = z.returned \cup q.answer]
  <2>1. CASE q.lane = "metadata"
    <3>1. y = [z EXCEPT !.verified = TRUE]
      BY <1>14, <2>1 DEF Recorded
    <3>. QED
      BY <2>1, <3>1
  <2>2. CASE q.lane = "scope_scan"
    <3>1. y = [z EXCEPT !.pages = Append(z.pages, p),
                        !.cursor = IF q.answer = {} THEN z.cursor ELSE Greatest(q.answer),
                        !.scanned = Short(p)]
      BY <1>8, <1>14, <2>2 DEF Recorded
    <3>. QED
      BY <2>2, <1>7, <1>10, <1>12, <3>1
  <2>3. CASE q.lane = "baseline_check"
    <3>1. y = [z EXCEPT !.pages = Append(z.pages, p),
                        !.offset = z.offset + q.limit, !.returned = z.returned \cup q.answer]
      BY <1>8, <1>14, <2>3 DEF Recorded
    <3>. QED
      BY <2>3, <1>12, <3>1
  <2>. QED
    BY <2>1, <2>2, <2>3 DEF Answered, Lanes
<1>16. /\ z.offset + q.limit \in Nat /\ z.returned \cup q.answer \in SUBSET Contracts
       /\ Short(p) \in BOOLEAN
  BY <1>1, <1>7 DEF Answered, Manifest, Short
<1>17. /\ y \in Manifest /\ y.reservations = t /\ y.invocations = x.invocations
  BY <1>7, <1>11, <1>13, <1>15, <1>16 DEF Answered, Lanes, Manifest
<1>18. z.verified = x.verified /\ z.scanned = x.scanned
  BY <1>1, <1>6 DEF Manifest
<1>19. PICK b : b = Short(p)
  OBVIOUS
<1>20. p = PageOf(x, q)
  BY <1>8 DEF PageOf
<1>21. /\ q.lane = "metadata" =>
            /\ y.verified = TRUE /\ y.scanned = x.scanned /\ y.cursor = x.cursor
            /\ y.offset = x.offset /\ y.returned = x.returned /\ y.pages = x.pages
       /\ q.lane = "scope_scan" =>
            /\ y.pages = a /\ y.scanned = b /\ y.cursor = c
            /\ y.verified = x.verified /\ y.offset = x.offset /\ y.returned = x.returned
       /\ q.lane = "baseline_check" =>
            /\ y.pages = a /\ y.offset = x.offset + q.limit /\ y.returned = x.returned \cup q.answer
            /\ y.verified = x.verified /\ y.scanned = x.scanned /\ y.cursor = x.cursor
  <2>1. PICK o, w : o = x.offset + q.limit /\ w = x.returned \cup q.answer
    OBVIOUS
  <2>2. CASE q.lane = "metadata"
    <3>1. y = [z EXCEPT !.verified = TRUE]
      BY <1>15, <2>2
    <3>. QED
      BY <1>7, <1>18, <2>2, <3>1 DEF Manifest
  <2>3. CASE q.lane = "scope_scan"
    <3>1. y = [z EXCEPT !.pages = a, !.cursor = c, !.scanned = b]
      BY <1>15, <1>19, <2>3
    <3>. QED
      BY <1>7, <1>18, <2>3, <3>1 DEF Manifest
  <2>4. CASE q.lane = "baseline_check"
    <3>1. y = [z EXCEPT !.pages = a, !.offset = o, !.returned = w]
      BY <1>7, <1>15, <2>1, <2>4
    <3>2. y.offset = o /\ y.returned = w
      BY <1>7, <3>1 DEF Manifest
    <3>3. y.pages = a /\ y.verified = z.verified /\ y.scanned = z.scanned /\ y.cursor = z.cursor
      BY <1>7, <3>1 DEF Manifest
    <3>. QED
      BY <1>7, <1>18, <2>1, <2>4, <3>2, <3>3
  <2>. QED
    BY <2>2, <2>3, <2>4 DEF Answered, Lanes
<1>22. a = Append(x.pages, PageOf(x, q)) /\ b = Short(PageOf(x, q))
  BY <1>7, <1>12, <1>19, <1>20
<1>23. Progressed(x, q, y)
  <2>1. CASE q.lane = "metadata"
    BY <1>21, <2>1 DEF Progressed
  <2>2. CASE q.lane = "scope_scan"
    BY <1>10, <1>21, <1>22, <2>2 DEF Progressed
  <2>3. CASE q.lane = "baseline_check"
    BY <1>21, <1>22, <2>3 DEF Progressed
  <2>. QED
    BY <2>1, <2>2, <2>3 DEF Answered, Lanes
<1>. QED
  BY <1>3, <1>4, <1>17, <1>23

\* A receipt charges what the answer held, and gives the rest back.
LEMMA RecordedBalanced ==
  ASSUME NEW x, Within(x), NEW q, Answered(x, q), NEW y, y = Recorded(x, q)
  PROVE  /\ Balanced(y) /\ y.invocations = x.invocations
         /\ Total(y, "attempts") = Total(x, "attempts")
         /\ Total(y, "rows") = Total(x, "rows") - q.limit + Cardinality(q.answer)
<1>. DEFINE n == Len(x.reservations)
<1>1. /\ x \in Manifest /\ Balanced(x)
      /\ x.reservations \in Seq(Receipt) /\ Current(x) \in Nat
      /\ x.reservations # <<>> /\ x.reservations[n] = Reservation(x, q)
  BY WithinBalanced, Parts DEF Answered
<1>2. PICK e : e = Receipted(x, q)
  OBVIOUS
<1>3. /\ y \in Manifest /\ e \in Receipt /\ y.invocations = x.invocations
      /\ y.reservations = [x.reservations EXCEPT ![n] = e]
  BY <1>2, RecordedParts
<1>4. PICK k : k = Cardinality(q.answer)
  OBVIOUS
<1>5. k \in Nat /\ q.limit \in Nat /\ k <= q.limit
  BY <1>4 DEF Answered
<1>6. e.invocation = Current(x) /\ e.charged = k
      /\ x.reservations[n].invocation = Current(x) /\ x.reservations[n].charged = q.limit
  <2>1. PICK w : w = Reservation(x, q)
    OBVIOUS
  <2>2. /\ w.invocation = Current(x) /\ w.charged = q.limit
        /\ DOMAIN w = {"invocation", "lane", "max", "charged", "state", "page"}
    BY <2>1 DEF Reservation
  <2>3. PICK g : e = Over(w, "response", k, g)
    BY <1>2, <1>4, <2>1 DEF Receipted, Over
  <2>4. e.invocation = w.invocation /\ e.charged = k
    BY <2>2, <2>3 DEF Over
  <2>. QED
    BY <1>1, <2>1, <2>2, <2>4
<1>7. \A S : \A kind \in Kinds :
        Cost(y.reservations, S, kind)
          = IF Current(x) \in S
            THEN Cost(x.reservations, S, kind) - Charge(x.reservations[n], kind) + Charge(e, kind)
            ELSE Cost(x.reservations, S, kind)
  <2>. HIDE DEF n
  <2>1. ASSUME NEW S, NEW kind \in Kinds
        PROVE  Cost([x.reservations EXCEPT ![Len(x.reservations)] = e], S, kind)
                 = IF e.invocation \in S
                   THEN Cost(x.reservations, S, kind) - Charge(x.reservations[Len(x.reservations)], kind)
                        + Charge(e, kind)
                   ELSE Cost(x.reservations, S, kind)
    BY <1>1, <1>3, <1>6, <2>1, CostPut DEF n
  <2>. QED
    BY <1>3, <1>6, <2>1 DEF n
<1>. HIDE DEF n
<1>8. /\ Charge(x.reservations[n], "rows") = q.limit /\ Charge(e, "rows") = k
      /\ Charge(x.reservations[n], "attempts") = 1 /\ Charge(e, "attempts") = 1
  BY <1>6 DEF Charge
<1>9. \A S : \A kind \in Kinds :
        Cost(x.reservations, S, kind) \in Nat /\ Cost(y.reservations, S, kind) \in Nat
  BY <1>1, <1>3, Parts, CostOf
<1>10. \A S : /\ Cost(y.reservations, S, "attempts") = Cost(x.reservations, S, "attempts")
              /\ Cost(y.reservations, S, "rows")
                   = IF Current(x) \in S THEN Cost(x.reservations, S, "rows") - q.limit + k
                     ELSE Cost(x.reservations, S, "rows")
  BY <1>7, <1>8, <1>9 DEF Kinds
<1>11. \A S : \A kind \in Kinds : Cost(y.reservations, S, kind) <= Cost(x.reservations, S, kind)
  BY <1>5, <1>9, <1>10 DEF Kinds
<1>12. Current(x) \in DOMAIN x.invocations
  BY <1>1, <1>6, LenProperties, EmptySeq DEF Balanced, n
<1>13. \A kind \in Kinds :
         /\ Total(x, kind) = Cost(x.reservations, DOMAIN x.invocations, kind)
         /\ Total(y, kind) = Cost(y.reservations, DOMAIN x.invocations, kind)
  BY <1>1, <1>3, TotalOf
<1>14. \A i : \A kind \in Kinds :
         /\ Usage(x, i)[kind] = Cost(x.reservations, {i}, kind)
         /\ Usage(y, i)[kind] = Cost(y.reservations, {i}, kind)
  <2>1. ASSUME NEW i, NEW kind \in Kinds
        PROVE  /\ Usage(x, i)[kind] = Cost(x.reservations, {i}, kind)
               /\ Usage(y, i)[kind] = Cost(y.reservations, {i}, kind)
    <3>1. Usage(x, i)[kind] = Cost(x.reservations, {i}, kind)
      BY <1>1, TotalOf
    <3>2. Usage(y, i)[kind] = Cost(y.reservations, {i}, kind)
      BY <1>3, TotalOf
    <3>. QED
      BY <3>1, <3>2
  <2>. QED
    BY <2>1
<1>15. /\ Total(y, "attempts") = Total(x, "attempts")
       /\ Total(y, "rows") = Total(x, "rows") - q.limit + k
  BY <1>10, <1>12, <1>13 DEF Kinds
<1>16. \A i : i # Current(x) => Usage(y, i) = Usage(x, i)
  <2>1. ASSUME NEW i, i # Current(x)
        PROVE  Usage(y, i) = Usage(x, i)
    <3>1. PICK f, g : f = Usage(y, i) /\ g = Usage(x, i)
      OBVIOUS
    <3>2. f \in [Kinds -> Nat] /\ g \in [Kinds -> Nat]
      BY <1>1, <1>3, <3>1, TotalOf
    <3>3. \A kind \in Kinds : Cost(y.reservations, {i}, kind) = Cost(x.reservations, {i}, kind)
      <4>1. PICK S : S = {i}
        OBVIOUS
      <4>3. Current(x) \notin S
        BY <2>1, <4>1
      <4>2. \A kind \in Kinds : Cost(y.reservations, S, kind) = Cost(x.reservations, S, kind)
        BY <1>10, <4>3 DEF Kinds
      <4>. QED
        BY <4>1, <4>2
    <3>5. \A kind \in Kinds : f[kind] = g[kind]
      BY <1>14, <3>1, <3>3
    <3>4. f = g
      BY <3>2, <3>5
    <3>. QED
      BY <3>1, <3>4
  <2>. QED
    BY <2>1
<1>17. Balanced(y)
  <2>1. \A i \in DOMAIN y.reservations : y.reservations[i].invocation \in DOMAIN y.invocations
    <3>1. PICK r : r = x.reservations
      OBVIOUS
    <3>2. r \in Seq(Receipt) /\ r # <<>> /\ y.reservations = [r EXCEPT ![Len(r)] = e]
      BY <1>1, <1>3, <3>1 DEF n
    <3>3. /\ DOMAIN y.reservations = DOMAIN r /\ y.reservations[Len(r)] = e
          /\ \A i \in DOMAIN r : i # Len(r) => y.reservations[i] = r[i]
      BY <1>3, <3>2, LastPut
    <3>4. \A i \in DOMAIN r : r[i].invocation \in DOMAIN x.invocations
      BY <1>1, <3>1 DEF Balanced
    <3>. QED
      BY <1>3, <1>6, <1>12, <3>3, <3>4
  <2>2. \A i \in DOMAIN y.invocations : i # Current(y) => y.invocations[i].consumed = Usage(y, i)
    BY <1>1, <1>3, <1>16 DEF Balanced, Current
  <2>3. \A i \in DOMAIN y.invocations :
          \A kind \in Kinds : Usage(y, i)[kind] <= y.invocations[i].grant[kind]
    <3>1. ASSUME NEW i \in DOMAIN x.invocations, NEW kind \in Kinds
          PROVE  Usage(y, i)[kind] <= x.invocations[i].grant[kind]
      <4>1. Usage(x, i)[kind] <= x.invocations[i].grant[kind]
        BY <1>1 DEF Balanced
      <4>2. /\ Usage(y, i)[kind] <= Usage(x, i)[kind]
            /\ Usage(y, i)[kind] \in Nat /\ Usage(x, i)[kind] \in Nat
        <5>1. PICK S : S = {i}
          OBVIOUS
        <5>2. /\ Cost(y.reservations, S, kind) <= Cost(x.reservations, S, kind)
              /\ Cost(x.reservations, S, kind) \in Nat /\ Cost(y.reservations, S, kind) \in Nat
          BY <1>9, <1>11
        <5>3. /\ Usage(x, i)[kind] = Cost(x.reservations, S, kind)
              /\ Usage(y, i)[kind] = Cost(y.reservations, S, kind)
          BY <1>14, <5>1
        <5>. QED
          BY <5>2, <5>3
      <4>3. x.invocations[i].grant[kind] \in Nat
        BY <1>1, Parts, BudgetAssumption DEF Invocation, Budget, Kinds
      <4>. QED
        BY <4>1, <4>2, <4>3
    <3>. QED
      BY <1>3, <3>1
  <2>4. \A i, j \in DOMAIN y.invocations :
          y.invocations[i].key # NoKey /\ y.invocations[j].key = y.invocations[i].key => j = i
    BY <1>1, <1>3 DEF Balanced
  <2>5. \A kind \in Kinds : Total(y, kind) <= Ceilings[kind]
    <3>1. ASSUME NEW kind \in Kinds PROVE Total(y, kind) <= Ceilings[kind]
      <4>1. Total(x, kind) <= Ceilings[kind] /\ Ceilings[kind] \in Nat
        BY <1>1, BudgetAssumption DEF Balanced, Budget, Kinds
      <4>2. Total(y, kind) <= Total(x, kind) /\ Total(y, kind) \in Nat /\ Total(x, kind) \in Nat
        BY <1>9, <1>11, <1>13
      <4>. QED
        BY <4>1, <4>2
    <3>. QED
      BY <3>1
  <2>. QED
    BY <1>3, <2>1, <2>2, <2>3, <2>4, <2>5 DEF Balanced
<1>. QED
  BY <1>3, <1>4, <1>15, <1>17

\* Closing an interrupted invocation changes its state alone.
LEMMA InterruptedLedger ==
  ASSUME NEW x \in Manifest, NEW z, z = Interrupted(x).invocations
  PROVE  /\ z \in Seq(Invocation) /\ Len(z) = Current(x) /\ DOMAIN z = DOMAIN x.invocations
         /\ \A i \in DOMAIN z : /\ z[i].key = x.invocations[i].key
                                /\ z[i].grant = x.invocations[i].grant
                                /\ z[i].consumed = x.invocations[i].consumed
<1>1. PICK s, n : s = x.invocations /\ n = Current(x)
  OBVIOUS
<1>2. /\ s \in Seq(Invocation) /\ n = Len(s) /\ "invocations" \in DOMAIN x
      /\ s # <<>> => n \in DOMAIN s /\ s[n] \in Invocation
  <2>1. x.invocations # <<>> => Current(x) \in DOMAIN x.invocations /\ x.invocations[Current(x)] \in Invocation
    BY Parts
  <2>2. /\ x.invocations \in Seq(Invocation) /\ "invocations" \in DOMAIN x
    BY DEF Manifest
  <2>. QED
    BY <1>1, <2>1, <2>2 DEF Current
<1>3. CASE z = s
  BY <1>1, <1>2, <1>3
<1>4. CASE s # <<>> /\ z = [s EXCEPT ![n] = [s[n] EXCEPT !.state = "interrupted"]]
  <2>1. PICK e : e = [s[n] EXCEPT !.state = "interrupted"]
    OBVIOUS
  <2>2. e \in Invocation /\ e.key = s[n].key /\ e.grant = s[n].grant /\ e.consumed = s[n].consumed
    BY <1>2, <1>4, <2>1 DEF Invocation, States
  <2>3. /\ z \in Seq(Invocation) /\ Len(z) = n /\ z[n] = e /\ DOMAIN z = DOMAIN s
        /\ \A i \in DOMAIN s : i # n => z[i] = s[i]
    BY <1>2, <1>4, <2>1, <2>2, LastPut
  <2>. QED
    BY <1>1, <2>2, <2>3
<1>5. z = s \/ (s # <<>> /\ z = [s EXCEPT ![n] = [s[n] EXCEPT !.state = "interrupted"]])
  <2>1. Interrupted(x) = x \/ (s # <<>> /\ Interrupted(x) = [x EXCEPT !.invocations[n].state = "interrupted"])
    BY <1>1 DEF Interrupted
  <2>2. [x EXCEPT !.invocations[n].state = "interrupted"].invocations
          = [s EXCEPT ![n] = [s[n] EXCEPT !.state = "interrupted"]]
    BY <1>1, <1>2
  <2>. QED
    BY <1>1, <2>1, <2>2
<1>. QED
  BY <1>3, <1>4, <1>5

\* A grant of a key that is not in the ledger becomes its last invocation.
LEMMA GrantedBalanced ==
  ASSUME NEW x, Within(x), args.key \in Keys, args.grant \in Grants, Matches(x) = {},
         NEW y, y = Granted(x)
  PROVE  /\ Balanced(y) /\ y.reservations = x.reservations /\ DOMAIN x.invocations \subseteq DOMAIN y.invocations
         /\ \A kind \in Kinds : Total(y, kind) = Total(x, kind)
<1>1. PICK s, n, z : s = x.invocations /\ n = Current(x) /\ z = Interrupted(x).invocations
  OBVIOUS
<1>2. /\ x \in Manifest /\ Balanced(x) /\ s \in Seq(Invocation) /\ x.reservations \in Seq(Receipt)
      /\ n \in Nat /\ DOMAIN s = 1 .. n
  BY <1>1, WithinBalanced, Parts
<1>3. /\ z \in Seq(Invocation) /\ Len(z) = n /\ DOMAIN z = DOMAIN s
      /\ \A i \in DOMAIN s : /\ z[i].key = s[i].key /\ z[i].grant = s[i].grant
                             /\ z[i].consumed = s[i].consumed
  BY <1>1, <1>2, InterruptedLedger
<1>4. PICK e : e = [key |-> args.key, grant |-> args.grant, state |-> "extracting",
                    consumed |-> [kind \in Kinds |-> 0]]
  OBVIOUS
<1>5. e \in Invocation /\ e.key = args.key
  BY <1>4 DEF Invocation, States
<1>6. PICK t : t = Append(z, e)
  OBVIOUS
<1>7. /\ t \in Seq(Invocation) /\ Len(t) = n + 1 /\ DOMAIN t = 1 .. (n + 1) /\ t[n + 1] = e
      /\ \A i \in 1 .. n : t[i] = z[i]
  BY <1>2, <1>3, <1>5, <1>6, AppendProperties, LenProperties
<1>8. y = [x EXCEPT !.invocations = t]
  BY <1>1, <1>4, <1>6 DEF Granted, Opened
<1>9. y \in Manifest /\ y.invocations = t /\ y.reservations = x.reservations
  BY <1>2, <1>7, <1>8 DEF Manifest
<1>10. Current(y) = n + 1
  BY <1>7, <1>9 DEF Current
<1>11. \A i \in DOMAIN x.reservations : x.reservations[i].invocation \in 1 .. n
  BY <1>1, <1>2 DEF Balanced
<1>12. \A kind \in Kinds : Total(y, kind) = Total(x, kind)
  <2>1. Of(x.reservations, DOMAIN t) = Of(x.reservations, DOMAIN s)
    BY <1>2, <1>7, <1>11 DEF Of
  <2>2. \A kind \in Kinds : Cost(x.reservations, DOMAIN t, kind) = Cost(x.reservations, DOMAIN s, kind)
    BY <2>1 DEF Cost
  <2>3. ASSUME NEW kind \in Kinds
        PROVE  Total(y, kind) = Total(x, kind)
    <3>1. Total(y, kind) = Cost(y.reservations, DOMAIN y.invocations, kind)
      BY <1>9, TotalOf
    <3>2. Total(x, kind) = Cost(x.reservations, DOMAIN x.invocations, kind)
      BY <1>2, TotalOf
    <3>. QED
      BY <1>1, <1>9, <2>2, <3>1, <3>2
  <2>. QED
    BY <2>3
<1>13. \A i : Usage(y, i) = Usage(x, i)
  BY <1>9 DEF Usage, Consumed
<1>14. \A kind \in Kinds : Usage(x, n + 1)[kind] = 0
  <2>1. PICK S : S = {n + 1}
    OBVIOUS
  <2>2. Of(x.reservations, S) = {}
    BY <1>2, <1>11, <2>1 DEF Of
  <2>3. \A kind \in Kinds : Cost(x.reservations, S, kind) = 0
    BY <1>2, <2>2, CostOf
  <2>. QED
    BY <1>2, <2>1, <2>3, UsageOf
<1>15. Balanced(y)
  <2>1. \A i \in DOMAIN y.reservations : y.reservations[i].invocation \in DOMAIN y.invocations
    BY <1>2, <1>7, <1>9, <1>11
  <2>2. \A i \in DOMAIN y.invocations : i # Current(y) => y.invocations[i].consumed = Usage(y, i)
    <3>1. \A i \in 1 .. n : s[i].consumed = Usage(x, i)
      BY <1>1, <1>2 DEF Within, GrantsRespected
    <3>2. \A i \in DOMAIN t : i # n + 1 => i \in 1 .. n
      BY <1>2, <1>7
    <3>. QED
      BY <1>2, <1>3, <1>7, <1>9, <1>10, <1>13, <3>1, <3>2
  <2>3. \A i \in DOMAIN y.invocations :
          \A kind \in Kinds : Usage(y, i)[kind] <= y.invocations[i].grant[kind]
    <3>1. \A i \in 1 .. n : \A kind \in Kinds : Usage(x, i)[kind] <= t[i].grant[kind]
      BY <1>1, <1>2, <1>3, <1>7 DEF Balanced
    <3>2. \A kind \in Kinds : Usage(x, n + 1)[kind] <= t[n + 1].grant[kind]
      <4>1. \A kind \in Kinds : args.grant[kind] \in Nat
        BY BudgetAssumption DEF Budget, Kinds
      <4>2. t[n + 1].grant = args.grant
        BY <1>4, <1>7
      <4>. QED
        BY <1>14, <4>1, <4>2
    <3>3. \A i \in DOMAIN t : i = n + 1 \/ i \in 1 .. n
      BY <1>2, <1>7
    <3>. QED
      BY <1>9, <1>13, <3>1, <3>2, <3>3
  <2>4. \A i, j \in DOMAIN y.invocations :
          y.invocations[i].key # NoKey /\ y.invocations[j].key = y.invocations[i].key => j = i
    <3>1. \A i, j \in 1 .. n : t[i].key # NoKey /\ t[j].key = t[i].key => j = i
      <4>1. \A i, j \in 1 .. n : s[i].key # NoKey /\ s[j].key = s[i].key => j = i
        BY <1>1, <1>2 DEF Balanced
      <4>2. \A i \in 1 .. n : t[i].key = s[i].key
        BY <1>2, <1>3, <1>7
      <4>. QED
        BY <4>1, <4>2
    <3>2. \A i \in 1 .. n : args.key = NoKey \/ t[i].key # args.key
      BY <1>1, <1>2, <1>3, <1>7 DEF Matches
    <3>3. \A i \in DOMAIN t : i = n + 1 \/ i \in 1 .. n
      BY <1>2, <1>7
    <3>4. t[n + 1].key = args.key
      BY <1>5, <1>7
    <3>5. ASSUME NEW i \in DOMAIN t, NEW j \in DOMAIN t, t[i].key # NoKey, t[j].key = t[i].key
          PROVE  j = i
      BY <3>1, <3>2, <3>3, <3>4, <3>5
    <3>. QED
      BY <1>9, <3>5
  <2>5. \A kind \in Kinds : Total(y, kind) <= Ceilings[kind]
    BY <1>2, <1>12 DEF Balanced
  <2>. QED
    BY <1>9, <2>1, <2>2, <2>3, <2>4, <2>5 DEF Balanced
<1>. QED
  BY <1>1, <1>2, <1>7, <1>9, <1>12, <1>15

\* What is asked of the source next.
LEMMA LimitOf ==
  ASSUME NEW x \in Manifest, x.invocations # <<>>, Lane(x) # None, Refusal(x, Needed(x)) = None
  PROVE  /\ Lane(x) \in Lanes /\ Limit(x) \in Nat /\ Affords(x, Limit(x))
         /\ Lane(x) = "scope_scan" => Limit(x) \in 1 .. PageSize
<1>1. Lane(x) \in Lanes
  <2>. DEFINE v == x.verified
              s == x.scanned
  <2>1. Lane(x) = IF ~v THEN "metadata" ELSE IF ~s THEN "scope_scan"
                  ELSE IF ~MembersDone(x) THEN "baseline_check" ELSE None
    BY DEF Lane
  <2>. QED
    BY <2>1 DEF Lanes
<1>2. CASE Lane(x) = "metadata"
  <2>1. Limit(x) = 0 /\ Needed(x) = 0
    BY <1>2 DEF Limit, Needed
  <2>. QED
    BY <1>1, <1>2, <2>1, NotRefused
<1>3. CASE Lane(x) = "scope_scan"
  <2>1. Limit(x) = Least(PageSize, Left(x, "rows")) /\ Needed(x) = 1
    BY <1>3 DEF Limit, Needed
  <2>2. Affords(x, 1) /\ 1 <= Left(x, "rows")
    BY <2>1, NotRefused
  <2>3. /\ Left(x, "rows") \in Int /\ PageSize \in Nat \ {0}
        /\ Left(x, "rows") <= CampaignLeft(x, "rows") /\ Left(x, "rows") <= GrantLeft(x, "rows")
        /\ CampaignLeft(x, "rows") \in Int /\ GrantLeft(x, "rows") \in Int
    BY LeftIsInt, TransportAssumption DEF Kinds
  <2>4. /\ Limit(x) \in 1 .. PageSize /\ Limit(x) <= Left(x, "rows")
    BY <2>1, <2>2, <2>3 DEF Least
  <2>5. Affords(x, Limit(x))
    BY <2>2, <2>3, <2>4 DEF Affords
  <2>. QED
    BY <1>1, <2>4, <2>5
<1>4. CASE Lane(x) = "baseline_check"
  <2>1. Limit(x) = Cardinality(Batch(x.offset)) /\ Needed(x) = Limit(x)
    BY <1>4 DEF Limit, Needed
  <2>2. Batch(x.offset) \subseteq Contracts
    BY DEF Batch, First, Contracts
  <2>3. IsFiniteSet(Batch(x.offset))
    BY <2>2, FS_Subset, SourceAssumption
  <2>4. Limit(x) \in Nat
    BY <2>1, <2>3, FS_CardinalityType
  <2>. QED
    BY <1>1, <1>4, <2>1, <2>4, NotRefused
<1>. QED
  BY <1>1, <1>2, <1>3, <1>4 DEF Lanes

\* The answer to the request under way fits it.
LEMMA AskingAnswered ==
  ASSUME Within(m), Asking
  PROVE  Answered(m, query) /\ (query.lane = "baseline_check" => query.limit = Cardinality(Batch(m.offset)))
<1>1. /\ query.lane = Lane(m) /\ query.lane \in Lanes
      /\ m.reservations # <<>> /\ m.reservations[Len(m.reservations)] = Reservation(m, query)
      /\ m \in Manifest
  BY DEF Asking, Within
<1>2. query.limit \in Nat /\ (query.lane = "baseline_check" => query.limit = Cardinality(Batch(m.offset)))
  <2>1. CASE query.lane = "metadata"
    <3>1. query.limit = 0
      BY <1>1, <2>1 DEF Asking, Limit
    <3>. QED
      BY <2>1, <3>1
  <2>2. CASE query.lane = "scope_scan"
    BY <2>2, TransportAssumption DEF Asking
  <2>3. CASE query.lane = "baseline_check"
    <3>1. query.limit = Cardinality(Batch(m.offset))
      BY <1>1, <2>3 DEF Asking, Limit
    <3>2. Batch(m.offset) \subseteq Contracts
      BY DEF Batch, First, Contracts
    <3>3. IsFiniteSet(Batch(m.offset))
      BY <3>2, FS_Subset, SourceAssumption
    <3>. QED
      BY <3>1, <3>3, FS_CardinalityType
  <2>. QED
    BY <1>1, <2>1, <2>2, <2>3 DEF Lanes
<1>3. /\ query.answer \subseteq Contracts /\ IsFiniteSet(query.answer)
      /\ Cardinality(query.answer) \in Nat /\ Cardinality(query.answer) <= query.limit
  <2>1. CASE query.answer = {}
    BY <1>2, <2>1, FS_EmptySet
  <2>2. ASSUME NEW v \in Versions, query.answer = Answer(m, query.lane, query.limit, v)
        PROVE  /\ query.answer \subseteq Contracts /\ IsFiniteSet(query.answer)
               /\ Cardinality(query.answer) \in Nat /\ Cardinality(query.answer) <= query.limit
    <3>1. /\ IsFiniteSet(query.answer)
          /\ Cardinality(query.answer) \in Nat /\ Cardinality(query.answer) <= query.limit
      BY <1>1, <1>2, <2>2, AnswerIsBounded DEF Lanes
    <3>2. query.answer \subseteq Contracts
      <4>1. v \subseteq Contracts
        BY DEF Contracts
      <4>2. query.answer = {} \/ query.answer \subseteq v
        BY <1>1, <2>2 DEF Answer, First, Lanes
      <4>. QED
        BY <4>1, <4>2
    <3>. QED
      BY <3>1, <3>2
  <2>. QED
    BY <2>1, <2>2 DEF Asking
<1>. QED
  BY <1>1, <1>2, <1>3 DEF Answered

\* A step keeps a manifest within its grants by keeping what it is written from.
LEMMA WithinNext ==
  /\ Within(page)' <=> Within(page')
  /\ Within(m)' <=> Within(m')
  /\ Within(run.manifest)' <=> Within(run'.manifest)
BY DEF Within, GrantsRespected, Usage, Total, Consumed, Charge

-----------------------------------------------------------------------------
(* The ledger of every step *)

\* What is persisted or published from a balanced manifest is within its grants.
LEMMA PersistedWithin ==
  ASSUME NEW x, Balanced(x), NEW s \in States
  PROVE  Within(Persisted(x, s)) /\ Rewrites(x, Persisted(x, s))
<1>1. x \in Manifest
  BY DEF Balanced
<1>2. Persisted(x, s) \in Manifest /\ Rewrites(x, Persisted(x, s))
  BY <1>1, PersistedRewrites
<1>. QED
  BY <1>2, BalancedWithin

\* What is published from a balanced manifest is within its grants.
LEMMA PublishedWithin ==
  ASSUME NEW x, Balanced(x), outcome \in {"acquired", "truncated"}
  PROVE  Within(Published(x)) /\ Rewrites(x, Published(x))
<1>1. x \in Manifest /\ outcome \in States
  BY DEF Balanced, States
<1>2. Published(x) \in Manifest /\ Rewrites(x, Published(x))
  BY <1>1, PublishedRewrites
<1>. QED
  BY <1>2, BalancedWithin

\* What is asked next, and its charge, are read from what a rewrite keeps.
LEMMA RewritesPlan ==
  ASSUME NEW x, NEW y, Rewrites(x, y)
  PROVE  /\ Lane(y) = Lane(x) /\ Batch(y.offset) = Batch(x.offset) /\ y.reservations = x.reservations
         /\ \A q : Reservation(y, q) = Reservation(x, q)
<1>1. /\ y.verified = x.verified /\ y.scanned = x.scanned /\ y.offset = x.offset
      /\ y.reservations = x.reservations /\ Current(y) = Current(x)
  BY DEF Rewrites
<1>2. Lane(y) = Lane(x)
  BY <1>1, Zenon DEF Lane, MembersDone
<1>. QED
  BY <1>1, <1>2 DEF Reservation

\* A process that has ended, or works on nothing.
LEMMA LedgerIdle ==
  ASSUME LedgerIInv, pc' \notin Working,
         pc' # "off" => args'.key \in Keys /\ args'.grant \in Grants,
         page' = None \/ page' = page \/ Within(page'),
         run' = run \/ Within(run'.manifest)
  PROVE  LedgerIInv'
<1>1. page' # None => Within(page')
  BY DEF LedgerIInv
<1>2. run' # NoRun => Within(run'.manifest)
  BY DEF LedgerIInv
<1>3. (page # None => Within(page))' /\ (run # NoRun => Within(run.manifest))'
  BY <1>1, <1>2, WithinNext
<1>. HIDE DEF Within
<1>. QED
  BY <1>3 DEF LedgerIInv, Working, Requesting

\* A process at work on a manifest within its grants.
LEMMA LedgerWorks ==
  ASSUME LedgerIInv, pc # "off", pc' # "off", UNCHANGED <<args, run>>, Within(m'),
         page' = None \/ page' = page \/ Within(page'),
         pc' \in Requesting => Asking',
         pc' \in {"finish", "recovered"} => outcome' \in {"acquired", "truncated"}
  PROVE  LedgerIInv'
<1>1. page' # None => Within(page')
  BY DEF LedgerIInv
<1>2. run' # NoRun => Within(run'.manifest)
  BY DEF LedgerIInv
<1>3. (page # None => Within(page))' /\ (run # NoRun => Within(run.manifest))' /\ Within(m)'
  BY <1>1, <1>2, WithinNext
<1>4. args'.key \in Keys /\ args'.grant \in Grants
  BY DEF LedgerIInv
<1>. QED
  BY <1>3, <1>4 DEF LedgerIInv

\* The process does nothing.
LEMMA LedgerSame ==
  ASSUME LedgerIInv, UNCHANGED process,
         page' = None \/ page' = page, run' = run \/ Within(run'.manifest)
  PROVE  LedgerIInv'
<1>1. page' # None => Within(page')
  BY DEF LedgerIInv
<1>2. run' # NoRun => Within(run'.manifest)
  BY DEF LedgerIInv
<1>3. (page # None => Within(page))' /\ (run # NoRun => Within(run.manifest))'
  BY <1>1, <1>2, WithinNext
<1>4. UNCHANGED <<pc, args, m, query, outcome>>
  BY DEF process
<1>5. Within(m)' <=> Within(m)
  BY <1>4, WithinNext
<1>6. Asking' <=> Asking
  BY <1>4 DEF Asking, Reservation, Current, Lane, Limit, MembersDone, Left,
         CampaignLeft, GrantLeft, Total, Consumed, Charge, Last, Batch,
         Answer
<1>. QED
  BY <1>3, <1>4, <1>5, <1>6 DEF LedgerIInv

\* Every exception and every stop.
LEMMA RaiseLedger ==
  ASSUME LedgerIInv, NEW x, Balanced(x), Raise(x)
  PROVE  LedgerIInv'
<1>1. pc' = "off"
  BY DEF Raise, Exit
<1>2. CASE UNCHANGED disk
  BY <1>1, <1>2, LedgerIdle DEF Working, Requesting, disk, staging
<1>3. CASE Persist(x, "failed_recoverable")
  <2>1. page' = Persisted(x, "failed_recoverable") /\ run' = run
    BY <1>3 DEF Persist, Write
  <2>2. Within(page')
    BY <2>1, PersistedWithin DEF States
  <2>. QED
    BY <1>1, <2>1, <2>2, LedgerIdle DEF Working, Requesting
<1>. QED
  BY <1>2, <1>3 DEF Raise

\* A refused attempt ends the campaign or persists its pause, within the grants.
LEMMA StopLedger ==
  ASSUME LedgerIInv, pc \in Working, NEW refusal, Stop(m, refusal)
  PROVE  LedgerIInv'
<1>1. Within(m) /\ Balanced(m) /\ pc # "off"
  BY WithinBalanced DEF LedgerIInv, Working, Requesting
<1>2. CASE m' = m /\ pc' = "finish" /\ outcome' = "truncated" /\ UNCHANGED <<disk, args>>
  <2>1. UNCHANGED <<page, run, args>> /\ Within(m')
    BY <1>1, <1>2 DEF disk, staging
  <2>. QED
    BY <1>1, <1>2, <2>1, LedgerWorks DEF Requesting
<1>3. CASE Persist(m, "paused_budget") /\ Exit
  <2>1. pc' = "off" /\ run' = run /\ page' = Persisted(m, "paused_budget")
    BY <1>3 DEF Persist, Write, Exit
  <2>2. Within(page')
    BY <1>1, <2>1, PersistedWithin DEF States
  <2>. QED
    BY <2>1, <2>2, LedgerIdle DEF Working, Requesting
<1>. QED
  BY <1>2, <1>3 DEF Stop

\* The steps of a command before it is granted anything and its end, and clean-staging,
\* keep the manifests.
LEMMA OpenParts ==
  ASSUME PublishedIInv,
         \/ \E key \in Keys, grant \in Grants : Invoke(key, grant)
         \/ Reconcile \/ CommitRun \/ MarkCommitted \/ AlreadyPublished \/ Start
         \/ Crash \/ Clean
  PROVE  /\ page' = None \/ page' = page
         /\ run' = run \/ (run # NoRun /\ run' # NoRun /\ run'.manifest = run.manifest)
<1>1. page' = None \/ page' = page
  BY DEF Invoke, Reconcile, CommitRun, MarkCommitted, AlreadyPublished, Start, Crash, Clean,
         CleanOpens, CleanUnlinks, CleanEnds, disk, staging
<1>2. run # NoRun => run = [manifest |-> run.manifest, files |-> run.files, status |-> run.status]
                     /\ run.status # "absent"
  BY DEF PublishedIInv
<1>3. CASE MarkCommitted
  <2>1. run # NoRun /\ run' = [run EXCEPT !.status = "committed"]
    BY <1>3 DEF MarkCommitted, PublishedIInv
  <2>2. run'.manifest = run.manifest /\ run'.status = "committed"
    BY <1>2, <2>1
  <2>. QED
    BY <1>1, <2>1, <2>2 DEF NoRun
<1>4. CASE CleanUnlinks
  <2>1. CASE removal = "run"
    <3>1. run # NoRun
      BY <2>1 DEF PublishedIInv
    <3>2. CASE run' = [run EXCEPT !.status = "unreadable"]
      <4>1. run'.manifest = run.manifest /\ run'.status = "unreadable"
        BY <1>2, <3>1, <3>2
      <4>. QED
        BY <1>1, <3>1, <4>1 DEF NoRun
    <3>3. ASSUME NEW pages, run' = [run EXCEPT !.files = pages]
          PROVE  run # NoRun /\ run' # NoRun /\ run'.manifest = run.manifest
      <4>1. run'.manifest = run.manifest /\ run'.status = run.status
        BY <1>2, <3>1, <3>3
      <4>. QED
        BY <1>2, <3>1, <4>1 DEF NoRun
    <3>. QED
      BY <1>1, <1>4, <2>1, <3>2, <3>3 DEF CleanUnlinks
  <2>. QED
    BY <1>1, <1>4, <2>1 DEF CleanUnlinks
<1>5. CASE ~MarkCommitted /\ ~CleanUnlinks
  BY <1>1, <1>5 DEF Invoke, Reconcile, CommitRun, AlreadyPublished, Start, Crash, Clean, CleanOpens,
         CleanEnds, disk, staging
<1>. QED
  BY <1>3, <1>4, <1>5

\* They keep every manifest within its grants.
LEMMA OpenLedger ==
  ASSUME LedgerIInv, PublishedIInv,
         \/ \E key \in Keys, grant \in Grants : Invoke(key, grant)
         \/ Reconcile \/ CommitRun \/ MarkCommitted \/ AlreadyPublished \/ Start
         \/ Crash \/ Clean
  PROVE  LedgerIInv'
<1>1. page' = None \/ page' = page
  BY OpenParts
<1>2. run' = run \/ Within(run'.manifest)
  BY OpenParts DEF LedgerIInv
<1>3. CASE \E key \in Keys, grant \in Grants : Invoke(key, grant)
  <2>1. PICK key \in Keys, grant \in Grants : Invoke(key, grant)
    BY <1>3
  <2>2. pc' = "open" /\ args'.key \in Keys /\ args'.grant \in Grants
    BY <2>1 DEF Invoke
  <2>. QED
    BY <1>1, <1>2, <2>2, LedgerIdle DEF Working, Requesting
<1>4. CASE Exit
  <2>1. pc' = "off"
    BY <1>4 DEF Exit
  <2>. QED
    BY <1>1, <1>2, <2>1, LedgerIdle DEF Working, Requesting
<1>5. CASE UNCHANGED process
  BY <1>1, <1>2, <1>5, LedgerSame
<1>6. CASE pc # "off" /\ pc' \in {"open", "reconcile", "create"} /\ UNCHANGED args
  <2>1. args'.key \in Keys /\ args'.grant \in Grants
    BY <1>6 DEF LedgerIInv
  <2>. QED
    BY <1>1, <1>2, <1>6, <2>1, LedgerIdle DEF Working, Requesting
<1>7. CASE Reconcile \/ MarkCommitted \/ Start
  <2>1. Exit \/ (pc # "off" /\ pc' \in {"open", "reconcile", "create"} /\ UNCHANGED args)
    BY <1>7 DEF Reconcile, MarkCommitted, Start, Goto
  <2>. QED
    BY <1>4, <1>6, <2>1
<1>. QED
  BY <1>3, <1>4, <1>5, <1>7 DEF CommitRun, AlreadyPublished, Crash, Clean, CleanOpens,
         CleanUnlinks, CleanEnds

\* A campaign is begun, or loaded.
LEMMA LoadLedger ==
  ASSUME LedgerIInv, Create \/ Load
  PROVE  LedgerIInv'
<1>1. CASE Create
  <2>1. pc' = "grant" /\ page' = Planned /\ m' = Planned /\ UNCHANGED <<run, args>> /\ pc # "off"
    BY <1>1 DEF Create, Write, Goto
  <2>2. Within(m') /\ Within(page')
    BY <2>1, PlannedWithin
  <2>. QED
    BY <2>1, <2>2, LedgerWorks DEF Requesting
<1>2. CASE Load /\ Exit
  <2>1. UNCHANGED <<page, run>> /\ pc' = "off"
    BY <1>2 DEF Load, disk, staging, Exit
  <2>. QED
    BY <2>1, LedgerIdle DEF Working, Requesting
<1>3. CASE Load /\ ~Exit
  <2>1. /\ UNCHANGED <<page, run, args>> /\ m' = page /\ pc # "off" /\ page # None
        /\ pc' = "grant" \/ (pc' = "recovered" /\ outcome' = "acquired")
    BY <1>3 DEF Load, disk, staging, Goto
  <2>2. Within(m')
    BY <2>1 DEF LedgerIInv
  <2>. QED
    BY <2>1, <2>2, LedgerWorks DEF Requesting
<1>. QED
  BY <1>1, <1>2, <1>3

\* A grant is resumed, or becomes the current invocation.
LEMMA GrantLedger ==
  ASSUME LedgerIInv, ResumeGrant \/ NewGrant
  PROVE  LedgerIInv'
<1>1. pc = "grant" /\ Within(m) /\ Balanced(m)
  BY WithinBalanced DEF LedgerIInv, ResumeGrant, Write, NewGrant, Working, Requesting
<1>2. ASSUME NEW x, Balanced(x), m' = Persisted(x, "extracting"), page' = m', Goto("plan"),
             UNCHANGED run
      PROVE  LedgerIInv'
  <2>1. Within(m') /\ Within(page')
    BY <1>2, PersistedWithin DEF States
  <2>2. pc' = "plan" /\ args' = args
    BY <1>2 DEF Goto
  <2>. QED
    BY <1>1, <1>2, <2>1, <2>2, LedgerWorks DEF Requesting
<1>3. CASE ResumeGrant
  BY <1>1, <1>2, <1>3 DEF ResumeGrant, Write
<1>4. CASE NewGrant
  <2>1. CASE Stop(m, "campaign")
    BY <1>1, <2>1, StopLedger DEF Working
  <2>2. CASE Raise(m)
    BY <1>1, <2>2, RaiseLedger
  <2>3. CASE m' = Persisted(Granted(m), "extracting") /\ page' = m' /\ Goto("plan") /\ UNCHANGED run
    <3>1. Balanced(Granted(m))
      <4>1. Matches(m) = {}
        BY <1>4 DEF NewGrant, Write
      <4>2. args.key \in Keys /\ args.grant \in Grants
        BY <1>1 DEF LedgerIInv
      <4>. QED
        BY <1>1, <4>1, <4>2, GrantedBalanced
    <3>. QED
      BY <1>2, <2>3, <3>1
  <2>. QED
    BY <1>4, <2>1, <2>2, <2>3 DEF NewGrant, Write
<1>. QED
  BY <1>3, <1>4

\* What the plan asks for, affordably and for the first time.
Asks(q) ==
  /\ q.lane = Lane(m) /\ q.lane \in Lanes /\ q.limit \in Nat /\ q.answer = {}
  /\ q.limit \in IF q.lane = "scope_scan" THEN 1 .. PageSize ELSE {Limit(m)}
  /\ Affords(m, q.limit)

\* A reservation that is durable before its attempt.
LEMMA ReserveParts ==
  ASSUME Within(m), m.invocations # <<>>, NEW q, Asks(q), Reserve(q)
  PROVE  /\ Within(m') /\ page' = m' /\ query' = q /\ pc' = "reserved" /\ UNCHANGED <<args, run>>
         /\ Asking' /\ Current(m') = Current(m)
         /\ \A kind \in Kinds : Total(m', kind) = Total(m, kind) + Price(q, kind)
<1>1. PICK x : x = m
  OBVIOUS
<1>2. PICK y : y = [x EXCEPT !.reservations = Append(@, Reservation(x, q))]
  OBVIOUS
<1>3. PICK z : z = Persisted(y, "extracting")
  OBVIOUS
<1>4. m' = z /\ page' = m' /\ query' = q /\ pc' = "reserved" /\ UNCHANGED <<args, run>>
  BY <1>1, <1>2, <1>3 DEF Reserve, Write
<1>5. /\ q.lane = Lane(x) /\ q.lane \in Lanes /\ q.limit \in Nat /\ q.answer = {}
      /\ q.limit \in IF q.lane = "scope_scan" THEN 1 .. PageSize ELSE {Limit(x)}
      /\ Affords(x, q.limit) /\ Within(x) /\ x.invocations # <<>>
  BY <1>1 DEF Asks
<1>6. /\ Balanced(y) /\ y.reservations = Append(x.reservations, Reservation(x, q))
      /\ y.invocations = x.invocations /\ Lane(y) = Lane(x) /\ Batch(y.offset) = Batch(x.offset)
      /\ \A kind \in Kinds : Total(y, kind) = Total(x, kind) + Price(q, kind)
  BY <1>2, <1>5, ReservedBalanced
<1>7. Within(z) /\ Rewrites(y, z)
  BY <1>3, <1>6, PersistedWithin DEF States
<1>8. /\ Lane(z) = Lane(x) /\ Batch(z.offset) = Batch(x.offset)
      /\ z.reservations = Append(x.reservations, Reservation(x, q))
      /\ Reservation(y, q) = Reservation(z, q)
  BY <1>6, <1>7, RewritesPlan
<1>9. Current(y) = Current(x) /\ Current(z) = Current(x) /\ DOMAIN z.invocations = DOMAIN y.invocations
  BY <1>6, <1>7 DEF Current, Rewrites
<1>10. Reservation(z, q) = Reservation(x, q)
  BY <1>9 DEF Reservation
<1>11. z.reservations # <<>> /\ z.reservations[Len(z.reservations)] = Reservation(z, q)
  <2>1. PICK r, e : r = x.reservations /\ e = Reservation(x, q)
    OBVIOUS
  <2>2. x \in Manifest
    BY <1>5 DEF Within
  <2>3. r \in Seq(Receipt)
    BY <2>1, <2>2, Parts
  <2>4. e \in Receipt
    <3>1. Current(x) \in Nat
      BY <2>2, Parts
    <3>. QED
      BY <1>5, <2>1, <3>1 DEF Reservation, Receipt
  <2>5. /\ z.reservations = Append(r, e)
    BY <1>8, <2>1
  <2>6. Append(r, e) # <<>> /\ Append(r, e)[Len(Append(r, e))] = e
    BY <2>3, <2>4, AppendProperties, LenProperties, EmptySeq
  <2>. QED
    BY <1>10, <2>1, <2>5, <2>6
<1>12. q.limit \in IF q.lane = "scope_scan" THEN 1 .. PageSize ELSE {Limit(z)}
  <2>1. CASE q.lane = "scope_scan"
    BY <1>5, <2>1
  <2>2. CASE q.lane = "metadata"
    <3>1. Limit(x) = 0 /\ Limit(z) = 0
      BY <1>5, <1>8, <2>2 DEF Limit
    <3>. QED
      BY <1>5, <2>2, <3>1
  <2>3. CASE q.lane = "baseline_check"
    <3>1. Limit(x) = Cardinality(Batch(x.offset)) /\ Limit(z) = Cardinality(Batch(z.offset))
      BY <1>5, <1>8, <2>3 DEF Limit
    <3>. QED
      BY <1>5, <1>8, <2>3, <3>1
  <2>. QED
    BY <1>5, <2>1, <2>2, <2>3 DEF Lanes
<1>13. Asking'
  <2>1. PICK n, a, b : n = Lane(z) /\ a = Limit(z) /\ b = Reservation(z, q)
    OBVIOUS
  <2>2. Lane(m)' = n /\ Limit(m)' = a /\ Reservation(m, query)' = b
    BY <1>4, <2>1 DEF Lane, Limit, Reservation, MembersDone, Left, CampaignLeft, GrantLeft,
         Total, Consumed, Charge, Last, Current, Batch
  <2>3. /\ q.lane = n /\ q.lane \in Lanes
        /\ q.limit \in IF q.lane = "scope_scan" THEN 1 .. PageSize ELSE {a}
        /\ z.reservations # <<>> /\ z.reservations[Len(z.reservations)] = b
        /\ q.answer = {}
    BY <1>5, <1>8, <1>11, <1>12, <2>1
  <2>. QED
    BY <1>4, <2>2, <2>3 DEF Asking
<1>14. \A kind \in Kinds : Total(z, kind) = Total(x, kind) + Price(q, kind)
  <2>1. z.reservations = y.reservations
    BY <1>7 DEF Rewrites
  <2>2. \A kind : Total(z, kind) = Total(y, kind)
    BY <1>9, <2>1, SameUsage
  <2>. QED
    BY <1>6, <2>2
<1>15. \A kind \in Kinds : Total(m', kind) = Total(m, kind) + Price(q, kind)
  BY <1>1, <1>4, <1>14
<1>. QED
  BY <1>1, <1>4, <1>7, <1>9, <1>13, <1>15

\* What the process asks for, first or again, is what the plan asks for.
LEMMA RequestAsks ==
  ASSUME Within(m), m.invocations # <<>>, Lane(m) # None, Refusal(m, Needed(m)) = None
  PROVE  Asks([lane |-> Lane(m), limit |-> Limit(m), attempt |-> 1, answer |-> {}])
<1>1. m \in Manifest
  BY DEF Within
<1>2. /\ Lane(m) \in Lanes /\ Limit(m) \in Nat /\ Affords(m, Limit(m))
      /\ Lane(m) = "scope_scan" => Limit(m) \in 1 .. PageSize
  BY <1>1, LimitOf
<1>3. PICK l, n : l = Lane(m) /\ n = Limit(m)
  OBVIOUS
<1>. QED
  BY <1>2, <1>3 DEF Asks

\* A retry asks for the same rows, if they are still covered.
LEMMA RetryAsks ==
  ASSUME Within(m), m.invocations # <<>>, Asking, DOMAIN query = DOMAIN NoQuery,
         Refusal(m, query.limit) = None
  PROVE  Asks([query EXCEPT !.attempt = @ + 1, !.answer = {}])
<1>1. m \in Manifest /\ query.limit \in Nat
  BY AskingAnswered DEF Within, Answered
<1>2. Affords(m, query.limit)
  BY <1>1, NotRefused
<1>3. PICK q : q = [query EXCEPT !.attempt = @ + 1, !.answer = {}]
  OBVIOUS
<1>4. q.lane = query.lane /\ q.limit = query.limit /\ q.answer = {}
  BY <1>3 DEF NoQuery
<1>5. Asks(q)
  BY <1>1, <1>2, <1>4 DEF Asks, Asking
<1>. QED
  BY <1>3, <1>5

\* A first attempt and a retry are reserved, or the campaign stops.
LEMMA AskCases ==
  ASSUME TypeOK, KeyIInv, LedgerIInv, Request \/ Retry
  PROVE  /\ pc \in Working /\ Within(m) /\ m.invocations # <<>>
         /\ \/ \E refusal : Stop(m, refusal)
            \/ \E q : Asks(q) /\ Reserve(q)
<1>1. pc \in {"plan", "waiting"}
  BY DEF Request, Retry
<1>2. Within(m) /\ m.invocations # <<>> /\ pc \in Working
  BY <1>1 DEF LedgerIInv, KeyIInv, Working, Requesting
<1>3. CASE Request /\ ~\E refusal : Stop(m, refusal)
  <2>1. Lane(m) # None /\ Refusal(m, Needed(m)) = None
        /\ Reserve([lane |-> Lane(m), limit |-> Limit(m), attempt |-> 1, answer |-> {}])
    BY <1>3 DEF Request
  <2>2. Asks([lane |-> Lane(m), limit |-> Limit(m), attempt |-> 1, answer |-> {}])
    BY <1>2, <2>1, RequestAsks
  <2>. QED
    BY <1>2, <2>1, <2>2
<1>4. CASE Retry /\ ~\E refusal : Stop(m, refusal)
  <2>1. Refusal(m, query.limit) = None /\ Reserve([query EXCEPT !.attempt = @ + 1, !.answer = {}])
    BY <1>4 DEF Retry
  <2>2. Asking /\ DOMAIN query = DOMAIN NoQuery
    BY <1>4 DEF Retry, LedgerIInv, TypeOK, Requesting
  <2>3. Asks([query EXCEPT !.attempt = @ + 1, !.answer = {}])
    BY <1>2, <2>1, <2>2, RetryAsks
  <2>. QED
    BY <1>2, <2>1, <2>3
<1>. QED
  BY <1>2, <1>3, <1>4

\* A first attempt and a retry leave every manifest within its grants.
LEMMA AskLedger ==
  ASSUME TypeOK, KeyIInv, LedgerIInv, Request \/ Retry
  PROVE  LedgerIInv'
<1>1. pc \in Working /\ Within(m) /\ m.invocations # <<>>
  BY AskCases
<1>2. CASE \E refusal : Stop(m, refusal)
  BY <1>1, <1>2, StopLedger
<1>3. CASE \E q : Asks(q) /\ Reserve(q)
  <2>1. PICK q : Asks(q) /\ Reserve(q)
    BY <1>3
  <2>2. Within(m') /\ page' = m' /\ pc' = "reserved" /\ UNCHANGED <<args, run>> /\ Asking'
    BY <1>1, <2>1, ReserveParts
  <2>. QED
    BY <1>1, <2>2, LedgerWorks DEF Working, Requesting
<1>. QED
  BY <1>2, <1>3, AskCases

\* Whether the process asks depends on its step, its request and its manifest.
LEMMA AskingNext ==
  ASSUME m' = m, query'.lane = query.lane, query'.limit = query.limit, Asking,
         IF pc' = "reserved" THEN query'.answer = {}
         ELSE \E v \in Versions : query'.answer = Answer(m, query.lane, query.limit, v)
  PROVE  Asking'
<1>1. PICK l, k, a : l = Lane(m) /\ k = Limit(m) /\ a = Reservation(m, query)
  OBVIOUS
<1>2. Lane(m)' = l /\ Limit(m)' = k /\ Reservation(m, query)' = a
  BY <1>1 DEF Lane, Limit, Reservation, MembersDone, Left, CampaignLeft, GrantLeft,
         Total, Consumed, Charge, Last, Current, Batch
<1>3. \A v : Answer(m, query.lane, query.limit, v)' = Answer(m, query.lane, query.limit, v)
  BY DEF Answer, Batch
<1>. QED
  BY <1>1, <1>2, <1>3 DEF Asking

\* The source answers, and the answer is written and recorded.
LEMMA SendLedger ==
  ASSUME TypeOK, LedgerIInv, NEW v \in Versions, Send(v)
  PROVE  LedgerIInv' /\ UNCHANGED <<page, run, m>> /\ pc = "reserved" /\ pc' = "waiting"
         /\ Within(m) /\ Asking /\ Asking'
         /\ query'.limit = query.limit /\ query'.answer = Answer(m, query.lane, query.limit, v)
<1>1. PICK rows : rows = Answer(m, query.lane, query.limit, v)
  OBVIOUS
<1>2. /\ query' = [query EXCEPT !.answer = rows] /\ UNCHANGED <<page, run, args, m>>
      /\ pc = "reserved" /\ pc' = "waiting" /\ DOMAIN query = DOMAIN NoQuery
  BY <1>1 DEF Send, disk, staging, TypeOK
<1>3. query'.lane = query.lane /\ query'.limit = query.limit /\ query'.answer = rows
  BY <1>2 DEF NoQuery
<1>4. Within(m) /\ Asking
  BY <1>2 DEF LedgerIInv, Working, Requesting
<1>5. Asking' /\ Within(m')
  BY <1>1, <1>2, <1>3, <1>4, AskingNext
<1>. QED
  BY <1>1, <1>2, <1>3, <1>4, <1>5, LedgerWorks

\* Writing a page changes no manifest.
LEMMA WriteLedger ==
  ASSUME LedgerIInv, WritePage
  PROVE  LedgerIInv'
<1>1. /\ UNCHANGED <<page, run, args, m, query>> /\ pc = "waiting" /\ pc' = "received"
  BY DEF WritePage, Goto
<1>2. Within(m) /\ Asking
  BY <1>1 DEF LedgerIInv, Working, Requesting
<1>3. \E v \in Versions : query'.answer = Answer(m, query.lane, query.limit, v)
  BY <1>1, <1>2 DEF Asking
<1>4. Asking' /\ Within(m')
  BY <1>1, <1>2, <1>3, AskingNext
<1>. QED
  BY <1>1, <1>4, LedgerWorks

\* Recording an answer makes its receipt durable.
LEMMA RecordParts ==
  ASSUME LedgerIInv, Record
  PROVE  /\ UNCHANGED <<run, args>> /\ pc = "received" /\ pc' = "plan" /\ page' = m'
         /\ Within(m) /\ Asking /\ Within(m') /\ Current(m') = Current(m)
         /\ Total(m', "attempts") = Total(m, "attempts")
         /\ Total(m', "rows") = Total(m, "rows") - query.limit + Cardinality(query.answer)
<1>1. /\ UNCHANGED <<run, args>> /\ pc = "received" /\ pc' = "plan" /\ page' = m'
      /\ m' = Persisted(Recorded(m, query), "extracting")
  BY DEF Record, Write
<1>2. Within(m) /\ Asking
  BY <1>1 DEF LedgerIInv, Working, Requesting
<1>3. Answered(m, query)
  BY <1>2, AskingAnswered
<1>4. PICK y : y = Recorded(m, query)
  OBVIOUS
<1>5. /\ Balanced(y) /\ y.invocations = m.invocations
      /\ Total(y, "attempts") = Total(m, "attempts")
      /\ Total(y, "rows") = Total(m, "rows") - query.limit + Cardinality(query.answer)
  BY <1>2, <1>3, <1>4, RecordedBalanced
<1>6. PICK z : z = Persisted(y, "extracting")
  OBVIOUS
<1>7. Within(z) /\ Rewrites(y, z)
  BY <1>5, <1>6, PersistedWithin DEF States
<1>8. z.reservations = y.reservations /\ DOMAIN z.invocations = DOMAIN y.invocations
      /\ Current(z) = Current(y) /\ Current(y) = Current(m)
  BY <1>5, <1>7 DEF Rewrites, Current
<1>9. \A kind : Total(z, kind) = Total(y, kind)
  BY <1>8, SameUsage
<1>10. z = m'
  BY <1>1, <1>4, <1>6
<1>. QED
  BY <1>1, <1>2, <1>5, <1>7, <1>8, <1>9, <1>10

\* The recorded manifest is within its grants.
LEMMA RecordLedgerKept ==
  ASSUME LedgerIInv, Record
  PROVE  LedgerIInv'
<1>1. /\ UNCHANGED <<run, args>> /\ pc = "received" /\ pc' = "plan" /\ page' = m' /\ Within(m')
  BY RecordParts
<1>. QED
  BY <1>1, LedgerWorks DEF Requesting

\* A failed exchange, the end of the plan and the publication.
LEMMA PublishParts ==
  ASSUME LedgerIInv, pc \in {"finish", "recovered"}
  PROVE  /\ Within(m) /\ Balanced(m) /\ Within(Published(m)) /\ Balanced(Published(m))
         /\ Rewrites(m, Published(m))
<1>1. Within(m) /\ outcome \in {"acquired", "truncated"}
  BY DEF LedgerIInv, Working
<1>2. Balanced(m)
  BY <1>1, WithinBalanced
<1>3. Within(Published(m)) /\ Rewrites(m, Published(m))
  BY <1>1, <1>2, PublishedWithin
<1>. QED
  BY <1>1, <1>2, <1>3, WithinBalanced

\* A failed exchange, the end of the plan and the publication stay within the grants.
LEMMA EndLedger ==
  ASSUME LedgerIInv, Fail \/ Finish \/ Prepare
  PROVE  LedgerIInv'
<1>1. CASE Fail
  <2>1. Within(m) /\ Raise(m)
    BY <1>1 DEF Fail, LedgerIInv, Working, Requesting
  <2>. QED
    BY <2>1, WithinBalanced, RaiseLedger
<1>2. CASE Finish
  <2>1. /\ UNCHANGED <<page, run, args, m>> /\ pc = "plan" /\ pc' = "finish" /\ outcome' = "acquired"
    BY <1>2 DEF Finish, disk, staging
  <2>2. Within(m')
    BY <2>1 DEF LedgerIInv, Working
  <2>. QED
    BY <2>1, <2>2, LedgerWorks DEF Requesting
<1>3. CASE Prepare
  <2>1. pc \in {"finish", "recovered"}
    BY <1>3 DEF Prepare
  <2>2. Within(Published(m)) /\ Balanced(Published(m))
    BY <2>1, PublishParts
  <2>3. CASE Raise(Published(m))
    BY <2>2, <2>3, RaiseLedger
  <2>4. CASE Exit /\ UNCHANGED disk
    <3>1. pc' = "off" /\ UNCHANGED <<page, run>>
      BY <2>4 DEF Exit, disk, staging
    <3>. QED
      BY <3>1, LedgerIdle DEF Working, Requesting
  <2>5. CASE /\ run' = [manifest |-> Published(m), files |-> files, status |-> "prepared"]
             /\ page' = None /\ pc' = "commit" /\ UNCHANGED args
    <3>1. run'.manifest = Published(m)
      BY <2>5
    <3>2. Within(run'.manifest)
      BY <2>2, <3>1
    <3>3. args'.key \in Keys /\ args'.grant \in Grants
      BY <2>1, <2>5 DEF LedgerIInv
    <3>. QED
      BY <2>5, <3>2, <3>3, LedgerIdle DEF Working, Requesting
  <2>. QED
    BY <1>3, <2>3, <2>4, <2>5 DEF Prepare
<1>. QED
  BY <1>1, <1>2, <1>3

\* LedgerIInv is inductive: every manifest on the disk and in memory is within its
\* grants, and a request under way is what the plan asks for and the last
\* reservation its charge, through refusals, retries, failures and deaths.
THEOREM LedgerInductive == Spec => []LedgerIInv
<1>1. Init => LedgerIInv
  BY DEF Init, LedgerIInv, Working, Requesting
<1>2. TypeOK /\ KeyIInv /\ PublishedIInv /\ LedgerIInv /\ [Next]_vars => LedgerIInv'
  <2>. SUFFICES ASSUME TypeOK, KeyIInv, PublishedIInv, LedgerIInv, [Next]_vars
                PROVE  LedgerIInv'
    OBVIOUS
  <2>1. CASE UNCHANGED vars
    <3>1. UNCHANGED process /\ page' = page /\ run' = run
      BY <2>1 DEF vars, disk, staging
    <3>. QED
      BY <3>1, LedgerSame
  <2>2. CASE \/ \E key \in Keys, grant \in Grants : Invoke(key, grant)
             \/ Reconcile \/ CommitRun \/ MarkCommitted \/ AlreadyPublished \/ Start
             \/ Crash \/ Clean
    BY <2>2, OpenLedger
  <2>3. CASE Create \/ Load
    BY <2>3, LoadLedger
  <2>4. CASE ResumeGrant \/ NewGrant
    BY <2>4, GrantLedger
  <2>5. CASE Request \/ Retry
    BY <2>5, AskLedger
  <2>6. CASE \E v \in Versions : Send(v)
    BY <2>6, SendLedger
  <2>7. CASE WritePage \/ Record
    BY <2>7, WriteLedger, RecordLedgerKept
  <2>8. CASE Fail \/ Finish \/ Prepare
    BY <2>8, EndLedger
  <2>. QED
    BY <2>1, <2>2, <2>3, <2>4, <2>5, <2>6, <2>7, <2>8 DEF Next, Work, Exchange
<1>. QED
  BY <1>1, <1>2, TypeCorrect, KeyInductive, PublishedInductive, PTL DEF Spec

-----------------------------------------------------------------------------
(* Whether clean-staging was asked for *)

\* A removal is under way only after the command was given.
CleanIInv == cleans \in Nat /\ (cleans = 0 => removal = "none")

\* Every step of clean-staging is counted.
LEMMA CleanCounted ==
  ASSUME CleanIInv, Clean
  PROVE  cleans' \in Nat /\ cleans' # 0
<1>1. CASE CleanOpens
  BY <1>1 DEF CleanOpens, CleanIInv
<1>2. CASE CleanUnlinks \/ CleanEnds
  BY <1>2 DEF CleanUnlinks, CleanEnds, CleanIInv, bounds
<1>. QED
  BY <1>1, <1>2 DEF Clean

\* CleanIInv is inductive.
LEMMA CleanInductive == Spec => []CleanIInv
<1>1. Init => CleanIInv
  BY DEF Init, CleanIInv
<1>2. CleanIInv /\ [Next]_vars => CleanIInv'
  <2>. SUFFICES ASSUME CleanIInv, [Next]_vars
                PROVE  CleanIInv'
    OBVIOUS
  <2>1. CASE Clean
    BY <2>1, CleanCounted DEF CleanIInv
  <2>2. CASE Prepare
    BY <2>2 DEF Prepare, CleanIInv, bounds
  <2>3. CASE UNCHANGED <<removal, cleans>>
    BY <2>3 DEF CleanIInv
  <2>4. CASE \/ \E key \in Keys, grant \in Grants : Invoke(key, grant)
             \/ Reconcile \/ CommitRun \/ MarkCommitted \/ AlreadyPublished \/ Start \/ Create
             \/ Load \/ ResumeGrant \/ NewGrant \/ Request \/ Finish \/ WritePage \/ Record
             \/ Exchange \/ Crash \/ UNCHANGED vars
    BY <2>3, <2>4 DEF Invoke, Reconcile, CommitRun, MarkCommitted, AlreadyPublished, Start, Create,
         Load, ResumeGrant, NewGrant, Request, Finish, WritePage, Record, Exchange, Send, Retry,
         Fail, Crash, vars, bounds
  <2>. QED
    BY <2>1, <2>2, <2>4 DEF Next, Work
<1>. QED
  BY <1>1, <1>2, PTL DEF Spec

-----------------------------------------------------------------------------
(* The durable ledger has charged what the source was asked *)

\* What is still to come is a number of attempts and of rows.
LEMMA PendingIsNat ==
  ASSUME LedgerIInv
  PROVE  /\ \A kind \in Kinds : Pending[kind] \in Nat
         /\ pc \notin Requesting => \A kind \in Kinds : Pending[kind] = 0
<1>1. Pending["attempts"] \in Nat /\ (pc \notin Requesting => Pending["attempts"] = 0)
  BY DEF Pending, Requesting
<1>2. CASE pc \in Requesting
  <2>1. Answered(m, query)
    BY <1>2, AskingAnswered DEF LedgerIInv, Working
  <2>2. /\ query.limit \in Nat /\ Cardinality(query.answer) \in Nat
        /\ Cardinality(query.answer) <= query.limit
    BY <2>1 DEF Answered
  <2>3. Pending["rows"] = query.limit - Cardinality(query.answer)
    BY <1>2 DEF Pending
  <2>4. Pending["rows"] \in Nat
    BY <2>2, <2>3
  <2>. QED
    BY <1>1, <1>2, <2>4 DEF Kinds
<1>3. CASE pc \notin Requesting
  <2>1. Pending["rows"] = 0
    BY <1>3 DEF Pending
  <2>. QED
    BY <1>1, <1>3, <2>1 DEF Kinds
<1>. QED
  BY <1>2, <1>3

\* The process works on what is durable.
LEMMA AtWorkCharged ==
  ASSUME PublishedIInv, LedgerIInv, ChargedIInv, cleans = 0, pc \in Working
  PROVE  /\ run = NoRun /\ page # None /\ Durable = page /\ Durable # None
         /\ Within(m) /\ Balanced(m) /\ Within(page)
         /\ m.reservations = page.reservations /\ Current(m) = Current(page)
         /\ \A kind \in Kinds :
              /\ asked[kind] \in Nat /\ Pending[kind] \in Nat
              /\ Total(m, kind) \in Nat /\ Total(Durable, kind) = Total(m, kind)
              /\ asked[kind] + Pending[kind] <= Total(m, kind)
<1>1. /\ run = NoRun /\ page # None /\ Durable = page
      /\ m.reservations = page.reservations /\ Current(m) = Current(page)
  BY DEF PublishedIInv, ChargedIInv, Durable, Working, Requesting
<1>2. Within(m) /\ Balanced(m) /\ Within(page)
  BY <1>1, WithinBalanced DEF LedgerIInv
<1>3. m \in Manifest /\ page \in Manifest
  BY <1>2 DEF Within
<1>4. DOMAIN m.invocations = DOMAIN page.invocations
  BY <1>1, <1>3, Parts
<1>5. \A kind : Total(m, kind) = Total(page, kind)
  BY <1>1, <1>4, SameUsage
<1>6. \A kind \in Kinds : asked[kind] \in Nat /\ asked[kind] + Pending[kind] <= Total(Durable, kind)
  BY <1>1 DEF ChargedIInv, Kinds
<1>7. \A kind \in Kinds : Total(m, kind) \in Nat
  BY <1>3, TotalOf
<1>. QED
  BY <1>1, <1>2, <1>5, <1>6, <1>7, PendingIsNat

\* Nothing is asked, and the durable ledger keeps its total.
LEMMA ChargedStays ==
  ASSUME LedgerIInv, ChargedIInv, UNCHANGED <<asked, cleans>>, pc' \notin Requesting,
         cleans = 0 /\ pc' \in Working =>
           page' # None /\ m'.reservations = page'.reservations /\ Current(m') = Current(page'),
         NEW x, x = Durable',
         cleans = 0 => \/ x = Durable
                       \/ /\ x # None
                          /\ \A kind \in Kinds :
                               IF Durable = None THEN Total(x, kind) \in Nat
                               ELSE Total(x, kind) = Total(Durable, kind)
  PROVE  ChargedIInv'
<1>. SUFFICES ASSUME cleans = 0
              PROVE  ChargedIInv'
  BY DEF ChargedIInv
<1>1. /\ asked \in [attempts : Nat, rows : Nat] /\ asked' = asked /\ cleans' = 0
      /\ \A kind \in Kinds : asked[kind] \in Nat /\ Pending[kind] \in Nat
  BY PendingIsNat DEF ChargedIInv, Kinds
<1>2. \A kind \in Kinds : Pending[kind]' = 0
  BY DEF Pending, Kinds, Requesting
<1>3. pc' \in Working =>
        page' # None /\ m'.reservations = page'.reservations /\ Current(m)' = Current(page)'
  BY DEF Current
<1>4. CASE x = None
  <2>1. Durable = None
    BY <1>4
  <2>2. asked = [attempts |-> 0, rows |-> 0]
    BY <2>1 DEF ChargedIInv
  <2>. QED
    BY <1>1, <1>3, <1>4, <2>2 DEF ChargedIInv
<1>5. CASE x # None
  <2>1. \A kind \in Kinds : asked[kind] <= Total(x, kind)
    <3>1. CASE Durable = None
      <4>1. asked = [attempts |-> 0, rows |-> 0] /\ x # Durable
        BY <1>5, <3>1 DEF ChargedIInv
      <4>2. \A kind \in Kinds : asked[kind] = 0 /\ Total(x, kind) \in Nat
        BY <3>1, <4>1 DEF Kinds
      <4>. QED
        BY <4>2
    <3>2. CASE Durable # None
      <4>1. \A kind \in Kinds : Total(x, kind) = Total(Durable, kind)
        BY <3>2
      <4>2. \A kind \in Kinds : asked[kind] + Pending[kind] <= Total(Durable, kind)
        BY <3>2 DEF ChargedIInv
      <4>3. Durable \in Manifest
        BY <3>2 DEF Durable, LedgerIInv, Within
      <4>4. PICK d : d = Durable
        OBVIOUS
      <4>5. \A kind \in Kinds : Total(d, kind) \in Nat
        BY <4>3, <4>4, TotalOf
      <4>. QED
        BY <1>1, <4>1, <4>2, <4>4, <4>5
    <3>. QED
      BY <3>1, <3>2
  <2>2. \A kind \in Kinds : asked[kind] + 0 <= Total(x, kind)
    BY <1>1, <2>1
  <2>3. \A kind \in Kinds : asked'[kind] + Pending[kind]' <= Total(Durable, kind)'
    BY <1>1, <1>2, <2>2 DEF Total, Consumed, Charge
  <2>. QED
    BY <1>1, <1>3, <1>5, <2>3 DEF ChargedIInv
<1>. QED
  BY <1>4, <1>5

\* A process that ends, or has not begun, leaves the ledger as it is.
LEMMA OffCharged ==
  ASSUME LedgerIInv, ChargedIInv, UNCHANGED <<asked, cleans>>, pc' \notin Working, Durable' = Durable
  PROVE  ChargedIInv'
<1>1. PICK x : x = Durable'
  OBVIOUS
<1>2. pc' \notin Requesting
  BY DEF Working
<1>. QED
  BY <1>1, <1>2, ChargedStays

\* The process persists a manifest of the same total, and asks for nothing.
LEMMA PersistCharged ==
  ASSUME PublishedIInv, LedgerIInv, ChargedIInv, pc \in Working, UNCHANGED <<run, asked, cleans>>,
         NEW y, Within(y), \A kind \in Kinds : Total(y, kind) = Total(m, kind),
         cleans = 0 => page' = y,
         pc' \notin Requesting, pc' \in Working => m' = y
  PROVE  ChargedIInv'
<1>1. y # None
  BY NoneAssumption DEF Within
<1>2. PICK x : x = Durable'
  OBVIOUS
<1>3. ASSUME cleans = 0
      PROVE  /\ x = y /\ page' # None
             /\ \A kind \in Kinds : IF Durable = None THEN Total(x, kind) \in Nat
                                    ELSE Total(x, kind) = Total(Durable, kind)
  <2>1. run = NoRun /\ Durable # None /\ \A kind \in Kinds : Total(Durable, kind) = Total(m, kind)
    BY <1>3, AtWorkCharged
  <2>2. x = y /\ page' # None
    BY <1>1, <1>2, <1>3, <2>1 DEF Durable
  <2>. QED
    BY <2>1, <2>2
<1>4. cleans = 0 => \/ x = Durable
                    \/ /\ x # None
                       /\ \A kind \in Kinds : IF Durable = None THEN Total(x, kind) \in Nat
                                              ELSE Total(x, kind) = Total(Durable, kind)
  BY <1>1, <1>3
<1>5. cleans = 0 /\ pc' \in Working =>
        page' # None /\ m'.reservations = page'.reservations /\ Current(m') = Current(page')
  BY <1>1, <1>3
<1>. QED
  BY <1>2, <1>4, <1>5, ChargedStays

\* What is rewritten from a manifest has its total.
LEMMA RewritesTotal ==
  ASSUME NEW x, NEW y, Rewrites(x, y)
  PROVE  \A kind \in Kinds : Total(y, kind) = Total(x, kind)
<1>1. y.reservations = x.reservations /\ DOMAIN y.invocations = DOMAIN x.invocations
  BY DEF Rewrites
<1>. QED
  BY <1>1, SameUsage

\* An exception persists a manifest of the same total.
LEMMA RaiseCharged ==
  ASSUME PublishedIInv, LedgerIInv, ChargedIInv, pc \in Working, UNCHANGED <<asked, cleans>>,
         NEW x, Balanced(x), \A kind \in Kinds : Total(x, kind) = Total(m, kind), Raise(x)
  PROVE  ChargedIInv'
<1>1. pc' = "off" /\ run' = run
  BY DEF Raise, Persist, Write, disk, Exit
<1>2. PICK y : y = Persisted(x, "failed_recoverable")
  OBVIOUS
<1>3. Within(y) /\ Rewrites(x, y)
  BY <1>2, PersistedWithin DEF States
<1>4. \A kind \in Kinds : Total(y, kind) = Total(m, kind)
  BY <1>3, RewritesTotal
<1>5. ASSUME cleans = 0 PROVE page' = y
  <2>1. staged
    BY <1>5, AtWorkCharged DEF PublishedIInv
  <2>. QED
    BY <1>2, <2>1 DEF Raise, Persist, Write
<1>. QED
  BY <1>1, <1>3, <1>4, <1>5, PersistCharged DEF Working, Requesting

\* A refused attempt asks for nothing and keeps the total.
LEMMA StopCharged ==
  ASSUME PublishedIInv, LedgerIInv, ChargedIInv, pc \in Working, UNCHANGED <<asked, cleans>>,
         NEW refusal, Stop(m, refusal)
  PROVE  ChargedIInv'
<1>1. Within(m) /\ Balanced(m)
  BY WithinBalanced DEF LedgerIInv
<1>2. CASE m' = m /\ pc' = "finish" /\ UNCHANGED disk
  <2>1. UNCHANGED <<page, run, m>> /\ pc' \notin Requesting
    BY <1>2 DEF disk, staging, Requesting
  <2>2. cleans = 0 => page # None /\ m.reservations = page.reservations /\ Current(m) = Current(page)
    BY AtWorkCharged
  <2>3. cleans = 0 /\ pc' \in Working =>
          page' # None /\ m'.reservations = page'.reservations /\ Current(m') = Current(page')
    BY <2>1, <2>2
  <2>4. PICK x : x = Durable'
    OBVIOUS
  <2>5. x = Durable
    BY <2>1, <2>4 DEF Durable
  <2>. QED
    BY <2>1, <2>3, <2>4, <2>5, ChargedStays
<1>3. CASE Persist(m, "paused_budget") /\ Exit
  <2>1. pc' = "off" /\ run' = run /\ page' = Persisted(m, "paused_budget")
    BY <1>3 DEF Persist, Write, Exit
  <2>2. PICK y : y = Persisted(m, "paused_budget")
    OBVIOUS
  <2>3. Within(y) /\ Rewrites(m, y)
    BY <1>1, <2>2, PersistedWithin DEF States
  <2>4. \A kind \in Kinds : Total(y, kind) = Total(m, kind)
    BY <2>3, RewritesTotal
  <2>. QED
    BY <2>1, <2>2, <2>3, <2>4, PersistCharged DEF Working, Requesting
<1>. QED
  BY <1>2, <1>3 DEF Stop

\* The steps of a command before it is granted anything, and its end.
LEMMA OpenCharged ==
  ASSUME PublishedIInv, LedgerIInv, ChargedIInv,
         \/ \E key \in Keys, grant \in Grants : Invoke(key, grant)
         \/ Reconcile \/ CommitRun \/ MarkCommitted \/ AlreadyPublished \/ Start \/ Crash
  PROVE  ChargedIInv'
<1>1. UNCHANGED <<page, asked, cleans>>
  BY DEF Invoke, Reconcile, CommitRun, MarkCommitted, AlreadyPublished, Start, Crash, disk,
         staging, bounds
<1>2. pc' \notin Working
  <2>1. CASE CommitRun /\ UNCHANGED process
    BY <2>1 DEF CommitRun, process, Working, Requesting
  <2>. QED
    BY <2>1 DEF Invoke, Reconcile, CommitRun, MarkCommitted, AlreadyPublished, Start, Crash, Exit,
           Goto, Working, Requesting
<1>3. Durable' = Durable
  <2>1. run' = run \/ (run # NoRun /\ run' # NoRun /\ run'.manifest = run.manifest)
    BY OpenParts
  <2>. QED
    BY <1>1, <2>1 DEF Durable, NoRun
<1>. QED
  BY <1>1, <1>2, <1>3, OffCharged

\* A campaign is begun, or loaded.
LEMMA LoadCharged ==
  ASSUME PublishedIInv, LedgerIInv, ChargedIInv, Create \/ Load
  PROVE  ChargedIInv'
<1>1. CASE Create
  <2>1. /\ pc' = "grant" /\ page' = Planned /\ m' = Planned /\ UNCHANGED <<run, asked, cleans>>
        /\ run = NoRun /\ page = None
    BY <1>1 DEF Create, Write, Goto, bounds, PublishedIInv
  <2>2. PICK x : x = Planned
    OBVIOUS
  <2>3. x # None /\ \A kind \in Kinds : Total(x, kind) \in Nat
    BY <2>2, PlannedWithin, TotalOf, NoneAssumption DEF Within
  <2>4. Durable' = x /\ Durable = None
    BY <2>1, <2>2 DEF Durable
  <2>5. /\ x = Durable' /\ pc' \notin Requesting
        /\ cleans = 0 /\ pc' \in Working =>
             page' # None /\ m'.reservations = page'.reservations /\ Current(m') = Current(page')
        /\ \A kind \in Kinds : IF Durable = None THEN Total(x, kind) \in Nat
                               ELSE Total(x, kind) = Total(Durable, kind)
    BY <2>1, <2>2, <2>3, <2>4 DEF Requesting
  <2>. QED
    BY <2>1, <2>3, <2>5, ChargedStays
<1>2. CASE Load
  <2>1. UNCHANGED <<page, run, asked, cleans>>
        /\ (pc' = "off" \/ (page # None /\ pc' \notin Requesting /\ m' = page))
    BY <1>2 DEF Load, disk, staging, Goto, Exit, bounds, Requesting
  <2>2. PICK x : x = Durable'
    OBVIOUS
  <2>3. x = Durable /\ pc' \notin Requesting
        /\ (cleans = 0 /\ pc' \in Working =>
             page' # None /\ m'.reservations = page'.reservations /\ Current(m') = Current(page'))
    BY <2>1, <2>2 DEF Durable, Requesting, Working
  <2>. QED
    BY <2>1, <2>2, <2>3, ChargedStays
<1>. QED
  BY <1>1, <1>2

\* A grant is resumed, or becomes the current invocation.
LEMMA GrantCharged ==
  ASSUME PublishedIInv, LedgerIInv, ChargedIInv, ResumeGrant \/ NewGrant
  PROVE  ChargedIInv'
<1>1. pc = "grant" /\ pc \in Working /\ Within(m) /\ Balanced(m) /\ UNCHANGED <<asked, cleans>>
  BY WithinBalanced DEF LedgerIInv, ResumeGrant, Write, NewGrant, Working, Requesting, bounds
<1>2. ASSUME NEW x, Balanced(x), \A kind \in Kinds : Total(x, kind) = Total(m, kind),
             m' = Persisted(x, "extracting"), page' = m', Goto("plan"), UNCHANGED run
      PROVE  ChargedIInv'
  <2>1. PICK y : y = Persisted(x, "extracting")
    OBVIOUS
  <2>2. Within(y) /\ Rewrites(x, y)
    BY <1>2, <2>1, PersistedWithin DEF States
  <2>3. \A kind \in Kinds : Total(y, kind) = Total(m, kind)
    BY <1>2, <2>2, RewritesTotal
  <2>4. pc' \notin Requesting /\ page' = y /\ m' = y
    BY <1>2, <2>1 DEF Goto, Requesting
  <2>. QED
    BY <1>1, <1>2, <2>2, <2>3, <2>4, PersistCharged
<1>3. CASE ResumeGrant
  BY <1>1, <1>2, <1>3 DEF ResumeGrant, Write
<1>4. CASE NewGrant
  <2>1. CASE Stop(m, "campaign")
    BY <1>1, <2>1, StopCharged
  <2>2. CASE Raise(m)
    BY <1>1, <2>2, RaiseCharged
  <2>3. CASE m' = Persisted(Granted(m), "extracting") /\ page' = m' /\ Goto("plan") /\ UNCHANGED run
    <3>1. PICK y : y = Granted(m)
      OBVIOUS
    <3>2. Balanced(y) /\ \A kind \in Kinds : Total(y, kind) = Total(m, kind)
      <4>1. Matches(m) = {}
        BY <1>4 DEF NewGrant, Write
      <4>2. args.key \in Keys /\ args.grant \in Grants
        BY <1>1 DEF LedgerIInv
      <4>. QED
        BY <1>1, <3>1, <4>1, <4>2, GrantedBalanced
    <3>. QED
      BY <1>2, <2>3, <3>1, <3>2
  <2>. QED
    BY <1>4, <2>1, <2>2, <2>3 DEF NewGrant, Write
<1>. QED
  BY <1>3, <1>4

\* What the process is charged for and what is durable, after it.
LEMMA ChargedNext ==
  ASSUME cleans = 0, UNCHANGED <<run, cleans>>, run = NoRun,
         NEW x, x = page', x # None, m'.reservations = x.reservations, Current(m') = Current(x),
         asked' \in [attempts : Nat, rows : Nat],
         \A kind \in Kinds : asked'[kind] + Pending'[kind] <= Total(x, kind)
  PROVE  ChargedIInv'
<1>1. Durable' = x /\ cleans' = 0
  BY DEF Durable
<1>2. \A kind \in Kinds : asked'[kind] + Pending'[kind] <= Total(Durable, kind)'
  BY <1>1 DEF Total, Consumed, Charge
<1>3. page' # None /\ m'.reservations = page'.reservations /\ Current(m)' = Current(page)'
  BY DEF Current
<1>. QED
  BY <1>1, <1>2, <1>3 DEF ChargedIInv

\* An attempt is charged before it is made.
LEMMA ReserveCharged ==
  ASSUME PublishedIInv, LedgerIInv, ChargedIInv, cleans = 0, pc \in Working, m.invocations # <<>>,
         NEW q, Asks(q), Reserve(q), UNCHANGED <<asked, cleans>>
  PROVE  ChargedIInv'
<1>1. /\ run = NoRun /\ Within(m)
      /\ \A kind \in Kinds :
              /\ asked[kind] \in Nat /\ Pending[kind] \in Nat
              /\ Total(m, kind) \in Nat /\ asked[kind] + Pending[kind] <= Total(m, kind)
  BY AtWorkCharged
<1>2. /\ Within(m') /\ page' = m' /\ query' = q /\ pc' = "reserved" /\ UNCHANGED <<args, run>>
      /\ \A kind \in Kinds : Total(m', kind) = Total(m, kind) + Price(q, kind)
  BY <1>1, ReserveParts
<1>3. q.limit \in Nat /\ q.answer = {}
  BY DEF Asks
<1>4. Cardinality(q.answer) = 0
  BY <1>3, FS_EmptySet
<1>5. \A kind \in Kinds : Pending'[kind] = Price(q, kind) /\ Price(q, kind) \in Nat
  BY <1>2, <1>3, <1>4 DEF Pending, Price, Kinds, Requesting
<1>6. PICK x : x = m'
  OBVIOUS
<1>7. x # None
  BY <1>2, <1>6, NoneAssumption DEF Within
<1>8. \A kind \in Kinds : asked'[kind] + Pending'[kind] <= Total(x, kind)
  BY <1>1, <1>2, <1>5, <1>6
<1>9. asked' \in [attempts : Nat, rows : Nat]
  BY DEF ChargedIInv
<1>. QED
  BY <1>1, <1>2, <1>6, <1>7, <1>8, <1>9, ChargedNext DEF Requesting

\* A first attempt and a retry are charged before they are made.
LEMMA AskCharged ==
  ASSUME TypeOK, KeyIInv, PublishedIInv, LedgerIInv, ChargedIInv, Request \/ Retry
  PROVE  ChargedIInv'
<1>1. pc \in Working /\ Within(m) /\ m.invocations # <<>> /\ UNCHANGED <<asked, cleans>>
  BY AskCases DEF Request, Retry, bounds
<1>2. CASE \E refusal : Stop(m, refusal)
  BY <1>1, <1>2, StopCharged
<1>3. CASE \E q : Asks(q) /\ Reserve(q)
  <2>1. PICK q : Asks(q) /\ Reserve(q)
    BY <1>3
  <2>2. CASE cleans = 0
    BY <1>1, <2>1, <2>2, ReserveCharged
  <2>3. CASE cleans # 0
    BY <1>1, <2>3 DEF ChargedIInv
  <2>. QED
    BY <2>2, <2>3
<1>. QED
  BY <1>2, <1>3, AskCases

\* What is served moves from what is pending to what was asked.
LEMMA SendCharged ==
  ASSUME TypeOK, PublishedIInv, LedgerIInv, ChargedIInv, NEW v \in Versions, Send(v)
  PROVE  ChargedIInv'
<1>1. UNCHANGED cleans
  BY DEF Send, bounds
<1>2. CASE cleans # 0
  BY <1>1, <1>2 DEF ChargedIInv
<1>3. CASE cleans = 0
  <2>1. /\ UNCHANGED <<page, run, m>> /\ pc = "reserved" /\ pc' = "waiting" /\ pc \in Working
        /\ Within(m) /\ Asking
        /\ query'.limit = query.limit /\ query'.answer = Answer(m, query.lane, query.limit, v)
    BY SendLedger DEF Working, Requesting
  <2>2. PICK k : k = Cardinality(query'.answer)
    OBVIOUS
  <2>3. asked' = [attempts |-> asked.attempts + 1, rows |-> asked.rows + k]
    BY <2>1, <2>2 DEF Send
  <2>4. /\ run = NoRun /\ page # None /\ Durable = page
        /\ m.reservations = page.reservations /\ Current(m) = Current(page)
        /\ \A kind \in Kinds :
              /\ asked[kind] \in Nat /\ Pending[kind] \in Nat
              /\ Total(m, kind) \in Nat /\ Total(Durable, kind) = Total(m, kind)
              /\ asked[kind] + Pending[kind] <= Total(m, kind)
    BY <1>3, <2>1, AtWorkCharged
  <2>5. query.limit \in Nat /\ k \in Nat /\ k <= query.limit
    <3>1. Answered(m, query) /\ (query.lane = "baseline_check" => query.limit = Cardinality(Batch(m.offset)))
      BY <2>1, AskingAnswered
    <3>2. query.limit \in Nat /\ query.lane \in {"metadata", "scope_scan", "baseline_check"}
      BY <3>1 DEF Answered, Lanes
    <3>. QED
      BY <2>1, <2>2, <3>1, <3>2, AnswerIsBounded
  <2>6. Cardinality(query.answer) = 0
    <3>1. query.answer = {}
      BY <2>1 DEF Asking
    <3>. QED
      BY <3>1, FS_EmptySet
  <2>7. Pending.attempts = 1 /\ Pending.rows = query.limit
    BY <2>1, <2>5, <2>6 DEF Pending, Requesting
  <2>8. Pending'.attempts = 0 /\ Pending'.rows = query.limit - k
    BY <2>1, <2>2, <2>5 DEF Pending, Requesting
  <2>9. \A kind \in Kinds : asked'[kind] + Pending'[kind] <= Total(m, kind)
    <3>1. asked'["attempts"] + Pending'["attempts"] = asked["attempts"] + Pending["attempts"]
      BY <2>3, <2>4, <2>7, <2>8 DEF Kinds
    <3>2. asked'["rows"] + Pending'["rows"] = asked["rows"] + Pending["rows"]
      BY <2>3, <2>4, <2>5, <2>7, <2>8 DEF Kinds
    <3>. QED
      BY <2>4, <3>1, <3>2 DEF Kinds
  <2>10. asked' \in [attempts : Nat, rows : Nat]
    BY <2>3, <2>4, <2>5 DEF Kinds
  <2>11. PICK x : x = page
    OBVIOUS
  <2>12. \A kind \in Kinds : asked'[kind] + Pending'[kind] <= Total(x, kind)
    BY <2>4, <2>9, <2>11
  <2>13. /\ x = page' /\ x # None /\ m'.reservations = x.reservations /\ Current(m') = Current(x)
         /\ pc' \in Requesting
    BY <2>1, <2>4, <2>11 DEF Requesting
  <2>. QED
    BY <1>1, <1>3, <2>1, <2>4, <2>10, <2>12, <2>13, ChargedNext
<1>. QED
  BY <1>2, <1>3

\* Writing a page neither asks nor charges.
LEMMA WriteCharged ==
  ASSUME PublishedIInv, LedgerIInv, ChargedIInv, WritePage
  PROVE  ChargedIInv'
<1>1. /\ UNCHANGED <<page, run, m, query, asked, cleans>> /\ pc = "waiting" /\ pc' = "received"
      /\ pc \in Working
  BY DEF WritePage, Goto, bounds, Working, Requesting
<1>2. CASE cleans # 0
  BY <1>1, <1>2 DEF ChargedIInv
<1>3. CASE cleans = 0
  <2>1. /\ run = NoRun /\ page # None /\ Durable = page
        /\ m.reservations = page.reservations /\ Current(m) = Current(page)
        /\ \A kind \in Kinds : /\ asked[kind] + Pending[kind] <= Total(m, kind)
                               /\ Total(Durable, kind) = Total(m, kind)
    BY <1>1, <1>3, AtWorkCharged
  <2>2. Pending' = Pending
    BY <1>1 DEF Pending, Requesting
  <2>3. PICK x : x = page
    OBVIOUS
  <2>4. \A kind \in Kinds : asked'[kind] + Pending'[kind] <= Total(x, kind)
    BY <1>1, <2>1, <2>2, <2>3
  <2>5. /\ x = page' /\ x # None /\ m'.reservations = x.reservations /\ Current(m') = Current(x)
        /\ pc' \in Requesting /\ asked' \in [attempts : Nat, rows : Nat]
    BY <1>1, <1>3, <2>1, <2>3 DEF Requesting, ChargedIInv
  <2>. QED
    BY <1>1, <1>3, <2>1, <2>4, <2>5, ChargedNext
<1>. QED
  BY <1>2, <1>3

\* A receipt gives back what the answer did not use.
LEMMA RecordCharged ==
  ASSUME PublishedIInv, LedgerIInv, ChargedIInv, Record
  PROVE  ChargedIInv'
<1>1. /\ UNCHANGED <<run, args>> /\ pc = "received" /\ pc' = "plan" /\ page' = m'
      /\ Within(m) /\ Asking /\ Within(m') /\ Current(m') = Current(m)
      /\ Total(m', "attempts") = Total(m, "attempts")
      /\ Total(m', "rows") = Total(m, "rows") - query.limit + Cardinality(query.answer)
  BY RecordParts
<1>2. UNCHANGED <<asked, cleans>> /\ pc \in Working
  BY <1>1 DEF Record, Write, bounds, Working, Requesting
<1>3. CASE cleans # 0
  BY <1>2, <1>3 DEF ChargedIInv
<1>4. CASE cleans = 0
  <2>1. /\ run = NoRun
        /\ \A kind \in Kinds :
              /\ asked[kind] \in Nat /\ Pending[kind] \in Nat /\ Total(m, kind) \in Nat
              /\ asked[kind] + Pending[kind] <= Total(m, kind)
    BY <1>2, <1>4, AtWorkCharged
  <2>2. query.limit \in Nat /\ Cardinality(query.answer) \in Nat /\ Cardinality(query.answer) <= query.limit
    BY <1>1, AskingAnswered DEF Answered
  <2>3. /\ Pending.attempts = 0 /\ Pending.rows = query.limit - Cardinality(query.answer)
        /\ Pending'.attempts = 0 /\ Pending'.rows = 0
    BY <1>1 DEF Pending, Requesting
  <2>4. PICK x : x = m'
    OBVIOUS
  <2>5. \A kind \in Kinds : asked'[kind] + Pending'[kind] <= Total(x, kind)
    <3>1. asked'["attempts"] + Pending'["attempts"] <= Total(x, "attempts")
      BY <1>1, <1>2, <2>1, <2>3, <2>4 DEF Kinds
    <3>2. asked'["rows"] + Pending'["rows"] <= Total(x, "rows")
      BY <1>1, <1>2, <2>1, <2>2, <2>3, <2>4 DEF Kinds
    <3>. QED
      BY <3>1, <3>2 DEF Kinds
  <2>6. x # None /\ x = page' /\ m'.reservations = x.reservations /\ Current(m') = Current(x)
    BY <1>1, <2>4, NoneAssumption DEF Within
  <2>7. asked' \in [attempts : Nat, rows : Nat]
    BY <1>2, <1>4 DEF ChargedIInv
  <2>. QED
    BY <1>1, <1>2, <1>4, <2>1, <2>5, <2>6, <2>7, ChargedNext
<1>. QED
  BY <1>3, <1>4

\* A failed exchange, the end of the plan and the publication.
LEMMA EndCharged ==
  ASSUME PublishedIInv, LedgerIInv, ChargedIInv, Fail \/ Finish \/ Prepare
  PROVE  ChargedIInv'
<1>1. UNCHANGED <<asked, cleans>> /\ pc \in Working
  BY DEF Fail, Finish, Prepare, bounds, Working, Requesting
<1>2. CASE Fail
  <2>1. Balanced(m) /\ Raise(m)
    BY <1>1, <1>2, WithinBalanced DEF Fail, LedgerIInv
  <2>. QED
    BY <1>1, <2>1, RaiseCharged
<1>3. CASE Finish
  <2>1. UNCHANGED <<page, run, m>> /\ pc' = "finish"
    BY <1>3 DEF Finish, disk, staging
  <2>2. cleans = 0 => page # None /\ m.reservations = page.reservations /\ Current(m) = Current(page)
    BY <1>1, AtWorkCharged
  <2>3. PICK x : x = Durable'
    OBVIOUS
  <2>4. /\ x = Durable /\ pc' \notin Requesting
        /\ cleans = 0 /\ pc' \in Working =>
             page' # None /\ m'.reservations = page'.reservations /\ Current(m') = Current(page')
    BY <2>1, <2>2, <2>3 DEF Durable, Requesting
  <2>. QED
    BY <1>1, <2>3, <2>4, ChargedStays
<1>4. CASE Prepare
  <2>1. pc \in {"finish", "recovered"}
    BY <1>4 DEF Prepare
  <2>2. PICK y : y = Published(m)
    OBVIOUS
  <2>3. Within(y) /\ Balanced(y) /\ Rewrites(m, y)
    BY <2>1, <2>2, PublishParts
  <2>4. \A kind \in Kinds : Total(y, kind) = Total(m, kind)
    BY <2>3, RewritesTotal
  <2>5. CASE Raise(y)
    BY <1>1, <2>3, <2>4, <2>5, RaiseCharged
  <2>6. CASE Exit /\ UNCHANGED disk
    <3>1. pc' \notin Working /\ UNCHANGED <<page, run>>
      BY <2>6 DEF Exit, disk, staging, Working, Requesting
    <3>2. Durable' = Durable
      BY <3>1 DEF Durable
    <3>. QED
      BY <1>1, <3>1, <3>2, OffCharged
  <2>7. CASE run' = [manifest |-> y, files |-> files, status |-> "prepared"] /\ pc' = "commit"
    <3>1. run'.manifest = y /\ run'.status = "prepared"
      BY <2>7
    <3>2. Durable' = y
      BY <3>1 DEF Durable, NoRun
    <3>3. y # None
      BY <2>3, NoneAssumption DEF Within
    <3>4. cleans = 0 => \A kind \in Kinds : IF Durable = None THEN Total(y, kind) \in Nat
                                            ELSE Total(y, kind) = Total(Durable, kind)
      BY <1>1, <2>4, AtWorkCharged
    <3>5. pc' \notin Requesting /\ pc' \notin Working
      BY <2>7 DEF Working, Requesting
    <3>. QED
      BY <1>1, <3>2, <3>3, <3>4, <3>5, ChargedStays
  <2>. QED
    BY <1>4, <2>2, <2>5, <2>6, <2>7 DEF Prepare
<1>. QED
  BY <1>2, <1>3, <1>4

\* ChargedIInv is inductive: a reservation is durable before its attempt, what the
\* source serves was reserved, and no rewriting of the manifest, no death and no
\* publication loses a charge.
THEOREM ChargedInductive == Spec => []ChargedIInv
<1>1. Init => ChargedIInv
  BY DEF Init, ChargedIInv, Durable, Working, Requesting
<1>2. TypeOK /\ KeyIInv /\ PublishedIInv /\ CleanIInv /\ LedgerIInv /\ ChargedIInv /\ [Next]_vars
        => ChargedIInv'
  <2>. SUFFICES ASSUME TypeOK, KeyIInv, PublishedIInv, CleanIInv, LedgerIInv, ChargedIInv,
                       [Next]_vars
                PROVE  ChargedIInv'
    OBVIOUS
  <2>1. CASE UNCHANGED vars
    <3>1. UNCHANGED <<page, run, pc, m, query, asked, cleans>>
      BY <2>1 DEF vars, disk, staging, process, bounds
    <3>2. /\ Durable' = Durable /\ Pending' = Pending
      BY <3>1 DEF Durable, Pending
    <3>3. \A kind : Total(Durable, kind)' = Total(Durable, kind)
      BY <3>2 DEF Total, Consumed, Charge
    <3>4. Current(m)' = Current(m) /\ Current(page)' = Current(page)
      BY <3>1 DEF Current
    <3>. QED
      BY <3>1, <3>2, <3>3, <3>4 DEF ChargedIInv
  <2>2. CASE \/ \E key \in Keys, grant \in Grants : Invoke(key, grant)
             \/ Reconcile \/ CommitRun \/ MarkCommitted \/ AlreadyPublished \/ Start \/ Crash
    BY <2>2, OpenCharged
  <2>3. CASE Clean
    <3>1. cleans' \in Nat /\ cleans' # 0
      BY <2>3, CleanCounted DEF ChargedIInv
    <3>. QED
      BY <3>1 DEF ChargedIInv
  <2>4. CASE Create \/ Load
    BY <2>4, LoadCharged
  <2>5. CASE ResumeGrant \/ NewGrant
    BY <2>5, GrantCharged
  <2>6. CASE Request \/ Retry
    BY <2>6, AskCharged
  <2>7. CASE \E v \in Versions : Send(v)
    BY <2>7, SendCharged
  <2>8. CASE WritePage \/ Record
    BY <2>8, WriteCharged, RecordCharged
  <2>9. CASE Fail \/ Finish \/ Prepare
    BY <2>9, EndCharged
  <2>. QED
    BY <2>1, <2>2, <2>3, <2>4, <2>5, <2>6, <2>7, <2>8, <2>9 DEF Next, Work, Exchange
<1>. QED
  BY <1>1, <1>2, TypeCorrect, KeyInductive, PublishedInductive, CleanInductive, LedgerInductive, PTL
     DEF Spec

\* Unless clean-staging deletes it, the durable ledger has charged every attempt
\* the source was sent and every row it served, and stays under the ceilings of
\* the campaign, for every source, plan, grant and number of deaths.
THEOREM AlwaysCharged == Spec => []DurablyCharged
<1>1. LedgerIInv /\ ChargedIInv => DurablyCharged
  <2>. SUFFICES ASSUME LedgerIInv, ChargedIInv, cleans = 0, Durable # None
                PROVE  \A kind \in Kinds :
                         asked[kind] <= Total(Durable, kind) /\ Total(Durable, kind) <= Ceilings[kind]
    BY DEF DurablyCharged, ChargedIInv
  <2>1. PICK d : d = Durable
    OBVIOUS
  <2>2. Within(d)
    BY <2>1 DEF Durable, LedgerIInv
  <2>3. \A kind \in Kinds : Total(d, kind) \in Nat /\ Total(d, kind) <= Ceilings[kind]
    BY <2>2, TotalOf DEF Within, GrantsRespected
  <2>4. \A kind \in Kinds :
          /\ asked[kind] \in Nat /\ Pending[kind] \in Nat
          /\ asked[kind] + Pending[kind] <= Total(d, kind)
    BY <2>1, PendingIsNat DEF ChargedIInv, Kinds
  <2>. QED
    BY <2>1, <2>3, <2>4
<1>. QED
  BY <1>1, LedgerInductive, ChargedInductive, PTL

-----------------------------------------------------------------------------
(* The first contracts of a set *)

\* A finite set of numbers has a least one.
LEMMA LeastIn ==
  ASSUME NEW S, \A c \in S : c \in Nat, IsFiniteSet(S), S # {}
  PROVE  \E c \in S : \A d \in S : c <= d
<1>1. PICK below : below = [c \in S |-> {d \in S : d < c}]
  OBVIOUS
<1>2. below \in [S -> SUBSET S]
  BY <1>1
<1>3. PICK c \in S : \A e \in S : below[e] \subseteq below[c] => below[e] = below[c]
  BY <1>2, SmallestOf
<1>4. ASSUME NEW e \in S, e < c PROVE FALSE
  <2>1. below[e] \subseteq below[c]
    BY <1>1, <1>4
  <2>2. e \in below[c] /\ e \notin below[e]
    BY <1>1, <1>4
  <2>. QED
    BY <1>3, <2>1, <2>2
<1>. QED
  BY <1>4

\* There are as many first members as are asked for, or all.
LEMMA FirstCounts ==
  ASSUME NEW S, \A c \in S : c \in Nat, IsFiniteSet(S), NEW n \in Nat
  PROVE  LET first == First(S, n)
         IN /\ first \subseteq S /\ IsFiniteSet(first)
            /\ Cardinality(S) \in Nat /\ Cardinality(first) \in Nat
            /\ Cardinality(first) = IF n <= Cardinality(S) THEN n ELSE Cardinality(S)
            /\ n >= Cardinality(S) \/ Cardinality(first) < n => first = S
<1>. DEFINE first == First(S, n)
            upTo(c) == {d \in S : d <= c}
<1>1. first \subseteq S /\ \A c \in S : c \in first <=> Cardinality(upTo(c)) <= n
  BY DEF First
<1>2. IsFiniteSet(first) /\ Cardinality(first) <= n
  <2>1. S \subseteq Nat
    OBVIOUS
  <2>. QED
    BY <2>1, FirstIsBounded
<1>3. Cardinality(S) \in Nat /\ Cardinality(first) \in Nat /\ Cardinality(first) <= Cardinality(S)
  BY <1>1, <1>2, FS_CardinalityType, FS_Subset
<1>. HIDE DEF first
<1>4. CASE first = S
  BY <1>2, <1>3, <1>4 DEF first
<1>5. CASE first # S
  <2>1. PICK rest : rest = S \ first
    OBVIOUS
  <2>2. rest # {} /\ rest \subseteq S
    BY <1>1, <1>5, <2>1
  <2>3. IsFiniteSet(rest) /\ \A c \in rest : c \in Nat
    BY <2>2, FS_Subset
  <2>4. PICK c \in rest : \A d \in rest : c <= d
    BY <2>2, <2>3, LeastIn
  <2>5. c \in S /\ c \notin first
    BY <2>1
  <2>6. ~(Cardinality(upTo(c)) <= n)
    BY <1>1, <2>5
  <2>7. upTo(c) \subseteq first \cup {c}
    <3>1. ASSUME NEW d \in S, d <= c, d \notin first PROVE d = c
      <4>1. d \in rest
        BY <2>1, <3>1
      <4>2. c <= d
        BY <2>4, <4>1
      <4>3. c \in Nat /\ d \in Nat
        BY <2>5
      <4>. QED
        BY <3>1, <4>2, <4>3
    <3>. QED
      BY <3>1
  <2>8. upTo(c) \subseteq S
    OBVIOUS
  <2>. HIDE DEF upTo
  <2>9. IsFiniteSet(upTo(c)) /\ Cardinality(upTo(c)) \in Nat /\ Cardinality(upTo(c)) <= Cardinality(S)
    BY <2>8, FS_Subset, FS_CardinalityType
  <2>10. IsFiniteSet(first \cup {c}) /\ Cardinality(first \cup {c}) = Cardinality(first) + 1
    BY <1>2, <2>5, FS_AddElement
  <2>11. Cardinality(upTo(c)) <= Cardinality(first \cup {c})
    BY <2>7, <2>10, FS_Subset
  <2>12. n < Cardinality(upTo(c)) /\ Cardinality(first) = n
    BY <1>2, <1>3, <2>6, <2>9, <2>10, <2>11
  <2>. QED
    BY <1>1, <1>2, <1>3, <2>9, <2>12 DEF first
<1>. QED
  BY <1>4, <1>5

\* They come before the others, and more of them contain fewer.
LEMMA FirstIsClosed ==
  ASSUME NEW S, \A c \in S : c \in Nat, IsFiniteSet(S), NEW n \in Nat
  PROVE  /\ \A c \in First(S, n), d \in S : d <= c => d \in First(S, n)
         /\ \A k \in Nat : n <= k => First(S, n) \subseteq First(S, k)
<1>. DEFINE upTo(c) == {d \in S : d <= c}
<1>1. \A k : First(S, k) = {c \in S : Cardinality(upTo(c)) <= k}
  BY DEF First
<1>2. \A c : upTo(c) \subseteq S
  OBVIOUS
<1>3. \A c, d \in S : d <= c => upTo(d) \subseteq upTo(c)
  OBVIOUS
<1>. HIDE DEF upTo
<1>4. \A c : IsFiniteSet(upTo(c)) /\ Cardinality(upTo(c)) \in Nat
  BY <1>2, FS_Subset, FS_CardinalityType
<1>5. \A c, d \in S : d <= c => Cardinality(upTo(d)) <= Cardinality(upTo(c))
  BY <1>3, <1>4, FS_Subset
<1>6. \A c \in First(S, n), d \in S : d <= c => d \in First(S, n)
  BY <1>1, <1>4, <1>5
<1>7. \A k \in Nat : n <= k => First(S, n) \subseteq First(S, k)
  BY <1>1, <1>4
<1>. QED
  BY <1>6, <1>7

\* The greatest is the one that none exceeds.
LEMMA GreatestIs ==
  ASSUME NEW S, \A c \in S : c \in Nat, NEW g \in S, \A d \in S : d <= g
  PROVE  Greatest(S) = g
<1>1. \A c \in S : (\A d \in S : d <= c) => c = g
  OBVIOUS
<1>. QED
  BY <1>1 DEF Greatest

\* A batch has the page size, or what is left of the baseline.
LEMMA BatchCounts ==
  ASSUME NEW o \in Nat, o <= Cardinality(Baseline)
  PROVE  /\ Cardinality(Baseline) \in Nat
         /\ Cardinality(Batch(o)) = Least(PageSize, Cardinality(Baseline) - o)
         /\ Cardinality(Batch(o)) \in Nat
         /\ Batch(o) \subseteq Baseline
         /\ First(Baseline, o + Cardinality(Batch(o))) \subseteq First(Baseline, o) \cup Batch(o)
<1>. DEFINE A == First(Baseline, o)
            B == First(Baseline, o + PageSize)
            N == Cardinality(Baseline)
<1>1. \A c \in Baseline : c \in Nat
  BY SourceAssumption DEF Contracts
<1>2. IsFiniteSet(Baseline)
  BY SourceAssumption, FS_Subset DEF Contracts
<1>3. PageSize \in Nat \ {0} /\ o + PageSize \in Nat
  BY TransportAssumption
<1>4. A \subseteq Baseline /\ IsFiniteSet(A) /\ N \in Nat /\ Cardinality(A) = o
  <2>1. LET first == First(Baseline, o)
        IN /\ first \subseteq Baseline /\ IsFiniteSet(first) /\ Cardinality(Baseline) \in Nat
           /\ Cardinality(first) = IF o <= Cardinality(Baseline) THEN o ELSE Cardinality(Baseline)
    BY <1>1, <1>2, FirstCounts
  <2>. QED
    BY <2>1
<1>5. B \subseteq Baseline /\ IsFiniteSet(B) /\ Cardinality(B) = IF o + PageSize <= N THEN o + PageSize ELSE N
  <2>1. PICK k \in Nat : k = o + PageSize
    BY <1>3
  <2>2. LET first == First(Baseline, k)
        IN /\ first \subseteq Baseline /\ IsFiniteSet(first)
           /\ Cardinality(first) = IF k <= Cardinality(Baseline) THEN k ELSE Cardinality(Baseline)
    BY <1>1, <1>2, FirstCounts
  <2>. QED
    BY <2>1, <2>2
<1>6. A \subseteq B
  BY <1>1, <1>2, <1>3, FirstIsClosed
<1>7. Batch(o) = B \ A
  BY DEF Batch
<1>. HIDE DEF A, B
<1>8. Cardinality(B \ A) = Cardinality(B) - Cardinality(A)
  <2>1. B \cap A = A
    BY <1>6
  <2>2. Cardinality(B \ A) = Cardinality(B) - Cardinality(B \cap A)
    BY <1>4, <1>5, FS_Difference
  <2>. QED
    BY <2>1, <2>2
<1>9. Cardinality(Batch(o)) = Least(PageSize, N - o)
  BY <1>3, <1>4, <1>5, <1>7, <1>8 DEF Least
<1>10. Cardinality(Batch(o)) \in Nat /\ Cardinality(Batch(o)) <= PageSize
  BY <1>3, <1>4, <1>9 DEF Least
<1>11. First(Baseline, o + Cardinality(Batch(o))) \subseteq B
  <2>1. PICK k, l : k = o + Cardinality(Batch(o)) /\ l = o + PageSize
    OBVIOUS
  <2>2. k \in Nat /\ l \in Nat /\ k <= l
    BY <1>3, <1>10, <2>1
  <2>3. First(Baseline, k) \subseteq First(Baseline, l)
    BY <1>1, <1>2, <2>2, FirstIsClosed
  <2>. QED
    BY <2>1, <2>3 DEF B
<1>12. Batch(o) \subseteq Baseline
  BY <1>5, <1>7
<1>. QED
  BY <1>4, <1>7, <1>9, <1>10, <1>11, <1>12 DEF A

-----------------------------------------------------------------------------
(* Pages follow the plan *)

\* The pages of a manifest.
LEMMA PagesOf ==
  ASSUME NEW x \in Manifest
  PROVE  /\ x.pages \in Seq(Page) /\ Len(x.pages) \in Nat /\ DOMAIN x.pages = 1 .. Len(x.pages)
         /\ \A i \in DOMAIN x.pages :
              /\ x.pages[i] \in Page /\ x.pages[i].rows \subseteq Contracts
              /\ x.pages[i].limit \in Nat /\ x.pages[i].cursor \in Nat
<1>1. x.pages \in Seq(Page)
  BY DEF Manifest
<1>2. Len(x.pages) \in Nat /\ DOMAIN x.pages = 1 .. Len(x.pages)
  BY <1>1, LenProperties
<1>3. \A i \in DOMAIN x.pages : x.pages[i] \in Page
  BY <1>1, <1>2, ElementOfSeq
<1>. QED
  BY <1>1, <1>2, <1>3 DEF Page

\* The rows of some pages are contracts, of which there are finitely many.
LEMMA RowsAreContracts ==
  ASSUME NEW x \in Manifest, NEW I, I \subseteq DOMAIN x.pages
  PROVE  /\ RowsOf(x, I) \subseteq Contracts /\ IsFiniteSet(RowsOf(x, I))
         /\ \A c \in RowsOf(x, I) : c \in Nat
<1>1. RowsOf(x, I) \subseteq Contracts
  BY PagesOf DEF RowsOf
<1>2. IsFiniteSet(RowsOf(x, I))
  BY <1>1, SourceAssumption, FS_Subset
<1>3. \A c \in RowsOf(x, I) : c \in Nat
  BY <1>1, SourceAssumption
<1>. QED
  BY <1>1, <1>2, <1>3

\* The cursor has passed every row of the pages before it.
LEMMA CursorPasses ==
  ASSUME NEW x \in Manifest, NEW i \in 0 .. Len(x.pages)
  PROVE  \A c \in RowsOf(x, 1 .. i) : c \in Nat /\ c <= CursorAfter(x, i) /\ CursorAfter(x, i) \in Nat
<1>1. 1 .. i \subseteq DOMAIN x.pages
  BY PagesOf
<1>2. PICK rows : rows = RowsOf(x, 1 .. i)
  OBVIOUS
<1>3. IsFiniteSet(rows) /\ \A c \in rows : c \in Nat
  BY <1>1, <1>2, RowsAreContracts
<1>4. rows # {} => CursorAfter(x, i) = Greatest(rows)
  BY <1>2 DEF CursorAfter
<1>5. rows # {} => Greatest(rows) \in rows /\ \A c \in rows : c <= Greatest(rows)
  BY <1>3, GreatestIn
<1>. QED
  BY <1>2, <1>3, <1>4, <1>5

\* One page more adds its rows to those of the pages there were.
LEMMA RowsAppended ==
  ASSUME NEW x \in Manifest, NEW y, NEW p \in Page, y.pages = Append(x.pages, p)
  PROVE  /\ Len(y.pages) = Len(x.pages) + 1 /\ DOMAIN y.pages = 1 .. Len(x.pages) + 1
         /\ \A i \in DOMAIN x.pages : y.pages[i] = x.pages[i]
         /\ y.pages[Len(x.pages) + 1] = p
         /\ \A I \in SUBSET DOMAIN x.pages :
              /\ RowsOf(y, I) = RowsOf(x, I)
              /\ RowsOf(y, I \cup {Len(x.pages) + 1}) = RowsOf(x, I) \cup p.rows
         /\ \A i \in 0 .. Len(x.pages) : CursorAfter(y, i) = CursorAfter(x, i)
<1>1. PICK s, t : s = x.pages /\ t = y.pages
  OBVIOUS
<1>2. s \in Seq(Page) /\ t = Append(s, p) /\ Len(s) \in Nat /\ DOMAIN s = 1 .. Len(s)
  BY <1>1, PagesOf
<1>3. /\ Len(t) = Len(s) + 1 /\ DOMAIN t = 1 .. Len(s) + 1 /\ t[Len(s) + 1] = p
      /\ \A i \in DOMAIN s : t[i] = s[i]
  BY <1>2, AppendProperties, LenProperties
<1>4. \A I : /\ RowsOf(x, I) = UNION {s[i].rows : i \in I}
             /\ RowsOf(y, I) = UNION {t[i].rows : i \in I}
  BY <1>1 DEF RowsOf
<1>5. ASSUME NEW I \in SUBSET DOMAIN s
      PROVE  /\ RowsOf(y, I) = RowsOf(x, I)
             /\ RowsOf(y, I \cup {Len(s) + 1}) = RowsOf(x, I) \cup p.rows
  <2>1. \A i \in I : t[i].rows = s[i].rows
    BY <1>3
  <2>2. t[Len(s) + 1].rows = p.rows
    BY <1>3
  <2>3. RowsOf(y, I) = RowsOf(x, I)
    <3>1. {t[i].rows : i \in I} = {s[i].rows : i \in I}
      BY <2>1
    <3>. QED
      BY <1>4, <3>1
  <2>4. PICK n : n = Len(s) + 1
    OBVIOUS
  <2>5. RowsOf(y, I \cup {n}) = RowsOf(y, I) \cup t[n].rows
    BY <1>4
  <2>. QED
    BY <2>2, <2>3, <2>4, <2>5
<1>6. ASSUME NEW i \in 0 .. Len(s) PROVE CursorAfter(y, i) = CursorAfter(x, i)
  <2>1. 1 .. i \in SUBSET DOMAIN s
    BY <1>2
  <2>2. RowsOf(y, 1 .. i) = RowsOf(x, 1 .. i)
    BY <1>5, <2>1
  <2>. QED
    BY <2>2 DEF CursorAfter
<1>. QED
  BY <1>1, <1>3, <1>5, <1>6

\* The scans of a plan are as many as it says.
LEMMA ScansAre ==
  ASSUME NEW x \in Manifest, NEW k \in 0 .. Len(x.pages), Follows(x, k)
  PROVE  ScanPages(x) = 1 .. k /\ PagesFollowPlan(x)
<1>1. Len(x.pages) \in Nat /\ DOMAIN x.pages = 1 .. Len(x.pages)
  BY PagesOf
<1>2. /\ \A i \in 1 .. k : x.pages[i].lane = "scope_scan"
      /\ \A i \in k + 1 .. Len(x.pages) : x.pages[i].lane = "baseline_check"
  BY DEF Follows
<1>3. \A i \in DOMAIN x.pages : x.pages[i].lane = "scope_scan" <=> i \in 1 .. k
  BY <1>1, <1>2
<1>4. ScanPages(x) = 1 .. k
  <2>1. 1 .. k \subseteq DOMAIN x.pages
    BY <1>1
  <2>. QED
    BY <1>3, <2>1 DEF ScanPages
<1>5. Cardinality(1 .. k) = k
  <2>1. 0 \in Int /\ k \in Int /\ k \in Nat
    BY <1>1
  <2>. QED
    BY <2>1, FS_Interval
<1>. QED
  BY <1>4, <1>5 DEF PagesFollowPlan

\* A manifest that follows its plan begins with the scans.
LEMMA PlanFollows ==
  ASSUME NEW x \in Manifest, PagesFollowPlan(x)
  PROVE  \E k \in 0 .. Len(x.pages) : Follows(x, k) /\ ScanPages(x) = 1 .. k
<1>1. Len(x.pages) \in Nat /\ DOMAIN x.pages = 1 .. Len(x.pages)
  BY PagesOf
<1>2. IsFiniteSet(1 .. Len(x.pages)) /\ Cardinality(1 .. Len(x.pages)) = Len(x.pages)
  <2>1. 1 \in Int /\ Len(x.pages) \in Int
    BY <1>1
  <2>. QED
    BY <1>1, <2>1, FS_Interval
<1>3. ScanPages(x) \subseteq 1 .. Len(x.pages)
  BY <1>1 DEF ScanPages
<1>4. PICK k : k = Cardinality(ScanPages(x))
  OBVIOUS
<1>5. k \in Nat /\ k <= Len(x.pages)
  <2>1. IsFiniteSet(ScanPages(x)) /\ Cardinality(ScanPages(x)) <= Cardinality(1 .. Len(x.pages))
    BY <1>2, <1>3, FS_Subset
  <2>. QED
    BY <1>2, <1>4, <2>1, FS_CardinalityType
<1>6. k \in 0 .. Len(x.pages) /\ Follows(x, k)
  BY <1>1, <1>4, <1>5 DEF PagesFollowPlan
<1>. QED
  BY <1>6, ScansAre

\* One page size more.
LEMMA OneMoreTime ==
  ASSUME NEW d \in Int, NEW e \in Int
  PROVE  (d + 1) * e = d * e + e
OBVIOUS

\* A scan that begins at the cursor continues the plan.
LEMMA ScanContinues ==
  ASSUME NEW x \in Manifest, NEW k, k = Len(x.pages), Follows(x, k), ~x.scanned,
         NEW p \in Page, p.lane = "scope_scan", p.limit \in 1 .. PageSize, p.cursor = x.cursor,
         \A c \in p.rows : c \in InScope /\ c > x.cursor,
         NEW y, y.pages = Append(x.pages, p), y.scanned = Short(p),
         y.cursor = (IF p.rows = {} THEN x.cursor ELSE Greatest(p.rows)),
         y.offset = x.offset, y.returned = x.returned
  PROVE  Follows(y, k + 1)
<1>1. k \in Nat /\ DOMAIN x.pages = 1 .. k
  BY PagesOf
<1>2. /\ Len(y.pages) = k + 1 /\ DOMAIN y.pages = 1 .. k + 1
      /\ \A i \in 1 .. k : y.pages[i] = x.pages[i]
      /\ y.pages[k + 1] = p
      /\ \A i \in 0 .. k : CursorAfter(y, i) = CursorAfter(x, i)
      /\ \A I \in SUBSET (1 .. k) : RowsOf(y, I \cup {k + 1}) = RowsOf(x, I) \cup p.rows
  <2>1. /\ Len(y.pages) = Len(x.pages) + 1 /\ DOMAIN y.pages = 1 .. Len(x.pages) + 1
        /\ \A i \in DOMAIN x.pages : y.pages[i] = x.pages[i]
        /\ y.pages[Len(x.pages) + 1] = p
        /\ \A I \in SUBSET DOMAIN x.pages :
             /\ RowsOf(y, I) = RowsOf(x, I)
             /\ RowsOf(y, I \cup {Len(x.pages) + 1}) = RowsOf(x, I) \cup p.rows
        /\ \A i \in 0 .. Len(x.pages) : CursorAfter(y, i) = CursorAfter(x, i)
    BY RowsAppended
  <2>. QED
    BY <1>1, <2>1
<1>3. /\ \A i \in 1 .. k : x.pages[i].limit \in 1 .. PageSize
      /\ \A i \in 1 .. k :
           /\ x.pages[i].lane = "scope_scan"
           /\ x.pages[i].cursor = CursorAfter(x, i - 1)
           /\ \A c \in x.pages[i].rows : c \in InScope /\ c > x.pages[i].cursor
           /\ i < k => ~Short(x.pages[i])
      /\ x.scanned = (k > 0 /\ Short(x.pages[k]))
      /\ x.cursor = CursorAfter(x, k)
      /\ x.offset = Least((k - k) * PageSize, Cardinality(Baseline))
      /\ x.returned = RowsOf(x, k + 1 .. k)
  BY <1>1 DEF Follows
<1>4. \A i \in DOMAIN y.pages : y.pages[i].limit \in 1 .. PageSize
  BY <1>1, <1>2, <1>3
<1>5. ASSUME NEW i \in 1 .. k + 1
      PROVE  /\ y.pages[i].lane = "scope_scan"
             /\ y.pages[i].cursor = CursorAfter(y, i - 1)
             /\ \A c \in y.pages[i].rows : c \in InScope /\ c > y.pages[i].cursor
             /\ i < k + 1 => ~Short(y.pages[i])
  <2>1. CASE i = k + 1
    <3>1. i - 1 = k /\ k \in 0 .. k /\ ~(i < k + 1)
      BY <1>1, <2>1
    <3>. QED
      BY <1>2, <1>3, <2>1, <3>1
  <2>2. CASE i # k + 1
    <3>1. i \in 1 .. k /\ i - 1 \in 0 .. k /\ (i < k \/ i = k)
      BY <1>1, <2>2
    <3>2. ~Short(x.pages[i])
      <4>1. CASE i < k
        BY <1>3, <3>1, <4>1
      <4>2. CASE i = k
        <5>1. k > 0
          BY <1>1, <3>1, <4>2
        <5>. QED
          BY <1>3, <4>2, <5>1
      <4>. QED
        BY <3>1, <4>1, <4>2
    <3>3. y.pages[i] = x.pages[i] /\ CursorAfter(y, i - 1) = CursorAfter(x, i - 1)
      BY <1>2, <3>1
    <3>. QED
      BY <1>3, <3>1, <3>2, <3>3
  <2>. QED
    BY <2>1, <2>2
<1>6. k + 1 + 1 .. k + 1 = {} /\ k + 1 .. k = {} /\ ~(k + 1 - (k + 1) > 0) /\ k + 1 > 0
      /\ k - k = k + 1 - (k + 1)
  BY <1>1
<1>7. RowsOf(y, {}) = {} /\ RowsOf(x, {}) = {}
  BY DEF RowsOf
<1>8. y.cursor = CursorAfter(y, k + 1)
  <2>1. PICK rows, all : rows = RowsOf(x, 1 .. k) /\ all = RowsOf(y, 1 .. k + 1)
    OBVIOUS
  <2>2. all = rows \cup p.rows
    <3>1. 1 .. k + 1 = (1 .. k) \cup {k + 1}
      BY <1>1
    <3>2. RowsOf(y, (1 .. k) \cup {k + 1}) = RowsOf(x, 1 .. k) \cup p.rows
      BY <1>2
    <3>. QED
      BY <2>1, <3>1, <3>2
  <2>3. /\ CursorAfter(x, k) = IF rows = {} THEN 0 ELSE Greatest(rows)
        /\ CursorAfter(y, k + 1) = IF all = {} THEN 0 ELSE Greatest(all)
    BY <2>1 DEF CursorAfter
  <2>4. CASE p.rows = {}
    BY <1>3, <2>2, <2>3, <2>4
  <2>5. CASE p.rows # {}
    <3>1. p.rows \subseteq Contracts /\ IsFiniteSet(p.rows) /\ \A c \in p.rows : c \in Nat
      BY SourceAssumption, FS_Subset DEF Page
    <3>2. PICK g : g = Greatest(p.rows)
      OBVIOUS
    <3>3. g \in p.rows /\ \A c \in p.rows : c <= g
      BY <2>5, <3>1, <3>2, GreatestIn
    <3>4. \A c \in rows : c \in Nat /\ c <= x.cursor /\ x.cursor \in Nat
      <4>1. k \in 0 .. Len(x.pages)
        BY <1>1
      <4>. QED
        BY <1>3, <2>1, <4>1, CursorPasses
    <3>5. g > x.cursor /\ g \in Nat
      BY <3>1, <3>3
    <3>6. \A c \in all : c \in Nat /\ c <= g
      BY <2>2, <3>1, <3>3, <3>4, <3>5
    <3>7. Greatest(all) = g
      BY <2>2, <3>3, <3>6, GreatestIs
    <3>. QED
      BY <2>2, <2>3, <2>5, <3>2, <3>3, <3>7
  <2>. QED
    BY <2>4, <2>5
<1>9. \A i \in k + 1 + 1 .. Len(y.pages) :
        /\ y.pages[i].lane = "baseline_check"
        /\ y.pages[i].limit = Cardinality(Batch((i - (k + 1) - 1) * PageSize))
        /\ y.pages[i].rows \subseteq Batch((i - (k + 1) - 1) * PageSize)
  BY <1>2, <1>6
<1>10. /\ Len(y.pages) - (k + 1) > 0 => k + 1 > 0 /\ Short(y.pages[k + 1])
       /\ y.scanned = (k + 1 > 0 /\ Short(y.pages[k + 1]))
       /\ y.offset = Least((Len(y.pages) - (k + 1)) * PageSize, Cardinality(Baseline))
       /\ y.returned = RowsOf(y, k + 1 + 1 .. Len(y.pages))
  <2>1. PICK b : b = Short(p)
    OBVIOUS
  <2>2. b \in BOOLEAN
    BY <2>1 DEF Short
  <2>3. y.scanned = (k + 1 > 0 /\ Short(y.pages[k + 1]))
    BY <1>2, <1>6, <2>1, <2>2
  <2>4. Len(y.pages) - (k + 1) = k - k /\ ~(Len(y.pages) - (k + 1) > 0)
    BY <1>2, <1>6
  <2>5. y.offset = Least((Len(y.pages) - (k + 1)) * PageSize, Cardinality(Baseline))
    BY <1>3, <2>4
  <2>6. k + 1 + 1 .. Len(y.pages) = {}
    BY <1>2, <1>6
  <2>7. y.returned = RowsOf(y, k + 1 + 1 .. Len(y.pages))
    BY <1>3, <1>6, <1>7, <2>6
  <2>. QED
    BY <2>3, <2>4, <2>5, <2>7
<1>. QED
  BY <1>4, <1>5, <1>8, <1>9, <1>10, Zenon DEF Follows

\* A batch that begins at the offset continues the plan.
LEMMA BatchContinues ==
  ASSUME NEW x \in Manifest, NEW k \in 0 .. Len(x.pages), Follows(x, k), x.scanned, ~MembersDone(x),
         NEW p \in Page, p.lane = "baseline_check", p.limit = Cardinality(Batch(x.offset)),
         p.rows \subseteq Batch(x.offset),
         NEW y, y.pages = Append(x.pages, p), y.scanned = x.scanned, y.cursor = x.cursor,
         y.offset = x.offset + p.limit, y.returned = x.returned \cup p.rows
  PROVE  Follows(y, k)
<1>0. PICK n, N : n = Len(x.pages) /\ N = Cardinality(Baseline)
  OBVIOUS
<1>1. n \in Nat /\ DOMAIN x.pages = 1 .. n /\ k \in Nat /\ k <= n
  BY <1>0, PagesOf
<1>2. /\ Len(y.pages) = n + 1 /\ DOMAIN y.pages = 1 .. n + 1
      /\ \A i \in 1 .. n : y.pages[i] = x.pages[i]
      /\ y.pages[n + 1] = p
      /\ \A i \in 0 .. n : CursorAfter(y, i) = CursorAfter(x, i)
      /\ \A I \in SUBSET (1 .. n) : RowsOf(y, I \cup {n + 1}) = RowsOf(x, I) \cup p.rows
  <2>1. /\ Len(y.pages) = Len(x.pages) + 1 /\ DOMAIN y.pages = 1 .. Len(x.pages) + 1
        /\ \A i \in DOMAIN x.pages : y.pages[i] = x.pages[i]
        /\ y.pages[Len(x.pages) + 1] = p
        /\ \A I \in SUBSET DOMAIN x.pages :
             /\ RowsOf(y, I) = RowsOf(x, I)
             /\ RowsOf(y, I \cup {Len(x.pages) + 1}) = RowsOf(x, I) \cup p.rows
        /\ \A i \in 0 .. Len(x.pages) : CursorAfter(y, i) = CursorAfter(x, i)
    BY RowsAppended
  <2>. QED
    BY <1>0, <1>1, <2>1
<1>3. /\ \A i \in 1 .. n : x.pages[i].limit \in 1 .. PageSize
      /\ \A i \in 1 .. k :
           /\ x.pages[i].lane = "scope_scan"
           /\ x.pages[i].cursor = CursorAfter(x, i - 1)
           /\ \A c \in x.pages[i].rows : c \in InScope /\ c > x.pages[i].cursor
           /\ i < k => ~Short(x.pages[i])
      /\ \A i \in k + 1 .. n :
           /\ x.pages[i].lane = "baseline_check"
           /\ x.pages[i].limit = Cardinality(Batch((i - k - 1) * PageSize))
           /\ x.pages[i].rows \subseteq Batch((i - k - 1) * PageSize)
      /\ x.scanned = (k > 0 /\ Short(x.pages[k]))
      /\ x.cursor = CursorAfter(x, k)
      /\ x.offset = Least((n - k) * PageSize, N)
      /\ x.returned = RowsOf(x, k + 1 .. n)
  BY <1>0, <1>1 DEF Follows
<1>4. PICK a \in Nat : a = (n - k) * PageSize
  <2>1. n - k \in Nat /\ PageSize \in Nat
    BY <1>1, TransportAssumption
  <2>. QED
    BY <2>1
<1>5. N \in Nat
  BY <1>0, SourceAssumption, FS_Subset, FS_CardinalityType DEF Contracts
<1>6. x.offset = a /\ a < N
  BY <1>0, <1>3, <1>4, <1>5 DEF MembersDone, Least
<1>7. PICK b : b = Cardinality(Batch(a))
  OBVIOUS
<1>8. b = Least(PageSize, N - a) /\ b \in 1 .. PageSize
  <2>1. b = Least(PageSize, N - a)
    BY <1>0, <1>5, <1>6, <1>7, BatchCounts
  <2>. QED
    BY <1>5, <1>6, <2>1, TransportAssumption DEF Least
<1>9. p.limit = b /\ p.rows \subseteq Batch(a)
  BY <1>6, <1>7
<1>10. (n + 1 - k) * PageSize = a + PageSize /\ n + 1 - k - 1 = n - k
  <2>1. (n - k + 1) * PageSize = (n - k) * PageSize + PageSize
    <3>1. PICK d \in Int, e \in Int : d = n - k /\ e = PageSize
      BY <1>1, TransportAssumption
    <3>. QED
      BY <3>1, OneMoreTime
  <2>2. n + 1 - k = n - k + 1 /\ n + 1 - k - 1 = n - k
    BY <1>1
  <2>. QED
    BY <1>4, <2>1, <2>2
<1>11. y.offset = Least((n + 1 - k) * PageSize, N)
  <2>1. PICK w : w = (n + 1 - k) * PageSize
    OBVIOUS
  <2>2. w = a + PageSize /\ y.offset = a + b
    BY <1>6, <1>9, <1>10, <2>1
  <2>3. a + b = Least(w, N)
    BY <1>5, <1>6, <1>8, <2>2, TransportAssumption DEF Least
  <2>. QED
    BY <2>1, <2>2, <2>3
<1>12. \A i \in DOMAIN y.pages : y.pages[i].limit \in 1 .. PageSize
  BY <1>1, <1>2, <1>3, <1>8, <1>9
<1>13. ASSUME NEW i \in 1 .. k
       PROVE  /\ y.pages[i].lane = "scope_scan"
              /\ y.pages[i].cursor = CursorAfter(y, i - 1)
              /\ \A c \in y.pages[i].rows : c \in InScope /\ c > y.pages[i].cursor
              /\ i < k => ~Short(y.pages[i])
  <2>1. i \in 1 .. n /\ i - 1 \in 0 .. n
    BY <1>1
  <2>2. y.pages[i] = x.pages[i] /\ CursorAfter(y, i - 1) = CursorAfter(x, i - 1)
    BY <1>2, <2>1
  <2>. QED
    BY <1>3, <2>2
<1>14. ASSUME NEW i \in k + 1 .. n + 1
       PROVE  /\ y.pages[i].lane = "baseline_check"
              /\ y.pages[i].limit = Cardinality(Batch((i - k - 1) * PageSize))
              /\ y.pages[i].rows \subseteq Batch((i - k - 1) * PageSize)
  <2>1. CASE i = n + 1
    <3>1. (i - k - 1) * PageSize = a
      <4>1. i - k - 1 = n - k
        BY <1>1, <2>1
      <4>. QED
        BY <1>4, <4>1
    <3>. QED
      BY <1>2, <1>7, <1>9, <2>1, <3>1
  <2>2. CASE i # n + 1
    <3>1. i \in k + 1 .. n /\ i \in 1 .. n
      BY <1>1, <2>2
    <3>. QED
      BY <1>2, <1>3, <3>1
  <2>. QED
    BY <2>1, <2>2
<1>15. y.returned = RowsOf(y, k + 1 .. n + 1)
  <2>1. k + 1 .. n + 1 = (k + 1 .. n) \cup {n + 1} /\ k + 1 .. n \in SUBSET (1 .. n)
    BY <1>1
  <2>2. RowsOf(y, (k + 1 .. n) \cup {n + 1}) = RowsOf(x, k + 1 .. n) \cup p.rows
    BY <1>2, <2>1
  <2>. QED
    BY <1>3, <2>1, <2>2
<1>16. /\ n + 1 - k > 0 => k > 0 /\ Short(y.pages[k])
       /\ y.scanned = (k > 0 /\ Short(y.pages[k]))
  <2>1. k > 0 /\ Short(x.pages[k])
    BY <1>3
  <2>2. k \in 1 .. n
    BY <1>1, <2>1
  <2>3. y.pages[k] = x.pages[k]
    BY <1>2, <2>2
  <2>. QED
    BY <1>3, <2>1, <2>3
<1>17. y.cursor = CursorAfter(y, k)
  BY <1>1, <1>2, <1>3
<1>18. /\ \A i \in k + 1 .. Len(y.pages) :
            /\ y.pages[i].lane = "baseline_check"
            /\ y.pages[i].limit = Cardinality(Batch((i - k - 1) * PageSize))
            /\ y.pages[i].rows \subseteq Batch((i - k - 1) * PageSize)
       /\ Len(y.pages) - k > 0 => k > 0 /\ Short(y.pages[k])
       /\ y.offset = Least((Len(y.pages) - k) * PageSize, Cardinality(Baseline))
       /\ y.returned = RowsOf(y, k + 1 .. Len(y.pages))
  BY <1>0, <1>2, <1>11, <1>14, <1>15, <1>16
<1>. QED
  BY <1>12, <1>13, <1>16, <1>17, <1>18, Zenon DEF Follows

\* What is asked for says how far the plan is.
LEMMA LanesOf ==
  ASSUME NEW x \in Manifest
  PROVE  /\ Lane(x) = "metadata" => ~x.verified
         /\ Lane(x) = "scope_scan" => x.verified /\ ~x.scanned
         /\ Lane(x) = "baseline_check" => x.verified /\ x.scanned /\ ~MembersDone(x)
         /\ Lane(x) = None <=> x.verified /\ x.scanned /\ MembersDone(x)
<1>. DEFINE v == x.verified
            s == x.scanned
<1>1. Lane(x) = IF ~v THEN "metadata" ELSE IF ~s THEN "scope_scan"
                ELSE IF ~MembersDone(x) THEN "baseline_check" ELSE None
  BY Zenon DEF Lane
<1>2. None \notin Lanes
  BY NoneAssumption
<1>. QED
  BY <1>1, <1>2 DEF Lanes

\* Nothing else that is written to a manifest changes its plan.
LEMMA PlanKept ==
  ASSUME NEW x, NEW y, y.pages = x.pages, y.scanned = x.scanned, y.cursor = x.cursor,
         y.offset = x.offset, y.returned = x.returned
  PROVE  /\ PagesFollowPlan(x) => PagesFollowPlan(y)
         /\ ScanPages(y) = ScanPages(x) /\ \A I : RowsOf(y, I) = RowsOf(x, I)
<1>1. ScanPages(y) = ScanPages(x) /\ \A I : RowsOf(y, I) = RowsOf(x, I)
  BY DEF ScanPages, RowsOf
<1>2. \A i : CursorAfter(y, i) = CursorAfter(x, i)
  BY <1>1 DEF CursorAfter
<1>3. PICK k, s : k = Cardinality(ScanPages(x)) /\ s = x.pages
  OBVIOUS
<1>4. Follows(x, k) => Follows(y, k)
  BY <1>1, <1>2, <1>3, Zenon DEF Follows
<1>. QED
  BY <1>1, <1>3, <1>4 DEF PagesFollowPlan

\* An answer that is recorded continues the plan.
LEMMA RecordedFollows ==
  ASSUME NEW x, Within(x), NEW q, Answered(x, q), PagesFollowPlan(x), q.lane = Lane(x),
         q.limit \in IF q.lane = "scope_scan" THEN 1 .. PageSize ELSE {Limit(x)},
         NEW v \in Versions, q.answer = Answer(x, q.lane, q.limit, v),
         NEW y, y = Recorded(x, q)
  PROVE  PagesFollowPlan(y)
<1>1. x \in Manifest /\ y \in Manifest /\ Progressed(x, q, y)
  BY RecordedParts DEF Answered
<1>2. PICK k \in 0 .. Len(x.pages) : Follows(x, k)
  BY <1>1, PlanFollows
<1>3. Len(x.pages) \in Nat /\ x.verified \in BOOLEAN /\ x.scanned \in BOOLEAN /\ x.cursor \in Nat
  BY <1>1, PagesOf DEF Manifest
<1>4. PICK p : p = PageOf(x, q)
  OBVIOUS
<1>5. p \in Page /\ p.lane = q.lane /\ p.limit = q.limit /\ p.cursor = x.cursor /\ p.rows = q.answer
  BY <1>3, <1>4 DEF PageOf, Page, Answered
<1>9. /\ Lane(x) = "scope_scan" => x.verified /\ ~x.scanned
      /\ Lane(x) = "baseline_check" => x.verified /\ x.scanned /\ ~MembersDone(x)
  BY <1>1, LanesOf, Zenon
<1>6. CASE q.lane = "metadata"
  <2>1. /\ y.pages = x.pages /\ y.scanned = x.scanned /\ y.cursor = x.cursor
        /\ y.offset = x.offset /\ y.returned = x.returned
    BY <1>1, <1>6 DEF Progressed
  <2>. QED
    BY <2>1, PlanKept
<1>7. CASE q.lane = "scope_scan"
  <2>1. ~x.scanned
    BY <1>7, <1>9, Zenon
  <2>2. k = Len(x.pages)
    <3>1. ~(Len(x.pages) - k > 0)
      BY <1>2, <2>1 DEF Follows
    <3>. QED
      BY <1>3, <3>1
  <2>3. /\ y.pages = Append(x.pages, p) /\ y.scanned = Short(p)
        /\ y.cursor = IF p.rows = {} THEN x.cursor ELSE Greatest(p.rows)
        /\ y.offset = x.offset /\ y.returned = x.returned
    BY <1>1, <1>4, <1>5, <1>7 DEF Progressed
  <2>4. \A c \in p.rows : c \in InScope /\ c > x.cursor
    <3>1. q.answer = First({c \in v \cap InScope : c > x.cursor}, q.limit)
      BY <1>7 DEF Answer
    <3>. QED
      BY <1>5, <3>1 DEF First
  <2>5. p.limit \in 1 .. PageSize
    BY <1>5, <1>7
  <2>6. Follows(y, k + 1)
    BY <1>1, <1>2, <1>5, <1>7, <2>1, <2>2, <2>3, <2>4, <2>5, ScanContinues
  <2>7. k + 1 \in 0 .. Len(y.pages)
    BY <1>1, <1>3, <1>5, <2>2, <2>3, RowsAppended
  <2>. QED
    BY <1>1, <2>6, <2>7, ScansAre
<1>8. CASE q.lane = "baseline_check"
  <2>1. x.scanned /\ ~MembersDone(x)
    BY <1>8, <1>9, Zenon
  <2>2. /\ y.pages = Append(x.pages, p) /\ y.scanned = x.scanned /\ y.cursor = x.cursor
        /\ y.offset = x.offset + p.limit /\ y.returned = x.returned \cup p.rows
    BY <1>1, <1>4, <1>5, <1>8 DEF Progressed
  <2>3. p.limit = Cardinality(Batch(x.offset))
    BY <1>5, <1>8 DEF Limit
  <2>4. p.rows \subseteq Batch(x.offset)
    <3>1. q.answer = v \cap Batch(x.offset)
      BY <1>8 DEF Answer
    <3>. QED
      BY <1>5, <3>1
  <2>5. Follows(y, k)
    BY <1>1, <1>2, <1>5, <1>8, <2>1, <2>2, <2>3, <2>4, BatchContinues
  <2>6. k \in 0 .. Len(y.pages)
    <3>1. Len(y.pages) = Len(x.pages) + 1
      BY <1>1, <1>5, <2>2, RowsAppended
    <3>. QED
      BY <1>3, <3>1
  <2>. QED
    BY <1>1, <2>5, <2>6, ScansAre
<1>. QED
  BY <1>6, <1>7, <1>8 DEF Answered, Lanes

-----------------------------------------------------------------------------
(* Receipts match the pages *)

\* The reservations that name a page, the receipts of the metadata, the receipt of a
\* page, and what holds of every reservation.
Naming(r, n) == {i \in DOMAIN r : r[i].page = n}
MetadataReceipts(r) == {i \in DOMAIN r : r[i].lane = "metadata" /\ r[i].state = "response"}

HasReceipt(r, s, n) ==
  \E i \in DOMAIN r :
    /\ Naming(r, n) = {i} /\ r[i].state = "response" /\ r[i].lane = s[n].lane
    /\ r[i].max = s[n].limit /\ r[i].charged = Cardinality(s[n].rows)

Consistent(e, pages) ==
  /\ e.charged \in 0 .. e.max
  /\ e.page \in IF e.state = "response" /\ ~(e.lane = "metadata") THEN pages ELSE {None}
  /\ ~(e.state = "response") => e.charged = e.max
  /\ e.lane = "metadata" => e.max = 0

\* The receipts match when each page has its one receipt and each reservation is consistent.
LEMMA ReceiptsAre ==
  ASSUME NEW x
  PROVE  ReceiptsMatch(x) <=>
           /\ \A n \in DOMAIN x.pages : HasReceipt(x.reservations, x.pages, n)
           /\ \A i \in DOMAIN x.reservations :
                /\ Consistent(x.reservations[i], DOMAIN x.pages)
                /\ i > 1 => x.reservations[i - 1].invocation <= x.reservations[i].invocation
           /\ Cardinality(MetadataReceipts(x.reservations)) = IF x.verified THEN 1 ELSE 0
<1>1. /\ \A n \in DOMAIN x.pages :
           HasReceipt(x.reservations, x.pages, n) <=>
             \E i \in DOMAIN x.reservations :
               /\ {j \in DOMAIN x.reservations : x.reservations[j].page = n} = {i}
               /\ x.reservations[i].state = "response"
               /\ x.reservations[i].lane = x.pages[n].lane
               /\ x.reservations[i].max = x.pages[n].limit
               /\ x.reservations[i].charged = Cardinality(x.pages[n].rows)
      /\ \A i \in DOMAIN x.reservations :
           Consistent(x.reservations[i], DOMAIN x.pages) <=>
             /\ x.reservations[i].charged \in 0 .. x.reservations[i].max
             /\ x.reservations[i].page
                  \in IF x.reservations[i].state = "response" /\ ~(x.reservations[i].lane = "metadata")
                      THEN DOMAIN x.pages ELSE {None}
             /\ ~(x.reservations[i].state = "response") =>
                  x.reservations[i].charged = x.reservations[i].max
             /\ x.reservations[i].lane = "metadata" => x.reservations[i].max = 0
      /\ MetadataReceipts(x.reservations)
           = {i \in DOMAIN x.reservations :
                x.reservations[i].lane = "metadata" /\ x.reservations[i].state = "response"}
  BY Zenon DEF HasReceipt, Consistent, MetadataReceipts, Naming
<1>. QED
  BY <1>1, Zenon DEF ReceiptsMatch

\* A request that is not yet answered is no receipt.
LEMMA ReservedReceipts ==
  ASSUME NEW x \in Manifest, ReceiptsMatch(x),
         \A i \in DOMAIN x.reservations : x.reservations[i].invocation \in DOMAIN x.invocations,
         NEW q, q.lane \in Lanes, q.limit \in Nat, q.lane = "metadata" => q.limit = 0,
         NEW y, y.reservations = Append(x.reservations, Reservation(x, q)),
         y.pages = x.pages, y.verified = x.verified
  PROVE  ReceiptsMatch(y)
<1>1. PICK r, t, e, s : r = x.reservations /\ t = y.reservations /\ e = Reservation(x, q) /\ s = x.pages
  OBVIOUS
<1>2. /\ r \in Seq(Receipt) /\ s \in Seq(Page) /\ Current(x) \in Nat
      /\ DOMAIN x.invocations = 1 .. Current(x)
  BY <1>1, Parts
<1>3. /\ e.invocation = Current(x) /\ e.lane = q.lane /\ e.max = q.limit /\ e.charged = q.limit
      /\ e.state = "uncertain" /\ e.page = None /\ e \in Receipt
  BY <1>1, <1>2 DEF Reservation, Receipt
<1>4. PICK n : n = Len(r)
  OBVIOUS
<1>5. /\ n \in Nat /\ DOMAIN r = 1 .. n /\ DOMAIN t = 1 .. n + 1 /\ t[n + 1] = e
      /\ \A i \in DOMAIN r : t[i] = r[i] /\ r[i] \in Receipt
  BY <1>1, <1>2, <1>3, <1>4, AppendProperties, LenProperties, ElementOfSeq
<1>6. /\ \A k \in DOMAIN s : HasReceipt(r, s, k)
      /\ \A i \in DOMAIN r : Consistent(r[i], DOMAIN s) /\ (i > 1 => r[i - 1].invocation <= r[i].invocation)
      /\ Cardinality(MetadataReceipts(r)) = IF x.verified THEN 1 ELSE 0
  BY <1>1, ReceiptsAre, Zenon
<1>7. ASSUME NEW k \in DOMAIN s PROVE HasReceipt(t, s, k)
  <2>1. PICK i \in DOMAIN r :
          /\ Naming(r, k) = {i} /\ r[i].state = "response" /\ r[i].lane = s[k].lane
          /\ r[i].max = s[k].limit /\ r[i].charged = Cardinality(s[k].rows)
    BY <1>6 DEF HasReceipt
  <2>2. k # None
    BY <1>2, LenProperties, NoneAssumption
  <2>3. Naming(t, k) = Naming(r, k)
    BY <1>3, <1>5, <2>2 DEF Naming
  <2>4. i \in DOMAIN t /\ t[i] = r[i]
    BY <1>5
  <2>. QED
    BY <2>1, <2>3, <2>4, Zenon DEF HasReceipt
<1>8. Consistent(e, DOMAIN s)
  <2>1. e.lane = "metadata" => e.max = 0
    BY <1>3
  <2>2. e.charged \in 0 .. e.max /\ ~(e.state = "response")
    BY <1>3
  <2>. QED
    BY <1>3, <2>1, <2>2 DEF Consistent
<1>9. ASSUME NEW i \in DOMAIN t
      PROVE  Consistent(t[i], DOMAIN s) /\ (i > 1 => t[i - 1].invocation <= t[i].invocation)
  <2>1. CASE i = n + 1
    <3>1. t[i] = e
      BY <1>5, <2>1
    <3>2. ASSUME i > 1 PROVE t[i - 1].invocation <= t[i].invocation
      <4>1. i - 1 = n /\ n \in DOMAIN r
        BY <1>5, <2>1, <3>2
      <4>2. r[n].invocation \in 1 .. Current(x) /\ t[n] = r[n]
        BY <1>1, <1>2, <1>5, <4>1
      <4>. QED
        BY <1>2, <1>3, <3>1, <4>1, <4>2
    <3>. QED
      BY <1>8, <3>1, <3>2
  <2>2. CASE i # n + 1
    <3>1. i \in DOMAIN r /\ (i > 1 => i - 1 \in DOMAIN r)
      BY <1>5, <2>2
    <3>. QED
      BY <1>5, <1>6, <3>1
  <2>. QED
    BY <2>1, <2>2
<1>10. MetadataReceipts(t) = MetadataReceipts(r)
  BY <1>3, <1>5 DEF MetadataReceipts
<1>11. y.pages = s /\ y.verified = x.verified /\ y.reservations = t
  BY <1>1
<1>12. Cardinality(MetadataReceipts(t)) = IF y.verified THEN 1 ELSE 0
  BY <1>6, <1>10, <1>11
<1>. QED
  BY <1>7, <1>9, <1>11, <1>12, ReceiptsAre, Zenon

\* The receipts of the pages so far are kept, and the answered request becomes one.
LEMMA RecordedReceipts ==
  ASSUME NEW x, ReceiptsMatch(x), NEW q, Answered(x, q), q.lane = Lane(x),
         NEW y, y = Recorded(x, q)
  PROVE  ReceiptsMatch(y)
<1>1. PICK r, t, e, s, u, n, k :
        /\ r = x.reservations /\ t = y.reservations /\ e = Receipted(x, q)
        /\ s = x.pages /\ u = y.pages /\ n = Len(r) /\ k = Len(s)
  OBVIOUS
<1>2. /\ x \in Manifest /\ y \in Manifest /\ e \in Receipt /\ t = [r EXCEPT ![n] = e]
      /\ Progressed(x, q, y)
  BY <1>1, RecordedParts DEF Answered
<1>3. /\ r \in Seq(Receipt) /\ s \in Seq(Page) /\ k \in Nat /\ DOMAIN s = 1 .. k /\ Current(x) \in Nat
      /\ x.verified \in BOOLEAN
  BY <1>1, <1>2, Parts, LenProperties DEF Manifest
<1>4. r # <<>> /\ r[n] = Reservation(x, q)
  BY <1>1 DEF Answered
<1>5. /\ t[n] = e /\ n \in DOMAIN r /\ DOMAIN t = DOMAIN r /\ DOMAIN r = 1 .. n /\ n \in Nat
      /\ \A i \in DOMAIN r : i # n => t[i] = r[i]
  BY <1>1, <1>2, <1>3, <1>4, LastPut
<1>6. /\ r[n].invocation = Current(x) /\ r[n].lane = q.lane /\ r[n].max = q.limit
      /\ r[n].state = "uncertain" /\ r[n].page = None
  BY <1>4 DEF Reservation
<1>7. /\ e.invocation = Current(x) /\ e.lane = q.lane /\ e.max = q.limit
      /\ e.state = "response" /\ e.charged = Cardinality(q.answer)
      /\ e.page = IF q.lane = "metadata" THEN None ELSE k + 1
  BY <1>1 DEF Receipted, Reservation
<1>8. /\ \A j \in DOMAIN s : HasReceipt(r, s, j)
      /\ \A i \in DOMAIN r : Consistent(r[i], DOMAIN s) /\ (i > 1 => r[i - 1].invocation <= r[i].invocation)
      /\ Cardinality(MetadataReceipts(r)) = IF x.verified THEN 1 ELSE 0
  BY <1>1, ReceiptsAre, Zenon
<1>9. /\ None \notin Nat /\ q.lane \in Lanes
      /\ Cardinality(q.answer) \in 0 .. q.limit
  BY NoneAssumption DEF Answered
<1>10. ASSUME NEW j \in DOMAIN s
       PROVE  \E i \in DOMAIN t :
                /\ Naming(t, j) = {i} /\ t[i].state = "response" /\ t[i].lane = s[j].lane
                /\ t[i].max = s[j].limit /\ t[i].charged = Cardinality(s[j].rows)
  <2>1. PICK i \in DOMAIN r :
          /\ Naming(r, j) = {i} /\ r[i].state = "response" /\ r[i].lane = s[j].lane
          /\ r[i].max = s[j].limit /\ r[i].charged = Cardinality(s[j].rows)
    BY <1>8 DEF HasReceipt
  <2>2. j # None /\ j # k + 1
    BY <1>3, <1>9
  <2>3. r[n].page # j /\ e.page # j
    BY <1>6, <1>7, <2>2
  <2>4. Naming(t, j) = Naming(r, j)
    BY <1>5, <2>3 DEF Naming
  <2>5. i # n
    BY <1>6, <2>1
  <2>. QED
    BY <1>5, <2>1, <2>4, <2>5, Zenon
<1>11. ASSUME NEW i \in DOMAIN t, i > 1 PROVE t[i - 1].invocation <= t[i].invocation
  <2>1. i \in DOMAIN r /\ i - 1 \in DOMAIN r
    BY <1>5, <1>11
  <2>2. t[i].invocation = r[i].invocation /\ t[i - 1].invocation = r[i - 1].invocation
    BY <1>5, <1>6, <1>7, <2>1
  <2>. QED
    BY <1>8, <1>11, <2>1, <2>2
<1>12. Consistent(r[n], DOMAIN s)
  BY <1>5, <1>8
<1>13. CASE q.lane = "metadata"
  <2>1. u = s /\ y.verified = TRUE /\ e.page = None
    BY <1>1, <1>2, <1>7, <1>13 DEF Progressed
  <2>2. Consistent(e, DOMAIN s)
    <3>1. q.limit = 0
      BY <1>6, <1>12, <1>13 DEF Consistent
    <3>. QED
      BY <1>7, <1>9, <1>13, <2>1, <3>1 DEF Consistent
  <2>3. \A i \in DOMAIN t : Consistent(t[i], DOMAIN u)
    BY <1>5, <1>8, <2>1, <2>2
  <2>4. Cardinality(MetadataReceipts(t)) = 1
    <3>1. ~x.verified
      BY <1>2, <1>13, LanesOf, Zenon
    <3>2. MetadataReceipts(r) = {}
      <4>1. MetadataReceipts(r) \subseteq 1 .. n /\ IsFiniteSet(1 .. n)
        BY <1>5, FS_Interval DEF MetadataReceipts
      <4>. QED
        BY <1>8, <3>1, <4>1, FS_Subset, FS_EmptySet
    <3>3. MetadataReceipts(t) = {n}
      BY <1>5, <1>7, <1>13, <3>2 DEF MetadataReceipts
    <3>. QED
      BY <3>3, FS_Singleton
  <2>5. \A j \in DOMAIN u : HasReceipt(t, u, j)
    BY <1>10, <2>1, Zenon DEF HasReceipt
  <2>. QED
    BY <1>1, <1>11, <2>1, <2>3, <2>4, <2>5, ReceiptsAre, Zenon
<1>14. CASE q.lane # "metadata"
  <2>1. PICK p : p = PageOf(x, q)
    OBVIOUS
  <2>2. p.lane = q.lane /\ p.limit = q.limit /\ p.rows = q.answer
    BY <2>1 DEF PageOf
  <2>3. u = Append(s, p) /\ y.verified = x.verified
    BY <1>1, <1>2, <1>9, <1>14, <2>1 DEF Progressed, Lanes
  <2>4. p \in Page
    BY <1>2, <2>1 DEF PageOf, Page, Manifest, Answered
  <2>5. DOMAIN u = 1 .. k + 1 /\ (\A j \in DOMAIN s : u[j] = s[j]) /\ u[k + 1] = p
    BY <1>1, <1>2, <2>3, <2>4, RowsAppended
  <2>6. \A j \in DOMAIN s : HasReceipt(t, u, j)
    BY <1>10, <2>5, Zenon DEF HasReceipt
  <2>7. HasReceipt(t, u, k + 1)
    <3>1. \A i \in DOMAIN r : r[i].page \in DOMAIN s \cup {None}
      BY <1>8 DEF Consistent
    <3>2. k + 1 \notin DOMAIN s \cup {None}
      BY <1>3, <1>9
    <3>3. Naming(t, k + 1) = {n}
      BY <1>5, <1>7, <1>14, <3>1, <3>2 DEF Naming
    <3>. QED
      BY <1>5, <1>7, <2>2, <2>5, <3>3 DEF HasReceipt
  <2>8. \A i \in DOMAIN t : Consistent(t[i], DOMAIN u)
    <3>1. Consistent(e, DOMAIN u)
      <4>1. e.page \in DOMAIN u
        BY <1>3, <1>7, <1>14, <2>5
      <4>. QED
        BY <1>7, <1>9, <1>14, <4>1 DEF Consistent
    <3>2. DOMAIN s \subseteq DOMAIN u
      BY <1>3, <2>5
    <3>3. \A i \in DOMAIN r : Consistent(r[i], DOMAIN u)
      BY <1>8, <3>2 DEF Consistent
    <3>. QED
      BY <1>5, <3>1, <3>3
  <2>9. MetadataReceipts(t) = MetadataReceipts(r)
    BY <1>5, <1>6, <1>7, <1>14 DEF MetadataReceipts
  <2>10. \A j \in DOMAIN u : HasReceipt(t, u, j)
    <3>1. \A j \in DOMAIN u : j \in DOMAIN s \/ j = k + 1
      BY <1>3, <2>5
    <3>. QED
      BY <2>6, <2>7, <3>1
  <2>11. Cardinality(MetadataReceipts(t)) = IF y.verified THEN 1 ELSE 0
    BY <1>8, <2>3, <2>9
  <2>. QED
    BY <1>1, <1>11, <2>8, <2>10, <2>11, ReceiptsAre, Zenon
<1>. QED
  BY <1>13, <1>14

-----------------------------------------------------------------------------
(* Evidence of the steps *)

\* The pages hold every contract the source had all along, as far as the plan is.
Covered(x) ==
  /\ \A c \in Stable \cap InScope : x.scanned \/ c <= x.cursor => c \in RowsOf(x, ScanPages(x))
  /\ First(Baseline, x.offset) \cap Stable \subseteq x.returned

\* What is to show is the plan, the receipts, what the pages cover and the metadata before them.
LEMMA EvidentIs ==
  ASSUME NEW x
  PROVE  Evident(x) <=> /\ PagesFollowPlan(x) /\ ReceiptsMatch(x) /\ Covered(x)
                        /\ x.pages # <<>> => x.verified
BY Zenon DEF Evident, Covered

\* The rows of the scans, when a page is appended.
LEMMA ScanRows ==
  ASSUME NEW x \in Manifest, NEW y, NEW p \in Page, y.pages = Append(x.pages, p)
  PROVE  /\ p.lane = "scope_scan" => RowsOf(y, ScanPages(y)) = RowsOf(x, ScanPages(x)) \cup p.rows
         /\ p.lane # "scope_scan" => RowsOf(y, ScanPages(y)) = RowsOf(x, ScanPages(x))
<1>1. /\ Len(y.pages) = Len(x.pages) + 1 /\ DOMAIN y.pages = 1 .. Len(x.pages) + 1
      /\ \A i \in DOMAIN x.pages : y.pages[i] = x.pages[i]
      /\ y.pages[Len(x.pages) + 1] = p
      /\ \A J \in SUBSET DOMAIN x.pages :
           /\ RowsOf(y, J) = RowsOf(x, J)
           /\ RowsOf(y, J \cup {Len(x.pages) + 1}) = RowsOf(x, J) \cup p.rows
      /\ \A i \in 0 .. Len(x.pages) : CursorAfter(y, i) = CursorAfter(x, i)
  BY RowsAppended, Zenon
<1>2. PICK I : I = ScanPages(x)
  OBVIOUS
<1>3. I \in SUBSET DOMAIN x.pages
  BY <1>2 DEF ScanPages
<1>4. /\ RowsOf(y, I) = RowsOf(x, I)
      /\ RowsOf(y, I \cup {Len(x.pages) + 1}) = RowsOf(x, I) \cup p.rows
  BY <1>1, <1>3, Zenon
<1>5. Len(x.pages) \in Nat /\ DOMAIN x.pages = 1 .. Len(x.pages)
  BY PagesOf
<1>6. /\ p.lane = "scope_scan" => ScanPages(y) = I \cup {Len(x.pages) + 1}
      /\ p.lane # "scope_scan" => ScanPages(y) = I
  BY <1>1, <1>2, <1>5 DEF ScanPages
<1>. QED
  BY <1>2, <1>4, <1>6, Zenon

\* A scan covers what lies up to its last row, and all of the window when it is short.
LEMMA ScanCovers ==
  ASSUME NEW x \in Manifest, Covered(x), NEW v \in Versions, NEW n \in Nat, NEW p \in Page,
         p.lane = "scope_scan", p.limit = n, p.rows = First({c \in v \cap InScope : c > x.cursor}, n),
         NEW y, y.pages = Append(x.pages, p), y.scanned = Short(p),
         y.cursor = (IF p.rows = {} THEN x.cursor ELSE Greatest(p.rows)),
         y.offset = x.offset, y.returned = x.returned
  PROVE  Covered(y)
<1>1. PICK S : S = {c \in v \cap InScope : c > x.cursor}
  OBVIOUS
<1>2. S \subseteq Contracts /\ IsFiniteSet(S) /\ \A c \in S : c \in Nat
  <2>1. S \subseteq Contracts
    BY <1>1 DEF Contracts
  <2>. QED
    BY <2>1, SourceAssumption, FS_Subset
<1>3. x.cursor \in Nat
  BY DEF Manifest
<1>4. /\ p.rows \subseteq S /\ IsFiniteSet(p.rows)
      /\ Cardinality(p.rows) < n => p.rows = S
      /\ \A c \in p.rows, d \in S : d <= c => d \in p.rows
  <2>1. /\ First(S, n) \subseteq S /\ IsFiniteSet(First(S, n))
        /\ Cardinality(S) \in Nat /\ Cardinality(First(S, n)) \in Nat
        /\ n >= Cardinality(S) \/ Cardinality(First(S, n)) < n => First(S, n) = S
    BY <1>2, FirstCounts
  <2>2. \A c \in First(S, n), d \in S : d <= c => d \in First(S, n)
    BY <1>2, FirstIsClosed
  <2>3. p.rows = First(S, n)
    BY <1>1
  <2>. QED
    BY <2>1, <2>2, <2>3
<1>5. RowsOf(y, ScanPages(y)) = RowsOf(x, ScanPages(x)) \cup p.rows
  BY ScanRows
<1>6. ASSUME NEW c \in Stable \cap InScope, y.scanned \/ c <= y.cursor
      PROVE  c \in RowsOf(y, ScanPages(y))
  <2>1. c \in v /\ c \in InScope /\ c \in Nat
    BY SourceAssumption DEF Stable
  <2>2. CASE c <= x.cursor
    BY <1>5, <2>2 DEF Covered
  <2>3. CASE c > x.cursor /\ y.scanned
    <3>1. p.rows = S
      BY <1>4, <2>3 DEF Short
    <3>2. c \in S
      BY <1>1, <2>1, <2>3
    <3>. QED
      BY <1>5, <3>1, <3>2
  <2>4. CASE c > x.cursor /\ c <= y.cursor
    <3>1. p.rows # {}
      <4>1. ~(c <= x.cursor)
        BY <1>3, <2>1, <2>4
      <4>. QED
        BY <2>4, <4>1
    <3>2. y.cursor \in p.rows
      BY <1>2, <1>4, <3>1, GreatestIn
    <3>3. c \in S
      BY <1>1, <2>1, <2>4
    <3>. QED
      BY <1>4, <1>5, <2>4, <3>2, <3>3
  <2>. QED
    BY <1>3, <1>6, <2>1, <2>2, <2>3, <2>4
<1>. QED
  BY <1>6 DEF Covered

\* A batch covers its members.
LEMMA BatchCovers ==
  ASSUME NEW x \in Manifest, Covered(x), x.offset <= Cardinality(Baseline),
         NEW v \in Versions, NEW p \in Page, p.lane = "baseline_check",
         p.limit = Cardinality(Batch(x.offset)), p.rows = v \cap Batch(x.offset),
         NEW y, y.pages = Append(x.pages, p), y.scanned = x.scanned, y.cursor = x.cursor,
         y.offset = x.offset + p.limit, y.returned = x.returned \cup p.rows
  PROVE  Covered(y)
<1>1. RowsOf(y, ScanPages(y)) = RowsOf(x, ScanPages(x))
  BY ScanRows
<1>2. x.offset \in Nat
  BY DEF Manifest
<1>3. First(Baseline, y.offset) \subseteq First(Baseline, x.offset) \cup Batch(x.offset)
  BY <1>2, BatchCounts
<1>4. Stable \subseteq v
  BY DEF Stable
<1>5. First(Baseline, x.offset) \cap Stable \subseteq x.returned
  BY DEF Covered
<1>6. First(Baseline, y.offset) \cap Stable \subseteq y.returned
  BY <1>3, <1>4, <1>5
<1>. QED
  BY <1>1, <1>6 DEF Covered

\* Nothing else that is written to a manifest changes what its pages cover.
LEMMA CoverKept ==
  ASSUME NEW x, NEW y, Covered(x), y.pages = x.pages, y.scanned = x.scanned, y.cursor = x.cursor,
         y.offset = x.offset, y.returned = x.returned
  PROVE  Covered(y)
<1>1. ScanPages(y) = ScanPages(x) /\ \A I : RowsOf(y, I) = RowsOf(x, I)
  BY PlanKept
<1>. QED
  BY <1>1 DEF Covered

\* An answer that is recorded leaves the manifest evident.
LEMMA RecordedEvident ==
  ASSUME NEW x, Within(x), Evident(x), NEW q, Answered(x, q), q.lane = Lane(x),
         q.limit \in IF q.lane = "scope_scan" THEN 1 .. PageSize ELSE {Limit(x)},
         NEW v \in Versions, q.answer = Answer(x, q.lane, q.limit, v),
         NEW y, y = Recorded(x, q)
  PROVE  Evident(y)
<1>1. x \in Manifest /\ y \in Manifest /\ Progressed(x, q, y)
  BY RecordedParts DEF Answered
<1>2. PagesFollowPlan(x) /\ ReceiptsMatch(x) /\ Covered(x) /\ (x.pages # <<>> => x.verified)
  BY EvidentIs
<1>3. PagesFollowPlan(y)
  BY <1>2, RecordedFollows
<1>4. ReceiptsMatch(y)
  BY <1>2, RecordedReceipts
<1>5. PICK p : p = PageOf(x, q)
  OBVIOUS
<1>6. p.lane = q.lane /\ p.limit = q.limit /\ p.cursor = x.cursor /\ p.rows = q.answer /\ q.limit \in Nat
  BY <1>5 DEF PageOf, Answered
<1>7. p \in Page
  BY <1>1, <1>5 DEF PageOf, Page, Manifest, Answered
<1>8. /\ Lane(x) = "metadata" => ~x.verified
      /\ Lane(x) = "scope_scan" => x.verified /\ ~x.scanned
      /\ Lane(x) = "baseline_check" => x.verified /\ x.scanned /\ ~MembersDone(x)
  BY <1>1, LanesOf, Zenon
<1>9. CASE q.lane = "metadata"
  <2>1. /\ y.verified = TRUE /\ y.pages = x.pages /\ y.scanned = x.scanned /\ y.cursor = x.cursor
        /\ y.offset = x.offset /\ y.returned = x.returned
    BY <1>1, <1>9 DEF Progressed
  <2>2. Covered(y)
    BY <1>2, <2>1, CoverKept
  <2>. QED
    BY <1>3, <1>4, <2>1, <2>2, EvidentIs
<1>10. CASE q.lane = "scope_scan"
  <2>1. /\ y.pages = Append(x.pages, p) /\ y.scanned = Short(p)
        /\ y.cursor = IF p.rows = {} THEN x.cursor ELSE Greatest(p.rows)
        /\ y.offset = x.offset /\ y.returned = x.returned /\ y.verified = x.verified
    BY <1>1, <1>5, <1>6, <1>10 DEF Progressed
  <2>2. p.rows = First({c \in v \cap InScope : c > x.cursor}, q.limit)
    BY <1>6, <1>10 DEF Answer
  <2>3. Covered(y)
    BY <1>1, <1>2, <1>6, <1>7, <1>10, <2>1, <2>2, ScanCovers
  <2>4. y.verified
    BY <1>8, <1>10, <2>1, Zenon
  <2>. QED
    BY <1>3, <1>4, <2>3, <2>4, EvidentIs
<1>11. CASE q.lane = "baseline_check"
  <2>1. /\ y.pages = Append(x.pages, p) /\ y.scanned = x.scanned /\ y.cursor = x.cursor
        /\ y.offset = x.offset + p.limit /\ y.returned = x.returned \cup p.rows
        /\ y.verified = x.verified
    BY <1>1, <1>5, <1>6, <1>11 DEF Progressed
  <2>2. p.rows = v \cap Batch(x.offset) /\ p.limit = Cardinality(Batch(x.offset))
    BY <1>6, <1>11 DEF Answer, Limit
  <2>3. x.offset <= Cardinality(Baseline)
    <3>1. PICK k \in 0 .. Len(x.pages) : Follows(x, k)
      BY <1>1, <1>2, PlanFollows
    <3>2. x.offset = Least((Len(x.pages) - k) * PageSize, Cardinality(Baseline))
      BY <3>1 DEF Follows
    <3>3. Len(x.pages) - k \in Int
      BY <1>1, <3>1, PagesOf
    <3>4. Cardinality(Baseline) \in Nat
      BY SourceAssumption, FS_Subset, FS_CardinalityType DEF Contracts
    <3>5. PICK w : w = (Len(x.pages) - k) * PageSize
      OBVIOUS
    <3>6. w \in Int
      BY <3>3, <3>5, TransportAssumption
    <3>. QED
      BY <3>2, <3>4, <3>5, <3>6 DEF Least
  <2>4. Covered(y)
    BY <1>1, <1>2, <1>6, <1>7, <1>11, <2>1, <2>2, <2>3, BatchCovers
  <2>5. y.verified
    BY <1>8, <1>11, <2>1, Zenon
  <2>. QED
    BY <1>3, <1>4, <2>4, <2>5, EvidentIs
<1>. QED
  BY <1>9, <1>10, <1>11 DEF Answered, Lanes

\* Whatever else is written to a manifest keeps its evidence and its end.
LEMMA EvidentKept ==
  ASSUME NEW x, NEW y, Evident(x), y.reservations = x.reservations, y.verified = x.verified,
         y.pages = x.pages, y.scanned = x.scanned, y.cursor = x.cursor,
         y.offset = x.offset, y.returned = x.returned
  PROVE  Evident(y) /\ Complete(y) = Complete(x)
<1>1. PagesFollowPlan(x) /\ ReceiptsMatch(x) /\ Covered(x) /\ (x.pages # <<>> => x.verified)
  BY EvidentIs
<1>2. PagesFollowPlan(y) /\ Covered(y)
  BY <1>1, PlanKept, CoverKept
<1>3. ReceiptsMatch(y)
  BY <1>1, ReceiptsAre
<1>4. Complete(y) = Complete(x)
  BY DEF Complete, MembersDone
<1>. QED
  BY <1>1, <1>2, <1>3, <1>4, EvidentIs

\* What load_staging may find: the evidence of a campaign that has not ended.
Shown(x) == Evident(x) /\ x.state # "acquired" /\ x.complete = Complete(x)

\* What is persisted is evident, of the same pages.
LEMMA PersistedShown ==
  ASSUME NEW x \in Manifest, Evident(x), NEW s \in States \ {"acquired"}, NEW y, y = Persisted(x, s)
  PROVE  /\ Shown(y) /\ y.pages = x.pages /\ y.verified = x.verified
         /\ y \in Manifest /\ Complete(y) = Complete(x)
<1>1. Rewrites(x, y) /\ y.complete = Complete(x) /\ y.state = s /\ y \in Manifest
  BY PersistedRewrites
<1>2. /\ y.reservations = x.reservations /\ y.verified = x.verified
      /\ y.pages = x.pages /\ y.scanned = x.scanned /\ y.cursor = x.cursor
      /\ y.offset = x.offset /\ y.returned = x.returned
  BY <1>1 DEF Rewrites
<1>3. Evident(y) /\ Complete(y) = Complete(x)
  BY <1>2, EvidentKept
<1>. QED
  BY <1>1, <1>2, <1>3 DEF Shown

\* What is published is evident, and as complete as what it was.
LEMMA PublishedEvident ==
  ASSUME NEW x \in Manifest, Evident(x), outcome \in States, NEW y, y = Published(x)
  PROVE  /\ Evident(y) /\ y.pages = x.pages /\ y.verified = x.verified /\ y.state = outcome
         /\ y \in Manifest /\ Complete(y) = Complete(x)
<1>1. Rewrites(x, y) /\ y.state = outcome /\ y \in Manifest
  BY PublishedRewrites
<1>2. /\ y.reservations = x.reservations /\ y.verified = x.verified
      /\ y.pages = x.pages /\ y.scanned = x.scanned /\ y.cursor = x.cursor
      /\ y.offset = x.offset /\ y.returned = x.returned
  BY <1>1 DEF Rewrites
<1>3. Evident(y) /\ Complete(y) = Complete(x)
  BY <1>2, EvidentKept
<1>. QED
  BY <1>1, <1>2, <1>3

\* A campaign as it is planned has nothing to show yet.
LEMMA PlannedEvident == Evident(Planned)
<1>1. PICK x : x = Planned
  OBVIOUS
<1>2. /\ x.pages = <<>> /\ x.reservations = <<>> /\ x.verified = FALSE /\ x.scanned = FALSE
      /\ x.cursor = 0 /\ x.offset = 0 /\ x.returned = {} /\ DOMAIN x.pages = {}
      /\ DOMAIN x.reservations = {} /\ Len(x.pages) = 0
  BY <1>1 DEF Planned
<1>3. ScanPages(x) = {} /\ Cardinality(ScanPages(x)) = 0
  BY <1>2, FS_EmptySet DEF ScanPages
<1>4. Cardinality(Baseline) \in Nat /\ IsFiniteSet(Baseline) /\ \A c \in Baseline : c \in Nat
  BY SourceAssumption, FS_Subset, FS_CardinalityType DEF Contracts
<1>5. Follows(x, 0)
  <2>1. 1 .. 0 = {} /\ RowsOf(x, {}) = {} /\ 0 + 1 .. Len(x.pages) = {}
    BY <1>2 DEF RowsOf
  <2>2. CursorAfter(x, 0) = 0
    BY <2>1 DEF CursorAfter
  <2>3. x.offset = Least((Len(x.pages) - 0) * PageSize, Cardinality(Baseline))
    <3>1. (Len(x.pages) - 0) * PageSize = 0
      BY <1>2, TransportAssumption
    <3>. QED
      BY <1>2, <1>4, <3>1 DEF Least
  <2>4. ~(Len(x.pages) - 0 > 0) /\ ~(0 > 0)
    BY <1>2
  <2>. QED
    BY <1>2, <2>1, <2>2, <2>3, <2>4 DEF Follows
<1>6. PagesFollowPlan(x)
  BY <1>3, <1>5 DEF PagesFollowPlan
<1>7. ReceiptsMatch(x)
  <2>1. MetadataReceipts(x.reservations) = {}
    BY <1>2 DEF MetadataReceipts
  <2>. QED
    BY <1>2, <2>1, FS_EmptySet, ReceiptsAre
<1>8. Covered(x)
  <2>1. First(Baseline, 0) = {}
    <3>1. PICK f, n : f = First(Baseline, n) /\ n = 0
      OBVIOUS
    <3>2. IsFiniteSet(f) /\ Cardinality(f) = IF n <= Cardinality(Baseline) THEN n ELSE Cardinality(Baseline)
      BY <1>4, <3>1, FirstCounts
    <3>. QED
      BY <1>4, <3>1, <3>2, FS_EmptySet
  <2>2. ASSUME NEW c \in Stable \cap InScope PROVE ~(x.scanned \/ c <= x.cursor)
    <3>1. c \in Nat \ {0}
      BY SourceAssumption DEF Stable
    <3>. QED
      BY <1>2, <3>1
  <2>. QED
    BY <1>2, <2>1, <2>2 DEF Covered
<1>. QED
  BY <1>1, <1>2, <1>6, <1>7, <1>8, EvidentIs

\* The plan is at its end exactly when the campaign is complete.
LEMMA EndOfPlan ==
  ASSUME NEW x \in Manifest, Evident(x)
  PROVE  Lane(x) = None <=> Complete(x)
<1>1. x.scanned => x.verified
  <2>1. PagesFollowPlan(x) /\ (x.pages # <<>> => x.verified)
    BY EvidentIs
  <2>2. PICK k \in 0 .. Len(x.pages) : Follows(x, k)
    BY <2>1, PlanFollows
  <2>3. x.scanned => k > 0
    BY <2>2 DEF Follows
  <2>4. x.pages = <<>> => Len(x.pages) = 0
    OBVIOUS
  <2>5. x.scanned => x.pages # <<>>
    BY <2>2, <2>3, <2>4
  <2>. QED
    BY <2>1, <2>5
<1>2. Lane(x) = None <=> x.verified /\ x.scanned /\ MembersDone(x)
  BY LanesOf, Zenon
<1>. QED
  BY <1>1, <1>2 DEF Complete

\* A request that is reserved adds nothing to the evidence.
LEMMA ReservedEvident ==
  ASSUME NEW x, Within(x), Evident(x), NEW q, q.lane \in Lanes, q.limit \in Nat,
         q.lane = "metadata" => q.limit = 0,
         NEW y, y = [x EXCEPT !.reservations = Append(@, Reservation(x, q))]
  PROVE  Evident(y) /\ y.pages = x.pages /\ y.verified = x.verified
<1>1. x \in Manifest
  BY DEF Within
<1>2. /\ y.reservations = Append(x.reservations, Reservation(x, q)) /\ y.verified = x.verified
      /\ y.pages = x.pages /\ y.scanned = x.scanned /\ y.cursor = x.cursor
      /\ y.offset = x.offset /\ y.returned = x.returned
  BY <1>1 DEF Manifest
<1>3. PagesFollowPlan(x) /\ ReceiptsMatch(x) /\ Covered(x) /\ (x.pages # <<>> => x.verified)
  BY EvidentIs
<1>4. PagesFollowPlan(y) /\ Covered(y)
  BY <1>2, <1>3, PlanKept, CoverKept
<1>5. ReceiptsMatch(y)
  <2>1. \A i \in DOMAIN x.reservations : x.reservations[i].invocation \in DOMAIN x.invocations
    BY DEF Within
  <2>. QED
    BY <1>1, <1>2, <1>3, <2>1, ReservedReceipts
<1>. QED
  BY <1>2, <1>3, <1>4, <1>5, EvidentIs

-----------------------------------------------------------------------------
(* EvidenceIInv, step by step *)

\* What is published: its files may be under a removal.
Concluded(r, under) ==
  /\ Evident(r.manifest) /\ (under # "run" => Verified(r.manifest, r.files))
  /\ r.manifest.state = IF Complete(r.manifest) THEN "acquired" ELSE "truncated"

\* Evidence is a matter of the manifest and the files alone.
LEMMA EvidentNext ==
  /\ Evident(page)' <=> Evident(page')
  /\ Evident(m)' <=> Evident(m')
  /\ Evident(run.manifest)' <=> Evident(run'.manifest)
BY DEF Evident, PagesFollowPlan, Follows, ScanPages, RowsOf, CursorAfter,
         Greatest, Short, Batch, First, Least, ReceiptsMatch

\* So is the end of the plan,
LEMMA CompleteNext ==
  /\ Complete(page)' <=> Complete(page')
  /\ Complete(m)' <=> Complete(m')
  /\ Complete(run.manifest)' <=> Complete(run'.manifest)
BY DEF Complete, MembersDone

\* and the verification.
LEMMA VerifiedNext ==
  /\ Filed(page, files)' <=> Filed(page', files')
  /\ Verified(run.manifest, run.files)' <=> Verified(run'.manifest, run'.files)
BY DEF Verified, Filed, PagesFiled, AcquisitionValid, PagesFollowPlan, Follows, ScanPages,
         RowsOf, CursorAfter, Greatest, Short, Batch, First, Least,
         ReceiptsMatch, GrantsRespected, Usage, Total, Consumed,
         Charge, Complete, MembersDone

\* EvidenceIInv of the next state, from the manifests and the files there.
LEMMA EvidenceNext ==
  ASSUME page' # None => Shown(page'),
         pc' \in Working => Evident(m'),
         pc' = "grant" \/ (pc' = "finish" /\ outcome' = "truncated") => ~Complete(m'),
         pc' = "recovered" => outcome' = "acquired",
         cleans' = 0 /\ staged' /\ page' = None =>
           pc' \in {"off", "open", "create"} /\ files' = <<>>,
         cleans' = 0 /\ page' # None => Filed(page', files'),
         cleans' = 0 /\ pc' \in Working => m'.pages = page'.pages /\ m'.verified = page'.verified,
         cleans' = 0 /\ pc' = "received" =>
           Sequence' \in DOMAIN files' /\ files'[Sequence'] = query'.answer,
         run' # NoRun => Concluded(run', removal')
  PROVE  EvidenceIInv'
<1>1. (page # None =>
         Evident(page) /\ page.state # "acquired" /\ page.complete = Complete(page))'
  BY EvidentNext, CompleteNext DEF Shown
<1>2. (pc \in Working => Evident(m))'
  BY EvidentNext DEF Working, Requesting
<1>3. (pc = "grant" \/ (pc = "finish" /\ outcome = "truncated") => ~Complete(m))'
  BY CompleteNext
<1>4. (cleans = 0 =>
         /\ staged /\ page = None => pc \in {"off", "open", "create"} /\ files = <<>>
         /\ page # None => Filed(page, files)
         /\ pc \in Working => m.pages = page.pages /\ m.verified = page.verified
         /\ pc = "received" => Sequence \in DOMAIN files /\ files[Sequence] = query.answer)'
  BY VerifiedNext DEF Working, Requesting
<1>5. (run # NoRun =>
         /\ Evident(run.manifest) /\ (removal # "run" => Verified(run.manifest, run.files))
         /\ run.manifest.state = IF Complete(run.manifest) THEN "acquired" ELSE "truncated")'
  BY EvidentNext, CompleteNext, VerifiedNext DEF Concluded, NoRun
<1>. QED
  BY <1>1, <1>2, <1>3, <1>4, <1>5 DEF EvidenceIInv

\* What EvidenceIInv says, and of a process at work.
LEMMA EvidenceHas ==
  ASSUME EvidenceIInv
  PROVE  /\ page # None => Shown(page)
         /\ pc \in Working => Evident(m)
         /\ pc = "grant" \/ (pc = "finish" /\ outcome = "truncated") => ~Complete(m)
         /\ pc = "recovered" => outcome = "acquired"
         /\ cleans = 0 /\ staged /\ page = None => pc \in {"off", "open", "create"} /\ files = <<>>
         /\ cleans = 0 /\ page # None => Filed(page, files)
         /\ cleans = 0 /\ pc \in Working => m.pages = page.pages /\ m.verified = page.verified
         /\ cleans = 0 /\ pc = "received" => Sequence \in DOMAIN files /\ files[Sequence] = query.answer
         /\ run # NoRun => Concluded(run, removal)
BY DEF EvidenceIInv, Shown, Concluded

\* Nothing is published while a process works.
LEMMA NotPublished ==
  ASSUME PublishedIInv, pc \in Working
  PROVE  run = NoRun
BY DEF PublishedIInv, Working, Requesting

\* A manifest of the same pages is of the same files.
LEMMA FiledKept ==
  ASSUME NEW x, NEW y, NEW pageFiles, Filed(x, pageFiles), y.pages = x.pages, y.verified = x.verified
  PROVE  Filed(y, pageFiles)
BY DEF Filed, PagesFiled

\* The process works on the pages that are durable, whose files are written.
LEMMA AtWorkFiled ==
  ASSUME PublishedIInv, LedgerIInv, ChargedIInv, EvidenceIInv, pc \in Working
  PROVE  /\ Within(m) /\ m \in Manifest /\ Evident(m)
         /\ cleans = 0 => page # None /\ Filed(page, files) /\ Filed(m, files)
                          /\ m.pages = page.pages /\ m.verified = page.verified
<1>1. Within(m) /\ m \in Manifest /\ Evident(m)
  BY WithinBalanced, EvidenceHas DEF LedgerIInv
<1>2. ASSUME cleans = 0
      PROVE  page # None /\ Filed(page, files) /\ Filed(m, files)
             /\ m.pages = page.pages /\ m.verified = page.verified
  <2>1. page # None
    BY <1>2, AtWorkCharged
  <2>2. Filed(page, files) /\ m.pages = page.pages /\ m.verified = page.verified
    BY <1>2, <2>1, EvidenceHas
  <2>. QED
    BY <2>1, <2>2, FiledKept
<1>. QED
  BY <1>1, <1>2

\* A process that persists what it works on, and goes on.
LEMMA PersistEvidence ==
  ASSUME PublishedIInv, LedgerIInv, ChargedIInv, EvidenceIInv, pc \in Working,
         NEW x \in Manifest, Evident(x), x.pages = m.pages, x.verified = m.verified,
         m' = Persisted(x, "extracting"), page' = m', pc' \in {"plan", "reserved"},
         UNCHANGED <<files, run, cleans>>
  PROVE  EvidenceIInv'
<1>1. PICK y : y = Persisted(x, "extracting")
  OBVIOUS
<1>2. Shown(y) /\ y.pages = x.pages /\ y.verified = x.verified /\ y # None
  BY <1>1, PersistedShown, NoneAssumption DEF States
<1>3. page' = y /\ m' = y
  BY <1>1
<1>4. cleans' = 0 => Filed(y, files')
  BY <1>2, AtWorkFiled, FiledKept
<1>5. run' = NoRun
  BY NotPublished
<1>6. Shown(page') /\ Evident(m')
  BY <1>2, <1>3 DEF Shown
<1>. QED
  BY <1>2, <1>3, <1>4, <1>5, <1>6, EvidenceNext

\* An exception is recorded as what the process worked on.
LEMMA RaiseEvidence ==
  ASSUME PublishedIInv, LedgerIInv, ChargedIInv, EvidenceIInv, pc \in Working,
         NEW x \in Manifest, Evident(x), x.pages = m.pages, x.verified = m.verified,
         Raise(x) \/ (Persist(x, "paused_budget") /\ Exit), UNCHANGED cleans
  PROVE  EvidenceIInv'
<1>1. PICK s \in {"failed_recoverable", "paused_budget"} :
        Persist(x, s) \/ (~staged /\ UNCHANGED disk)
  BY DEF Raise
<1>2. PICK y : y = Persisted(x, s)
  OBVIOUS
<1>3. Shown(y) /\ y.pages = x.pages /\ y.verified = x.verified /\ y # None
  BY <1>2, PersistedShown, NoneAssumption DEF States
<1>4. pc' = "off" /\ UNCHANGED <<files, run>>
  BY <1>1 DEF Raise, Persist, Write, Exit, disk, staging
<1>5. cleans' = 0 => Filed(y, files')
  BY <1>3, <1>4, AtWorkFiled, FiledKept
<1>6. run' = NoRun
  BY <1>4, NotPublished
<1>7. page' = y \/ (page' = None /\ ~staged')
  BY <1>1, <1>2 DEF Persist, Write, disk, staging, PublishedIInv
<1>. QED
  BY <1>3, <1>4, <1>5, <1>6, <1>7, EvidenceNext DEF Working, Requesting

\* The campaign ends for want of budget only before it is complete, or it pauses.
LEMMA StopEvidence ==
  ASSUME PublishedIInv, LedgerIInv, ChargedIInv, EvidenceIInv, pc \in Working, ~Complete(m),
         NEW refusal, Stop(m, refusal), UNCHANGED cleans
  PROVE  EvidenceIInv'
<1>1. /\ m \in Manifest /\ Evident(m)
      /\ cleans = 0 => /\ page # None /\ Filed(page, files)
                       /\ m.pages = page.pages /\ m.verified = page.verified
  BY AtWorkFiled
<1>2. CASE m' = m /\ pc' = "finish" /\ outcome' = "truncated" /\ UNCHANGED disk
  <2>1. UNCHANGED <<page, files, run>>
    BY <1>2 DEF disk, staging
  <2>2. page' # None => Shown(page')
    BY <2>1, EvidenceHas
  <2>3. run' = NoRun
    BY <2>1, NotPublished
  <2>. QED
    BY <1>1, <1>2, <2>1, <2>2, <2>3, EvidenceNext
<1>3. CASE Persist(m, "paused_budget") /\ Exit
  BY <1>1, <1>3, RaiseEvidence
<1>. QED
  BY <1>2, <1>3 DEF Stop

\* A process that ends, or has not looked at staging yet.
LEMMA EvidenceStays ==
  ASSUME EvidenceIInv, pc' \notin Working, UNCHANGED <<page, files, cleans>>,
         run' = NoRun \/ Concluded(run', removal'),
         cleans = 0 /\ staged' =>
           \/ staged /\ pc' \in {"off", "open", "create"}
           \/ page # None
           \/ files = <<>> /\ pc' = "create"
  PROVE  EvidenceIInv'
<1>1. page' # None => Shown(page')
  BY EvidenceHas
<1>2. cleans' = 0 /\ page' # None => Filed(page', files')
  BY EvidenceHas
<1>3. cleans' = 0 /\ staged' /\ page' = None => pc' \in {"off", "open", "create"} /\ files' = <<>>
  BY EvidenceHas
<1>. QED
  BY <1>1, <1>2, <1>3, EvidenceNext DEF Working, Requesting

\* What happens before staging is read, or beside a published campaign.
LEMMA OpenEvidence ==
  ASSUME PublishedIInv, LedgerIInv, ChargedIInv, EvidenceIInv,
         \/ \E key \in Keys, grant \in Grants : Invoke(key, grant)
         \/ Reconcile \/ CommitRun \/ MarkCommitted \/ AlreadyPublished \/ Start \/ Crash
  PROVE  EvidenceIInv'
<1>1. UNCHANGED <<page, files, removal, cleans>>
  BY DEF Invoke, Reconcile, CommitRun, MarkCommitted, AlreadyPublished, Start, Crash, disk, staging,
         bounds
<1>2. run' = NoRun \/ Concluded(run', removal')
  <2>1. CASE run' = run
    BY <1>1, <2>1, EvidenceHas
  <2>2. CASE MarkCommitted
    <3>1. run # NoRun /\ run' = [run EXCEPT !.status = "committed"]
      BY <2>2 DEF MarkCommitted, PublishedIInv
    <3>2. run'.manifest = run.manifest /\ run'.files = run.files
      BY <3>1 DEF PublishedIInv
    <3>. QED
      BY <1>1, <3>1, <3>2, EvidenceHas DEF Concluded
  <2>3. CASE ~MarkCommitted
    BY <2>1, <2>3 DEF Invoke, Reconcile, CommitRun, AlreadyPublished, Start, Crash, disk, staging
  <2>. QED
    BY <2>2, <2>3
<1>3. CASE Start
  <2>1. pc' = "create" /\ files = <<>>
    BY <1>3 DEF Start, Goto, PublishedIInv
  <2>. QED
    BY <1>1, <1>2, <2>1, EvidenceStays DEF Working, Requesting
<1>4. CASE Crash \/ \E key \in Keys, grant \in Grants : Invoke(key, grant)
  <2>1. staged' = staged /\ pc' \in {"off", "open"}
    BY <1>4 DEF Crash, Invoke, Exit, disk, staging
  <2>. QED
    BY <1>1, <1>2, <2>1, EvidenceStays DEF Working, Requesting
<1>5. CASE Reconcile \/ CommitRun \/ MarkCommitted \/ AlreadyPublished
  <2>1. run # NoRun
    BY <1>5 DEF Reconcile, Prepared, CommitRun, MarkCommitted, AlreadyPublished, PublishedIInv
  <2>2. ~staged' /\ pc' \notin Working
    <3>1. ~staged /\ pc \notin Working
      BY <2>1 DEF PublishedIInv, Working, Requesting
    <3>. QED
      BY <1>5, <3>1 DEF Reconcile, CommitRun, MarkCommitted, AlreadyPublished, Exit, Goto, disk,
             staging, process, Working, Requesting
  <2>. QED
    BY <1>1, <1>2, <2>2, EvidenceStays
<1>. QED
  BY <1>3, <1>4, <1>5

\* Nothing, and clean-staging.
LEMMA AsideEvidence ==
  ASSUME PublishedIInv, CleanIInv, ChargedIInv, EvidenceIInv, UNCHANGED vars \/ Clean
  PROVE  EvidenceIInv'
<1>1. CASE UNCHANGED vars
  <2>1. UNCHANGED <<staged, page, files, run, pc, m, query, outcome, removal, cleans>>
    BY <1>1 DEF vars, disk, staging, process, bounds
  <2>2. UNCHANGED Sequence
    BY <2>1 DEF Sequence
  <2>3. page' # None => Shown(page')
    BY <2>1, EvidenceHas
  <2>4. run' # NoRun => Concluded(run', removal')
    BY <2>1, EvidenceHas
  <2>5. cleans' = 0 /\ staged' /\ page' = None => pc' \in {"off", "open", "create"} /\ files' = <<>>
    BY <2>1, EvidenceHas
  <2>. QED
    BY <2>1, <2>2, <2>3, <2>4, <2>5, EvidenceHas, EvidenceNext
<1>2. CASE Clean
  <2>1. cleans' # 0
    BY <1>2, CleanCounted
  <2>2. UNCHANGED <<pc, m, query, outcome>> /\ page' \in {page, None}
    BY <1>2 DEF Clean, CleanOpens, CleanUnlinks, CleanEnds, process, disk, staging
  <2>3. page' # None => Shown(page')
    BY <2>2, EvidenceHas
  <2>4. run' # NoRun => Concluded(run', removal')
    <3>1. CASE run = NoRun
      <4>1. run' = run
        BY <1>2, <3>1 DEF Clean, CleanOpens, CleanUnlinks, CleanEnds, disk, staging, PublishedIInv
      <4>. QED
        BY <3>1, <4>1
    <3>2. CASE run # NoRun /\ CleanUnlinks
      <4>1. removal = "run" /\ removal' = "run"
        BY <3>2 DEF CleanUnlinks, PublishedIInv
      <4>2. run'.manifest = run.manifest
        BY <1>2, <3>2, OpenParts
      <4>. QED
        BY <3>2, <4>1, <4>2, EvidenceHas DEF Concluded
    <3>3. CASE run # NoRun /\ ~CleanUnlinks
      BY <1>2, <3>3 DEF Clean, CleanOpens, CleanEnds, PublishedIInv
    <3>. QED
      BY <3>1, <3>2, <3>3
  <2>. QED
    BY <2>1, <2>2, <2>3, <2>4, EvidenceHas, EvidenceNext
<1>. QED
  BY <1>1, <1>2

\* A new campaign, or one whose staged evidence is verified.
LEMMA LoadEvidence ==
  ASSUME PublishedIInv, EvidenceIInv, Create \/ Load
  PROVE  EvidenceIInv'
<1>1. UNCHANGED <<run, cleans>> /\ run = NoRun
  BY DEF Create, Write, Load, disk, staging, bounds, PublishedIInv
<1>2. CASE Create
  <2>1. page' = Planned /\ m' = Planned /\ pc' = "grant"
    BY <1>2 DEF Create, Write, Goto
  <2>2. /\ Planned.pages = <<>> /\ Planned.verified = FALSE /\ Planned.state # "acquired"
        /\ ~Planned.complete /\ ~Planned.scanned /\ DOMAIN Planned.pages = {}
    BY DEF Planned
  <2>3. Shown(Planned) /\ ~Complete(Planned)
    BY <2>2, PlannedEvident DEF Shown, Complete, Planned
  <2>4. Filed(Planned, files')
    BY <2>2 DEF Filed, PagesFiled
  <2>5. Shown(page') /\ Filed(page', files') /\ Evident(m') /\ ~Complete(m')
    BY <2>1, <2>3, <2>4, PlannedEvident
  <2>6. page' # None
    BY <2>1, PlannedWithin, NoneAssumption DEF Within
  <2>. QED
    BY <1>1, <2>1, <2>5, <2>6, EvidenceNext
<1>3. CASE Load
  <2>1. /\ UNCHANGED <<staged, page, files>> /\ pc = "open"
        /\ \/ pc' = "off"
           \/ page # None /\ m' = page /\ pc' = "recovered" /\ outcome' = "acquired"
           \/ page # None /\ m' = page /\ pc' = "grant" /\ ~page.complete
    BY <1>3 DEF Load, Exit, Goto, disk, staging
  <2>2. page # None => Shown(page) /\ (cleans = 0 => Filed(page, files))
    BY EvidenceHas
  <2>3. CASE pc' = "off"
    BY <1>1, <2>1, <2>3, EvidenceStays DEF Working, Requesting
  <2>4. CASE page # None /\ m' = page /\ pc' = "recovered" /\ outcome' = "acquired"
    <3>1. Shown(page') /\ Evident(m')
      BY <2>1, <2>2, <2>4 DEF Shown
    <3>. QED
      BY <1>1, <2>1, <2>2, <2>4, <3>1, EvidenceNext
  <2>5. CASE page # None /\ m' = page /\ pc' = "grant" /\ ~page.complete
    <3>1. Shown(page') /\ Evident(m') /\ ~Complete(m')
      BY <2>1, <2>2, <2>5 DEF Shown
    <3>. QED
      BY <1>1, <2>1, <2>2, <2>5, <3>1, EvidenceNext
  <2>. QED
    BY <2>1, <2>3, <2>4, <2>5
<1>. QED
  BY <1>2, <1>3

\* A grant that is resumed, given or refused.
LEMMA GrantEvidence ==
  ASSUME PublishedIInv, LedgerIInv, ChargedIInv, EvidenceIInv, ResumeGrant \/ NewGrant
  PROVE  EvidenceIInv'
<1>1. pc = "grant" /\ pc \in Working /\ UNCHANGED cleans
  BY DEF ResumeGrant, Write, NewGrant, Working, bounds
<1>2. m \in Manifest /\ Evident(m) /\ ~Complete(m) /\ Within(m)
  BY <1>1, AtWorkFiled, EvidenceHas
<1>3. CASE ResumeGrant
  <2>1. m' = Persisted(m, "extracting") /\ page' = m' /\ pc' = "plan" /\ UNCHANGED <<files, run>>
    BY <1>3 DEF ResumeGrant, Write, Goto
  <2>. QED
    BY <1>1, <1>2, <2>1, PersistEvidence
<1>4. CASE NewGrant
  <2>1. CASE Stop(m, "campaign")
    BY <1>1, <1>2, <2>1, StopEvidence
  <2>2. CASE Raise(m)
    BY <1>1, <1>2, <2>2, RaiseEvidence
  <2>3. CASE m' = Persisted(Granted(m), "extracting") /\ page' = m' /\ Goto("plan") /\ UNCHANGED <<files, run>>
    <3>1. PICK x : x = Granted(m)
      OBVIOUS
    <3>2. x \in Manifest
      <4>1. Matches(m) = {}
        BY <1>4 DEF NewGrant, Write
      <4>2. args.key \in Keys /\ args.grant \in Grants
        BY <1>1 DEF LedgerIInv
      <4>. QED
        BY <1>2, <3>1, <4>1, <4>2, GrantedBalanced DEF Balanced
    <3>3. /\ x.reservations = m.reservations /\ x.verified = m.verified
          /\ x.pages = m.pages /\ x.scanned = m.scanned /\ x.cursor = m.cursor
          /\ x.offset = m.offset /\ x.returned = m.returned
      BY <1>2, <3>1 DEF Granted, Manifest
    <3>4. Evident(x)
      BY <1>2, <3>3, EvidentKept
    <3>5. m' = Persisted(x, "extracting") /\ pc' \in {"plan", "reserved"}
      BY <2>3, <3>1 DEF Goto
    <3>. QED
      BY <1>1, <2>3, <3>2, <3>3, <3>4, <3>5, PersistEvidence
  <2>. QED
    BY <1>4, <2>1, <2>2, <2>3 DEF NewGrant, Write
<1>. QED
  BY <1>3, <1>4

\* An attempt that is refused, or reserved.
LEMMA AskEvidence ==
  ASSUME TypeOK, KeyIInv, PublishedIInv, LedgerIInv, ChargedIInv, EvidenceIInv, Request \/ Retry
  PROVE  EvidenceIInv'
<1>1. pc \in Working /\ UNCHANGED cleans
  BY AskCases DEF Request, Retry, bounds
<1>2. m \in Manifest /\ Evident(m) /\ Within(m)
  BY <1>1, AtWorkFiled
<1>3. ~Complete(m)
  <2>1. Lane(m) # None
    <3>1. CASE Request
      BY <3>1 DEF Request
    <3>2. CASE Retry
      <4>1. query.lane = Lane(m) /\ query.lane \in Lanes
        BY <3>2 DEF Retry, LedgerIInv, Requesting, Asking
      <4>. QED
        BY <4>1, NoneAssumption
    <3>. QED
      BY <3>1, <3>2
  <2>. QED
    BY <1>2, <2>1, EndOfPlan
<1>4. CASE \E refusal : Stop(m, refusal)
  BY <1>1, <1>3, <1>4, StopEvidence
<1>5. CASE \E q : Asks(q) /\ Reserve(q)
  <2>1. PICK q : Asks(q) /\ Reserve(q)
    BY <1>5
  <2>2. PICK x : x = [m EXCEPT !.reservations = Append(@, Reservation(m, q))]
    OBVIOUS
  <2>3. /\ m' = Persisted(x, "extracting") /\ page' = m' /\ pc' \in {"plan", "reserved"}
        /\ UNCHANGED <<files, run>>
    BY <2>1, <2>2 DEF Reserve, Write
  <2>4. q.lane = Lane(m) /\ q.lane \in Lanes /\ q.limit \in Nat /\ (q.lane = "metadata" => q.limit = 0)
    <3>1. q.lane = Lane(m) /\ q.lane \in Lanes /\ q.limit \in Nat
      BY <2>1 DEF Asks
    <3>2. ASSUME q.lane = "metadata" PROVE q.limit = 0
      <4>1. q.limit = Limit(m)
        BY <2>1, <3>2 DEF Asks
      <4>. QED
        BY <3>1, <3>2, <4>1 DEF Limit
    <3>. QED
      BY <3>1, <3>2
  <2>5. Evident(x) /\ x.pages = m.pages /\ x.verified = m.verified
    BY <1>2, <2>2, <2>4, ReservedEvident
  <2>6. x \in Manifest
    <3>1. m.invocations # <<>>
      BY AskCases
    <3>. QED
      BY <1>2, <2>1, <2>2, <2>4, <3>1, ReservedBalanced DEF Asks, Balanced
  <2>. QED
    BY <1>1, <2>3, <2>5, <2>6, PersistEvidence
<1>. QED
  BY <1>4, <1>5, AskCases

\* The source answers, and the answer's file is written before it is named.
LEMMA AnswerEvidence ==
  ASSUME PublishedIInv, LedgerIInv, ChargedIInv, EvidenceIInv,
         WritePage \/ \E v \in Versions : Send(v)
  PROVE  EvidenceIInv'
<1>1. /\ UNCHANGED <<page, run, m, cleans>> /\ pc \in Requesting /\ pc' \in {"waiting", "received"}
  BY DEF WritePage, Send, Goto, disk, staging, bounds, Requesting
<1>2. /\ m \in Manifest /\ Evident(m)
      /\ cleans = 0 => page # None /\ Filed(page, files) /\ m.pages = page.pages /\ m.verified = page.verified
  BY <1>1, AtWorkFiled DEF Working
<1>3. (page' # None => Shown(page')) /\ run' = NoRun /\ Evident(m')
  BY <1>1, <1>2, EvidenceHas, NotPublished DEF Working
<1>4. CASE WritePage
  <2>1. /\ files' = [i \in DOMAIN files \cup {Sequence} |-> IF i = Sequence THEN query.answer ELSE files[i]]
        /\ pc' = "received" /\ UNCHANGED query
    BY <1>4 DEF WritePage, Goto
  <2>2. UNCHANGED Sequence
    BY <1>1, <2>1 DEF Sequence
  <2>3. Sequence' \in DOMAIN files' /\ files'[Sequence'] = query'.answer
    BY <2>1, <2>2
  <2>4. ASSUME cleans = 0 PROVE Filed(page', files')
    <3>1. DOMAIN page.pages = 1 .. Len(m.pages) /\ Len(m.pages) \in Nat
      BY <1>2, <2>4, PagesOf
    <3>2. Sequence \notin DOMAIN page.pages
      BY <3>1 DEF Sequence
    <3>3. \A n \in DOMAIN page.pages : n \in DOMAIN files' /\ files'[n] = page.pages[n].rows
      BY <1>2, <2>1, <2>4, <3>2 DEF Filed, PagesFiled
    <3>4. page.verified => 0 \in DOMAIN files'
      BY <1>2, <2>1, <2>4 DEF Filed, PagesFiled
    <3>. QED
      BY <1>1, <3>3, <3>4 DEF Filed, PagesFiled
  <2>. QED
    BY <1>1, <1>2, <1>3, <2>1, <2>3, <2>4, EvidenceNext
<1>5. CASE \E v \in Versions : Send(v)
  <2>1. UNCHANGED files /\ pc' = "waiting"
    BY <1>5 DEF Send, disk, staging
  <2>. QED
    BY <1>1, <1>2, <1>3, <2>1, EvidenceNext
<1>. QED
  BY <1>4, <1>5

\* What is recorded has its file.
LEMMA RecordedFiled ==
  ASSUME NEW x, NEW q, Answered(x, q), NEW pageFiles, Filed(x, pageFiles),
         NEW n, n = (IF q.lane = "metadata" THEN 0 ELSE Len(x.pages) + 1),
         n \in DOMAIN pageFiles, pageFiles[n] = q.answer, NEW y, y = Recorded(x, q)
  PROVE  Filed(y, pageFiles)
<1>1. x \in Manifest /\ y \in Manifest /\ Progressed(x, q, y)
  BY RecordedParts DEF Answered
<1>2. CASE q.lane = "metadata"
  BY <1>1, <1>2 DEF Filed, PagesFiled, Progressed
<1>3. CASE q.lane # "metadata"
  <2>1. PICK p : p = PageOf(x, q)
    OBVIOUS
  <2>2. p.rows = q.answer /\ p \in Page
    BY <1>1, <2>1 DEF PageOf, Page, Manifest, Answered
  <2>3. y.pages = Append(x.pages, p) /\ y.verified = x.verified
    BY <1>1, <1>3, <2>1 DEF Progressed, Answered, Lanes
  <2>4. /\ Len(y.pages) = Len(x.pages) + 1 /\ DOMAIN y.pages = 1 .. Len(x.pages) + 1
        /\ \A i \in DOMAIN x.pages : y.pages[i] = x.pages[i]
        /\ y.pages[Len(x.pages) + 1] = p
    BY <1>1, <2>2, <2>3, RowsAppended
  <2>5. Len(x.pages) \in Nat /\ DOMAIN x.pages = 1 .. Len(x.pages)
    BY <1>1, PagesOf
  <2>6. ASSUME NEW i \in DOMAIN y.pages
        PROVE  i \in DOMAIN pageFiles /\ pageFiles[i] = y.pages[i].rows
    <3>1. CASE i \in DOMAIN x.pages
      BY <2>4, <3>1 DEF Filed, PagesFiled
    <3>2. CASE i = Len(x.pages) + 1
      BY <1>3, <2>2, <2>4, <3>2
    <3>. QED
      BY <2>4, <2>5, <3>1, <3>2
  <2>. QED
    BY <2>3, <2>6 DEF Filed, PagesFiled
<1>. QED
  BY <1>2, <1>3

\* A valid answer becomes a page, a receipt and progress, of one manifest.
LEMMA RecordEvidence ==
  ASSUME PublishedIInv, LedgerIInv, ChargedIInv, EvidenceIInv, Record
  PROVE  EvidenceIInv'
<1>1. PICK x, y : x = Recorded(m, query) /\ y = Persisted(x, "extracting")
  OBVIOUS
<1>2. /\ pc = "received" /\ pc' = "plan" /\ UNCHANGED <<files, run, cleans>> /\ m' = y /\ page' = y
  BY <1>1 DEF Record, Write, bounds
<1>3. pc \in Working /\ Asking
  BY <1>2 DEF LedgerIInv, Working, Requesting
<1>4. /\ Within(m) /\ m \in Manifest /\ Evident(m) /\ (cleans = 0 => Filed(m, files))
  BY <1>3, AtWorkFiled
<1>5. Answered(m, query)
  BY <1>3, <1>4, AskingAnswered
<1>6. x \in Manifest
  BY <1>1, <1>5, RecordedParts
<1>7. Evident(x)
  <2>1. /\ query.lane = Lane(m)
        /\ query.limit \in IF query.lane = "scope_scan" THEN 1 .. PageSize ELSE {Limit(m)}
    BY <1>3 DEF Asking
  <2>2. PICK v \in Versions : query.answer = Answer(m, query.lane, query.limit, v)
    BY <1>2, <1>3 DEF Asking
  <2>. QED
    BY <1>1, <1>4, <1>5, <2>1, <2>2, RecordedEvident
<1>8. Shown(y) /\ y.pages = x.pages /\ y.verified = x.verified /\ y # None
  BY <1>1, <1>6, <1>7, PersistedShown, NoneAssumption DEF States
<1>9. cleans' = 0 => Filed(y, files')
  <2>1. ASSUME cleans = 0 PROVE Filed(x, files)
    <3>1. Sequence \in DOMAIN files /\ files[Sequence] = query.answer
      BY <1>2, <2>1, EvidenceHas
    <3>. QED
      BY <1>1, <1>4, <1>5, <2>1, <3>1, RecordedFiled DEF Sequence
  <2>. QED
    BY <1>2, <1>8, <2>1, FiledKept
<1>10. run' = NoRun
  BY <1>2, <1>3, NotPublished
<1>11. Shown(page') /\ Evident(m')
  BY <1>2, <1>8 DEF Shown
<1>. QED
  BY <1>2, <1>8, <1>9, <1>10, <1>11, EvidenceNext

\* A failed exchange, the end of the plan, and what is published after its verification.
LEMMA EndEvidence ==
  ASSUME PublishedIInv, LedgerIInv, ChargedIInv, EvidenceIInv, Fail \/ Finish \/ Prepare
  PROVE  EvidenceIInv'
<1>1. pc \in Working /\ UNCHANGED cleans
  BY DEF Fail, Finish, Prepare, Working, Requesting, bounds
<1>2. /\ m \in Manifest /\ Evident(m)
      /\ cleans = 0 => /\ page # None /\ Filed(page, files)
                       /\ m.pages = page.pages /\ m.verified = page.verified
      /\ run = NoRun
  BY <1>1, AtWorkFiled, NotPublished
<1>3. CASE Fail
  <2>1. Raise(m)
    BY <1>3 DEF Fail
  <2>. QED
    BY <1>1, <1>2, <2>1, RaiseEvidence
<1>4. CASE Finish
  <2>1. UNCHANGED <<page, files, run, m>> /\ pc' = "finish" /\ outcome' = "acquired"
    BY <1>4 DEF Finish, disk, staging
  <2>2. (page' # None => Shown(page')) /\ run' = NoRun /\ Evident(m')
    BY <1>2, <2>1, EvidenceHas
  <2>. QED
    BY <1>1, <1>2, <2>1, <2>2, EvidenceNext
<1>5. CASE Prepare
  <2>1. pc \in {"finish", "recovered"} /\ outcome \in {"acquired", "truncated"}
    BY <1>5 DEF Prepare, LedgerIInv
  <2>2. PICK y : y = Published(m)
    OBVIOUS
  <2>3. /\ Evident(y) /\ y.pages = m.pages /\ y.verified = m.verified /\ y.state = outcome
        /\ y \in Manifest /\ Complete(y) = Complete(m)
    BY <1>2, <2>1, <2>2, PublishedEvident DEF States
  <2>4. CASE Raise(y)
    BY <1>1, <2>3, <2>4, RaiseEvidence
  <2>5. CASE Exit /\ UNCHANGED disk
    <3>1. pc' = "off" /\ UNCHANGED <<page, files, run>>
      BY <2>5 DEF Exit, disk, staging
    <3>. QED
      BY <1>1, <1>2, <3>1, EvidenceStays DEF Working, Requesting
  <2>6. CASE /\ Verified(y, files)
             /\ run' = [manifest |-> y, files |-> files, status |-> "prepared"]
             /\ ~staged' /\ page' = None /\ pc' = "commit"
    <3>1. run'.manifest = y /\ run'.files = files
      BY <2>6
    <3>2. y.state = IF Complete(y) THEN "acquired" ELSE "truncated"
      <4>1. outcome = "truncated" => pc = "finish"
        BY <2>1, EvidenceHas
      <4>. QED
        BY <2>1, <2>3, <2>6, <4>1, EvidenceHas DEF Verified, AcquisitionValid
    <3>3. Concluded(run', removal')
      BY <2>1, <2>3, <2>6, <3>1, <3>2 DEF Concluded
    <3>. QED
      BY <2>6, <3>3, EvidenceNext DEF Working, Requesting
  <2>. QED
    BY <1>5, <2>2, <2>4, <2>5, <2>6 DEF Prepare
<1>. QED
  BY <1>3, <1>4, <1>5

\* EvidenceIInv is inductive: every manifest follows its plan, matches its receipts and
\* holds what the source had all along as far as the plan is, and the files a
\* manifest names were written before it, through failures and deaths.
THEOREM EvidenceInductive == Spec => []EvidenceIInv
<1>1. Init => EvidenceIInv
  BY DEF Init, EvidenceIInv, Working, Requesting
<1>2. TypeOK /\ KeyIInv /\ PublishedIInv /\ CleanIInv /\ LedgerIInv /\ ChargedIInv /\ EvidenceIInv
        /\ [Next]_vars => EvidenceIInv'
  <2>. SUFFICES ASSUME TypeOK, KeyIInv, PublishedIInv, CleanIInv, LedgerIInv, ChargedIInv,
                       EvidenceIInv, [Next]_vars
                PROVE  EvidenceIInv'
    OBVIOUS
  <2>1. CASE \/ \E key \in Keys, grant \in Grants : Invoke(key, grant)
             \/ Reconcile \/ CommitRun \/ MarkCommitted \/ AlreadyPublished \/ Start \/ Crash
    BY <2>1, OpenEvidence
  <2>8. CASE UNCHANGED vars \/ Clean
    BY <2>8, AsideEvidence
  <2>2. CASE Create \/ Load
    BY <2>2, LoadEvidence
  <2>3. CASE ResumeGrant \/ NewGrant
    BY <2>3, GrantEvidence
  <2>4. CASE Request \/ Retry
    BY <2>4, AskEvidence
  <2>5. CASE WritePage \/ \E v \in Versions : Send(v)
    BY <2>5, AnswerEvidence
  <2>6. CASE Record
    BY <2>6, RecordEvidence
  <2>7. CASE Fail \/ Finish \/ Prepare
    BY <2>7, EndEvidence
  <2>. QED
    BY <2>1, <2>2, <2>3, <2>4, <2>5, <2>6, <2>7, <2>8 DEF Next, Work, Exchange
<1>. QED
  BY <1>1, <1>2, TypeCorrect, KeyInductive, PublishedInductive, CleanInductive, LedgerInductive,
     ChargedInductive, PTL DEF Spec

\* A campaign never rejects its own history: whatever dies and whenever, a staged page
\* state and a published manifest pass the verification of the next command, unless
\* clean-staging took files from them; and a staging directory without page state, which
\* the next command refuses, holds nothing.
THEOREM HistoryAccepted == Spec => []ResumeAccepted
<1>1. LedgerIInv /\ EvidenceIInv => ResumeAccepted
  <2>. SUFFICES ASSUME LedgerIInv, EvidenceIInv PROVE ResumeAccepted
    OBVIOUS
  <2>1. ASSUME page # None, cleans = 0 PROVE Verified(page, files)
    <3>1. Shown(page) /\ Filed(page, files)
      BY <2>1, EvidenceHas
    <3>2. PagesFollowPlan(page) /\ ReceiptsMatch(page)
      BY <3>1, EvidentIs DEF Shown
    <3>3. GrantsRespected(page)
      BY <2>1 DEF LedgerIInv, Within
    <3>. QED
      BY <3>1, <3>2, <3>3, Zenon DEF Verified, AcquisitionValid, Shown
  <2>2. run # NoRun /\ removal # "run" => Verified(run.manifest, run.files)
    BY EvidenceHas DEF Concluded
  <2>3. cleans = 0 /\ staged /\ page = None => files = <<>>
    BY EvidenceHas
  <2>. QED
    BY <2>1, <2>2, <2>3 DEF ResumeAccepted
<1>. QED
  BY <1>1, LedgerInductive, EvidenceInductive, PTL

\* What the batches returned is of the baseline.
LEMMA ReturnedAreMembers ==
  ASSUME NEW x \in Manifest, PagesFollowPlan(x)
  PROVE  x.returned \subseteq Baseline
<1>1. PICK k \in 0 .. Len(x.pages) : Follows(x, k)
  BY PlanFollows
<1>2. \A n : Batch(n) \subseteq Baseline
  BY DEF Batch, First
<1>3. \A i \in k + 1 .. Len(x.pages) : x.pages[i].rows \subseteq Batch((i - k - 1) * PageSize)
  BY <1>1 DEF Follows
<1>4. x.returned = RowsOf(x, k + 1 .. Len(x.pages))
  BY <1>1 DEF Follows
<1>5. \A i \in k + 1 .. Len(x.pages) : x.pages[i].rows \subseteq Baseline
  BY <1>2, <1>3
<1>. QED
  BY <1>4, <1>5 DEF RowsOf

\* A published campaign shows what it saw: it is acquired exactly when the plan came to
\* its end, and then its manifest accounts for every contract of the window and of the
\* baseline that the source had all along; its pages are there, unless a clean-staging that
\* was under way when it was renamed still removes them.
THEOREM AcquisitionShown == Spec => []CompleteAcquisition
<1>1. LedgerIInv /\ EvidenceIInv => CompleteAcquisition
  <2>. SUFFICES ASSUME LedgerIInv, EvidenceIInv, run # NoRun,
                       NEW x, x = run.manifest
                PROVE  /\ removal # "run" => PagesFiled(x, run.files)
                       /\ x.state = "acquired" <=> Complete(x)
                       /\ x.state = "acquired" =>
                            /\ Stable \cap InScope \subseteq RowsOf(x, ScanPages(x))
                            /\ x.returned \cup Missing(x) = Baseline
                            /\ Missing(x) \cap Stable = {}
    BY DEF CompleteAcquisition
  <2>1. /\ Evident(x) /\ (removal # "run" => Verified(x, run.files))
        /\ x.state = IF Complete(x) THEN "acquired" ELSE "truncated"
    BY EvidenceHas DEF Concluded
  <2>2. x \in Manifest
    BY DEF LedgerIInv, Within
  <2>3. PagesFollowPlan(x) /\ Covered(x)
    BY <2>1, EvidentIs
  <2>4. removal # "run" => PagesFiled(x, run.files)
    BY <2>1 DEF Verified, Filed
  <2>5. x.state = "acquired" <=> Complete(x)
    BY <2>1
  <2>6. ASSUME x.state = "acquired"
        PROVE  /\ Stable \cap InScope \subseteq RowsOf(x, ScanPages(x))
               /\ x.returned \cup Missing(x) = Baseline
               /\ Missing(x) \cap Stable = {}
    <3>1. x.scanned /\ MembersDone(x)
      BY <2>5, <2>6 DEF Complete
    <3>2. Stable \cap InScope \subseteq RowsOf(x, ScanPages(x))
      BY <2>3, <3>1 DEF Covered
    <3>3. First(Baseline, x.offset) = Baseline
      <4>1. PICK f, n : f = First(Baseline, n) /\ n = x.offset
        OBVIOUS
      <4>2. IsFiniteSet(Baseline) /\ \A c \in Baseline : c \in Nat
        BY SourceAssumption, FS_Subset DEF Contracts
      <4>3. Cardinality(Baseline) \in Nat /\ n = Cardinality(Baseline)
        BY <3>1, <4>1, <4>2, FS_CardinalityType DEF MembersDone
      <4>4. n >= Cardinality(Baseline) \/ Cardinality(f) < n => f = Baseline
        BY <4>1, <4>2, <4>3, FirstCounts
      <4>. QED
        BY <4>1, <4>3, <4>4
    <3>4. x.returned \subseteq Baseline
      BY <2>2, <2>3, ReturnedAreMembers
    <3>5. Missing(x) = Baseline \ x.returned /\ Baseline \cap Stable \subseteq x.returned
      BY <2>3, <3>3 DEF Missing, Covered
    <3>. QED
      BY <3>2, <3>4, <3>5
  <2>. QED
    BY <2>4, <2>5, <2>6
<1>. QED
  BY <1>1, LedgerInductive, EvidenceInductive, PTL

================================================================================
