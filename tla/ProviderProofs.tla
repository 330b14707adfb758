---------------------------- MODULE ProviderProofs ----------------------------
(***************************************************************************)
(* Theorems about ProviderValues, for every set of keys, and without a     *)
(* bound on the outcomes that wait and on the expiries.                    *)
(***************************************************************************)
EXTENDS ProviderValues, SequenceTheorems, TLAPS

JobType == [Keys -> [Stages -> Nat]]

\* Fetches are counted in natural numbers, and each key in flight has one.
FetchInv == jobs \in JobType /\ FetchIsOwned

Owners(k, j) == j[k]["queued"] + j[k]["fetching"] + j[k]["stored"] + j[k]["failed"]

\* A job that moves to another stage leaves the others alone.
LEMMA MoveChanges ==
    ASSUME jobs \in JobType, NEW k \in Keys, NEW from \in Stages, NEW to \in Stages, from # to,
           jobs[k][from] > 0
    PROVE  /\ Move(k, from, to) \in JobType
           /\ Move(k, from, to)[k][from] = jobs[k][from] - 1
           /\ Move(k, from, to)[k][to] = jobs[k][to] + 1
           /\ \A s \in Stages \ {from, to} : Move(k, from, to)[k][s] = jobs[k][s]
           /\ \A other \in Keys \ {k} : Move(k, from, to)[other] = jobs[other]
BY DEF Move, JobType

\* A step keeps the invariant if the owners of each key follow the keys in flight.
LEMMA OwnersFollow ==
    ASSUME FetchInv, jobs' \in JobType,
           \A k \in Keys : \/ Owners(k, jobs') = Owners(k, jobs) /\ (k \in inFlight' <=> k \in inFlight)
                           \/ Owners(k, jobs') = IF k \in inFlight' THEN 1 ELSE 0
    PROVE  FetchInv'
BY DEF FetchInv, FetchIsOwned, Owners

\* A fetch that ends stays the owner of its key until it is finished.
LEMMA FetchKeepsOwners ==
    ASSUME FetchInv, NEW k \in Keys, Fetch(k)
    PROVE  FetchInv'
<1>1. jobs[k]["fetching"] > 0 /\ inFlight' = inFlight
  BY DEF Fetch
<1>2. PICK to \in {"stored", "failed"} : jobs' = Move(k, "fetching", to)
  BY DEF Fetch
<1>3. \A other \in Keys : Owners(other, jobs') = Owners(other, jobs)
  <2>1. \A s \in Stages : jobs[k][s] \in Nat
    BY DEF FetchInv, JobType
  <2>2. /\ jobs'[k]["fetching"] = jobs[k]["fetching"] - 1 /\ jobs'[k][to] = jobs[k][to] + 1
        /\ \A s \in Stages \ {"fetching", to} : jobs'[k][s] = jobs[k][s]
        /\ \A other \in Keys \ {k} : jobs'[other] = jobs[other]
    BY <1>1, <1>2, MoveChanges DEF FetchInv, Stages
  <2> QED BY <2>1, <2>2 DEF Owners, Stages
<1>4. jobs' \in JobType
  BY <1>1, <1>2, MoveChanges DEF FetchInv, Stages
<1> QED BY <1>1, <1>3, <1>4, OwnersFollow

\* Finishing a fetch releases its key.
LEMMA FinishKeepsOwners ==
    ASSUME FetchInv, NEW k \in Keys, Finish(k)
    PROVE  FetchInv'
<1>1. PICK from \in {"stored", "failed"}, to \in {"values", "failure"} :
          jobs[k][from] > 0 /\ jobs' = Move(k, from, to)
  BY DEF Finish, Done
<1>2. inFlight' = inFlight \ {k}
  BY DEF Finish
<1>3. Owners(k, jobs) = 1
  BY <1>1 DEF FetchInv, FetchIsOwned, Owners, JobType, Stages
<1>4. Owners(k, jobs') = 0
  BY <1>1, <1>3, MoveChanges DEF FetchInv, Owners, Stages, JobType
<1>5. \A other \in Keys \ {k} : Owners(other, jobs') = Owners(other, jobs)
  BY <1>1, MoveChanges DEF FetchInv, Owners, Stages
<1>6. jobs' \in JobType
  BY <1>1, MoveChanges DEF FetchInv, Stages
<1> QED BY <1>2, <1>4, <1>5, <1>6, OwnersFollow

\* A key is taken by the first to begin its fetch; later ones begin none.
LEMMA BeginKeepsOwners ==
    ASSUME FetchInv, Begin
    PROVE  FetchInv'
<1> DEFINE k == KeyOf(Head(todo))
<1>1. /\ inFlight' = inFlight \cup {k}
      /\ jobs' = IF k \in inFlight THEN jobs ELSE [jobs EXCEPT ![k]["queued"] = @ + 1]
  BY DEF Begin
<1> HIDE DEF k
<1>2. CASE k \in inFlight \/ k \notin Keys
  <2>1. jobs' = jobs
    BY <1>1, <1>2 DEF FetchInv, JobType
  <2> QED BY <1>1, <1>2, <2>1, OwnersFollow DEF FetchInv
<1>3. CASE k \notin inFlight /\ k \in Keys
  <2>1. Owners(k, jobs) = 0
    BY <1>3 DEF FetchInv, FetchIsOwned, Owners
  <2>2. jobs' = [jobs EXCEPT ![k] = [jobs[k] EXCEPT !["queued"] = jobs[k]["queued"] + 1]]
    BY <1>1, <1>3
  <2>3. /\ jobs' \in JobType
        /\ jobs'[k]["queued"] = jobs[k]["queued"] + 1
        /\ \A s \in Stages \ {"queued"} : jobs'[k][s] = jobs[k][s]
    BY <1>3, <2>2 DEF FetchInv, JobType, Stages
  <2>4. Owners(k, jobs') = 1
    BY <1>3, <2>1, <2>3 DEF FetchInv, JobType, Owners, Stages
  <2>5. \A other \in Keys \ {k} : Owners(other, jobs') = Owners(other, jobs)
    BY <1>3, <2>2 DEF FetchInv, JobType, Owners
  <2> QED BY <1>1, <2>3, <2>4, <2>5, OwnersFollow
<1> QED BY <1>2, <1>3

\* Carrying out the effects of a tick spawns what is queued.
LEMMA EffectsKeepOwners ==
    ASSUME FetchInv, ProcessEffects
    PROVE  FetchInv'
<1>1. /\ inFlight' = inFlight
      /\ jobs' = [k \in Keys |->
                     [jobs[k] EXCEPT !["queued"] = 0, !["fetching"] = @ + jobs[k]["queued"]]]
  BY DEF ProcessEffects
<1>2. ASSUME NEW k \in Keys
      PROVE  /\ jobs'[k] \in [Stages -> Nat]
             /\ Owners(k, jobs') = Owners(k, jobs)
  BY <1>1 DEF FetchInv, JobType, Owners, Stages
<1>3. jobs' \in JobType
  BY <1>1, <1>2 DEF JobType
<1> QED BY <1>1, <1>2, <1>3, OwnersFollow

\* An outcome that is delivered owns nothing any more.
LEMMA DeliveryKeepsOwners ==
    ASSUME FetchInv, NEW k \in Keys, NEW stage \in {"values", "failure"}, Delivered(k, stage)
    PROVE  FetchInv'
<1>1. /\ jobs[k][stage] > 0 /\ inFlight' = inFlight
      /\ jobs' = [jobs EXCEPT ![k] = [jobs[k] EXCEPT ![stage] = jobs[k][stage] - 1]]
  BY DEF Delivered
<1>2. jobs' \in JobType
  BY <1>1 DEF FetchInv, JobType, Stages
<1>3. \A other \in Keys : Owners(other, jobs') = Owners(other, jobs)
  BY <1>1 DEF FetchInv, JobType, Owners
<1> QED BY <1>1, <1>2, <1>3, OwnersFollow

\* However lookups, fetches, failures, expiries and the two consumers interleave,
\* a key in flight has exactly one fetch, which releases it.
THEOREM FetchSafety == Spec => []FetchIsOwned
<1>1. Init => FetchInv
  BY DEF Init, FetchInv, FetchIsOwned, JobType, Stages
<1>2. FetchInv /\ [Next]_vars => FetchInv'
  <2> SUFFICES ASSUME FetchInv, [Next]_vars
               PROVE  FetchInv'
    OBVIOUS
  <2>1. CASE UNCHANGED <<jobs, inFlight>>
    BY <2>1 DEF FetchInv, FetchIsOwned
  <2>2. ASSUME NEW k \in Keys, Fetch(k) \/ Finish(k)
        PROVE  FetchInv'
    BY <2>2, FetchKeepsOwners, FinishKeepsOwners
  <2>3. ASSUME NEW k \in Keys, Expire(k)
        PROVE  FetchInv'
    BY <2>1, <2>3 DEF Expire
  <2>4. ASSUME NEW k \in Keys, Arrives(k)
        PROVE  FetchInv'
    BY <2>4, DeliveryKeepsOwners DEF Arrives, ValuesReady, FetchFailed
  <2>5. CASE Loop
    <3>1. CASE Lookup
      BY <2>1, <3>1 DEF Lookup, fetches
    <3> QED BY <2>5, <3>1, BeginKeepsOwners, EffectsKeepOwners DEF Loop
  <2>6. CASE Tick \/ User
    BY <2>1, <2>6 DEF Tick, User, Edit, Complete, Dismiss, Help, SelectFromPalette, SelectForInput,
                      Retry, Apply, Close, SwitchView, fetches
  <2>7. CASE UNCHANGED vars
    BY <2>1, <2>7 DEF vars, fetches
  <2> QED BY <2>2, <2>3, <2>4, <2>5, <2>6, <2>7 DEF Next
<1>3. FetchInv => FetchIsOwned
  BY DEF FetchInv
<1> QED BY <1>1, <1>2, <1>3, PTL DEF Spec

-----------------------------------------------------------------------------
(* What the consumers show, and what they wait for *)

Work == {"palette", "prepare", "answer", "effects"}

PaletteType ==
    [want : Keys \cup {"none"}, loading : BOOLEAN, open : BOOLEAN, shown : Keys \cup {"none"}]

SelectorType ==
    [key : Keys \cup {"none"}, target : {"none", "palette", "input"},
     status : {"none", "Loading", "Loaded", "Error"}, pending : Keys \cup {"none"},
     items : {"none", "rows", "empty"}, of : Keys \cup {"none"}]

\* The records keep to their types.
ViewTypes ==
    /\ todo \in Seq(Work)
    /\ missed \in BOOLEAN /\ unheard \in BOOLEAN
    /\ palette \in PaletteType
    /\ selector \in SelectorType
    /\ cache \in [Keys -> {"none", "rows", "empty"}]

Awaited(q) == \E i \in DOMAIN q : q[i] \in {"prepare", "answer"}

\* A selector awaits no key but its own, one that is loading has a key, and a
\* lookup that missed is still the first thing to be done.
WaitInv ==
    /\ selector.pending \in {"none", selector.key}
    /\ selector.status = "Loading" => selector.key \in Keys
    /\ missed => /\ todo # <<>> /\ Head(todo) \in {"palette", "prepare", "answer"}
                 /\ KeyOf(Head(todo)) \in Keys
    /\ LoadingIsServed

ConsumerInv == FetchInv /\ ViewTypes /\ ValuesBelong /\ WaitInv

\* What is left to do when the first thing is done.
LEMMA DoingTheFirst ==
    ASSUME NEW q \in Seq(Work), q # <<>>
    PROVE  /\ Tail(q) \in Seq(Work) /\ Head(q) \in Work
           /\ Awaited(q) => Head(q) \in {"prepare", "answer"} \/ Awaited(Tail(q))
<1>1. /\ Tail(q) \in Seq(Work) /\ Head(q) \in Work /\ Head(q) = q[1]
      /\ Len(q) \in Nat /\ DOMAIN q = 1 .. Len(q)
      /\ Len(Tail(q)) = Len(q) - 1
      /\ \A i \in 1 .. Len(Tail(q)) : Tail(q)[i] = q[i + 1]
  BY HeadTailProperties, LenProperties
<1>2. DOMAIN Tail(q) = 1 .. (Len(q) - 1)
  BY <1>1, LenProperties
<1>3. ASSUME NEW i \in DOMAIN q, i # 1
      PROVE  i - 1 \in DOMAIN Tail(q) /\ Tail(q)[i - 1] = q[i]
  <2>1. i - 1 \in 1 .. (Len(q) - 1) /\ (i - 1) + 1 = i
    BY <1>1, <1>3
  <2> QED BY <1>1, <1>2, <2>1
<1> QED BY <1>1, <1>3 DEF Awaited

\* A key that is in flight has its fetch at some stage.
LEMMA InFlightIsUnderway ==
    ASSUME FetchInv, NEW k \in Keys, k \in inFlight
    PROVE  Underway(k)
<1>1. jobs[k] \in [Stages -> Nat]
  BY DEF FetchInv, JobType
<1>2. jobs[k]["queued"] + jobs[k]["fetching"] + jobs[k]["stored"] + jobs[k]["failed"] = 1
  BY DEF FetchInv, FetchIsOwned
<1>3. \/ jobs[k]["queued"] > 0 \/ jobs[k]["fetching"] > 0
      \/ jobs[k]["stored"] > 0 \/ jobs[k]["failed"] > 0
  BY <1>1, <1>2 DEF Stages
<1> QED BY <1>3 DEF Underway, Stages

\* A fetch that goes on to another stage stays under way.
LEMMA MovingStaysUnderway ==
    ASSUME FetchInv, NEW k \in Keys, NEW from \in Stages, NEW to \in Stages, from # to,
           jobs[k][from] > 0, jobs' = Move(k, from, to), NEW other \in Keys, Underway(other)
    PROVE  Underway(other)'
<1>1. /\ jobs'[k][to] = jobs[k][to] + 1
      /\ \A q \in Keys \ {k} : jobs'[q] = jobs[q]
  BY MoveChanges DEF FetchInv
<1>2. jobs[k][to] \in Nat
  BY DEF FetchInv, JobType
<1>3. CASE other = k
  BY <1>1, <1>2, <1>3 DEF Underway
<1>4. CASE other # k
  BY <1>1, <1>4 DEF Underway
<1> QED BY <1>3, <1>4

\* Steps that change neither what a consumer shows nor what is to be done.
LEMMA BehindTheViews ==
    ASSUME ConsumerInv, FetchInv', cache' \in [Keys -> {"none", "rows", "empty"}],
           \A k \in Keys : Underway(k) => Underway(k)',
           UNCHANGED <<todo, missed, palette, selector, unheard>>
    PROVE  ConsumerInv'
<1>1. KeyOf(Head(todo))' = KeyOf(Head(todo))
  BY DEF KeyOf
<1>2. ViewTypes' /\ ValuesBelong'
  BY DEF ConsumerInv, ViewTypes, ValuesBelong
<1>3. WaitInv'
  BY <1>1 DEF ConsumerInv, WaitInv, LoadingIsServed
<1> QED BY <1>2, <1>3 DEF ConsumerInv

LEMMA FetchKeepsConsumers ==
    ASSUME ConsumerInv, NEW k \in Keys, Fetch(k)
    PROVE  ConsumerInv'
<1>1. FetchInv /\ FetchInv' /\ cache \in [Keys -> {"none", "rows", "empty"}]
  BY FetchKeepsOwners DEF ConsumerInv, ViewTypes
<1>2. PICK to \in {"stored", "failed"} : jobs[k]["fetching"] > 0 /\ jobs' = Move(k, "fetching", to)
  BY DEF Fetch
<1>3. \A q \in Keys : Underway(q) => Underway(q)'
  BY <1>1, <1>2, MovingStaysUnderway DEF Stages
<1>4. cache' \in [Keys -> {"none", "rows", "empty"}]
  BY <1>1 DEF Fetch
<1>5. UNCHANGED <<todo, missed, palette, selector, unheard>>
  BY DEF Fetch, views
<1> QED BY <1>1, <1>3, <1>4, <1>5, BehindTheViews

LEMMA FinishKeepsConsumers ==
    ASSUME ConsumerInv, NEW k \in Keys, Finish(k)
    PROVE  ConsumerInv'
<1>1. FetchInv /\ FetchInv' /\ cache' \in [Keys -> {"none", "rows", "empty"}]
  BY FinishKeepsOwners DEF ConsumerInv, ViewTypes, Finish, Done
<1>2. PICK from \in {"stored", "failed"}, to \in {"values", "failure"} :
          jobs[k][from] > 0 /\ jobs' = Move(k, from, to)
  BY DEF Finish, Done
<1>3. \A q \in Keys : Underway(q) => Underway(q)'
  BY <1>1, <1>2, MovingStaysUnderway DEF Stages
<1>4. UNCHANGED <<todo, missed, palette, selector, unheard>>
  BY DEF Finish, Done, views
<1> QED BY <1>1, <1>3, <1>4, BehindTheViews

LEMMA ExpireKeepsConsumers ==
    ASSUME ConsumerInv, NEW k \in Keys, Expire(k)
    PROVE  ConsumerInv'
<1>1. UNCHANGED <<jobs, inFlight, todo, missed, palette, selector, unheard>>
  BY DEF Expire, views
<1>2. FetchInv' /\ \A q \in Keys : Underway(q) => Underway(q)'
  BY <1>1 DEF ConsumerInv, FetchInv, FetchIsOwned, Underway
<1>3. cache' \in [Keys -> {"none", "rows", "empty"}]
  BY DEF ConsumerInv, ViewTypes, Expire
<1> QED BY <1>1, <1>2, <1>3, BehindTheViews

-----------------------------------------------------------------------------
(* Lookups *)

LEMMA LookupKeepsConsumers ==
    ASSUME ConsumerInv, Lookup
    PROVE  ConsumerInv'
<1> DEFINE h == Head(todo)
           k == KeyOf(h)
           v == IF k = "none" THEN "empty" ELSE cache[k]
<1>1. FetchInv /\ ViewTypes /\ ValuesBelong /\ WaitInv
  BY DEF ConsumerInv
<1>2. /\ todo # <<>> /\ ~missed /\ h \in {"palette", "prepare", "answer"}
      /\ unheard' = (unheard /\ selector'.status = "Loading")
      /\ UNCHANGED <<cache, inFlight, jobs>>
  BY DEF Lookup, Free, fetches
<1>3. FetchInv' /\ \A q \in Keys : Underway(q)' = Underway(q)
  BY <1>1, <1>2 DEF FetchInv, FetchIsOwned, Underway
<1>4. k \in Keys \cup {"none"} /\ "none" \notin Keys
  BY <1>1, ProviderAssumption DEF KeyOf, ViewTypes, PaletteType, SelectorType
<1>5. /\ Tail(todo) \in Seq(Work)
      /\ Awaited(todo) => h \in {"prepare", "answer"} \/ Awaited(Tail(todo))
  BY <1>1, <1>2, DoingTheFirst DEF ViewTypes
<1>6. CASE v = "none"
  <2>1. missed' = TRUE /\ UNCHANGED <<todo, palette, selector>>
    BY <1>6 DEF Lookup
  <2>2. k \in Keys /\ KeyOf(Head(todo))' = k
    BY <1>4, <1>6, <2>1 DEF KeyOf
  <2>3. ViewTypes' /\ ValuesBelong'
    BY <1>1, <1>2, <2>1 DEF ViewTypes, ValuesBelong
  <2>4. WaitInv'
    BY <1>1, <1>2, <1>3, <2>1, <2>2 DEF WaitInv, LoadingIsServed
  <2> QED BY <1>3, <2>3, <2>4 DEF ConsumerInv
<1>7. CASE v # "none" /\ h = "palette"
  <2>1. todo' = Tail(todo) /\ UNCHANGED <<missed, selector>> /\ ShowSuggestions(v)
    BY <1>7 DEF Lookup
  <2>2. PICK open \in BOOLEAN :
            palette' = [palette EXCEPT !.loading = FALSE, !.open = open,
                                       !.shown = IF v = "rows" THEN palette.want ELSE "none"]
    BY <2>1 DEF ShowSuggestions
  <2> HIDE DEF v
  <2>3. /\ palette' \in PaletteType
        /\ palette'.shown \in {"none", palette'.want}
    BY <1>1, <2>2 DEF ViewTypes, PaletteType
  <2>4. ViewTypes' /\ ValuesBelong'
    BY <1>1, <1>2, <1>5, <2>1, <2>3 DEF ViewTypes, ValuesBelong
  <2>5. LoadingIsServed'
    BY <1>1, <1>2, <1>3, <1>5, <1>7, <2>1 DEF WaitInv, LoadingIsServed, Awaited, ViewTypes
  <2>6. WaitInv'
    BY <1>1, <1>2, <2>1, <2>5 DEF WaitInv
  <2> QED BY <1>3, <2>4, <2>6 DEF ConsumerInv
<1>8. CASE v # "none" /\ h # "palette"
  <2>1. todo' = Tail(todo) /\ UNCHANGED <<missed, palette>> /\ ApplyItems(v)
    BY <1>8 DEF Lookup
  <2>2. v \in {"rows", "empty"}
    BY <1>1, <1>4, <1>8 DEF ViewTypes
  <2> HIDE DEF v
  <2>3. /\ selector' \in SelectorType
        /\ selector'.key = selector.key
        /\ selector'.pending \in {"none", selector.pending}
        /\ selector'.items # "none" => selector'.of = selector'.key
        /\ selector'.status = "Loading" => selector'.items = "rows" /\ selector.status = "Loading"
    <3>1. selector \in SelectorType /\ (selector.items # "none" => selector.of = selector.key)
      BY <1>1 DEF ViewTypes, ValuesBelong
    <3>2. CASE v = "empty" /\ selector.target = "input" /\ selector.items = "rows"
      <4>1. selector' = selector
        BY <2>1, <3>2 DEF ApplyItems
      <4> QED BY <3>1, <3>2, <4>1
    <3>3. CASE v = "empty" /\ selector.target = "input" /\ selector.items # "rows"
      <4>1. selector' = [selector EXCEPT !.status = "Error"]
        BY <2>1, <3>3 DEF ApplyItems
      <4> QED BY <3>1, <4>1 DEF SelectorType
    <3>4. CASE ~(v = "empty" /\ selector.target = "input")
      <4>1. selector' = [selector EXCEPT !.status = "Loaded", !.pending = "none",
                                         !.items = v, !.of = selector.key]
        BY <2>1, <3>4 DEF ApplyItems
      <4> QED BY <2>2, <3>1, <4>1 DEF SelectorType
    <3> QED BY <3>2, <3>3, <3>4
  <2>4. ViewTypes' /\ ValuesBelong'
    BY <1>1, <1>2, <1>5, <2>1, <2>3 DEF ViewTypes, ValuesBelong
  <2>5. WaitInv'
    BY <1>1, <1>2, <2>1, <2>3 DEF WaitInv, LoadingIsServed
  <2> QED BY <1>3, <2>4, <2>5 DEF ConsumerInv
<1> QED BY <1>6, <1>7, <1>8

LEMMA BeginKeepsConsumers ==
    ASSUME ConsumerInv, Begin
    PROVE  ConsumerInv'
<1> DEFINE h == Head(todo)
<1>1. FetchInv /\ ViewTypes /\ ValuesBelong /\ WaitInv
  BY DEF ConsumerInv
<1>3. todo # <<>> /\ h \in {"palette", "prepare", "answer"} /\ KeyOf(h) \in Keys
  BY <1>1 DEF WaitInv, Begin
<1>0. PICK k \in Keys : k = KeyOf(h)
  BY <1>3
<1>2. /\ missed /\ missed' = FALSE /\ todo' = Tail(todo)
      /\ UNCHANGED <<cache, unheard>>
      /\ inFlight' = inFlight \cup {k}
      /\ jobs' = IF k \in inFlight THEN jobs ELSE [jobs EXCEPT ![k]["queued"] = @ + 1]
  BY <1>0 DEF Begin
<1>4. FetchInv'
  BY <1>1, BeginKeepsOwners
<1>5. Underway(k)'
  <2>1. k \in inFlight => Underway(k)
    BY <1>1, InFlightIsUnderway
  <2>2. CASE k \in inFlight
    BY <1>2, <2>1, <2>2 DEF Underway
  <2>3. CASE k \notin inFlight
    <3>1. jobs'[k]["queued"] = jobs[k]["queued"] + 1 /\ jobs[k]["queued"] \in Nat
      BY <1>1, <1>2, <2>3 DEF FetchInv, JobType, Stages
    <3>2. jobs'[k]["queued"] > 0
      BY <3>1
    <3> QED BY <3>2 DEF Underway, Stages
  <2> QED BY <2>2, <2>3
<1>6. ASSUME NEW q \in Keys, Underway(q) PROVE Underway(q)'
  <2>1. CASE q = k
    BY <1>5, <2>1
  <2>2. CASE q # k
    <3>1. jobs'[q] = jobs[q]
      BY <1>1, <1>2, <2>2 DEF FetchInv, JobType
    <3> QED BY <1>6, <3>1 DEF Underway
  <2> QED BY <2>1, <2>2
<1>7. /\ Tail(todo) \in Seq(Work)
      /\ Awaited(todo) => h \in {"prepare", "answer"} \/ Awaited(Tail(todo))
  BY <1>1, <1>3, DoingTheFirst DEF ViewTypes
<1>8. CASE h = "palette"
  <2>1. AwaitSuggestions /\ UNCHANGED selector
    BY <1>8 DEF Begin
  <2>2. /\ palette' \in PaletteType
        /\ palette'.shown = "none"
    BY <1>1, <2>1 DEF ViewTypes, PaletteType, AwaitSuggestions
  <2>3. ViewTypes' /\ ValuesBelong'
    BY <1>1, <1>2, <1>7, <2>1, <2>2 DEF ViewTypes, ValuesBelong
  <2>4. LoadingIsServed'
    <3> SUFFICES ASSUME selector.status = "Loading", selector.items # "rows", ~unheard
                 PROVE  Underway(selector.key)' \/ Awaited(Tail(todo))
      BY <1>2, <2>1 DEF LoadingIsServed, Awaited
    <3>1. selector.key \in Keys /\ (Underway(selector.key) \/ Awaited(todo))
      BY <1>1 DEF WaitInv, LoadingIsServed, Awaited
    <3>2. Awaited(todo) => Awaited(Tail(todo))
      BY <1>7, <1>8
    <3>3. Underway(selector.key) => Underway(selector.key)'
      <4>1. PICK q \in Keys : q = selector.key
        BY <3>1
      <4> QED BY <1>6, <2>1, <4>1 DEF Underway
    <3> QED BY <3>1, <3>2, <3>3
  <2>5. WaitInv'
    BY <1>1, <1>2, <2>1, <2>4 DEF WaitInv
  <2> QED BY <1>4, <2>3, <2>5 DEF ConsumerInv
<1>9. CASE h # "palette"
  <2>1. AwaitItems(h) /\ UNCHANGED palette /\ k = selector.key
    BY <1>0, <1>9 DEF Begin, KeyOf
  <2>2. /\ selector' \in SelectorType
        /\ selector'.key = selector.key /\ selector'.pending = selector.key
        /\ selector'.items = selector.items /\ selector'.of = selector.of
    <3> HIDE DEF h
    <3> QED BY <1>1, <2>1 DEF ViewTypes, SelectorType, AwaitItems
  <2>3. ViewTypes' /\ ValuesBelong'
    BY <1>1, <1>2, <1>7, <2>1, <2>2 DEF ViewTypes, ValuesBelong
  <2>4. LoadingIsServed'
    BY <1>5, <2>1, <2>2 DEF LoadingIsServed, Underway
  <2>5. WaitInv'
    BY <1>2, <1>3, <2>1, <2>2, <2>4 DEF WaitInv
  <2> QED BY <1>4, <2>3, <2>5 DEF ConsumerInv
<1> QED BY <1>8, <1>9

-----------------------------------------------------------------------------
(* Ticks, outcomes and keys *)

\* A selector that is as it should be.
SelectorFits(s) ==
    /\ s \in SelectorType
    /\ s.pending \in {"none", s.key}
    /\ s.items # "none" => s.of = s.key
    /\ s.status = "Loading" => s.key \in Keys

\* Steps of the event loop between two events, that leave the fetches alone: the
\* selector stays as it is, or is to look its key up.
LEMMA BetweenEvents ==
    ASSUME ConsumerInv, Free, UNCHANGED <<jobs, inFlight, cache, missed>>,
           todo' \in Seq(Work), unheard' \in BOOLEAN, palette' \in PaletteType,
           palette'.open /\ palette'.shown # "none" => palette'.shown = palette'.want,
           \/ UNCHANGED <<selector, unheard>>
           \/ SelectorFits(selector') /\ Awaited(todo')
    PROVE  ConsumerInv'
<1>1. FetchInv /\ ViewTypes /\ ValuesBelong /\ WaitInv
  BY DEF ConsumerInv
<1>2. ~missed /\ ~missed' /\ todo = <<>>
  BY <1>1 DEF WaitInv, Free
<1>3. FetchInv' /\ \A q \in Keys : Underway(q) => Underway(q)'
  BY <1>1 DEF FetchInv, FetchIsOwned, Underway
<1>4. SelectorFits(selector')
  BY <1>1 DEF ViewTypes, ValuesBelong, WaitInv, SelectorFits
<1>5. ViewTypes' /\ ValuesBelong'
  BY <1>1, <1>4 DEF ViewTypes, ValuesBelong, SelectorFits
<1>6. LoadingIsServed'
  <2>1. CASE UNCHANGED <<selector, unheard>>
    <3> SUFFICES ASSUME selector.status = "Loading", selector.items # "rows", ~unheard
                 PROVE  Underway(selector.key)'
      BY <2>1 DEF LoadingIsServed
    <3>1. selector.key \in Keys /\ Underway(selector.key)
      BY <1>1, <1>2 DEF WaitInv, LoadingIsServed
    <3>2. PICK q \in Keys : q = selector.key
      BY <3>1
    <3> QED BY <1>3, <2>1, <3>1, <3>2 DEF Underway
  <2>2. CASE Awaited(todo')
    BY <2>2 DEF LoadingIsServed, Awaited
  <2> QED BY <2>1, <2>2
<1>7. WaitInv'
  BY <1>2, <1>4, <1>6 DEF WaitInv, SelectorFits
<1> QED BY <1>3, <1>5, <1>7 DEF ConsumerInv

\* One or two things to do.
LEMMA ThingsToDo ==
    ASSUME NEW a \in Work, NEW b \in Work
    PROVE  /\ <<>> \in Seq(Work) /\ <<a>> \in Seq(Work) /\ <<a>> \o <<>> = <<a>>
           /\ <<>> \o <<a>> = <<a>> /\ <<>> \o <<>> = <<>>
           /\ <<a>> \o <<b>> = <<a, b>> /\ <<a, b>> \in Seq(Work)
           /\ Awaited(<<"prepare">>)
           /\ b \in {"prepare", "answer"} => Awaited(<<b>>) /\ Awaited(<<a, b>>)
<1>1. /\ <<>> \in Seq(Work) /\ <<a>> \in Seq(Work) /\ <<b>> \in Seq(Work)
      /\ <<a, b>> \in Seq(Work)
  OBVIOUS
<1>2. /\ <<a>> \o <<>> = <<a>> /\ <<>> \o <<a>> = <<a>> /\ <<>> \o <<>> = <<>>
  BY <1>1, ConcatEmptySeq
<1>3. <<a>> \o <<b>> = <<a, b>>
  <2>1. <<a>> \o <<b>> = Append(<<a>>, b)
    BY <1>1, AppendIsConcat
  <2>2. Append(<<a>>, b) = <<a, b>>
    <3>1. /\ Len(Append(<<a>>, b)) = 2 /\ Append(<<a>>, b)[1] = a /\ Append(<<a>>, b)[2] = b
          /\ Append(<<a>>, b) \in Seq(Work)
      BY <1>1, AppendProperties
    <3>2. Len(<<a, b>>) = 2 /\ <<a, b>>[1] = a /\ <<a, b>>[2] = b
      OBVIOUS
    <3>3. \A i \in 1 .. 2 : Append(<<a>>, b)[i] = <<a, b>>[i]
      BY <3>1, <3>2
    <3> QED BY <1>1, <3>1, <3>2, <3>3, SeqEqual
  <2> QED BY <2>1, <2>2
<1>4. Awaited(<<"prepare">>)
  <2>1. 1 \in DOMAIN <<"prepare">> /\ <<"prepare">>[1] = "prepare"
    OBVIOUS
  <2> QED BY <2>1 DEF Awaited
<1>5. b \in {"prepare", "answer"} => Awaited(<<b>>) /\ Awaited(<<a, b>>)
  <2>1. 1 \in DOMAIN <<b>> /\ <<b>>[1] = b /\ 2 \in DOMAIN <<a, b>> /\ <<a, b>>[2] = b
    OBVIOUS
  <2> QED BY <2>1 DEF Awaited
<1> QED BY <1>1, <1>2, <1>3, <1>4, <1>5

LEMMA TickKeepsConsumers ==
    ASSUME ConsumerInv, Tick
    PROVE  ConsumerInv'
<1>1. todo' \in Seq(Work)
  <2>1. todo' \in {<<"palette">> \o <<"effects">>, <<>> \o <<"effects">>}
    BY DEF Tick
  <2>2. "palette" \in Work /\ "effects" \in Work
    BY DEF Work
  <2> QED BY <2>1, <2>2, ThingsToDo
<1>2. /\ Free
      /\ UNCHANGED <<jobs, inFlight, cache, missed, palette, selector, unheard>>
  BY DEF Tick, fetches, views
<1>3. /\ unheard' \in BOOLEAN /\ palette' \in PaletteType
      /\ palette'.open /\ palette'.shown # "none" => palette'.shown = palette'.want
  BY <1>2 DEF ConsumerInv, ViewTypes, ValuesBelong
<1> QED BY <1>1, <1>2, <1>3, BetweenEvents

\* The keys of the user either leave the selector alone or have it look its own
\* key up again.
LEMMA UserKeepsConsumers ==
    ASSUME ConsumerInv, User
    PROVE  ConsumerInv'
<1>1. /\ FetchInv /\ ViewTypes /\ ValuesBelong /\ WaitInv
      /\ "none" \notin Keys /\ palette \in PaletteType /\ selector \in SelectorType
  BY ProviderAssumption DEF ConsumerInv, ViewTypes
<1>2. /\ \A w \in Work : <<w>> \in Seq(Work)
      /\ Awaited(<<"prepare">>) /\ "prepare" \in Work /\ "palette" \in Work
  BY ThingsToDo DEF Work
<1>3. Free /\ UNCHANGED <<jobs, inFlight, cache, missed>>
  BY DEF User, Edit, Complete, Dismiss, Help, SelectFromPalette, SelectForInput, Retry, Apply,
         Close, SwitchView, At, fetches
<1>4. /\ todo' \in Seq(Work) /\ unheard' \in BOOLEAN
  BY <1>1, <1>2 DEF User, Edit, Complete, Dismiss, Help, SelectFromPalette, SelectForInput, Retry,
                    Apply, Close, SwitchView, views, ViewTypes
<1>5. /\ palette' \in PaletteType
      /\ palette'.open /\ palette'.shown # "none" => palette'.shown = palette'.want
  <2>1. CASE UNCHANGED palette
    BY <1>1, <2>1 DEF ValuesBelong
  <2>2. CASE Edit
    <3>1. PICK k \in Keys \cup {"none"} :
              palette' = [palette EXCEPT !.want = k, !.open = FALSE, !.shown = "none"]
      BY <2>2 DEF Edit
    <3> QED BY <1>1, <3>1 DEF PaletteType
  <2>4. CASE Apply
    <3>1. PICK k \in Keys \cup {"none"} :
              palette' = [want |-> k, loading |-> FALSE, open |-> FALSE, shown |-> "none"]
      BY <2>4 DEF Apply
    <3> QED BY <3>1 DEF PaletteType
  <2>3. CASE Dismiss \/ SelectFromPalette
    BY <1>1, <2>3 DEF Dismiss, SelectFromPalette, PaletteType
  <2> QED BY <2>1, <2>2, <2>3, <2>4 DEF User, Complete, Help, SelectForInput, Retry, Close, SwitchView, views
<1>6. \/ UNCHANGED <<selector, unheard>>
      \/ SelectorFits(selector') /\ Awaited(todo')
  <2>1. ASSUME NEW k \in Keys, NEW target \in {"palette", "input"}, selector' = Opened(k, target)
        PROVE  SelectorFits(selector')
    BY <1>1, <2>1 DEF Opened, NoSelector, SelectorFits, SelectorType
  <2>2. CASE SelectFromPalette
    <3>1. palette.want \in Keys
      BY <1>1, <2>2 DEF SelectFromPalette, ValuesBelong, PaletteType
    <3> QED BY <1>2, <2>1, <2>2, <3>1 DEF SelectFromPalette
  <2>3. CASE SelectForInput
    BY <1>2, <2>1, <2>3 DEF SelectForInput
  <2>4. CASE Retry
    <3>1. SelectorFits(selector')
      BY <1>1, <2>4 DEF Retry, SelectorFits, SelectorType, WaitInv, ValuesBelong
    <3> QED BY <1>2, <2>4, <3>1 DEF Retry
  <2> QED BY <2>2, <2>3, <2>4 DEF User, Edit, Complete, Dismiss, Help, Apply, Close, SwitchView, views
<1> QED BY <1>3, <1>4, <1>5, <1>6, BetweenEvents

LEMMA EffectsKeepConsumers ==
    ASSUME ConsumerInv, ProcessEffects
    PROVE  ConsumerInv'
<1>1. FetchInv /\ ViewTypes /\ ValuesBelong /\ WaitInv
  BY DEF ConsumerInv
<1>2. /\ todo # <<>> /\ Head(todo) = "effects" /\ todo' = Tail(todo)
      /\ selector' \in {selector, NoSelector}
      /\ jobs' = [k \in Keys |->
                     [jobs[k] EXCEPT !["queued"] = 0, !["fetching"] = @ + jobs[k]["queued"]]]
      /\ UNCHANGED <<cache, inFlight, missed, palette, unheard>>
  BY DEF ProcessEffects, Free
<1>3. ~missed'
  BY <1>1, <1>2 DEF WaitInv
<1>4. FetchInv'
  BY <1>1, EffectsKeepOwners
<1>5. ASSUME NEW q \in Keys, Underway(q) PROVE Underway(q)'
  <2>1. jobs[q] \in [Stages -> Nat]
    BY <1>1 DEF FetchInv, JobType
  <2>2. jobs'[q] = [jobs[q] EXCEPT !["queued"] = 0,
                                   !["fetching"] = jobs[q]["fetching"] + jobs[q]["queued"]]
    BY <1>2
  <2>3. PICK s \in Stages : jobs[q][s] > 0
    BY <1>5 DEF Underway
  <2>4. CASE s \in {"queued", "fetching"}
    <3>1. jobs'[q]["fetching"] = jobs[q]["fetching"] + jobs[q]["queued"]
      BY <2>1, <2>2 DEF Stages
    <3>2. jobs[q]["fetching"] \in Nat /\ jobs[q]["queued"] \in Nat
      BY <2>1 DEF Stages
    <3>3. jobs'[q]["fetching"] > 0
      BY <2>3, <2>4, <3>1, <3>2
    <3> QED BY <3>3 DEF Underway, Stages
  <2>5. CASE s \notin {"queued", "fetching"}
    <3>1. jobs'[q][s] = jobs[q][s]
      BY <2>1, <2>2, <2>5
    <3> QED BY <2>3, <3>1 DEF Underway
  <2> QED BY <2>4, <2>5
<1>6. Tail(todo) \in Seq(Work) /\ (Awaited(todo) => Awaited(Tail(todo)))
  BY <1>1, <1>2, DoingTheFirst DEF ViewTypes
<1>7. NoSelector \in SelectorType
  BY DEF NoSelector, SelectorType
<1>8. ViewTypes' /\ ValuesBelong'
  <2>1. selector' \in SelectorType
    BY <1>1, <1>2, <1>7 DEF ViewTypes
  <2>2. selector'.items # "none" => selector'.of = selector'.key
    BY <1>1, <1>2 DEF ValuesBelong, NoSelector
  <2> QED BY <1>1, <1>2, <1>6, <2>1, <2>2 DEF ViewTypes, ValuesBelong
<1>9. LoadingIsServed'
  <2>1. CASE selector' = NoSelector
    BY <2>1 DEF NoSelector, LoadingIsServed
  <2>2. CASE selector' = selector
    <3> SUFFICES ASSUME selector.status = "Loading", selector.items # "rows", ~unheard
                 PROVE  Underway(selector.key)' \/ Awaited(Tail(todo))
      BY <1>2, <2>2 DEF LoadingIsServed, Awaited
    <3>1. selector.key \in Keys /\ (Underway(selector.key) \/ Awaited(todo))
      BY <1>1 DEF WaitInv, LoadingIsServed, Awaited
    <3>2. PICK q \in Keys : q = selector.key
      BY <3>1
    <3> QED BY <1>5, <1>6, <2>2, <3>1, <3>2 DEF Underway
  <2> QED BY <1>2, <2>1, <2>2
<1>10. WaitInv'
  <2>1. CASE selector' = NoSelector
    BY <1>3, <1>9, <2>1 DEF WaitInv, NoSelector
  <2>2. CASE selector' = selector
    BY <1>1, <1>3, <1>9, <2>2 DEF WaitInv
  <2> QED BY <1>2, <2>1, <2>2
<1> QED BY <1>4, <1>8, <1>10 DEF ConsumerInv

\* The outcome of a fetch leaves those of other keys under way.
LEMMA OthersStayUnderway ==
    ASSUME FetchInv, NEW k \in Keys, NEW stage \in {"values", "failure"}, Delivered(k, stage),
           NEW q \in Keys, q # k, Underway(q)
    PROVE  Underway(q)'
<1>1. jobs'[q] = jobs[q]
  BY DEF Delivered, FetchInv, JobType
<1> QED BY <1>1 DEF Underway

\* Values that arrive are looked up by a selector that loads its key.
LEMMA ReadyKeepsConsumers ==
    ASSUME ConsumerInv, NEW k \in Keys, ValuesReady(k)
    PROVE  ConsumerInv'
<1>1. /\ FetchInv /\ ViewTypes /\ ValuesBelong /\ WaitInv
      /\ "none" \notin Keys
  BY ProviderAssumption DEF ConsumerInv
<1>2. /\ Free /\ Delivered(k, "values")
      /\ UNCHANGED <<cache, missed, palette, selector, unheard>>
  BY DEF ValuesReady, Delivered, views
<1>3. FetchInv' /\ ~missed'
  BY <1>1, <1>2, DeliveryKeepsOwners DEF WaitInv, Free
<1>4. "palette" \in Work /\ "answer" \in Work
  BY DEF Work
<1>5. \/ todo' = <<>> \o <<>> \/ todo' = <<"palette">> \o <<>>
      \/ todo' = <<>> \o <<"answer">> \/ todo' = <<"palette">> \o <<"answer">>
  BY DEF ValuesReady
<1>6. todo' \in Seq(Work)
  BY <1>4, <1>5, ThingsToDo
<1>7. selector.key = k => Awaited(todo')
  <2> SUFFICES ASSUME selector.key = k PROVE Awaited(todo')
    OBVIOUS
  <2>1. \/ todo' = <<>> \o <<"answer">> \/ todo' = <<"palette">> \o <<"answer">>
    BY <1>1 DEF ValuesReady, WaitInv
  <2> QED BY <1>4, <2>1, ThingsToDo
<1>8. ViewTypes' /\ ValuesBelong'
  BY <1>1, <1>2, <1>6 DEF ViewTypes, ValuesBelong
<1>9. LoadingIsServed'
  <2> SUFFICES ASSUME selector.status = "Loading", selector.items # "rows", ~unheard,
                      selector.key # k
               PROVE  Underway(selector.key)'
    BY <1>2, <1>7 DEF LoadingIsServed, Awaited
  <2>1. selector.key \in Keys /\ Underway(selector.key)
    BY <1>1, <1>2 DEF WaitInv, LoadingIsServed, Free
  <2>2. PICK q \in Keys : q = selector.key
    BY <2>1
  <2>3. Underway(q)'
    BY <1>1, <1>2, <2>1, <2>2, OthersStayUnderway
  <2> QED BY <1>2, <2>2, <2>3 DEF Underway
<1>10. WaitInv'
  BY <1>1, <1>2, <1>3, <1>9 DEF WaitInv
<1> QED BY <1>3, <1>8, <1>10 DEF ConsumerInv

\* A failure that the selector does not hear is counted as unheard.
LEMMA FailureKeepsConsumers ==
    ASSUME ConsumerInv, NEW k \in Keys, FetchFailed(k)
    PROVE  ConsumerInv'
<1> DEFINE to == IF screen.modal = "none" THEN screen.view ELSE screen.modal
           waiting == selector.pending # "none" \/ selector.status = "Loading"
<1>1. FetchInv /\ ViewTypes /\ ValuesBelong /\ WaitInv
  BY DEF ConsumerInv
<1>2. /\ todo = <<>> /\ todo' = todo /\ Delivered(k, "failure") /\ UNCHANGED <<cache, missed>>
      /\ selector' = IF to = "collector" /\ waiting
                     THEN [selector EXCEPT !.status = "Error", !.pending = "none"] ELSE selector
      /\ unheard' = (unheard \/ (to # "collector" /\ selector.status = "Loading" /\ selector.key = k))
      /\ \/ UNCHANGED palette
         \/ \E open \in {palette.open, FALSE} :
                palette' = [palette EXCEPT !.loading = FALSE, !.open = open]
  BY DEF FetchFailed, Delivered, Free
<1> HIDE DEF to
<1>3. FetchInv' /\ ~missed'
  BY <1>1, <1>2, DeliveryKeepsOwners DEF WaitInv
<1>4. /\ selector' \in SelectorType /\ selector'.key = selector.key
      /\ selector'.pending \in {"none", selector.pending}
      /\ selector'.items = selector.items /\ selector'.of = selector.of
      /\ selector'.status = "Loading" => selector' = selector /\ to # "collector"
  BY <1>1, <1>2 DEF ViewTypes, SelectorType
<1>5. palette' \in PaletteType
      /\ (palette'.open => palette.open) /\ palette'.shown = palette.shown
      /\ palette'.want = palette.want
  BY <1>1, <1>2 DEF ViewTypes, PaletteType
<1>6. ViewTypes' /\ ValuesBelong'
  BY <1>1, <1>2, <1>4, <1>5 DEF ViewTypes, ValuesBelong
<1>7. LoadingIsServed'
  <2> SUFFICES ASSUME selector'.status = "Loading", selector'.items # "rows", ~unheard'
               PROVE  Underway(selector.key)'
    BY <1>4 DEF LoadingIsServed
  <2>1. selector.status = "Loading" /\ selector.items # "rows" /\ ~unheard /\ selector.key # k
    BY <1>2, <1>4
  <2>2. selector.key \in Keys /\ Underway(selector.key)
    BY <1>1, <1>2, <2>1 DEF WaitInv, LoadingIsServed
  <2>3. PICK q \in Keys : q = selector.key
    BY <2>2
  <2>4. Underway(q)'
    BY <1>1, <1>2, <2>1, <2>2, <2>3, OthersStayUnderway
  <2> QED BY <1>4, <2>3, <2>4 DEF Underway
<1>8. WaitInv'
  BY <1>1, <1>3, <1>4, <1>7 DEF WaitInv
<1> QED BY <1>3, <1>6, <1>8 DEF ConsumerInv

-----------------------------------------------------------------------------
(* The theorems about the consumers *)

LEMMA ConsumersAreKept ==
    ASSUME ConsumerInv, [Next]_vars
    PROVE  ConsumerInv'
<1>1. ASSUME NEW k \in Keys, Fetch(k) \/ Finish(k) \/ Expire(k) \/ Arrives(k)
      PROVE  ConsumerInv'
  BY <1>1, FetchKeepsConsumers, FinishKeepsConsumers, ExpireKeepsConsumers, ReadyKeepsConsumers,
     FailureKeepsConsumers DEF Arrives
<1>2. CASE Loop
  BY <1>2, LookupKeepsConsumers, BeginKeepsConsumers, EffectsKeepConsumers DEF Loop
<1>3. CASE Tick \/ User
  BY <1>3, TickKeepsConsumers, UserKeepsConsumers
<1>4. CASE UNCHANGED vars
  <2>1. UNCHANGED <<jobs, inFlight, cache, todo, missed, palette, selector, unheard>>
    BY <1>4 DEF vars, fetches, views
  <2>2. FetchInv' /\ \A q \in Keys : Underway(q) => Underway(q)'
    BY <2>1 DEF ConsumerInv, FetchInv, FetchIsOwned, Underway
  <2>3. cache' \in [Keys -> {"none", "rows", "empty"}]
    BY <2>1 DEF ConsumerInv, ViewTypes
  <2> QED BY <2>1, <2>2, <2>3, BehindTheViews
<1> QED BY <1>1, <1>2, <1>3, <1>4 DEF Next

LEMMA ConsumersStart ==
    ASSUME Init
    PROVE  ConsumerInv
<1>1. FetchInv
  BY DEF Init, FetchInv, FetchIsOwned, JobType, Stages
<1>2. ViewTypes
  <2>1. palette \in PaletteType
    BY DEF Init, PaletteType
  <2>2. selector \in SelectorType
    BY DEF Init, SelectorType, NoSelector
  <2>3. todo \in Seq(Work)
    BY DEF Init
  <2> QED BY <2>1, <2>2, <2>3 DEF Init, ViewTypes
<1>3. ValuesBelong /\ WaitInv
  BY DEF Init, ValuesBelong, WaitInv, LoadingIsServed, NoSelector
<1> QED BY <1>1, <1>2, <1>3 DEF ConsumerInv

\* However the fetches of several keys overlap, end in another order or expire,
\* the selector holds the rows of its own arguments and the popup those of the
\* input as it stands.
THEOREM ValuesSafety == Spec => []ValuesBelong
<1>1. ConsumerInv => ValuesBelong
  BY DEF ConsumerInv
<1> QED BY <1>1, ConsumersStart, ConsumersAreKept, PTL DEF Spec

\* Between the poll of the cache, the fetch that another consumer began and the
\* outcome that is delivered, a selector that says it is loading is never left
\* without anything to wait for, unless the failure was given to another view.
THEOREM LoadingSafety == Spec => []LoadingIsServed
<1>1. ConsumerInv => LoadingIsServed
  BY DEF ConsumerInv, WaitInv
<1> QED BY <1>1, ConsumersStart, ConsumersAreKept, PTL DEF Spec

=============================================================================
