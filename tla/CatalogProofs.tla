---------------------------- MODULE CatalogProofs ----------------------------
(***************************************************************************)
(* Theorems about CatalogRegistry, for every set of titles, manifests and  *)
(* settings, and for any number of failed writes.                          *)
(***************************************************************************)
EXTENDS CatalogRegistry, SequenceTheorems, WellFoundedInduction, TLAPS

-----------------------------------------------------------------------------
(* Loops *)

\* Every set of numbers that is not empty has a least one.
LEMMA LeastNumber ==
    ASSUME NEW T, T \subseteq Nat, T # {}
    PROVE  \E x \in T : \A y \in T : x <= y
<1> DEFINE R == {r \in Nat \X Nat : r[1] < r[2]}
<1>1. IsWellFoundedOn(R, Nat)
  BY NatLessThanWellFounded DEF OpToRel
<1> HIDE DEF R
<1>2. PICK x \in T : \A y \in T : ~ (<<y, x>> \in R)
  BY <1>1, WFMin
<1>3. \A y \in T : x <= y
  <2> TAKE y \in T
  <2>1. x \in Nat /\ y \in Nat /\ <<y, x>> \notin R
    BY <1>2
  <2>2. ~(y < x)
    BY <2>1 DEF R
  <2> QED BY <2>1, <2>2
<1> QED BY <1>3

\* What each turn of a loop keeps holds after every turn.
LEMMA LoopKeeps ==
    ASSUME NEW n \in Nat, NEW S, NEW h, h[0] \in S[0],
           \A k \in 1 .. n : h[k - 1] \in S[k - 1] => h[k] \in S[k]
    PROVE  \A k \in 0 .. n : h[k] \in S[k]
<1> DEFINE T == {k \in 0 .. n : h[k] \notin S[k]}
<1>1. SUFFICES ASSUME T # {} PROVE FALSE
  OBVIOUS
<1>2. T \subseteq Nat
  OBVIOUS
<1>3. PICK x \in T : \A y \in T : x <= y
  BY <1>1, <1>2, LeastNumber
<1>4. x \in 0 .. n /\ h[x] \notin S[x] /\ x # 0
  BY <1>3
<1>5. x - 1 \in 0 .. n /\ x - 1 \notin T
  BY <1>3, <1>4
<1>6. x \in 1 .. n /\ h[x - 1] \in S[x - 1]
  BY <1>4, <1>5
<1> QED BY <1>4, <1>6

\* A loop of n turns starts at b, and its turn k takes x to g[k][x].
Loop(h, n, b, g) == h = [k \in 0 .. n |-> IF k = 0 THEN b ELSE g[k][h[k - 1]]]

\* There is such a function.
LEMMA LoopRuns ==
    ASSUME NEW n \in Nat, NEW b, NEW g
    PROVE  \E h : Loop(h, n, b, g)
<1> USE DEF Loop
<1> DEFINE Runs(m) == \E h : Loop(h, m, b, g)
           T == {m \in Nat : ~Runs(m)}
<1>1. SUFFICES ASSUME T # {} PROVE FALSE
  OBVIOUS
<1>2. T \subseteq Nat
  OBVIOUS
<1>3. PICK m \in T : \A y \in T : m <= y
  BY <1>1, <1>2, LeastNumber
<1>4. m \in Nat /\ ~Runs(m)
  BY <1>3
<1>5. m # 0
  <2>1. [k \in 0 .. 0 |-> b] = [k \in 0 .. 0 |-> IF k = 0 THEN b ELSE g[k][[l \in 0 .. 0 |-> b][k - 1]]]
    OBVIOUS
  <2> QED BY <1>4, <2>1
<1>6. m - 1 \in Nat /\ m - 1 \notin T
  BY <1>3, <1>4, <1>5
<1>7. PICK h : h = [k \in 0 .. m - 1 |-> IF k = 0 THEN b ELSE g[k][h[k - 1]]]
  BY <1>6
<1> DEFINE j == [k \in 0 .. m |-> IF k = m THEN g[m][h[m - 1]] ELSE h[k]]
<1>8. \A k \in 0 .. m : j[k] = IF k = 0 THEN b ELSE g[k][j[k - 1]]
  <2> SUFFICES ASSUME NEW k \in 0 .. m PROVE j[k] = IF k = 0 THEN b ELSE g[k][j[k - 1]]
    OBVIOUS
  <2>1. CASE k = m
    <3>1. m - 1 \in 0 .. m /\ m - 1 # m /\ j[m - 1] = h[m - 1]
      BY <1>4, <1>5
    <3> QED BY <1>5, <2>1, <3>1
  <2>2. CASE k # m
    <3>1. k \in 0 .. m - 1 /\ j[k] = h[k]
      BY <1>4, <2>2
    <3>2. h[k] = IF k = 0 THEN b ELSE g[k][h[k - 1]]
      BY <1>7, <3>1
    <3>3. k # 0 => k - 1 \in 0 .. m /\ k - 1 # m /\ j[k - 1] = h[k - 1]
      BY <1>4, <3>1
    <3> QED BY <3>1, <3>2, <3>3
  <2> QED BY <2>1, <2>2
<1>9. j = [k \in 0 .. m |-> IF k = 0 THEN b ELSE g[k][j[k - 1]]]
  <2>1. DOMAIN j = 0 .. m /\ j = [k \in DOMAIN j |-> j[k]]
    OBVIOUS
  <2> HIDE DEF j
  <2> QED BY <1>8, <2>1
<1> HIDE DEF j
<1> QED BY <1>4, <1>9

-----------------------------------------------------------------------------
(* The invariant *)

CatalogType ==
    {c \in [title : Titles, enabled : BOOLEAN, conf : Confs, manifest : SUBSET Endpoints] :
        c.manifest \in Manifests[c.title]}
EntryType == [title : Titles, enabled : BOOLEAN, conf : Confs]
CommandType == [name : Names, http : {e.http : e \in Endpoints}, at : Nat]

EndpointsOf(cmds) == {Endpoint(c) : c \in cmds}
Distinct(s) == \A i, j \in DOMAIN s : s[i].title = s[j].title => i = j

\* A registry offers what its enabled catalogs serve.
Sound(r) ==
    /\ r.cats \in Seq(CatalogType) /\ Distinct(r.cats)
    /\ r.cmds \in SUBSET CommandType
    /\ EndpointsOf(r.cmds) = Served(r.cats)

FilesFit(fs) ==
    /\ fs = [t \in Titles |-> fs[t]]
    /\ \A t \in Titles : fs[t] \in Manifests[t] \cup {Torn, NoFile}

ConfigFits(cfg) ==
    \/ cfg = Torn
    \/ cfg \in Seq(EntryType) /\ Distinct(cfg)

\* The disk holds the catalogs as they are.
Saved(cats, cfg, fs) ==
    /\ cfg = Entries(cats)
    /\ \A i \in DOMAIN cats : fs[cats[i].title] = cats[i].manifest

RegistryInv ==
    /\ Sound(Current) /\ FilesFit(files) /\ ConfigFits(config)
    /\ reply = "ok" => Saved(catalogs, config, files) /\ tokens = {}

-----------------------------------------------------------------------------
(* Catalogs and their endpoints *)

LEMMA ServedIs ==
    \A cats, e : e \in Served(cats) <=>
        \E i \in DOMAIN cats : cats[i].enabled /\ e \in cats[i].manifest
BY DEF Served

LEMMA EndpointsOfIs ==
    \A cmds, e : e \in EndpointsOf(cmds) <=> \E c \in cmds : e = Endpoint(c)
BY DEF EndpointsOf

\* An endpoint of a catalog is a name and an http.
LEMMA EndpointShape ==
    ASSUME NEW t \in Titles, NEW m \in Manifests[t]
    PROVE  /\ m \in SUBSET Endpoints
           /\ \A e \in m : e = [name |-> e.name, http |-> e.http] /\ e.name \in Names
           /\ \A d, e \in m : d.name = e.name => d = e
<1>1. m \in SUBSET Endpoints
  BY DEF Endpoints
<1>2. \A e \in m : e = [name |-> e.name, http |-> e.http] /\ e.name \in Names
  BY <1>1, ManifestsAssumption DEF Names
<1>3. \A d, e \in m : d.name = e.name => d = e
  BY ManifestsAssumption
<1> QED BY <1>1, <1>2, <1>3

\* The commands of a manifest are commands, and offer its endpoints.
LEMMA CommandsOfManifest ==
    ASSUME NEW t \in Titles, NEW m \in Manifests[t], NEW i \in Nat
    PROVE  At(m, i) \in SUBSET CommandType /\ EndpointsOf(At(m, i)) = m
<1>1. m \in SUBSET Endpoints /\ \A e \in m : e = [name |-> e.name, http |-> e.http]
  BY EndpointShape
<1>2. At(m, i) \in SUBSET CommandType
  BY <1>1 DEF At, CommandType, Names
<1>3. ASSUME NEW e \in m PROVE Endpoint([name |-> e.name, http |-> e.http, at |-> i]) = e
  BY <1>1 DEF Endpoint
<1>4. \A e : e \in EndpointsOf(At(m, i)) <=> e \in m
  BY <1>3 DEF EndpointsOf, At
<1> QED BY <1>2, <1>4

\* A command has the name of its endpoint.
LEMMA NameOfEndpoint ==
    ASSUME NEW c \in CommandType
    PROVE  Endpoint(c).name = c.name
BY DEF Endpoint, CommandType

\* Catalogs that are apart share no name.
LEMMA Apart ==
    ASSUME CatalogsAreApart, NEW t \in Titles, NEW m \in Manifests[t],
           NEW u \in Titles, NEW n \in Manifests[u], t # u, NEW d \in m, NEW e \in n
    PROVE  d.name # e.name
<1>1. d \in UNION Manifests[t] /\ e \in UNION Manifests[u]
  OBVIOUS
<1>2. d.name \in {x.name : x \in UNION Manifests[t]} /\ e.name \in {x.name : x \in UNION Manifests[u]}
  BY <1>1
<1>3. {x.name : x \in UNION Manifests[t]} \cap {x.name : x \in UNION Manifests[u]} = {}
  BY DEF CatalogsAreApart
<1> QED BY <1>2, <1>3

\* The position of a catalog that is there.
LEMMA PosIs ==
    ASSUME NEW cats, NEW t, Has(cats, t)
    PROVE  Pos(cats, t) \in DOMAIN cats /\ cats[Pos(cats, t)].title = t
BY DEF Has, Pos

\* Of doublets one is kept.
LEMMA InsertedCommands ==
    ASSUME NEW cmds \in SUBSET CommandType, NEW new \in SUBSET CommandType,
           NEW kept \in InsertCommands(cmds, new)
    PROVE  /\ kept \in SUBSET (cmds \cup new)
           /\ EndpointsOf(kept) = EndpointsOf(cmds) \cup EndpointsOf(new)
<1>1. CASE new = {}
  <2>1. kept = cmds
    BY <1>1 DEF InsertCommands
  <2> QED BY <1>1, <2>1 DEF EndpointsOf
<1>2. CASE new # {}
  <2>1. kept \in Deduplicated(cmds \cup new)
    BY <1>2 DEF InsertCommands
  <2>2. kept \in SUBSET (cmds \cup new) /\ EndpointsOf(kept) = EndpointsOf(cmds \cup new)
    BY <2>1 DEF Deduplicated, EndpointsOf
  <2> QED BY <2>2 DEF EndpointsOf
<1> QED BY <1>1, <1>2

-----------------------------------------------------------------------------
(* Sequences of catalogs *)

LEMMA AppendIs ==
    ASSUME NEW S, NEW s \in Seq(S), NEW e \in S
    PROVE  /\ Append(s, e) \in Seq(S)
           /\ Len(s) \in Nat /\ DOMAIN s = 1 .. Len(s)
           /\ Len(Append(s, e)) = Len(s) + 1 /\ DOMAIN Append(s, e) = 1 .. Len(s) + 1
           /\ \A i \in DOMAIN s : Append(s, e)[i] = s[i]
           /\ Append(s, e)[Len(s) + 1] = e
BY AppendProperties, LenProperties

\* What is left of a sequence when an element is taken from it.
LEMMA Removal ==
    ASSUME NEW S, NEW q \in Seq(S), NEW i \in DOMAIN q
    PROVE  LET p == RemoveAt(q, i) IN
           /\ p \in Seq(S)
           /\ Len(p) = Len(q) - 1
           /\ \A j \in DOMAIN p : p[j] = q[IF j < i THEN j ELSE j + 1]
<1> DEFINE a == SubSeq(q, 1, i - 1)
           b == SubSeq(q, i + 1, Len(q))
<1>1. i \in 1 .. Len(q) /\ Len(q) \in Nat
  BY LenProperties
<1>2. a \in Seq(S) /\ Len(a) = i - 1 /\ \A j \in 1 .. (i - 1) : a[j] = q[j]
  BY <1>1, SubSeqProperties
<1>3. b \in Seq(S) /\ Len(b) = Len(q) - i /\ \A j \in 1 .. (Len(q) - i) : b[j] = q[i + j]
  <2>1. CASE i < Len(q)
    BY <1>1, <2>1, SubSeqProperties
  <2>2. CASE i = Len(q)
    BY <1>1, <2>2, SubSeqEmpty, EmptySeq
  <2> QED BY <1>1, <2>1, <2>2
<1> HIDE DEF a, b
<1>4. a \o b \in Seq(S) /\ Len(a \o b) = Len(q) - 1
  BY <1>1, <1>2, <1>3, ConcatProperties
<1>5. \A j \in 1 .. (Len(q) - 1) : (a \o b)[j] = q[IF j < i THEN j ELSE j + 1]
  <2>1. \A j \in 1 .. (Len(a) + Len(b)) :
            (a \o b)[j] = IF j <= Len(a) THEN a[j] ELSE b[j - Len(a)]
    BY <1>2, <1>3, ConcatProperties
  <2> SUFFICES ASSUME NEW j \in 1 .. (Len(q) - 1)
               PROVE  (a \o b)[j] = q[IF j < i THEN j ELSE j + 1]
    OBVIOUS
  <2>2. CASE j < i
    BY <1>1, <1>2, <1>3, <2>1, <2>2
  <2>3. CASE ~(j < i)
    <3>1. j - (i - 1) \in 1 .. (Len(q) - i) /\ i + (j - (i - 1)) = j + 1
      BY <1>1, <2>3
    <3>2. j \in 1 .. (Len(a) + Len(b)) /\ ~(j <= Len(a)) /\ j - Len(a) = j - (i - 1)
      BY <1>1, <1>2, <1>3, <2>3
    <3>3. (a \o b)[j] = b[j - (i - 1)]
      BY <2>1, <3>2
    <3> QED BY <1>3, <2>3, <3>1, <3>3
  <2> QED BY <2>2, <2>3
<1>6. RemoveAt(q, i) = a \o b
  BY DEF RemoveAt, a, b
<1>7. DOMAIN (a \o b) = 1 .. (Len(q) - 1)
  BY <1>4, LenProperties
<1> QED BY <1>4, <1>5, <1>6, <1>7

\* The catalogs left are the others, each once.
LEMMA RemovalKeepsOthers ==
    ASSUME NEW S, NEW q \in Seq(S), NEW i \in DOMAIN q
    PROVE  LET p == RemoveAt(q, i) IN
           /\ \A j \in DOMAIN p : \E k \in DOMAIN q \ {i} : p[j] = q[k]
           /\ \A k \in DOMAIN q \ {i} : \E j \in DOMAIN p : p[j] = q[k]
           /\ Distinct(q) => Distinct(p)
<1> DEFINE p == RemoveAt(q, i)
           old(j) == IF j < i THEN j ELSE j + 1
<1>1. p \in Seq(S) /\ Len(p) = Len(q) - 1 /\ \A j \in DOMAIN p : p[j] = q[old(j)]
  BY Removal
<1> HIDE DEF p
<1>2. /\ DOMAIN p = 1 .. (Len(q) - 1) /\ DOMAIN q = 1 .. Len(q) /\ Len(q) \in Nat
      /\ i \in 1 .. Len(q)
  BY <1>1, LenProperties
<1>3. \A j \in DOMAIN p : old(j) \in DOMAIN q \ {i}
  BY <1>2
<1>4. \A j, k \in DOMAIN p : old(j) = old(k) => j = k
  BY <1>2
<1>5. \A k \in DOMAIN q \ {i} : \E j \in DOMAIN p : old(j) = k
  <2> SUFFICES ASSUME NEW k \in DOMAIN q \ {i} PROVE \E j \in DOMAIN p : old(j) = k
    OBVIOUS
  <2>1. CASE k < i
    BY <1>2, <2>1
  <2>2. CASE k > i
    <3>1. k - 1 \in DOMAIN p /\ old(k - 1) = k
      BY <1>2, <2>2
    <3> QED BY <3>1
  <2> QED BY <1>2, <2>1, <2>2
<1> HIDE DEF old
<1>6. Distinct(q) => Distinct(p)
  BY <1>1, <1>3, <1>4 DEF Distinct
<1>7. /\ \A j \in DOMAIN p : \E k \in DOMAIN q \ {i} : p[j] = q[k]
      /\ \A k \in DOMAIN q \ {i} : \E j \in DOMAIN p : p[j] = q[k]
  BY <1>1, <1>3, <1>5
<1> QED BY <1>6, <1>7 DEF p

-----------------------------------------------------------------------------
(* Operations on a sound registry *)

\* A command at the position of the catalog it comes from.
Known(r) ==
    \A c \in r.cmds : c.at \in DOMAIN r.cats /\ Endpoint(c) \in r.cats[c.at].manifest

LEMMA CatalogIs ==
    ASSUME NEW r, Sound(r), NEW i \in DOMAIN r.cats
    PROVE  /\ r.cats[i] \in CatalogType /\ r.cats[i].title \in Titles
           /\ r.cats[i].manifest \in Manifests[r.cats[i].title]
<1>1. r.cats[i] \in CatalogType
  BY LenProperties, ElementOfSeq DEF Sound
<1> QED BY <1>1 DEF CatalogType

\* insert_catalog
LEMMA InsertIsSound ==
    ASSUME NEW r, Sound(r), NEW c \in CatalogType, ~Has(r.cats, c.title), NEW q \in Inserted(r, c)
    PROVE  Sound(q) /\ q.cats = Append(r.cats, c) /\ (Known(r) => Known(q))
<1> DEFINE n == Len(r.cats) + 1
           new == IF c.enabled THEN At(c.manifest, n) ELSE {}
           cats == Append(r.cats, c)
<1>1. q.cats = cats /\ q.cmds \in InsertCommands(r.cmds, new)
  BY DEF Inserted, Registry
<1>2. c.title \in Titles /\ c.manifest \in Manifests[c.title] /\ c.enabled \in BOOLEAN
  BY DEF CatalogType
<1>3. r.cats \in Seq(CatalogType) /\ r.cmds \in SUBSET CommandType
  BY DEF Sound
<1>4. /\ cats \in Seq(CatalogType) /\ DOMAIN r.cats = 1 .. Len(r.cats) /\ Len(r.cats) \in Nat
      /\ DOMAIN cats = 1 .. n /\ cats[n] = c /\ \A i \in DOMAIN r.cats : cats[i] = r.cats[i]
  BY <1>3, AppendIs
<1>5. n \in Nat /\ n \notin DOMAIN r.cats /\ DOMAIN cats = DOMAIN r.cats \cup {n}
  BY <1>4
<1>6. new \in SUBSET CommandType /\ EndpointsOf(new) = IF c.enabled THEN c.manifest ELSE {}
  <2>1. At(c.manifest, n) \in SUBSET CommandType /\ EndpointsOf(At(c.manifest, n)) = c.manifest
    BY <1>2, <1>5, CommandsOfManifest
  <2>2. EndpointsOf({}) = {}
    BY DEF EndpointsOf
  <2> QED BY <2>1, <2>2
<1> HIDE DEF n, cats
<1>7. Distinct(cats)
  <2>1. \A i \in DOMAIN r.cats : r.cats[i].title # c.title
    BY DEF Has
  <2>2. Distinct(r.cats)
    BY DEF Sound
  <2> QED BY <1>4, <1>5, <2>1, <2>2 DEF Distinct
<1>8. \A e : e \in Served(cats) <=> e \in Served(r.cats) \/ (c.enabled /\ e \in c.manifest)
  BY <1>4, <1>5, ServedIs
<1>9. ASSUME NEW x \in At(c.manifest, n)
      PROVE  x.at = n /\ Endpoint(x) \in c.manifest
  <2>1. EndpointsOf(At(c.manifest, n)) = c.manifest
    BY <1>2, <1>5, CommandsOfManifest
  <2>2. Endpoint(x) \in EndpointsOf(At(c.manifest, n))
    BY DEF EndpointsOf
  <2> QED BY <2>1, <2>2 DEF At
<1>10. new # {} => new = At(c.manifest, n)
  OBVIOUS
<1> HIDE DEF new
<1>11. q.cmds \in SUBSET (r.cmds \cup new) /\ EndpointsOf(q.cmds) = EndpointsOf(r.cmds) \cup EndpointsOf(new)
  <2>1. r.cmds \in SUBSET CommandType /\ new \in SUBSET CommandType /\ q.cmds \in InsertCommands(r.cmds, new)
    BY <1>1, <1>3, <1>6
  <2> QED BY <2>1, InsertedCommands, Zenon
<1>12. \A e : e \in EndpointsOf(q.cmds) <=> e \in Served(cats)
  <2>1. EndpointsOf(r.cmds) = Served(r.cats)
    BY DEF Sound
  <2> QED BY <1>6, <1>8, <1>11, <2>1
<1>13. Known(r) => Known(q)
  <2> SUFFICES ASSUME Known(r), NEW x \in q.cmds
               PROVE  x.at \in DOMAIN q.cats /\ Endpoint(x) \in q.cats[x.at].manifest
    BY DEF Known
  <2>1. CASE x \in r.cmds
    BY <1>1, <1>4, <1>5, <2>1 DEF Known
  <2>2. CASE x \in new
    BY <1>1, <1>4, <1>5, <1>9, <1>10, <2>2
  <2> QED BY <1>11, <2>1, <2>2
<1> QED BY <1>1, <1>3, <1>4, <1>6, <1>7, <1>11, <1>12, <1>13 DEF Sound, cats

\* What is offered once the commands of a catalog are withdrawn.
LEMMA WithdrawIs ==
    ASSUME CatalogsAreApart, NEW r, Sound(r), NEW i \in DOMAIN r.cats
    PROVE  LET left == RemoveCommands(r.cmds, r.cats[i].manifest) IN
           /\ left \in SUBSET r.cmds
           /\ \A e : e \in EndpointsOf(left) <=>
                  \E j \in DOMAIN r.cats \ {i} : r.cats[j].enabled /\ e \in r.cats[j].manifest
<1> DEFINE m == r.cats[i].manifest
           left == RemoveCommands(r.cmds, m)
<1>1. left \in SUBSET r.cmds
  BY DEF RemoveCommands
<1>2. \A e : e \in EndpointsOf(left) <=> e \in EndpointsOf(r.cmds) /\ e.name \notin {d.name : d \in m}
  BY NameOfEndpoint DEF RemoveCommands, EndpointsOf, Sound
<1>3. \A e : e \in EndpointsOf(left) <=> e \in Served(r.cats) /\ e.name \notin {d.name : d \in m}
  BY <1>2 DEF Sound
<1> HIDE DEF left
<1>4. ASSUME NEW e, e \in EndpointsOf(left)
      PROVE  \E j \in DOMAIN r.cats \ {i} : r.cats[j].enabled /\ e \in r.cats[j].manifest
  <2>1. PICK j \in DOMAIN r.cats : r.cats[j].enabled /\ e \in r.cats[j].manifest
    BY <1>3, <1>4, ServedIs
  <2>2. j # i
    BY <1>3, <1>4, <2>1
  <2> QED BY <2>1, <2>2
<1>5. ASSUME NEW e, NEW j \in DOMAIN r.cats \ {i}, r.cats[j].enabled, e \in r.cats[j].manifest
      PROVE  e \in EndpointsOf(left)
  <2>1. e \in Served(r.cats)
    BY <1>5, ServedIs
  <2>2. r.cats[j].title # r.cats[i].title
    BY DEF Sound, Distinct
  <2>3. \A d \in m : d.name # e.name
    BY <1>5, <2>2, CatalogIs, Apart
  <2> QED BY <1>3, <2>1, <2>3
<1> QED BY <1>1, <1>4, <1>5 DEF left

\* A catalog changed in place, but neither its title nor its manifest.
LEMMA ChangeInPlace ==
    ASSUME NEW r, Sound(r), NEW i \in DOMAIN r.cats, NEW c \in CatalogType,
           c.title = r.cats[i].title
    PROVE  LET cats == [r.cats EXCEPT ![i] = c] IN
           /\ cats \in Seq(CatalogType) /\ Distinct(cats) /\ DOMAIN cats = DOMAIN r.cats
           /\ cats[i] = c /\ \A j \in DOMAIN cats \ {i} : cats[j] = r.cats[j]
<1> DEFINE cats == [r.cats EXCEPT ![i] = c]
<1>1. r.cats \in Seq(CatalogType) /\ Distinct(r.cats)
  BY DEF Sound
<1>2. i \in 1 .. Len(r.cats)
  BY <1>1, LenProperties
<1>3. cats \in Seq(CatalogType)
  BY <1>1, <1>2, ExceptSeq
<1>4. DOMAIN cats = DOMAIN r.cats /\ cats[i] = c /\ \A j \in DOMAIN cats \ {i} : cats[j] = r.cats[j]
  OBVIOUS
<1> HIDE DEF cats
<1>5. \A j \in DOMAIN cats : cats[j].title = r.cats[j].title
  BY <1>4
<1>6. Distinct(cats)
  BY <1>1, <1>4, <1>5 DEF Distinct
<1> QED BY <1>3, <1>4, <1>6 DEF cats

\* disable_catalog
LEMMA DisableIsSound ==
    ASSUME CatalogsAreApart, NEW r, Sound(r), NEW t, Has(r.cats, t)
    PROVE  LET q == Disabled(r, t) IN
           /\ Sound(q) /\ q.cmds \in SUBSET r.cmds
           /\ DOMAIN q.cats = DOMAIN r.cats
           /\ \A j \in DOMAIN q.cats : q.cats[j].title = r.cats[j].title
                                       /\ q.cats[j].manifest = r.cats[j].manifest
<1> DEFINE i == Pos(r.cats, t)
           c == [r.cats[i] EXCEPT !.enabled = FALSE]
           cats == [r.cats EXCEPT ![i] = c]
           left == RemoveCommands(r.cmds, r.cats[i].manifest)
<1>1. Disabled(r, t) = [cats |-> cats, cmds |-> left]
  BY DEF Disabled, Registry
<1>2. i \in DOMAIN r.cats
  BY PosIs
<1> HIDE DEF i
<1>3. r.cats[i] \in CatalogType
  BY <1>2, CatalogIs
<1>4. /\ c \in CatalogType /\ c.title = r.cats[i].title /\ c.manifest = r.cats[i].manifest
      /\ c.enabled = FALSE
  BY <1>3 DEF CatalogType
<1> HIDE DEF c
<1>5. /\ cats \in Seq(CatalogType) /\ Distinct(cats) /\ DOMAIN cats = DOMAIN r.cats
      /\ cats[i] = c /\ \A j \in DOMAIN cats \ {i} : cats[j] = r.cats[j]
  BY <1>2, <1>4, ChangeInPlace
<1> HIDE DEF cats
<1>6. /\ left \in SUBSET r.cmds
      /\ \A e : e \in EndpointsOf(left) <=>
             \E j \in DOMAIN r.cats \ {i} : r.cats[j].enabled /\ e \in r.cats[j].manifest
  BY <1>2, WithdrawIs
<1> HIDE DEF left
<1>7. \A e : e \in EndpointsOf(left) <=> e \in Served(cats)
  BY <1>2, <1>4, <1>5, <1>6, ServedIs
<1>8. left \in SUBSET CommandType
  BY <1>6 DEF Sound
<1>9. Sound([cats |-> cats, cmds |-> left])
  BY <1>5, <1>7, <1>8 DEF Sound
<1>10. \A j \in DOMAIN cats : cats[j].title = r.cats[j].title /\ cats[j].manifest = r.cats[j].manifest
  BY <1>4, <1>5
<1> QED BY <1>1, <1>5, <1>6, <1>9, <1>10

\* enable_catalog
LEMMA EnableIsSound ==
    ASSUME NEW r, Sound(r), NEW t, Has(r.cats, t), NEW q \in Enabled(r, t)
    PROVE  /\ Sound(q)
           /\ DOMAIN q.cats = DOMAIN r.cats
           /\ \A j \in DOMAIN q.cats : q.cats[j].title = r.cats[j].title
                                       /\ q.cats[j].manifest = r.cats[j].manifest
<1> DEFINE i == Pos(r.cats, t)
           c == [r.cats[i] EXCEPT !.enabled = TRUE]
           cats == [r.cats EXCEPT ![i] = c]
           new == At(r.cats[i].manifest, i)
<1>1. q.cats = cats /\ q.cmds \in InsertCommands(r.cmds, new)
  BY DEF Enabled, Registry
<1>2. i \in DOMAIN r.cats
  BY PosIs
<1> HIDE DEF i
<1>3. r.cats[i] \in CatalogType /\ i \in Nat
  BY <1>2, CatalogIs, LenProperties DEF Sound
<1>4. /\ c \in CatalogType /\ c.title = r.cats[i].title /\ c.manifest = r.cats[i].manifest
      /\ c.enabled = TRUE
  BY <1>3 DEF CatalogType
<1> HIDE DEF c
<1>5. /\ cats \in Seq(CatalogType) /\ Distinct(cats) /\ DOMAIN cats = DOMAIN r.cats
      /\ cats[i] = c /\ \A j \in DOMAIN cats \ {i} : cats[j] = r.cats[j]
  BY <1>2, <1>4, ChangeInPlace
<1> HIDE DEF cats
<1>6. new \in SUBSET CommandType /\ EndpointsOf(new) = r.cats[i].manifest
  BY <1>2, <1>3, CatalogIs, CommandsOfManifest
<1> HIDE DEF new
<1>7. q.cmds \in SUBSET (r.cmds \cup new) /\ EndpointsOf(q.cmds) = EndpointsOf(r.cmds) \cup EndpointsOf(new)
  <2>1. r.cmds \in SUBSET CommandType /\ new \in SUBSET CommandType /\ q.cmds \in InsertCommands(r.cmds, new)
    BY <1>1, <1>6 DEF Sound
  <2> QED BY <2>1, InsertedCommands, Zenon
<1>8. \A e : e \in Served(cats) <=> e \in Served(r.cats) \/ e \in r.cats[i].manifest
  BY <1>2, <1>4, <1>5, ServedIs
<1>9. EndpointsOf(q.cmds) = Served(cats)
  <2>1. EndpointsOf(r.cmds) = Served(r.cats)
    BY DEF Sound
  <2>2. \A e : e \in EndpointsOf(q.cmds) <=> e \in Served(cats)
    BY <1>6, <1>7, <1>8, <2>1
  <2> QED BY <2>2
<1>10. q.cmds \in SUBSET CommandType
  BY <1>6, <1>7 DEF Sound
<1>11. \A j \in DOMAIN cats : cats[j].title = r.cats[j].title /\ cats[j].manifest = r.cats[j].manifest
  BY <1>4, <1>5
<1> QED BY <1>1, <1>5, <1>9, <1>10, <1>11 DEF Sound

\* What removing the catalog t from the registry r leaves.
Rest(q, r, t) ==
    /\ Sound(q)
    /\ q.cats = RemoveAt(r.cats, Pos(r.cats, t)) /\ ~Has(q.cats, t)
    /\ \A j \in DOMAIN q.cats : \E k \in DOMAIN r.cats : q.cats[j] = r.cats[k]

\* remove_catalog and remove_catalog_internal
LEMMA RemoveIsSound ==
    ASSUME CatalogsAreApart, NEW r, Sound(r), NEW t, Has(r.cats, t)
    PROVE  Rest(Removed(r, t), r, t)
<1> DEFINE i == Pos(r.cats, t)
           cats == RemoveAt(r.cats, i)
           left == RemoveCommands(r.cmds, r.cats[i].manifest)
<1>1. Removed(r, t) = [cats |-> cats, cmds |-> left]
  BY DEF Removed, Disabled, Registry
<1>2. i \in DOMAIN r.cats /\ r.cats[i].title = t
  BY PosIs
<1>3. r.cats \in Seq(CatalogType) /\ Distinct(r.cats)
  BY DEF Sound
<1> HIDE DEF i
<1>4. cats \in Seq(CatalogType)
  BY <1>2, <1>3, Removal
<1>5. /\ \A j \in DOMAIN cats : \E k \in DOMAIN r.cats \ {i} : cats[j] = r.cats[k]
      /\ \A k \in DOMAIN r.cats \ {i} : \E j \in DOMAIN cats : cats[j] = r.cats[k]
      /\ Distinct(cats)
  BY <1>2, <1>3, RemovalKeepsOthers
<1>6. /\ left \in SUBSET r.cmds
      /\ \A e : e \in EndpointsOf(left) <=>
             \E j \in DOMAIN r.cats \ {i} : r.cats[j].enabled /\ e \in r.cats[j].manifest
  BY <1>2, WithdrawIs
<1> HIDE DEF left, cats
<1>7. \A e : e \in EndpointsOf(left) <=> e \in Served(cats)
  BY <1>5, <1>6, ServedIs
<1>8. left \in SUBSET CommandType
  BY <1>6 DEF Sound
<1>9. Sound([cats |-> cats, cmds |-> left])
  BY <1>4, <1>5, <1>7, <1>8 DEF Sound
<1>10. ~Has(cats, t)
  <2> SUFFICES ASSUME NEW j \in DOMAIN cats PROVE cats[j].title # t
    BY DEF Has
  <2>1. PICK k \in DOMAIN r.cats \ {i} : cats[j] = r.cats[k]
    BY <1>5
  <2> QED BY <1>2, <1>3, <2>1 DEF Distinct
<1> QED BY <1>1, <1>5, <1>9, <1>10 DEF cats, i, Rest

\* reindex_catalog_identifiers: of catalogs that are apart, one holds the name.
LEMMA ReindexIsSound ==
    ASSUME CatalogsAreApart, NEW r, Sound(r)
    PROVE  LET q == Reindexed(r) IN Sound(q) /\ q.cats = r.cats /\ Known(q)
<1> DEFINE Holders(n) == {i \in DOMAIN r.cats : \E e \in r.cats[i].manifest : e.name = n}
           New(c) == IF Holders(c.name) = {} THEN c ELSE [c EXCEPT !.at = Max(Holders(c.name))]
           cmds == {New(c) : c \in r.cmds}
<1>1. Reindexed(r) = [cats |-> r.cats, cmds |-> cmds]
  BY DEF Reindexed, Registry
<1>2. ASSUME NEW c \in r.cmds
      PROVE  /\ New(c) \in CommandType /\ Endpoint(New(c)) = Endpoint(c)
             /\ New(c).at \in DOMAIN r.cats /\ Endpoint(c) \in r.cats[New(c).at].manifest
  <2>1. c \in CommandType
    BY DEF Sound
  <2>2. Endpoint(c) \in Served(r.cats)
    BY DEF Sound, EndpointsOf
  <2>3. PICK i \in DOMAIN r.cats : r.cats[i].enabled /\ Endpoint(c) \in r.cats[i].manifest
    BY <2>2, ServedIs
  <2>4. Endpoint(c).name = c.name
    BY <2>1, NameOfEndpoint
  <2>5. ASSUME NEW j \in Holders(c.name) PROVE j = i
    <3>1. PICK e \in r.cats[j].manifest : e.name = c.name
      OBVIOUS
    <3>2. r.cats[j].title = r.cats[i].title
      BY <2>3, <2>4, <3>1, CatalogIs, Apart
    <3> QED BY <3>2 DEF Sound, Distinct
  <2>6. Holders(c.name) = {i}
    BY <2>3, <2>4, <2>5
  <2>7. i \in Nat
    BY LenProperties DEF Sound
  <2>8. Max({i}) = i
    BY <2>7 DEF Max
  <2>9. New(c) = [c EXCEPT !.at = i]
    BY <2>6, <2>8
  <2>10. [c EXCEPT !.at = i] \in CommandType /\ Endpoint([c EXCEPT !.at = i]) = Endpoint(c)
         /\ [c EXCEPT !.at = i].at = i
    BY <2>1, <2>7 DEF CommandType, Endpoint
  <2> QED BY <2>3, <2>9, <2>10
<1> HIDE DEF New
<1>3. cmds \in SUBSET CommandType
  BY <1>2
<1>4. \A e : e \in EndpointsOf(cmds) <=> e \in EndpointsOf(r.cmds)
  BY <1>2 DEF EndpointsOf
<1>5. Known([cats |-> r.cats, cmds |-> cmds])
  BY <1>2 DEF Known
<1> HIDE DEF cmds
<1>6. Sound([cats |-> r.cats, cmds |-> cmds])
  BY <1>3, <1>4 DEF Sound
<1> QED BY <1>1, <1>5, <1>6

\* Settings are changed in place.
LEMMA ConfigureIsSound ==
    ASSUME Sound(Current), NEW t, Has(catalogs, t), NEW conf \in Confs
    PROVE  LET q == Configured(t, conf) IN
           /\ Sound(q) /\ DOMAIN q.cats = DOMAIN catalogs
           /\ \A j \in DOMAIN q.cats : q.cats[j].title = catalogs[j].title
                                       /\ q.cats[j].manifest = catalogs[j].manifest
<1> DEFINE i == Pos(catalogs, t)
           c == [catalogs[i] EXCEPT !.conf = conf]
           cats == [catalogs EXCEPT ![i] = c]
<1>1. Configured(t, conf) = [cats |-> cats, cmds |-> commands]
  BY DEF Configured, Registry
<1>2. Current.cats = catalogs /\ Current.cmds = commands
  BY DEF Current, Registry
<1>3. i \in DOMAIN catalogs
  BY PosIs
<1> HIDE DEF i
<1>4. catalogs[i] \in CatalogType
  BY <1>2, <1>3, CatalogIs
<1>5. /\ c \in CatalogType /\ c.title = catalogs[i].title /\ c.manifest = catalogs[i].manifest
      /\ c.enabled = catalogs[i].enabled
  BY <1>4 DEF CatalogType
<1> HIDE DEF c
<1>6. /\ cats \in Seq(CatalogType) /\ Distinct(cats) /\ DOMAIN cats = DOMAIN catalogs
      /\ cats[i] = c /\ \A j \in DOMAIN cats \ {i} : cats[j] = catalogs[j]
  BY <1>2, <1>3, <1>5, ChangeInPlace
<1> HIDE DEF cats
<1>7. \A e : e \in Served(cats) <=> e \in Served(catalogs)
  BY <1>3, <1>5, <1>6, ServedIs
<1>8. commands \in SUBSET CommandType /\ EndpointsOf(commands) = Served(cats)
  BY <1>2, <1>7 DEF Sound
<1>9. \A j \in DOMAIN cats : cats[j].title = catalogs[j].title /\ cats[j].manifest = catalogs[j].manifest
  BY <1>5, <1>6
<1> QED BY <1>1, <1>6, <1>8, <1>9 DEF Sound

-----------------------------------------------------------------------------
(* Loading *)

\* The last catalog takes the place of the one dropped.
LEMMA SwapIs ==
    ASSUME NEW S, NEW s \in Seq(S), NEW i \in DOMAIN s
    PROVE  LET p == SwapRemoved(s, i) IN
           /\ p \in Seq(S) /\ Len(p) = Len(s) - 1
           /\ \A j \in DOMAIN p : p[j] = IF j = i THEN s[Len(s)] ELSE s[j]
<1> DEFINE f == SubSeq(s, 1, Len(s) - 1)
<1>1. Len(s) \in Nat /\ i \in 1 .. Len(s) /\ \A j \in 1 .. Len(s) : s[j] \in S
  BY LenProperties, ElementOfSeq
<1>2. f \in Seq(S) /\ Len(f) = Len(s) - 1 /\ \A j \in 1 .. Len(s) - 1 : f[j] = s[j]
  <2>1. 1 \in Int /\ Len(s) - 1 \in Int /\ \A j \in 1 .. Len(s) - 1 : s[j] \in S
    BY <1>1
  <2>2. /\ f \in Seq(S) /\ Len(f) = IF 1 <= Len(s) - 1 THEN Len(s) - 1 - 1 + 1 ELSE 0
        /\ \A j \in 1 .. Len(s) - 1 - 1 + 1 : f[j] = s[1 + j - 1]
    BY <2>1, SubSeqProperties
  <2> HIDE DEF f
  <2>3. Len(s) - 1 \in Nat /\ Len(s) - 1 - 1 + 1 = Len(s) - 1
    BY <1>1
  <2>4. Len(f) = Len(s) - 1
    <3>1. Len(f) = IF 1 <= Len(s) - 1 THEN Len(s) - 1 ELSE 0
      BY <2>2, <2>3
    <3>2. ASSUME ~(1 <= Len(s) - 1) PROVE Len(s) - 1 = 0
      BY <2>3, <3>2
    <3> QED BY <3>1, <3>2
  <2>5. ASSUME NEW j \in 1 .. Len(s) - 1 PROVE f[j] = s[j]
    <3>1. j \in 1 .. Len(s) - 1 - 1 + 1 /\ 1 + j - 1 = j
      BY <2>3
    <3>2. f[j] = s[1 + j - 1]
      BY <2>2, <3>1
    <3> QED BY <3>1, <3>2
  <2> QED BY <2>2, <2>4, <2>5
<1>3. DOMAIN f = 1 .. Len(s) - 1
  BY <1>2, LenProperties
<1>4. SwapRemoved(s, i) = IF i = Len(s) THEN f ELSE [f EXCEPT ![i] = s[Len(s)]]
  BY DEF SwapRemoved, Front, Last
<1> HIDE DEF f
<1>5. CASE i = Len(s)
  BY <1>1, <1>2, <1>3, <1>4, <1>5
<1>6. CASE i # Len(s)
  <2>1. i \in 1 .. Len(f) /\ s[Len(s)] \in S
    BY <1>1, <1>2, <1>6
  <2> DEFINE p == [f EXCEPT ![i] = s[Len(s)]]
  <2>2. p \in Seq(S) /\ Len(p) = Len(f) /\ \A j \in 1 .. Len(f) : p[j] = IF j = i THEN s[Len(s)] ELSE f[j]
    BY <1>2, <2>1, ExceptSeq
  <2>3. DOMAIN p = DOMAIN f
    OBVIOUS
  <2> HIDE DEF p
  <2>4. SwapRemoved(s, i) = p
    BY <1>4, <1>6 DEF p
  <2> QED BY <1>2, <1>3, <2>2, <2>3, <2>4
<1> QED BY <1>5, <1>6

\* What the walk has made of the configuration when the first n catalogs are left.
Walked(n, fs) ==
    {r \in [cats : Seq(EntryType), cmds : SUBSET CommandType] :
        /\ n <= Len(r.cats) /\ Distinct(r.cats)
        /\ \A j \in n + 1 .. Len(r.cats) : Readable(fs[r.cats[j].title])
        /\ \A e : e \in EndpointsOf(r.cmds) <=>
               \E j \in n + 1 .. Len(r.cats) : r.cats[j].enabled /\ e \in fs[r.cats[j].title]}


\* The commands of a readable catalog are loaded, another one is dropped.
LEMMA LoadCatalogWalks ==
    ASSUME NEW fs, FilesFit(fs), NEW i \in Nat \ {0}, NEW r \in Walked(i, fs)
    PROVE  LoadCatalog(i, r, fs) \in Walked(i - 1, fs)
<1> DEFINE c == r.cats[i]
           m == fs[c.title]
           n == Len(r.cats)
<1>1. /\ r.cats \in Seq(EntryType) /\ r.cmds \in SUBSET CommandType /\ r = [cats |-> r.cats, cmds |-> r.cmds]
      /\ n \in Nat /\ DOMAIN r.cats = 1 .. n /\ i \in 1 .. n
      /\ Distinct(r.cats)
  BY LenProperties DEF Walked
<1>2. /\ \A j \in i + 1 .. n : Readable(fs[r.cats[j].title])
      /\ \A e : e \in EndpointsOf(r.cmds) <=>
             \E j \in i + 1 .. n : r.cats[j].enabled /\ e \in fs[r.cats[j].title]
  BY DEF Walked
<1>3. c \in EntryType /\ c.title \in Titles
  <2>1. c \in EntryType
    BY <1>1, ElementOfSeq
  <2> QED BY <2>1 DEF EntryType
<1>4. CASE Readable(m)
  <2> DEFINE new == IF c.enabled THEN At(m, i) ELSE {}
             cmds == r.cmds \cup new
  <2>1. LoadCatalog(i, r, fs) = [cats |-> r.cats, cmds |-> cmds]
    BY <1>4 DEF LoadCatalog, Registry
  <2>2. m \in Manifests[c.title]
    BY <1>3, <1>4 DEF FilesFit, Readable
  <2>3. new \in SUBSET CommandType /\ \A e : e \in EndpointsOf(new) <=> c.enabled /\ e \in m
    <3>1. At(m, i) \in SUBSET CommandType /\ EndpointsOf(At(m, i)) = m
      BY <1>3, <2>2, CommandsOfManifest
    <3>2. EndpointsOf({}) = {}
      BY DEF EndpointsOf
    <3> QED BY <3>1, <3>2
  <2> HIDE DEF new
  <2>4. \A e : e \in EndpointsOf(cmds) <=> e \in EndpointsOf(r.cmds) \/ e \in EndpointsOf(new)
    BY DEF EndpointsOf
  <2>5. i .. n = {i} \cup (i + 1 .. n) /\ (i - 1) + 1 = i
    BY <1>1
  <2>6. \A j \in i .. n : Readable(fs[r.cats[j].title])
    BY <1>2, <1>4, <2>5
  <2>7. \A e : e \in EndpointsOf(cmds) <=>
            \E j \in i .. n : r.cats[j].enabled /\ e \in fs[r.cats[j].title]
    BY <1>2, <2>3, <2>4, <2>5
  <2>8. cmds \in SUBSET CommandType /\ i - 1 <= n
    BY <1>1, <2>3
  <2> HIDE DEF cmds
  <2> QED BY <1>1, <2>1, <2>5, <2>6, <2>7, <2>8 DEF Walked
<1>5. CASE ~Readable(m)
  <2> DEFINE p == SwapRemoved(r.cats, i)
             old(j) == IF j = i THEN n ELSE j
  <2>1. LoadCatalog(i, r, fs) = [cats |-> p, cmds |-> r.cmds]
    BY <1>5 DEF LoadCatalog, Registry
  <2>2. p \in Seq(EntryType) /\ Len(p) = n - 1 /\ \A j \in DOMAIN p : p[j] = r.cats[old(j)]
    BY <1>1, SwapIs
  <2> HIDE DEF p
  <2>3. DOMAIN p = 1 .. n - 1
    BY <2>2, LenProperties
  <2>4. \A j \in DOMAIN p : old(j) \in 1 .. n
    BY <1>1, <2>3
  <2>5. \A j, k \in DOMAIN p : old(j) = old(k) => j = k
    BY <1>1, <2>3
  <2>6. \A j \in i .. n - 1 : old(j) \in i + 1 .. n /\ j \in DOMAIN p
    BY <1>1, <2>3
  <2>7. \A k \in i + 1 .. n : \E j \in i .. n - 1 : old(j) = k
    <3> SUFFICES ASSUME NEW k \in i + 1 .. n PROVE \E j \in i .. n - 1 : old(j) = k
      OBVIOUS
    <3>1. CASE k = n
      BY <1>1, <3>1
    <3>2. CASE k # n
      <4>1. k \in i .. n - 1 /\ old(k) = k
        BY <1>1, <3>2
      <4> QED BY <4>1
    <3> QED BY <3>1, <3>2
  <2> HIDE DEF old
  <2>8. Distinct(p)
    BY <1>1, <2>2, <2>4, <2>5 DEF Distinct
  <2>9. \A j \in i .. n - 1 : Readable(fs[p[j].title])
    BY <1>2, <2>2, <2>6
  <2>10. \A e : e \in EndpointsOf(r.cmds) <=>
             \E j \in i .. n - 1 : p[j].enabled /\ e \in fs[p[j].title]
    <3> TAKE e
    <3>1. \A j \in i .. n - 1 : p[j] = r.cats[old(j)] /\ old(j) \in i + 1 .. n
      BY <2>2, <2>6
    <3>2. (\E j \in i + 1 .. n : r.cats[j].enabled /\ e \in fs[r.cats[j].title])
            <=> \E j \in i .. n - 1 : p[j].enabled /\ e \in fs[p[j].title]
      <4>1. ASSUME NEW k \in i + 1 .. n, r.cats[k].enabled, e \in fs[r.cats[k].title]
            PROVE  \E j \in i .. n - 1 : p[j].enabled /\ e \in fs[p[j].title]
        <5>1. PICK j \in i .. n - 1 : old(j) = k
          BY <2>7
        <5> QED BY <3>1, <4>1, <5>1
      <4>2. ASSUME NEW j \in i .. n - 1, p[j].enabled, e \in fs[p[j].title]
            PROVE  \E k \in i + 1 .. n : r.cats[k].enabled /\ e \in fs[r.cats[k].title]
        BY <3>1, <4>2
      <4> QED BY <4>1, <4>2
    <3> QED BY <1>2, <3>2
  <2>11. (i - 1) + 1 = i /\ i - 1 <= n - 1
    BY <1>1
  <2> QED BY <1>1, <2>1, <2>2, <2>8, <2>9, <2>10, <2>11 DEF Walked
<1> QED BY <1>4, <1>5

\* The walk from the last catalog to the first.
LoadLoop(h, entries, fs) ==
    h = [k \in 0 .. Len(entries) |->
            IF k = 0 THEN Registry(entries, {})
            ELSE LoadCatalog(Len(entries) + 1 - k, h[k - 1], fs)]

LEMMA LoadTurns ==
    ASSUME NEW fs, FilesFit(fs), NEW entries \in Seq(EntryType), Distinct(entries)
    PROVE  /\ Registry(entries, {}) \in Walked(Len(entries), fs)
           /\ \A k \in 1 .. Len(entries) : \A r \in Walked(Len(entries) - (k - 1), fs) :
                  LoadCatalog(Len(entries) + 1 - k, r, fs) \in Walked(Len(entries) - k, fs)
<1> DEFINE n == Len(entries)
           b == Registry(entries, {})
<1>1. n \in Nat
  BY LenProperties
<1>2. b \in Walked(n, fs)
  <2>1. b.cats = entries /\ b.cmds = {} /\ b = [cats |-> entries, cmds |-> {}]
    BY DEF Registry
  <2>2. EndpointsOf({}) = {}
    BY DEF EndpointsOf
  <2>3. n + 1 .. n = {} /\ n <= Len(entries)
    BY <1>1
  <2> HIDE DEF b, n
  <2>4. b \in [cats : Seq(EntryType), cmds : SUBSET CommandType]
    BY <2>1
  <2> QED BY <2>1, <2>2, <2>3, <2>4 DEF Walked, n
<1> HIDE DEF n, b
<1>3. ASSUME NEW k \in 1 .. n, NEW r \in Walked(n - (k - 1), fs)
      PROVE  LoadCatalog(n + 1 - k, r, fs) \in Walked(n - k, fs)
  <2>1. n + 1 - k \in Nat \ {0} /\ n - (k - 1) = n + 1 - k /\ (n + 1 - k) - 1 = n - k
    BY <1>1
  <2> DEFINE i == n + 1 - k
  <2>2. LoadCatalog(i, r, fs) \in Walked(i - 1, fs)
    BY <2>1, LoadCatalogWalks
  <2> QED BY <2>1, <2>2
<1> QED BY <1>2, <1>3 DEF n, b

\* The walk can be made.
LEMMA LoadRuns ==
    ASSUME NEW fs, FilesFit(fs), NEW entries \in Seq(EntryType), Distinct(entries)
    PROVE  \E h : LoadLoop(h, entries, fs)
<1> DEFINE n == Len(entries)
           b == Registry(entries, {})
           S == [k \in 0 .. n |-> Walked(n - k, fs)]
           g == [k \in 1 .. n |-> [r \in S[k - 1] |-> LoadCatalog(n + 1 - k, r, fs)]]
<1>1. n \in Nat
  BY LenProperties
<1>2. b \in Walked(n, fs)
  BY LoadTurns
<1>3. \A k \in 1 .. n : \A r \in Walked(n - (k - 1), fs) : LoadCatalog(n + 1 - k, r, fs) \in Walked(n - k, fs)
  BY LoadTurns
<1> HIDE DEF n
<1>4. \A k \in 0 .. n : S[k] = Walked(n - k, fs)
  OBVIOUS
<1>5. \A k \in 1 .. n : k - 1 \in 0 .. n /\ S[k - 1] = Walked(n - (k - 1), fs)
  BY <1>1
<1> HIDE DEF b, S
<1>6. PICK h : Loop(h, n, b, g)
  <2> HIDE DEF g
  <2> QED BY <1>1, LoopRuns
<1>7. h[0] \in S[0]
  BY <1>1, <1>2, <1>4, <1>6 DEF Loop
<1>8. ASSUME NEW k \in 1 .. n, h[k - 1] \in S[k - 1]
      PROVE  h[k] \in S[k] /\ h[k] = LoadCatalog(n + 1 - k, h[k - 1], fs)
  <2>1. k \in 0 .. n /\ k # 0
    BY <1>1
  <2>2. h[k] = g[k][h[k - 1]]
    BY <1>6, <2>1 DEF Loop
  <2>3. h[k] = LoadCatalog(n + 1 - k, h[k - 1], fs)
    BY <1>8, <2>2
  <2>4. h[k] \in Walked(n - k, fs)
    BY <1>3, <1>5, <1>8, <2>3
  <2> QED BY <1>4, <2>1, <2>3, <2>4
<1> HIDE DEF g
<1>9. \A k \in 0 .. n : h[k] \in S[k]
  BY <1>1, <1>7, <1>8, LoopKeeps
<1>10. \A k \in 0 .. n : h[k] = IF k = 0 THEN b ELSE LoadCatalog(n + 1 - k, h[k - 1], fs)
  <2> SUFFICES ASSUME NEW k \in 0 .. n
               PROVE  h[k] = IF k = 0 THEN b ELSE LoadCatalog(n + 1 - k, h[k - 1], fs)
    OBVIOUS
  <2>1. CASE k = 0
    BY <1>6, <2>1 DEF Loop
  <2>2. CASE k # 0
    <3>1. k \in 1 .. n /\ k - 1 \in 0 .. n
      BY <1>1, <2>2
    <3> QED BY <1>8, <1>9, <2>2, <3>1
  <2> QED BY <2>1, <2>2
<1>11. h = [k \in 0 .. n |-> h[k]]
  BY <1>6 DEF Loop
<1>12. h = [k \in 0 .. n |-> IF k = 0 THEN b ELSE LoadCatalog(n + 1 - k, h[k - 1], fs)]
  BY <1>10, <1>11
<1> QED BY <1>12 DEF n, b, LoadLoop

\* What is loaded is what the walk has made of the configuration in the end.
Loads(h, entries, cfg, fs) ==
    /\ h[0] = Registry(entries, {})
    /\ \A k \in 1 .. Len(entries) : h[k] = LoadCatalog(Len(entries) + 1 - k, h[k - 1], fs)
    /\ h[Len(entries)] \in Walked(0, fs)
    /\ LET r == h[Len(entries)] IN
       Loaded(cfg, fs) = Registry([i \in DOMAIN r.cats |-> WithManifest(r.cats[i], fs)], r.cmds)

LEMMA LoadedIs ==
    ASSUME NEW fs, FilesFit(fs), NEW entries \in Seq(EntryType), Distinct(entries),
           NEW cfg, entries = IF cfg = Torn THEN <<>> ELSE cfg
    PROVE  \E h : Loads(h, entries, cfg, fs)
<1> DEFINE n == Len(entries)
           h == CHOOSE f : LoadLoop(f, entries, fs)
           S == [k \in 0 .. n |-> Walked(n - k, fs)]
           r == h[n]
<1>1. Loaded(cfg, fs) = Registry([i \in DOMAIN r.cats |-> WithManifest(r.cats[i], fs)], r.cmds)
  BY DEF Loaded, LoadLoop
<1>2. n \in Nat
  BY LenProperties
<1>3. LoadLoop(h, entries, fs)
  BY LoadRuns
<1> HIDE DEF h
<1>4. \A k \in 0 .. n : h[k] = IF k = 0 THEN Registry(entries, {})
                               ELSE LoadCatalog(n + 1 - k, h[k - 1], fs)
  BY <1>3 DEF LoadLoop
<1>5. h[0] = Registry(entries, {}) /\ \A k \in 1 .. n : h[k] = LoadCatalog(n + 1 - k, h[k - 1], fs)
  <2>1. 0 \in 0 .. n /\ \A k \in 1 .. n : k \in 0 .. n /\ k # 0
    BY <1>2
  <2> QED BY <1>4, <2>1
<1>6. Registry(entries, {}) \in Walked(n, fs)
  BY LoadTurns
<1>7. \A k \in 1 .. n : \A x \in Walked(n - (k - 1), fs) : LoadCatalog(n + 1 - k, x, fs) \in Walked(n - k, fs)
  BY LoadTurns
<1> HIDE DEF n
<1>8. \A k \in 0 .. n : S[k] = Walked(n - k, fs)
  OBVIOUS
<1>9. \A k \in 1 .. n : k \in 0 .. n /\ k - 1 \in 0 .. n /\ 0 \in 0 .. n /\ n - 0 = n
  BY <1>2
<1>10. 0 \in 0 .. n /\ n - 0 = n /\ n \in 0 .. n /\ n - n = 0
  BY <1>2
<1> HIDE DEF S
<1>11. h[0] \in S[0]
  BY <1>5, <1>6, <1>8, <1>10
<1>12. ASSUME NEW k \in 1 .. n, h[k - 1] \in S[k - 1] PROVE h[k] \in S[k]
  BY <1>5, <1>7, <1>8, <1>9, <1>12
<1>13. \A k \in 0 .. n : h[k] \in S[k]
  BY <1>2, <1>11, <1>12, LoopKeeps
<1>14. h[n] \in Walked(0, fs)
  BY <1>8, <1>10, <1>13
<1> QED BY <1>1, <1>5, <1>14 DEF n, Loads

\* A function on 1 .. n is a sequence.
LEMMA FunctionIsSeq ==
    ASSUME NEW S, NEW n \in Nat, NEW f \in [1 .. n -> S]
    PROVE  f \in Seq(S) /\ Len(f) = n
<1>1. f \in Seq(S)
  BY SeqDef
<1>2. DOMAIN f = 1 .. n /\ DOMAIN f = 1 .. Len(f) /\ Len(f) \in Nat
  BY <1>1, LenProperties
<1> QED BY <1>1, <1>2

LEMMA ConfigIs ==
    ASSUME NEW cfg, ConfigFits(cfg)
    PROVE  LET entries == IF cfg = Torn THEN <<>> ELSE cfg IN
           entries \in Seq(EntryType) /\ Distinct(entries)
<1>1. <<>> \in Seq(EntryType) /\ Distinct(<<>>)
  BY EmptySeq DEF Distinct
<1> QED BY <1>1 DEF ConfigFits

\* from_registry_config: whatever the disk holds, a sound registry is loaded.
LEMMA LoadIsSound ==
    ASSUME NEW fs, FilesFit(fs), NEW cfg, ConfigFits(cfg)
    PROVE  Sound(Loaded(cfg, fs))
<1> DEFINE entries == IF cfg = Torn THEN <<>> ELSE cfg
<1>1. entries \in Seq(EntryType) /\ Distinct(entries)
  BY ConfigIs
<1> HIDE DEF entries
<1>2. PICK h : Loads(h, entries, cfg, fs)
  <2>1. entries = IF cfg = Torn THEN <<>> ELSE cfg
    BY DEF entries
  <2> QED BY <1>1, <2>1, LoadedIs
<1> DEFINE r == h[Len(entries)]
           n == Len(r.cats)
           cats == [i \in DOMAIN r.cats |-> WithManifest(r.cats[i], fs)]
<1>3. Loaded(cfg, fs) = [cats |-> cats, cmds |-> r.cmds]
  BY <1>2 DEF Registry, Loads
<1>4. r \in Walked(0, fs)
  BY <1>2 DEF Loads
<1> HIDE DEF r
<1>5. /\ r.cats \in Seq(EntryType) /\ r.cmds \in SUBSET CommandType /\ Distinct(r.cats)
      /\ n \in Nat /\ DOMAIN r.cats = 1 .. n
  BY <1>4, LenProperties DEF Walked
<1>6. /\ \A j \in 1 .. n : Readable(fs[r.cats[j].title])
      /\ \A e : e \in EndpointsOf(r.cmds) <=>
             \E j \in 1 .. n : r.cats[j].enabled /\ e \in fs[r.cats[j].title]
  BY <1>4 DEF Walked
<1>7. ASSUME NEW j \in 1 .. n
      PROVE  /\ cats[j] \in CatalogType /\ cats[j].title = r.cats[j].title
             /\ cats[j].enabled = r.cats[j].enabled /\ cats[j].manifest = fs[r.cats[j].title]
             /\ cats[j].manifest \in SUBSET Endpoints
  <2>1. r.cats[j] \in EntryType
    BY <1>5, ElementOfSeq
  <2>2. fs[r.cats[j].title] \in Manifests[r.cats[j].title] /\ r.cats[j].title \in Titles
    BY <1>6, <2>1 DEF FilesFit, Readable, EntryType
  <2>3. fs[r.cats[j].title] \in SUBSET Endpoints
    BY <2>2, EndpointShape
  <2>4. cats[j] = [title |-> r.cats[j].title, enabled |-> r.cats[j].enabled, conf |-> r.cats[j].conf,
                   manifest |-> fs[r.cats[j].title]]
    BY <1>5 DEF WithManifest
  <2> QED BY <2>1, <2>2, <2>3, <2>4 DEF CatalogType, EntryType
<1>8. DOMAIN cats = 1 .. n /\ cats = [j \in 1 .. n |-> cats[j]]
  BY <1>5
<1> HIDE DEF cats
<1>9. cats \in [1 .. n -> CatalogType]
  BY <1>7, <1>8
<1>10. cats \in Seq(CatalogType)
  BY <1>5, <1>9, FunctionIsSeq
<1>11. Distinct(cats)
  BY <1>5, <1>7, <1>8 DEF Distinct
<1>12. \A e : e \in EndpointsOf(r.cmds) <=> e \in Served(cats)
  <2> TAKE e
  <2>1. e \in Served(cats) <=> \E j \in 1 .. n : cats[j].enabled /\ e \in cats[j].manifest
    BY <1>8, ServedIs
  <2>2. (\E j \in 1 .. n : cats[j].enabled /\ e \in cats[j].manifest)
            <=> \E j \in 1 .. n : r.cats[j].enabled /\ e \in fs[r.cats[j].title]
    BY <1>7
  <2> QED BY <1>6, <2>1, <2>2
<1>13. EndpointsOf(r.cmds) = Served(cats)
  BY <1>12
<1> QED BY <1>3, <1>5, <1>10, <1>11, <1>13 DEF Sound

\* What is saved is loaded again.
LEMMA LoadIsSame ==
    ASSUME NEW fs, FilesFit(fs), NEW cats \in Seq(CatalogType), Distinct(cats),
           NEW cfg, ConfigFits(cfg), Saved(cats, cfg, fs)
    PROVE  Loaded(cfg, fs).cats = cats
<1> DEFINE n == Len(cats)
<1>1. cfg = [i \in 1 .. n |-> Entry(cats[i])] /\ n \in Nat /\ DOMAIN cats = 1 .. n
  BY LenProperties DEF Saved, Entries
<1>2. \A i \in 1 .. n : cats[i] \in CatalogType /\ Entry(cats[i]) \in EntryType
  <2>1. \A i \in 1 .. n : cats[i] \in CatalogType
    BY <1>1, ElementOfSeq
  <2> QED BY <2>1 DEF Entry, EntryType, CatalogType
<1>3. cfg \in Seq(EntryType) /\ Len(cfg) = n
  <2>1. cfg \in [1 .. n -> EntryType]
    BY <1>1, <1>2
  <2> QED BY <1>1, <2>1, FunctionIsSeq
<1>4. cfg # Torn
  BY <1>3, ManifestsAssumption DEF EntryType
<1>5. PICK h :
        /\ h[0] = Registry(cfg, {})
        /\ \A k \in 1 .. n : h[k] = LoadCatalog(n + 1 - k, h[k - 1], fs)
        /\ Loaded(cfg, fs) = Registry([i \in DOMAIN h[n].cats |-> WithManifest(h[n].cats[i], fs)], h[n].cmds)
  <2>1. Distinct(cfg) /\ cfg = IF cfg = Torn THEN <<>> ELSE cfg
    BY <1>4 DEF ConfigFits
  <2>2. \E h : Loads(h, cfg, cfg, fs)
    BY <1>3, <2>1, LoadedIs
  <2> QED BY <1>3, <2>2 DEF Loads
<1> HIDE DEF n
<1> DEFINE u == [k \in 0 .. n |-> h[k].cats]
           S == [k \in 0 .. n |-> {cfg}]
<1>6. ASSUME NEW k \in 1 .. n, h[k - 1].cats = cfg PROVE h[k].cats = cfg
  <2> DEFINE i == n + 1 - k
  <2>1. i \in 1 .. n
    BY <1>1
  <2> HIDE DEF i
  <2>2. cfg[i].title = cats[i].title
    BY <1>1, <2>1 DEF Entry
  <2>3. fs[cats[i].title] = cats[i].manifest
    BY <1>1, <2>1 DEF Saved
  <2>4. cats[i].manifest \in Manifests[cats[i].title] /\ cats[i].title \in Titles
    BY <1>2, <2>1 DEF CatalogType
  <2>5. Readable(fs[cfg[i].title])
    BY <2>2, <2>3, <2>4, ManifestsAssumption DEF Readable
  <2>6. h[k] = LoadCatalog(i, h[k - 1], fs)
    BY <1>5 DEF i
  <2> QED BY <1>6, <2>5, <2>6 DEF LoadCatalog, Registry
<1>7. \A k \in 0 .. n : u[k] = h[k].cats /\ S[k] = {cfg}
  OBVIOUS
<1>8. 0 \in 0 .. n /\ n \in 0 .. n /\ \A k \in 1 .. n : k \in 0 .. n /\ k - 1 \in 0 .. n
  BY <1>1
<1> HIDE DEF u, S
<1>9. u[0] \in S[0]
  BY <1>5, <1>7, <1>8 DEF Registry
<1>10. \A k \in 1 .. n : u[k - 1] \in S[k - 1] => u[k] \in S[k]
  BY <1>6, <1>7, <1>8
<1>11. \A k \in 0 .. n : u[k] \in S[k]
  BY <1>1, <1>9, <1>10, LoopKeeps
<1>12. h[n].cats = cfg
  BY <1>7, <1>8, <1>11
<1>13. Loaded(cfg, fs).cats = [i \in 1 .. n |-> WithManifest(cfg[i], fs)]
  <2>1. DOMAIN cfg = 1 .. n
    BY <1>1
  <2>2. Loaded(cfg, fs).cats = [i \in DOMAIN h[n].cats |-> WithManifest(h[n].cats[i], fs)]
    BY <1>5 DEF Registry
  <2> QED BY <1>12, <2>1, <2>2
<1>14. ASSUME NEW i \in 1 .. n PROVE WithManifest(cfg[i], fs) = cats[i]
  <2>1. cfg[i] = [title |-> cats[i].title, enabled |-> cats[i].enabled, conf |-> cats[i].conf]
    BY <1>1 DEF Entry
  <2>2. fs[cats[i].title] = cats[i].manifest
    BY <1>1 DEF Saved
  <2>3. cats[i] \in CatalogType
    BY <1>2
  <2> QED BY <2>1, <2>2, <2>3 DEF WithManifest, CatalogType
<1>15. cats = [i \in 1 .. n |-> cats[i]]
  BY <1>1
<1> QED BY <1>13, <1>14, <1>15

-----------------------------------------------------------------------------
(* Saving *)

LEMMA WithManifestsFit ==
    ASSUME NEW fs, FilesFit(fs), NEW cats \in Seq(CatalogType), NEW n
    PROVE  FilesFit(WithManifests(cats, fs, n))
<1> DEFINE gs == WithManifests(cats, fs, n)
<1>1. gs = [t \in Titles |-> gs[t]]
  BY DEF WithManifests
<1>2. ASSUME NEW t \in Titles PROVE gs[t] \in Manifests[t] \cup {Torn, NoFile}
  <2>1. CASE Has(cats, t) /\ Pos(cats, t) <= n
    <3>1. Pos(cats, t) \in DOMAIN cats /\ cats[Pos(cats, t)].title = t
      BY <2>1, PosIs
    <3>2. cats[Pos(cats, t)] \in CatalogType
      BY <3>1, LenProperties, ElementOfSeq
    <3>3. cats[Pos(cats, t)].manifest \in Manifests[t]
      BY <3>1, <3>2 DEF CatalogType
    <3> QED BY <2>1, <3>3 DEF WithManifests
  <2>2. CASE ~(Has(cats, t) /\ Pos(cats, t) <= n)
    BY <2>2 DEF WithManifests, FilesFit
  <2> QED BY <2>1, <2>2
<1> QED BY <1>1, <1>2 DEF FilesFit

LEMMA EntriesFit ==
    ASSUME NEW cats \in Seq(CatalogType), Distinct(cats)
    PROVE  ConfigFits(Entries(cats))
<1>1. Len(cats) \in Nat /\ DOMAIN cats = 1 .. Len(cats)
  BY LenProperties
<1>2. \A i \in 1 .. Len(cats) : Entry(cats[i]) \in EntryType /\ Entry(cats[i]).title = cats[i].title
  <2>1. \A i \in 1 .. Len(cats) : cats[i] \in CatalogType
    BY ElementOfSeq
  <2> QED BY <2>1 DEF Entry, EntryType, CatalogType
<1>3. Entries(cats) \in [1 .. Len(cats) -> EntryType]
  BY <1>1, <1>2 DEF Entries
<1>4. Entries(cats) \in Seq(EntryType)
  BY <1>1, <1>3, FunctionIsSeq
<1>5. Distinct(Entries(cats))
  BY <1>1, <1>2 DEF Entries, Distinct
<1> QED BY <1>4, <1>5 DEF ConfigFits

\* A save that succeeds leaves the catalogs on the disk; and however far it
\* comes, what is there can be loaded.
LEMMA SaveFits ==
    ASSUME NEW cats \in Seq(CatalogType), Distinct(cats), NEW fs, FilesFit(fs)
    PROVE  LET s == SaveDone(cats, fs) IN
           FilesFit(s.files) /\ ConfigFits(s.config) /\ Saved(cats, s.config, s.files)
<1> DEFINE s == SaveDone(cats, fs)
<1>1. Len(cats) \in Nat /\ DOMAIN cats = 1 .. Len(cats)
  BY LenProperties
<1>2. s.config = Entries(cats) /\ s.files = WithManifests(cats, fs, Len(cats))
  BY DEF SaveDone
<1> HIDE DEF s
<1>3. ASSUME NEW i \in DOMAIN cats
      PROVE  WithManifests(cats, fs, Len(cats))[cats[i].title] = cats[i].manifest
  <2>1. Has(cats, cats[i].title)
    BY DEF Has
  <2>2. Pos(cats, cats[i].title) = i
    BY <2>1, PosIs DEF Distinct
  <2>3. i <= Len(cats) /\ cats[i].title \in Titles
    BY <1>1, ElementOfSeq DEF CatalogType
  <2> QED BY <2>1, <2>2, <2>3 DEF WithManifests
<1>4. Saved(cats, s.config, s.files)
  BY <1>2, <1>3 DEF Saved
<1>5. FilesFit(s.files) /\ ConfigFits(s.config)
  BY <1>1, <1>2, WithManifestsFit, EntriesFit
<1> QED BY <1>4, <1>5 DEF s

LEMMA FailedSaveFits ==
    ASSUME NEW cats \in Seq(CatalogType), Distinct(cats), NEW fs, FilesFit(fs),
           NEW cfg, ConfigFits(cfg), NEW s \in SaveFailed(cats, cfg, fs)
    PROVE  FilesFit(s.files) /\ ConfigFits(s.config)
<1>1. Len(cats) \in Nat /\ DOMAIN cats = 1 .. Len(cats) /\ Len(cats) \in 0 .. Len(cats)
  BY LenProperties
<1>2. s.config \in {cfg, Torn}
  BY DEF SaveFailed
<1>3. ConfigFits(s.config)
  BY <1>2 DEF ConfigFits
<1>4. CASE \E n \in 0 .. Len(cats) : s.files = WithManifests(cats, fs, n)
  BY <1>3, <1>4, WithManifestsFit
<1>5. ASSUME NEW n \in 0 .. Len(cats) - 1,
             s.files = [WithManifests(cats, fs, n) EXCEPT ![cats[n + 1].title] = Torn]
      PROVE  FilesFit(s.files)
  <2>1. FilesFit(WithManifests(cats, fs, n))
    BY WithManifestsFit
  <2> DEFINE gs == WithManifests(cats, fs, n)
  <2> HIDE DEF gs
  <2>2. FilesFit([gs EXCEPT ![cats[n + 1].title] = Torn])
    BY <2>1 DEF FilesFit, gs
  <2> QED BY <1>5, <2>2 DEF gs
<1>6. \/ \E n \in 0 .. Len(cats) : s.files = WithManifests(cats, fs, n)
      \/ \E n \in 0 .. Len(cats) - 1 :
             s.files = [WithManifests(cats, fs, n) EXCEPT ![cats[n + 1].title] = Torn]
  BY <1>1 DEF SaveFailed
<1> QED BY <1>3, <1>4, <1>5, <1>6

-----------------------------------------------------------------------------
(* Ways for an operation to end *)

\* A step that undoes no replacement and, if it is reported as done, leaves the
\* manifests of the catalogs alone.
SameManifests(new, old) ==
    \A i \in DOMAIN new, j \in DOMAIN old :
        new[i].title = old[j].title => new[i].manifest = old[j].manifest
Quiet ==
    /\ reply' # "rolled_back"
    /\ reply' = "ok" => SameManifests(catalogs', catalogs)

LEMMA QuietStep ==
    ASSUME Quiet
    PROVE  ~Undone /\ ~CarriedOut
<1>1. ~Undone
  BY DEF Quiet, Undone
<1>2. ASSUME CarriedOut PROVE FALSE
  <2>1. PICK c \in ToSet(catalogs), d \in ToSet(catalogs') : c.title = d.title /\ c.manifest # d.manifest
    BY <1>2 DEF CarriedOut
  <2>2. PICK j \in DOMAIN catalogs : c = catalogs[j]
    BY DEF ToSet
  <2>3. PICK i \in DOMAIN catalogs' : d = catalogs'[i]
    BY DEF ToSet
  <2>4. SameManifests(catalogs', catalogs)
    BY <1>2 DEF CarriedOut, Quiet
  <2> QED BY <2>1, <2>2, <2>3, <2>4 DEF SameManifests
<1> QED BY <1>1, <1>2

LEMMA CurrentIs ==
    /\ Current.cats = catalogs /\ Current.cmds = commands
    /\ RegistryInv => catalogs \in Seq(CatalogType) /\ Distinct(catalogs)
BY DEF Current, Registry, RegistryInv, Sound

\* Catalogs changed in place, or fewer of them, keep their manifests.
LEMMA InPlaceIsSame ==
    ASSUME RegistryInv, NEW cats, DOMAIN cats = DOMAIN catalogs,
           \A j \in DOMAIN cats : cats[j].title = catalogs[j].title /\ cats[j].manifest = catalogs[j].manifest
    PROVE  SameManifests(cats, catalogs)
<1>1. Distinct(catalogs)
  BY CurrentIs
<1> QED BY <1>1 DEF SameManifests, Distinct

LEMMA FewerIsSame ==
    ASSUME RegistryInv, NEW cats, \A j \in DOMAIN cats : \E k \in DOMAIN catalogs : cats[j] = catalogs[k]
    PROVE  SameManifests(cats, catalogs)
<1>1. Distinct(catalogs)
  BY CurrentIs
<1> SUFFICES ASSUME NEW i \in DOMAIN cats, NEW j \in DOMAIN catalogs, cats[i].title = catalogs[j].title
             PROVE  cats[i].manifest = catalogs[j].manifest
  BY DEF SameManifests
<1>2. PICK k \in DOMAIN catalogs : cats[i] = catalogs[k]
  OBVIOUS
<1>3. k = j
  BY <1>1, <1>2 DEF Distinct
<1> QED BY <1>2, <1>3

LEMMA MoreIsSame ==
    ASSUME RegistryInv, NEW c \in CatalogType, ~Has(catalogs, c.title)
    PROVE  SameManifests(Append(catalogs, c), catalogs)
<1> DEFINE cats == Append(catalogs, c)
           n == Len(catalogs) + 1
<1>1. catalogs \in Seq(CatalogType) /\ Distinct(catalogs)
  BY CurrentIs
<1>2. DOMAIN cats = DOMAIN catalogs \cup {n} /\ cats[n] = c /\ \A i \in DOMAIN catalogs : cats[i] = catalogs[i]
  <2>1. /\ Len(catalogs) \in Nat /\ DOMAIN catalogs = 1 .. Len(catalogs) /\ DOMAIN cats = 1 .. n
        /\ cats[n] = c /\ \A i \in DOMAIN catalogs : cats[i] = catalogs[i]
    BY <1>1, AppendIs
  <2> QED BY <2>1
<1> HIDE DEF cats, n
<1>3. \A j \in DOMAIN catalogs : catalogs[j].title # c.title
  BY DEF Has
<1>4. SameManifests(cats, catalogs)
  BY <1>1, <1>2, <1>3 DEF SameManifests, Distinct
<1> QED BY <1>4 DEF cats

LEMMA HoldIsSound ==
    ASSUME NEW r, Hold(r), Sound(r)
    PROVE  Sound(Current)'
BY DEF Hold, Sound, Current, Registry

LEMMA SaveAsKeeps ==
    ASSUME RegistryInv, NEW r, Sound(r), NEW toks, NEW fs, FilesFit(fs), NEW waits,
           SaveAs(r, toks, fs, waits), SameManifests(r.cats, catalogs)
    PROVE  RegistryInv' /\ Quiet
<1>1. r.cats \in Seq(CatalogType) /\ Distinct(r.cats) /\ ConfigFits(config)
  BY DEF Sound, RegistryInv
<1>2. Hold(r) /\ Sound(Current)' /\ catalogs' = r.cats
  BY HoldIsSound DEF SaveAs, Hold
<1>3. CASE Store(SaveDone(r.cats, fs)) /\ tokens' = {} /\ reply' = "ok"
  <2> DEFINE s == SaveDone(r.cats, fs)
  <2>1. FilesFit(s.files) /\ ConfigFits(s.config) /\ Saved(r.cats, s.config, s.files)
    BY <1>1, SaveFits
  <2>2. config' = s.config /\ files' = s.files
    BY <1>3 DEF Store
  <2> HIDE DEF s
  <2>3. FilesFit(files') /\ ConfigFits(config') /\ Saved(catalogs', config', files')
    BY <1>2, <2>1, <2>2
  <2> QED BY <1>2, <1>3, <2>3 DEF RegistryInv, Quiet
<1>4. CASE reply' = "failed" /\ \E s \in SaveFailed(r.cats, config, fs) : Store(s)
  <2>1. PICK s \in SaveFailed(r.cats, config, fs) : Store(s)
    BY <1>4
  <2>2. FilesFit(s.files) /\ ConfigFits(s.config)
    BY <1>1, <2>1, FailedSaveFits
  <2>3. FilesFit(files') /\ ConfigFits(config')
    BY <2>1, <2>2 DEF Store
  <2> QED BY <1>2, <1>4, <2>3 DEF RegistryInv, Quiet
<1>5. \/ Store(SaveDone(r.cats, fs)) /\ tokens' = {} /\ reply' = "ok"
      \/ reply' = "failed" /\ \E s \in SaveFailed(r.cats, config, fs) : Store(s)
  BY DEF SaveAs
<1> QED BY <1>3, <1>4, <1>5

LEMMA RebootKeeps ==
    ASSUME NEW cfg, ConfigFits(cfg), NEW fs, FilesFit(fs), Reboot(cfg, fs)
    PROVE  RegistryInv' /\ Quiet
<1>1. Sound(Loaded(cfg, fs))
  BY LoadIsSound
<1>2. Sound(Current)'
  BY <1>1, HoldIsSound DEF Reboot
<1> QED BY <1>2 DEF Reboot, RegistryInv, Quiet

\* What is told is not that anything was saved.
LEMMA TellsOfNoSave ==
    ASSUME RegistryInv, NEW r, Sound(r), Hold(r), reply' \in {"none", "failed", "busy"},
           config' = config, FilesFit(files')
    PROVE  RegistryInv' /\ Quiet
<1>1. Sound(Current)'
  BY HoldIsSound
<1> QED BY <1>1 DEF RegistryInv, Quiet

LEMMA RefuseKeeps ==
    ASSUME RegistryInv, NEW why \in {"failed", "busy"}, Refuse(why)
    PROVE  RegistryInv' /\ Quiet
<1>1. Sound(Current) /\ Hold(Current)
  BY DEF RegistryInv, Refuse, Hold, Current, Registry
<1>2. reply' \in {"none", "failed", "busy"} /\ config' = config /\ FilesFit(files')
  BY DEF RegistryInv, Refuse
<1> QED BY <1>1, <1>2, TellsOfNoSave

\* Writing or deleting the manifest of a catalog.
LEMMA OneFileFits ==
    ASSUME NEW fs, FilesFit(fs), NEW t \in Titles, NEW m \in Manifests[t] \cup {Torn, NoFile}
    PROVE  FilesFit([fs EXCEPT ![t] = m])
BY DEF FilesFit

LEMMA InsertKeeps ==
    ASSUME RegistryInv, NEW c \in CatalogType, ~Has(catalogs, c.title), InsertAndPersist(c)
    PROVE  RegistryInv' /\ Quiet
<1> DEFINE fs == [files EXCEPT ![c.title] = c.manifest]
<1>1. PICK r \in Inserted(Current, c) :
        \/ SaveAs(r, tokens, fs, unsaved)
        \/ Hold(r) /\ reply' = "failed" /\ config' = config /\ files' = files
  BY DEF InsertAndPersist
<1>2. Sound(r) /\ r.cats = Append(catalogs, c)
  <2>1. Sound(Current) /\ Current.cats = catalogs
    BY CurrentIs DEF RegistryInv
  <2> QED BY <2>1, InsertIsSound
<1>3. FilesFit(files) /\ FilesFit(fs)
  <2>1. FilesFit(files) /\ c.title \in Titles /\ c.manifest \in Manifests[c.title]
    BY DEF RegistryInv, CatalogType
  <2> QED BY <2>1, OneFileFits
<1>4. SameManifests(r.cats, catalogs)
  BY <1>2, MoreIsSame
<1> HIDE DEF fs
<1>5. CASE SaveAs(r, tokens, fs, unsaved)
  BY <1>2, <1>3, <1>4, <1>5, SaveAsKeeps
<1>6. CASE Hold(r) /\ reply' = "failed" /\ config' = config /\ files' = files
  BY <1>2, <1>3, <1>6, TellsOfNoSave
<1> QED BY <1>1, <1>5, <1>6

-----------------------------------------------------------------------------
(* A replacement *)

\* A replacement that fails leaves what was there, in another order perhaps.
PutBack ==
    /\ ToSet(catalogs') = ToSet(catalogs)
    /\ Offered' = Offered
    /\ LET t == Last(catalogs').title
       IN  /\ t \in tokens' <=> t \in tokens
           /\ files[t] # NoFile /\ faults' = faults + 1 => files'[t] = files[t]

\* What a replacement leaves, when the process does not die of it.
Replaced ==
    /\ CommandsKnowTheirCatalog'
    /\ reply' = "rolled_back" => (faults \in Nat => PutBack)

LEMMA WithoutOldIsSound ==
    ASSUME CatalogsAreApart, NEW r, Sound(r), NEW t, Has(r.cats, t)
    PROVE  LET q == WithoutOld(r, t) IN
           /\ Sound(q) /\ Known(q)
           /\ q.cats = RemoveAt(r.cats, Pos(r.cats, t)) /\ ~Has(q.cats, t)
<1> DEFINE p == Removed(r, t)
<1>0. Rest(p, r, t)
  BY RemoveIsSound
<1> HIDE DEF p
<1>1. Sound(p) /\ p.cats = RemoveAt(r.cats, Pos(r.cats, t)) /\ ~Has(p.cats, t)
  BY <1>0 DEF Rest
<1>2. Sound(Reindexed(p)) /\ Reindexed(p).cats = p.cats /\ Known(Reindexed(p))
  BY <1>1, ReindexIsSound
<1>3. WithoutOld(r, t) = Reindexed(p)
  BY DEF WithoutOld, p
<1> QED BY <1>1, <1>2, <1>3

\* Taking away what was just put at the end.
LEMMA TakeBack ==
    ASSUME NEW S, NEW s \in Seq(S), NEW e \in S
    PROVE  RemoveAt(Append(s, e), Len(s) + 1) = s
<1> DEFINE q == Append(s, e)
           n == Len(s) + 1
           p == RemoveAt(q, n)
<1>1. /\ q \in Seq(S) /\ Len(s) \in Nat /\ DOMAIN s = 1 .. Len(s) /\ Len(q) = n
      /\ DOMAIN q = 1 .. n /\ \A i \in DOMAIN s : q[i] = s[i]
  BY AppendIs
<1>2. n \in DOMAIN q
  BY <1>1
<1> HIDE DEF q
<1>3. p \in Seq(S) /\ Len(p) = Len(q) - 1 /\ \A j \in DOMAIN p : p[j] = q[IF j < n THEN j ELSE j + 1]
  BY <1>1, <1>2, Removal
<1> HIDE DEF p
<1>4. DOMAIN p = 1 .. Len(p)
  BY <1>3, LenProperties
<1>5. Len(p) = Len(s)
  BY <1>1, <1>3
<1>6. \A j \in 1 .. Len(p) : p[j] = s[j]
  BY <1>1, <1>3, <1>4, <1>5
<1>7. p = s
  BY <1>3, <1>5, <1>6, SeqEqual
<1> QED BY <1>7 DEF p, q

\* The elements of a sequence with one of them moved to the end.
LEMMA SameElements ==
    ASSUME NEW S, NEW s \in Seq(S), NEW i \in DOMAIN s
    PROVE  LET q == Append(RemoveAt(s, i), s[i]) IN
           ToSet(q) = ToSet(s) /\ Last(q) = s[i]
<1> DEFINE p == RemoveAt(s, i)
           q == Append(p, s[i])
<1>1. s[i] \in S /\ p \in Seq(S)
  BY Removal, LenProperties, ElementOfSeq
<1>2. /\ \A j \in DOMAIN p : \E k \in DOMAIN s \ {i} : p[j] = s[k]
      /\ \A k \in DOMAIN s \ {i} : \E j \in DOMAIN p : p[j] = s[k]
  BY RemovalKeepsOthers
<1> HIDE DEF p
<1>3. /\ Len(p) \in Nat /\ DOMAIN p = 1 .. Len(p) /\ Len(q) = Len(p) + 1
      /\ DOMAIN q = 1 .. Len(p) + 1 /\ q[Len(p) + 1] = s[i]
      /\ \A j \in DOMAIN p : q[j] = p[j]
  BY <1>1, AppendIs
<1> HIDE DEF q
<1>4. Last(q) = s[i]
  BY <1>3 DEF Last
<1>5. DOMAIN q = DOMAIN p \cup {Len(p) + 1}
  BY <1>3
<1>6. \A e : e \in ToSet(q) <=> e \in ToSet(s)
  <2>1. ASSUME NEW j \in DOMAIN q PROVE \E k \in DOMAIN s : q[j] = s[k]
    BY <1>2, <1>3, <1>5
  <2>2. ASSUME NEW k \in DOMAIN s PROVE \E j \in DOMAIN q : q[j] = s[k]
    BY <1>2, <1>3, <1>5
  <2> QED BY <2>1, <2>2 DEF ToSet
<1>7. ToSet(q) = ToSet(s)
  BY <1>6
<1> QED BY <1>4, <1>7 DEF p, q

\* The replaced catalog put back.
LEMMA RollBackIsSound ==
    ASSUME CatalogsAreApart, NEW r, Sound(r), NEW rest \in Seq(CatalogType), NEW c \in CatalogType,
           r.cats = Append(rest, c), NEW old \in CatalogType, old.title = c.title,
           NEW b \in RolledBack(r, old)
    PROVE  Sound(b) /\ Known(b) /\ b.cats = Append(rest, old)
<1> DEFINE n == Len(rest) + 1
           q == WithoutOld(r, old.title)
<1>1. /\ Len(rest) \in Nat /\ DOMAIN r.cats = 1 .. n /\ r.cats[n] = c
  BY AppendIs
<1>2. n \in DOMAIN r.cats
  BY <1>1
<1>3. Has(r.cats, old.title)
  BY <1>1, <1>2 DEF Has
<1>4. Pos(r.cats, old.title) = n
  <2> DEFINE k == Pos(r.cats, old.title)
  <2>1. k \in DOMAIN r.cats /\ r.cats[k].title = old.title
    BY <1>3, PosIs
  <2> HIDE DEF k, n
  <2>2. k = n
    BY <1>1, <1>2, <2>1 DEF Sound, Distinct
  <2> QED BY <2>2 DEF k
<1>5. RemoveAt(r.cats, n) = rest
  BY TakeBack
<1>6. Sound(q) /\ Known(q) /\ q.cats = rest /\ ~Has(q.cats, old.title)
  <2>1. Sound(q) /\ Known(q) /\ q.cats = RemoveAt(r.cats, Pos(r.cats, old.title)) /\ ~Has(q.cats, old.title)
    BY <1>3, WithoutOldIsSound
  <2> QED BY <1>4, <1>5, <2>1
<1>7. b \in Inserted(q, old)
  BY DEF RolledBack
<1> HIDE DEF q
<1> QED BY <1>6, <1>7, InsertIsSound

\* Catalogs in another order serve the same.
LEMMA ServedByThoseThere ==
    ASSUME NEW s, NEW q, ToSet(s) = ToSet(q)
    PROVE  Served(s) = Served(q)
<1>1. ASSUME NEW a, NEW b, ToSet(a) \subseteq ToSet(b), NEW e \in Served(a)
      PROVE  e \in Served(b)
  <2>1. PICK i \in DOMAIN a : a[i].enabled /\ e \in a[i].manifest
    BY <1>1, ServedIs
  <2>2. a[i] \in ToSet(b)
    BY <1>1 DEF ToSet
  <2>3. PICK j \in DOMAIN b : a[i] = b[j]
    BY <2>2 DEF ToSet
  <2> QED BY <2>1, <2>3, ServedIs
<1>2. \A e : e \in Served(s) <=> e \in Served(q)
  BY <1>1
<1> QED BY <1>2

\* The manifest file is put back, if there was one; when that fails, it is
\* still one that can be loaded or is told from one.
LEMMA RestoredFits ==
    ASSUME FilesFit(files), NEW fs, FilesFit(fs), NEW t \in Titles
    PROVE  FilesFit(Restored(fs, t)) /\ (files[t] # NoFile => Restored(fs, t)[t] = files[t])
<1>1. CASE files[t] = NoFile
  BY <1>1 DEF Restored
<1>2. CASE files[t] # NoFile
  <2>1. files[t] \in Manifests[t] \cup {Torn, NoFile} /\ Restored(fs, t) = [fs EXCEPT ![t] = files[t]]
    BY <1>2 DEF Restored, FilesFit
  <2>2. Restored(fs, t)[t] = files[t]
    BY <2>1 DEF FilesFit
  <2> DEFINE m == files[t]
  <2> HIDE DEF m
  <2>3. FilesFit([fs EXCEPT ![t] = m])
    BY <2>1, OneFileFits DEF m
  <2> QED BY <2>1, <2>2, <2>3 DEF m
<1> QED BY <1>1, <1>2

LEMMA NotRestoredFits ==
    ASSUME NEW fs, FilesFit(fs), NEW t \in Titles, NEW gs \in NotRestored(fs, t)
    PROVE  FilesFit(gs)
<1>1. FilesFit([fs EXCEPT ![t] = Torn])
  BY OneFileFits
<1> QED BY <1>1 DEF NotRestored

LEMMA OfferedIsServed == RegistryInv => Offered = Served(catalogs)
BY DEF RegistryInv, Sound, Current, Registry, EndpointsOf, Offered

LEMMA PutBackBy ==
    ASSUME RegistryInv, RegistryInv', NEW i \in DOMAIN catalogs,
           catalogs' = Append(RemoveAt(catalogs, i), catalogs[i]),
           LET t == catalogs[i].title
           IN  /\ t \in tokens' <=> t \in tokens
               /\ files[t] # NoFile /\ faults' = faults + 1 => files'[t] = files[t]
    PROVE  PutBack
<1>1. catalogs \in Seq(CatalogType)
  BY CurrentIs
<1>2. ToSet(catalogs') = ToSet(catalogs) /\ Last(catalogs') = catalogs[i]
  BY <1>1, SameElements
<1>3. Served(catalogs') = Served(catalogs)
  BY <1>2, ServedByThoseThere
<1>4. Offered = Served(catalogs)
  BY OfferedIsServed
<1>5. Offered' = Served(catalogs')
  <2>1. Sound(Current)'
    BY DEF RegistryInv
  <2> QED BY <2>1 DEF Sound, Current, Registry, EndpointsOf, Offered, Served
<1> QED BY <1>2, <1>3, <1>4, <1>5 DEF PutBack

LEMMA HeldIsKnown ==
    ASSUME NEW r, Hold(r), Known(r)
    PROVE  CommandsKnowTheirCatalog'
BY DEF Hold, Known, CommandsKnowTheirCatalog

\* What a roll back does, but for the catalogs it puts back.
LEMMA RollBackDoes ==
    ASSUME NEW r, NEW old, NEW s, RollBack(r, old, s)
    PROVE  LET t == old.title IN
           \/ /\ \E b \in RolledBack(r, old) : Hold(b)
              /\ tokens' = tokens \cup (s.tokens \ {t})
              /\ config' = s.config /\ reply' = "rolled_back"
              /\ \/ files' = Restored(s.files, t)
                 \/ files' \in NotRestored(s.files, t) /\ faults' = faults + 2
           \/ \E fs \in NotRestored(s.files, t) \cup {s.files, Restored(s.files, t)} :
                 Reboot(s.config, fs)
BY DEF RollBack, Fail, Fault

LEMMA RollBackKeeps ==
    ASSUME RegistryInv, NEW i \in DOMAIN catalogs, NEW r, NEW old, old = catalogs[i],
           \A b \in RolledBack(r, old) :
              Sound(b) /\ Known(b) /\ b.cats = Append(RemoveAt(catalogs, i), old),
           NEW s, FilesFit(s.files), ConfigFits(s.config), RollBack(r, old, s)
    PROVE  RegistryInv' /\ (Quiet \/ Replaced)
<1> DEFINE t == old.title
<1>1. t \in Titles
  BY CurrentIs, CatalogIs DEF RegistryInv
<1> HIDE DEF t
<1>2. FilesFit(files)
  BY DEF RegistryInv
<1>3. FilesFit(Restored(s.files, t)) /\ (files[t] # NoFile => Restored(s.files, t)[t] = files[t])
  BY <1>1, <1>2, RestoredFits
<1>4. \A fs \in NotRestored(s.files, t) : FilesFit(fs)
  BY <1>1, NotRestoredFits
<1>5. ASSUME NEW b \in RolledBack(r, old), Hold(b),
             tokens' = tokens \cup (s.tokens \ {t}),
             config' = s.config, reply' = "rolled_back",
             \/ files' = Restored(s.files, t)
             \/ files' \in NotRestored(s.files, t) /\ faults' = faults + 2
      PROVE  RegistryInv' /\ Replaced
  <2>1. Sound(Current)' /\ CommandsKnowTheirCatalog'
    BY <1>5, HoldIsSound, HeldIsKnown
  <2>2. FilesFit(files')
    BY <1>3, <1>4, <1>5
  <2>3. RegistryInv'
    BY <1>5, <2>1, <2>2 DEF RegistryInv
  <2>4. catalogs' = Append(RemoveAt(catalogs, i), catalogs[i])
    BY <1>5 DEF Hold
  <2>5. t \in tokens' <=> t \in tokens
    BY <1>5
  <2>6. ASSUME faults \in Nat
        PROVE  files[t] # NoFile /\ faults' = faults + 1 => files'[t] = files[t]
    <3>1. faults' = faults + 1 => files' = Restored(s.files, t)
      BY <1>5, <2>6
    <3> QED BY <1>3, <3>1
  <2>7. t = catalogs[i].title
    BY DEF t
  <2>8. ASSUME faults \in Nat PROVE PutBack
    BY <2>3, <2>4, <2>5, <2>6, <2>7, <2>8, PutBackBy
  <2> QED BY <2>1, <2>3, <2>8 DEF Replaced
<1>6. ASSUME NEW fs \in NotRestored(s.files, t) \cup {s.files, Restored(s.files, t)},
             Reboot(s.config, fs)
      PROVE  RegistryInv' /\ Quiet
  <2>1. FilesFit(fs)
    BY <1>3, <1>4
  <2> QED BY <1>6, <2>1, RebootKeeps
<1>7. \/ /\ \E b \in RolledBack(r, old) : Hold(b)
         /\ tokens' = tokens \cup (s.tokens \ {t})
         /\ config' = s.config /\ reply' = "rolled_back"
         /\ \/ files' = Restored(s.files, t)
            \/ files' \in NotRestored(s.files, t) /\ faults' = faults + 2
      \/ \E fs \in NotRestored(s.files, t) \cup {s.files, Restored(s.files, t)} :
            Reboot(s.config, fs)
  BY RollBackDoes DEF t
<1> QED BY <1>5, <1>6, <1>7

LEMMA ReplaceKeeps ==
    ASSUME CatalogsAreApart, RegistryInv, NEW c \in CatalogType, Has(catalogs, c.title),
           ReplaceAndPersist(c)
    PROVE  RegistryInv' /\ (Quiet \/ Replaced)
<1> DEFINE t == c.title
           i == Pos(catalogs, t)
           old == catalogs[i]
           fs == [files EXCEPT ![t] = c.manifest]
           rest == RemoveAt(catalogs, i)
           untouched == [config |-> config, files |-> files, tokens |-> {}]
<1>1. PICK r \in Inserted(WithoutOld(Current, t), c) :
        \/ Hold(r) /\ Store(SaveDone(r.cats, fs)) /\ tokens' = {} /\ reply' = "ok"
        \/ \E s \in SaveFailed(r.cats, config, fs) \cup {untouched} : RollBack(r, old, s)
  BY DEF ReplaceAndPersist
<1>2. i \in DOMAIN catalogs /\ old.title = t
  BY PosIs
<1>3. catalogs \in Seq(CatalogType) /\ Distinct(catalogs) /\ Sound(Current) /\ Current.cats = catalogs
  BY CurrentIs DEF RegistryInv
<1>4. old \in CatalogType /\ rest \in Seq(CatalogType)
  BY <1>2, <1>3, Removal, LenProperties, ElementOfSeq
<1>5. FilesFit(files) /\ FilesFit(fs) /\ ConfigFits(config) /\ t \in Titles
  <2>1. FilesFit(files) /\ ConfigFits(config) /\ c.title \in Titles /\ c.manifest \in Manifests[c.title]
    BY DEF RegistryInv, CatalogType
  <2> QED BY <2>1, OneFileFits
<1> HIDE DEF i, fs
<1>6. Sound(r) /\ Known(r) /\ r.cats = Append(rest, c)
  <2> DEFINE q == WithoutOld(Current, t)
  <2>1. Sound(q) /\ Known(q) /\ q.cats = rest /\ ~Has(q.cats, c.title)
    BY <1>3, WithoutOldIsSound DEF i
  <2> HIDE DEF q
  <2>2. r \in Inserted(q, c)
    BY DEF q
  <2> QED BY <2>1, <2>2, InsertIsSound
<1> HIDE DEF rest
<1>7. r.cats \in Seq(CatalogType) /\ Distinct(r.cats)
  BY <1>6 DEF Sound
<1>8. \A b \in RolledBack(r, old) : Sound(b) /\ Known(b) /\ b.cats = Append(rest, old)
  BY <1>2, <1>4, <1>6, RollBackIsSound
<1>9. CASE Hold(r) /\ Store(SaveDone(r.cats, fs)) /\ tokens' = {} /\ reply' = "ok"
  <2> DEFINE s == SaveDone(r.cats, fs)
  <2>1. FilesFit(s.files) /\ ConfigFits(s.config) /\ Saved(r.cats, s.config, s.files)
    BY <1>5, <1>7, SaveFits
  <2> HIDE DEF s
  <2>2. Store(s) /\ Hold(r)
    BY <1>9 DEF s
  <2>3. Sound(Current)' /\ CommandsKnowTheirCatalog'
    BY <1>6, <2>2, HoldIsSound, HeldIsKnown
  <2>4. FilesFit(files') /\ ConfigFits(config') /\ Saved(catalogs', config', files')
    BY <2>1, <2>2 DEF Store, Hold
  <2> QED BY <1>9, <2>3, <2>4 DEF RegistryInv, Replaced
<1>10. ASSUME NEW s \in SaveFailed(r.cats, config, fs) \cup {untouched}, RollBack(r, old, s)
       PROVE  RegistryInv' /\ (Quiet \/ Replaced)
  <2>1. FilesFit(s.files) /\ ConfigFits(s.config)
    <3>1. CASE s \in SaveFailed(r.cats, config, fs)
      BY <1>5, <1>7, <3>1, FailedSaveFits
    <3>2. CASE s = untouched
      BY <1>5, <3>2
    <3> QED BY <3>1, <3>2
  <2>2. \A b \in RolledBack(r, old) :
            Sound(b) /\ Known(b) /\ b.cats = Append(RemoveAt(catalogs, i), old)
    BY <1>8 DEF rest
  <2> HIDE DEF untouched, old
  <2>3. old = catalogs[i]
    BY DEF old
  <2> QED BY <1>2, <1>10, <2>1, <2>2, <2>3, RollBackKeeps
<1> QED BY <1>1, <1>9, <1>10

-----------------------------------------------------------------------------
(* The operations *)

LEMMA ImportKeeps ==
    ASSUME CatalogsAreApart, RegistryInv, NEW t \in Titles, NEW m \in Manifests[t],
           NEW on \in BOOLEAN, NEW overwrite \in BOOLEAN, Import(t, m, on, overwrite)
    PROVE  RegistryInv' /\ (Quiet \/ Replaced)
<1>1. ASSUME NEW conf \in Confs
      PROVE  NewCatalog(t, m, on, conf) \in CatalogType /\ NewCatalog(t, m, on, conf).title = t
  <2>1. m \in SUBSET Endpoints
    BY EndpointShape
  <2> QED BY <2>1 DEF NewCatalog, CatalogType
<1>2. CASE ~Has(catalogs, t)
  <2> DEFINE c == NewCatalog(t, m, on, Given)
  <2>1. c \in CatalogType /\ c.title = t
    BY <1>1, ManifestsAssumption
  <2>2. InsertAndPersist(c)
    BY <1>2 DEF Import
  <2> HIDE DEF c
  <2> QED BY <1>2, <2>1, <2>2, InsertKeeps
<1>3. CASE Has(catalogs, t) /\ ~overwrite
  <2>1. Refuse("failed")
    BY <1>3 DEF Import
  <2> QED BY <2>1, RefuseKeeps
<1>4. CASE Has(catalogs, t) /\ overwrite
  <2> DEFINE i == Pos(catalogs, t)
             c == NewCatalog(t, m, on, catalogs[i].conf)
  <2>1. i \in DOMAIN catalogs
    BY <1>4, PosIs
  <2>2. catalogs[i].conf \in Confs
    BY <2>1, CurrentIs, LenProperties, ElementOfSeq DEF CatalogType
  <2>3. c \in CatalogType /\ c.title = t
    BY <1>1, <2>2
  <2>4. ReplaceAndPersist(c)
    BY <1>4 DEF Import
  <2> HIDE DEF c
  <2> QED BY <1>4, <2>3, <2>4, ReplaceKeeps
<1> QED BY <1>2, <1>3, <1>4

LEMMA PatchKeeps ==
    ASSUME CatalogsAreApart, RegistryInv, NEW t \in Titles, NEW m \in Manifests[t], McpPatch(t, m)
    PROVE  RegistryInv' /\ (Quiet \/ Replaced)
<1> DEFINE i == Pos(catalogs, t)
           c == [catalogs[i] EXCEPT !.manifest = m]
<1>1. i \in DOMAIN catalogs /\ catalogs[i].title = t
  BY PosIs DEF McpPatch
<1>2. catalogs[i] \in CatalogType
  BY <1>1, CurrentIs, LenProperties, ElementOfSeq
<1>3. c \in CatalogType /\ c.title = t
  <2>1. m \in SUBSET Endpoints
    BY EndpointShape
  <2> QED BY <1>1, <1>2, <2>1 DEF CatalogType
<1>4. Has(catalogs, t) /\ (ReplaceAndPersist(c) \/ Refuse("failed"))
  BY DEF McpPatch
<1> HIDE DEF c
<1>5. CASE ReplaceAndPersist(c)
  BY <1>3, <1>4, <1>5, ReplaceKeeps
<1>6. CASE Refuse("failed")
  BY <1>6, RefuseKeeps
<1> QED BY <1>4, <1>5, <1>6

\* Switching a catalog on or off, and giving it other settings.
LEMMA ToggleIs ==
    ASSUME CatalogsAreApart, RegistryInv, NEW t, Has(catalogs, t), NEW on \in BOOLEAN,
           NEW r \in ToggledTo(t, on)
    PROVE  Sound(r) /\ SameManifests(r.cats, catalogs)
<1>1. Sound(Current) /\ Current.cats = catalogs
  BY CurrentIs DEF RegistryInv
<1>2. /\ Sound(r) /\ DOMAIN r.cats = DOMAIN catalogs
      /\ \A j \in DOMAIN r.cats : r.cats[j].title = catalogs[j].title
                                  /\ r.cats[j].manifest = catalogs[j].manifest
  <2>1. CASE on
    <3>1. r \in Enabled(Current, t)
      BY <2>1 DEF ToggledTo
    <3> QED BY <1>1, <3>1, EnableIsSound
  <2>2. CASE ~on
    <3>1. r = Disabled(Current, t)
      BY <2>2 DEF ToggledTo
    <3> QED BY <1>1, <3>1, DisableIsSound
  <2> QED BY <2>1, <2>2
<1> QED BY <1>2, InPlaceIsSame

LEMMA ConfigureIs ==
    ASSUME RegistryInv, NEW t, Has(catalogs, t), NEW conf \in Confs
    PROVE  Sound(Configured(t, conf)) /\ SameManifests(Configured(t, conf).cats, catalogs)
<1> DEFINE q == Configured(t, conf)
<1>1. /\ Sound(q) /\ DOMAIN q.cats = DOMAIN catalogs
      /\ \A j \in DOMAIN q.cats : q.cats[j].title = catalogs[j].title
                                  /\ q.cats[j].manifest = catalogs[j].manifest
  BY ConfigureIsSound DEF RegistryInv
<1> HIDE DEF q
<1>2. Sound(q) /\ SameManifests(q.cats, catalogs)
  BY <1>1, InPlaceIsSame
<1> QED BY <1>2 DEF q

LEMMA RemoveIs ==
    ASSUME CatalogsAreApart, RegistryInv, NEW t, Has(catalogs, t)
    PROVE  Sound(Removed(Current, t)) /\ SameManifests(Removed(Current, t).cats, catalogs)
<1> DEFINE q == Removed(Current, t)
<1>1. Sound(Current) /\ Current.cats = catalogs
  BY CurrentIs DEF RegistryInv
<1>2. Rest(q, Current, t)
  BY <1>1, RemoveIsSound
<1> HIDE DEF q
<1>3. Sound(q) /\ \A j \in DOMAIN q.cats : \E k \in DOMAIN catalogs : q.cats[j] = catalogs[k]
  BY <1>1, <1>2 DEF Rest
<1>4. Sound(q) /\ SameManifests(q.cats, catalogs)
  BY <1>3, FewerIsSame
<1> QED BY <1>4 DEF q

LEMMA OperationKeeps ==
    ASSUME CatalogsAreApart, RegistryInv, Next
    PROVE  RegistryInv' /\ (Quiet \/ Replaced)
<1>1. FilesFit(files) /\ ConfigFits(config) /\ Sound(Current) /\ Current.cats = catalogs
  BY CurrentIs DEF RegistryInv
<1>2. ASSUME NEW t \in Titles, NEW m \in Manifests[t], TuiImport(t, m)
      PROVE  RegistryInv' /\ (Quiet \/ Replaced)
  <2>1. Import(t, m, TRUE, FALSE) \/ Refuse("busy")
    BY <1>2 DEF TuiImport
  <2> QED BY <2>1, ImportKeeps, RefuseKeeps
<1>3. ASSUME NEW t \in Titles, NEW m \in Manifests[t], McpPatch(t, m)
      PROVE  RegistryInv' /\ (Quiet \/ Replaced)
  BY <1>3, PatchKeeps
<1>4. ASSUME NEW t \in Titles, NEW m \in Manifests[t], NEW on \in BOOLEAN, NEW overwrite \in BOOLEAN,
             McpImport(t, m, on, overwrite)
      PROVE  RegistryInv' /\ (Quiet \/ Replaced)
  BY <1>4, ImportKeeps DEF McpImport
<1>5. ASSUME NEW t \in Titles, NEW on \in BOOLEAN, TuiToggle(t, on)
      PROVE  RegistryInv' /\ Quiet
  <2>1. PICK r \in ToggledTo(t, on) : Changed(r)
    BY <1>5 DEF TuiToggle
  <2>2. Sound(r)
    BY <1>5, ToggleIs DEF TuiToggle
  <2>3. Hold(r) /\ reply' = "none" /\ config' = config /\ files' = files
    BY <1>5, <2>1 DEF TuiToggle, Changed, disk
  <2> QED BY <1>1, <2>2, <2>3, TellsOfNoSave
<1>6. ASSUME NEW t \in Titles, NEW on \in BOOLEAN, McpSetEnabled(t, on)
      PROVE  RegistryInv' /\ Quiet
  <2>1. PICK r \in ToggledTo(t, on) : SaveAs(r, tokens, files, unsaved)
    BY <1>6 DEF McpSetEnabled
  <2>2. Sound(r) /\ SameManifests(r.cats, catalogs)
    BY <1>6, ToggleIs DEF McpSetEnabled
  <2> QED BY <1>1, <2>1, <2>2, SaveAsKeeps
<1>7. ASSUME NEW t \in Titles, NEW conf \in Confs, TuiConfigure(t, conf)
      PROVE  RegistryInv' /\ Quiet
  <2> DEFINE r == Configured(t, conf)
  <2>1. Sound(r)
    BY <1>7, ConfigureIs DEF TuiConfigure
  <2>2. Hold(r) /\ reply' = "none" /\ config' = config /\ files' = files
    BY <1>7 DEF TuiConfigure, Changed, disk
  <2> HIDE DEF r
  <2> QED BY <1>1, <2>1, <2>2, TellsOfNoSave
<1>8. ASSUME NEW t \in Titles, NEW conf \in Confs, McpConfigure(t, conf)
      PROVE  RegistryInv' /\ Quiet
  <2> DEFINE r == Configured(t, conf)
  <2>1. Sound(r) /\ SameManifests(r.cats, catalogs)
    BY <1>8, ConfigureIs DEF McpConfigure
  <2>2. PICK toks \in TokensConfigured(t, conf) : SaveAs(r, toks, files, unsaved)
    BY <1>8 DEF McpConfigure
  <2> HIDE DEF r
  <2> QED BY <1>1, <2>1, <2>2, SaveAsKeeps
<1>9. ASSUME NEW t \in Titles PROVE FilesFit([files EXCEPT ![t] = NoFile])
  BY <1>1, OneFileFits
<1>10. ASSUME NEW t \in Titles, TuiRemove(t)
       PROVE  RegistryInv' /\ Quiet
  <2> DEFINE r == Removed(Current, t)
  <2>1. Sound(r)
    BY <1>10, RemoveIs DEF TuiRemove
  <2>2. /\ Hold(r) /\ reply' \in {"none", "failed"} /\ config' = config
        /\ files' = files \/ files' = [files EXCEPT ![t] = NoFile]
    BY <1>10 DEF TuiRemove, Changed
  <2> HIDE DEF r
  <2>3. FilesFit(files')
    BY <1>1, <1>9, <2>2
  <2> QED BY <2>1, <2>2, <2>3, TellsOfNoSave
<1>11. ASSUME NEW t \in Titles, NEW manifestToo \in BOOLEAN, McpRemove(t, manifestToo)
       PROVE  RegistryInv' /\ Quiet
  <2> DEFINE r == Removed(Current, t)
             fs == IF manifestToo THEN [files EXCEPT ![t] = NoFile] ELSE files
  <2>1. Sound(r) /\ SameManifests(r.cats, catalogs)
    BY <1>11, RemoveIs DEF McpRemove
  <2>2. \/ SaveAs(r, tokens \ {t}, fs, unsaved)
        \/ Hold(r) /\ reply' = "failed" /\ config' = config /\ files' = files
    BY <1>11 DEF McpRemove
  <2>3. FilesFit(fs)
    BY <1>1, <1>9
  <2> HIDE DEF r, fs
  <2>4. CASE SaveAs(r, tokens \ {t}, fs, unsaved)
    BY <2>1, <2>3, <2>4, SaveAsKeeps
  <2>5. CASE Hold(r) /\ reply' = "failed" /\ config' = config /\ files' = files
    BY <1>1, <2>1, <2>5, TellsOfNoSave
  <2> QED BY <2>2, <2>4, <2>5
<1>12. ASSUME TuiSave PROVE RegistryInv' /\ Quiet
  <2>1. CASE SaveAs(Current, tokens, files, FALSE)
    <3>1. SameManifests(Current.cats, catalogs)
      BY <1>1, InPlaceIsSame
    <3> QED BY <1>1, <2>1, <3>1, SaveAsKeeps
  <2>2. CASE reply' = "busy" /\ UNCHANGED <<catalogs, tokens, commands, config, files, faults>>
    <3>1. Hold(Current)
      BY <2>2 DEF Hold, Current, Registry
    <3> QED BY <1>1, <2>2, <3>1, TellsOfNoSave
  <2> QED BY <1>12, <2>1, <2>2 DEF TuiSave
<1>13. ASSUME TuiRefused PROVE RegistryInv' /\ Quiet
  <2>1. PICK why \in {"busy", "failed"} : Refuse(why)
    BY <1>13 DEF TuiRefused
  <2> QED BY <2>1, RefuseKeeps
<1>14. ASSUME Restart PROVE RegistryInv' /\ Quiet
  BY <1>1, <1>14, RebootKeeps DEF Restart
<1> QED
  BY <1>2, <1>3, <1>4, <1>5, <1>6, <1>7, <1>8, <1>10, <1>11, <1>12, <1>13, <1>14 DEF Next

-----------------------------------------------------------------------------
(* The theorems *)

LEMMA RegistryInit ==
    ASSUME Init
    PROVE  RegistryInv
<1>1. Sound(Current)
  <2>1. catalogs \in Seq(CatalogType) /\ DOMAIN catalogs = {}
    BY EmptySeq DEF Init
  <2>2. Served(catalogs) = {} /\ EndpointsOf(commands) = {}
    BY <2>1 DEF Init, Served, EndpointsOf
  <2> QED BY <2>1, <2>2, CurrentIs DEF Sound, Distinct, Init
<1>2. FilesFit(files)
  BY DEF Init, FilesFit
<1>3. ConfigFits(config)
  <2>1. config \in Seq(EntryType) /\ DOMAIN config = {}
    BY EmptySeq DEF Init
  <2> QED BY <2>1 DEF ConfigFits, Distinct
<1> QED BY <1>1, <1>2, <1>3 DEF RegistryInv, Init

LEMMA RegistryStep ==
    ASSUME CatalogsAreApart, RegistryInv, [Next]_vars
    PROVE  RegistryInv'
<1>1. CASE Next
  BY <1>1, OperationKeeps
<1>2. CASE UNCHANGED vars
  <2>1. /\ catalogs' = catalogs /\ commands' = commands /\ config' = config /\ files' = files
        /\ reply' = reply /\ tokens' = tokens
    BY <1>2 DEF vars
  <2>2. Hold(Current)
    BY <2>1 DEF Hold, Current, Registry
  <2>3. Sound(Current)'
    BY <2>2, HoldIsSound DEF RegistryInv
  <2> QED BY <2>1, <2>3 DEF RegistryInv
<1> QED BY <1>1, <1>2

LEMMA RegistryIsKept ==
    ASSUME CatalogsAreApart
    PROVE  Spec => []RegistryInv
<1>1. Init => RegistryInv
  BY RegistryInit
<1>2. RegistryInv /\ [Next]_vars => RegistryInv'
  BY RegistryStep
<1> QED BY <1>1, <1>2, PTL DEF Spec

\* The commands offered are those of the enabled catalogs, whatever is
\* imported, patched, removed, rolled back or restarted (models.rs:349-403,
\* catalog_persistence.rs:61-143).
THEOREM CommandsSafety == Spec => []CommandsFollowCatalogs
<1>1. CASE ~CatalogsAreApart
  <2>1. CommandsFollowCatalogs
    BY <1>1 DEF CommandsFollowCatalogs
  <2> QED BY <2>1, PTL
<1>2. CASE CatalogsAreApart
  <2>1. RegistryInv => CommandsFollowCatalogs
    BY DEF RegistryInv, Sound, Current, Registry, CommandsFollowCatalogs, Offered, EndpointsOf
  <2> QED BY <1>2, <2>1, RegistryIsKept, PTL
<1> QED BY <1>1, <1>2

\* What an operation reported as saved is there after the end of the process:
\* the same catalogs, none with tokens for secrets, and the same commands
\* (config.rs:20-74).
THEOREM SavedSafety == CatalogsAreApart => (Spec => []SavedSurvives)
<1> SUFFICES ASSUME CatalogsAreApart PROVE Spec => []SavedSurvives
  OBVIOUS
<1>1. RegistryInv => SavedSurvives
  <2> SUFFICES ASSUME RegistryInv, reply = "ok" PROVE SavedSurvives
    BY DEF SavedSurvives
  <2> DEFINE r == Loaded(config, files)
  <2>1. FilesFit(files) /\ ConfigFits(config) /\ Saved(catalogs, config, files) /\ tokens = {}
    BY DEF RegistryInv
  <2>2. r.cats = catalogs
    BY <2>1, CurrentIs, LoadIsSame
  <2>3. Sound(r)
    BY <2>1, LoadIsSound
  <2> HIDE DEF r
  <2>4. {Endpoint(c) : c \in r.cmds} = Served(catalogs)
    BY <2>2, <2>3 DEF Sound, EndpointsOf
  <2>5. Offered = Served(catalogs)
    BY OfferedIsServed
  <2> QED BY <2>1, <2>2, <2>4, <2>5 DEF SavedSurvives, r
<1> QED BY <1>1, RegistryIsKept, PTL

\* The failures counted are a number.
LEMMA FailuresAreCounted == Spec => [](faults \in Nat)
<1> DEFINE Counts == faults' \in {faults, faults + 1, faults + 2}
<1>1. ASSUME NEW r, NEW toks, NEW fs, NEW waits, SaveAs(r, toks, fs, waits) PROVE Counts
  BY <1>1 DEF SaveAs, Fault, Fail
<1>2. ASSUME NEW why, Refuse(why) PROVE Counts
  BY <1>2 DEF Refuse
<1>3. ASSUME NEW r, Changed(r) PROVE Counts
  BY <1>3 DEF Changed
<1>4. ASSUME NEW t, NEW m, NEW on, NEW overwrite, Import(t, m, on, overwrite) PROVE Counts
  <2>1. ASSUME NEW c, InsertAndPersist(c) PROVE Counts
    BY <1>1, <2>1 DEF InsertAndPersist, Fault, Fail
  <2>2. ASSUME NEW c, ReplaceAndPersist(c) PROVE Counts
    BY <2>2 DEF ReplaceAndPersist, RollBack, Fault, Fail
  <2> QED BY <1>2, <1>4, <2>1, <2>2 DEF Import
<1>5. ASSUME NEW t, NEW m, McpPatch(t, m) PROVE Counts
  BY <1>2, <1>5 DEF McpPatch, ReplaceAndPersist, RollBack, Fault, Fail
<1>6. ASSUME NEW t, TuiRemove(t) PROVE Counts
  BY <1>3, <1>6 DEF TuiRemove, Fault, Fail
<1>7. ASSUME NEW t, NEW manifestToo, McpRemove(t, manifestToo) PROVE Counts
  BY <1>1, <1>7 DEF McpRemove, Fault, Fail
<1>8. ASSUME TuiSave PROVE Counts
  BY <1>1, <1>8 DEF TuiSave
<1> HIDE DEF Counts
<1>9. Next => Counts \/ UNCHANGED faults
  BY <1>1, <1>2, <1>3, <1>4, <1>5, <1>6, <1>7, <1>8
     DEF Next, TuiImport, McpImport, TuiToggle, McpSetEnabled, TuiConfigure, McpConfigure,
         TuiRefused, Restart
<1>10. faults \in Nat /\ [Next]_vars => (faults \in Nat)'
  BY <1>9 DEF Counts, vars
<1>11. Init => faults \in Nat
  BY DEF Init
<1> QED BY <1>10, <1>11, PTL DEF Spec

\* A replacement that fails leaves the catalogs, the commands, the header
\* values of the replaced catalog and, unless its restoration failed too, its
\* manifest file as they were (catalog_persistence.rs:75-97).
THEOREM RollBackSafety == CatalogsAreApart => (Spec => FailedReplaceIsUndone)
<1> SUFFICES ASSUME CatalogsAreApart PROVE Spec => FailedReplaceIsUndone
  OBVIOUS
<1>1. RegistryInv /\ faults \in Nat /\ [Next]_vars =>
          [Undone =>
              /\ ToSet(catalogs') = ToSet(catalogs)
              /\ Offered' = Offered
              /\ LET t == Last(catalogs').title
                 IN  /\ t \in tokens' <=> t \in tokens
                     /\ files[t] # NoFile /\ faults' = faults + 1 =>
                            files'[t] = files[t]]_vars
  <2> SUFFICES ASSUME RegistryInv, faults \in Nat, Next, Undone PROVE PutBack
    BY DEF PutBack
  <2>1. Quiet \/ Replaced
    BY OperationKeeps
  <2>2. ~Quiet
    BY QuietStep
  <2> QED BY <2>1, <2>2 DEF Replaced, Undone
<1> QED BY <1>1, RegistryIsKept, FailuresAreCounted, PTL DEF Spec, FailedReplaceIsUndone

\* A replacement, carried out or undone, sets the position of every command
\* (catalog_persistence.rs:232-249).
THEOREM PositionSafety == CatalogsAreApart => (Spec => ReplaceSetsPositions)
<1> SUFFICES ASSUME CatalogsAreApart PROVE Spec => ReplaceSetsPositions
  OBVIOUS
<1>1. RegistryInv /\ [Next]_vars => [Undone \/ CarriedOut => CommandsKnowTheirCatalog']_vars
  <2> SUFFICES ASSUME RegistryInv, Next, Undone \/ CarriedOut PROVE CommandsKnowTheirCatalog'
    OBVIOUS
  <2>1. Quiet \/ Replaced
    BY OperationKeeps
  <2>2. ~Quiet
    BY QuietStep
  <2> QED BY <2>1, <2>2 DEF Replaced
<1> QED BY <1>1, RegistryIsKept, PTL DEF Spec, ReplaceSetsPositions
=============================================================================
