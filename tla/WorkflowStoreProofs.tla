------------------------- MODULE WorkflowStoreProofs -------------------------
(***************************************************************************)
(* Theorems about WorkflowStore, for every set of agents, identifiers,     *)
(* formats, requests and directories, and every bound.                     *)
(***************************************************************************)
EXTENDS WorkflowStore, TLAPS, WellFoundedInduction

\* Among paths there is an earliest one.
LEMMA EarliestExists ==
    ASSUME NEW S \in SUBSET Paths, S # {}
    PROVE  \E p \in S : \A q \in S : Rank[p] <= Rank[q]
<1> DEFINE R == {ss \in Nat \X Nat : ss[1] < ss[2]}
           T == {Rank[p] : p \in S}
<1>1. IsWellFoundedOn(R, Nat)
  BY NatLessThanWellFounded DEF OpToRel
<1>2. T \subseteq Nat /\ T # {}
  BY StoreAssumption
<1>3. PICK x \in T : \A y \in T : ~ (<<y, x>> \in R)
  <2> HIDE DEF R, T
  <2> QED BY <1>1, <1>2, WFMin
<1>4. ASSUME NEW y \in T
      PROVE  x <= y
  <2>1. x \in Nat /\ y \in Nat /\ ~ (<<y, x>> \in R)
    BY <1>2, <1>3
  <2> QED BY <2>1
<1> QED BY <1>4

LEMMA EarliestIsOne ==
    ASSUME NEW S \in SUBSET Paths, S # {}
    PROVE  Earliest(S) \in S
BY EarliestExists DEF Earliest

\* A lookup finds nothing, or the manifest at a path that names the workflow.
LEMMA AnswerIsHeld ==
    ASSUME NEW dir, NEW id
    PROVE  IF Holding(dir, id) = {} THEN Answer(dir, id) = None
           ELSE /\ Earliest(Holding(dir, id)) \in Paths
                /\ Answer(dir, id) = dir[Earliest(Holding(dir, id))]
                /\ Answer(dir, id) \in Manifests
                /\ Answer(dir, id).id = id
<1>1. Holding(dir, id) \in SUBSET Paths
  BY DEF Holding
<1> QED BY <1>1, EarliestIsOne DEF Answer, Holding

LEMMA AnswerType ==
    ASSUME NEW dir, NEW id
    PROVE  Answer(dir, id) \in Texts
BY AnswerIsHeld DEF Texts

------------------------------------------------------------------------------
(***************************************************************************)
(* Types.  A call that has begun has a request, a text and a path, and one *)
(* that is about to remove a file knows which.                             *)
(***************************************************************************)
Knows(c) ==
    \/ c.pc = "remove"
    \/ c.goal = "target"
    \/ c.pc \in {"open", "fill", "commit"} /\ c.req.op = "rename"
Shaped(c) ==
    /\ c \in CallTypes
    /\ c.pc # "idle" => /\ c.req \in RequestTypes
                        /\ c.text \in Manifests
                        /\ c.path \in Paths
    /\ Knows(c) => c.source \in Paths

StoreTypes ==
    /\ requests \in [Agents -> SUBSET RequestTypes]
    /\ file \in [Paths -> Contents]
    /\ temp \in [Paths -> Contents]
    /\ registry \in [Ids -> Texts]
    /\ known \in [Agents -> Texts]
    /\ calls \in 0..MaxCalls
    /\ faults \in 0..MaxFaults
CallShapes == call \in [Agents -> CallTypes] /\ \A a \in Agents : Shaped(call[a])
TypeInv == StoreTypes /\ CallShapes

LEMMA NothingType == Nothing \in Scans
BY DEF Nothing, Scans, Texts

LEMMA LoadedType ==
    ASSUME NEW dir
    PROVE  Loaded(dir) \in [Ids -> Texts]
BY AnswerType DEF Loaded

\* The values of the fields of a call that are given by name.
LEMMA Values ==
    /\ Steps = {"idle", "list", "read", "open", "fill", "commit", "remove", "done"}
    /\ Goals = {"none", "lookup", "target", "sync", "inputs", "run"}
    /\ Outcomes = {"none", "ok", "error"}
    /\ None \in Texts /\ None \in Contents /\ None \in Places
    /\ None \in Handles /\ None \in MaybeRequests
    /\ Manifests \subseteq Texts /\ Texts \subseteq Contents
    /\ Empty \in Contents /\ Mixed \in Contents
    /\ Paths \subseteq Places /\ RequestTypes \subseteq MaybeRequests
    /\ {} \in SUBSET Paths /\ Nothing \in Scans
BY NothingType DEF Steps, Goals, Outcomes, Texts, Contents, Places, Handles,
                   MaybeRequests, Broken

LEMMA NoCallShaped == Shaped(NoCall)
<1>1. NoCall \in CallTypes
  BY Values DEF NoCall, CallTypes
<1> QED BY <1>1 DEF Shaped, Knows, NoCall

LEMMA AnsweredShaped ==
    ASSUME NEW c, Shaped(c), c.pc # "idle", NEW o \in {"ok", "error"}
    PROVE  Shaped(Answered(c, o))
<1>1. Answered(c, o) \in CallTypes
  BY Values DEF Shaped, CallTypes, Answered
<1>2. /\ Answered(c, o).pc = "done" /\ Answered(c, o).goal = "none"
      /\ Answered(c, o).req = c.req /\ Answered(c, o).text = c.text
      /\ Answered(c, o).path = c.path
  BY DEF Shaped, CallTypes, Answered
<1> QED BY <1>1, <1>2 DEF Shaped, Knows

LEMMA ScanShaped ==
    ASSUME NEW c, Shaped(c), c.pc # "idle",
           NEW g \in {"lookup", "target", "sync", "inputs", "run"},
           g = "target" => c.source \in Paths
    PROVE  Shaped(Scan(c, g))
<1>1. Scan(c, g) \in CallTypes
  BY Values DEF Shaped, CallTypes, Scan
<1>2. /\ Scan(c, g).pc = "list" /\ Scan(c, g).goal = g
      /\ Scan(c, g).req = c.req /\ Scan(c, g).text = c.text
      /\ Scan(c, g).path = c.path /\ Scan(c, g).source = c.source
  BY DEF Shaped, CallTypes, Scan
<1> QED BY <1>1, <1>2 DEF Shaped, Knows

\* A step of one call that leaves it in shape leaves all in shape.
LEMMA SetShaped ==
    ASSUME CallShapes, NEW a \in Agents, NEW c, Shaped(c), Set(a, c)
    PROVE  CallShapes'
BY DEF CallShapes, Set, Shaped

LEMMA EndShaped ==
    ASSUME CallShapes, NEW a \in Agents, call[a].pc # "idle",
           NEW o \in {"ok", "error"}, End(a, o)
    PROVE  CallShapes'
BY AnsweredShaped, SetShaped DEF End, CallShapes

LEMMA FoundType ==
    ASSUME NEW c, Found(c) # None
    PROVE  Found(c) \in Manifests /\ FoundAt(c) \in Paths
BY AnswerIsHeld DEF Found, FoundAt

LEMMA BeginShapes ==
    ASSUME TypeInv, NEW a \in Agents, Begin(a)
    PROVE  TypeInv'
<1> PICK r \in requests[a] :
        LET c == [NoCall EXCEPT
                    !.req = r,
                    !.base = IF r.guarded THEN known[a] ELSE None,
                    !.path = Home(r.id, r.format),
                    !.text = [id |-> r.id, body |-> r.body,
                              format |-> r.format]]
        IN \/ r.op # "tui_import" /\ Set(a, Scan(c, "lookup"))
           \/ r.op = "tui_import" /\ Set(a, [c EXCEPT !.pc = "open"])
           \/ Set(a, Answered(c, "error"))
  BY DEF Begin
<1> DEFINE c == [NoCall EXCEPT
                    !.req = r,
                    !.base = IF r.guarded THEN known[a] ELSE None,
                    !.path = Home(r.id, r.format),
                    !.text = [id |-> r.id, body |-> r.body,
                              format |-> r.format]]
<1>1. r \in RequestTypes
  BY DEF TypeInv, StoreTypes
<1>2. /\ Home(r.id, r.format) \in Paths
      /\ [id |-> r.id, body |-> r.body, format |-> r.format] \in Manifests
      /\ (IF r.guarded THEN known[a] ELSE None) \in Texts
  BY <1>1, Values DEF RequestTypes, Home, Paths, Manifests, TypeInv, StoreTypes
<1>3. NoCall \in CallTypes /\ NoCall.goal = "none"
  BY NoCallShaped DEF Shaped, NoCall
<1>4. c \in CallTypes
  BY <1>1, <1>2, <1>3, Values DEF CallTypes
<1>5. /\ c.req = r /\ c.goal = "none" /\ c.path \in Paths
      /\ c.text \in Manifests
  BY <1>2, <1>3 DEF CallTypes
<1> HIDE DEF c
<1>6. [c EXCEPT !.pc = "list"] \in CallTypes
  BY <1>4, Values DEF CallTypes
<1>7. Shaped(Scan(c, "lookup"))
  <2>1. Scan(c, "lookup") \in CallTypes
    BY <1>4, Values DEF Scan, CallTypes
  <2>2. /\ Scan(c, "lookup").pc = "list" /\ Scan(c, "lookup").goal = "lookup"
        /\ Scan(c, "lookup").req = c.req /\ Scan(c, "lookup").text = c.text
        /\ Scan(c, "lookup").path = c.path
    BY <1>4 DEF Scan, CallTypes
  <2> QED BY <1>1, <1>5, <2>1, <2>2 DEF Shaped, Knows
<1>8. Shaped(Answered(c, "error"))
  <2>1. Answered(c, "error") \in CallTypes
    BY <1>4, Values DEF Answered, CallTypes
  <2>2. /\ Answered(c, "error").pc = "done" /\ Answered(c, "error").goal = "none"
        /\ Answered(c, "error").req = c.req /\ Answered(c, "error").text = c.text
        /\ Answered(c, "error").path = c.path
    BY <1>4 DEF Answered, CallTypes
  <2> QED BY <1>1, <1>5, <2>1, <2>2 DEF Shaped, Knows
<1>9. r.op = "tui_import" => Shaped([c EXCEPT !.pc = "open"])
  <2> DEFINE d == [c EXCEPT !.pc = "open"]
  <2>1. d \in CallTypes
    BY <1>4, Values DEF CallTypes
  <2>2. /\ d.pc = "open" /\ d.goal = c.goal /\ d.req = c.req
        /\ d.text = c.text /\ d.path = c.path
    BY <1>4 DEF CallTypes
  <2> QED BY <1>1, <1>5, <2>1, <2>2 DEF Shaped, Knows
<1>10. CallShapes'
  BY <1>7, <1>8, <1>9, SetShaped DEF c, TypeInv
<1>11. StoreTypes'
  BY StoreAssumption DEF Begin, TypeInv, StoreTypes
<1> QED BY <1>10, <1>11 DEF TypeInv

LEMMA ListShapes ==
    ASSUME TypeInv, NEW a \in Agents, List(a)
    PROVE  TypeInv'
<1> DEFINE todo == {p \in Paths : file[p] # None}
           d == [call[a] EXCEPT !.pc = "read", !.todo = todo]
<1>1. Shaped(call[a]) /\ call[a].pc = "list" /\ Set(a, d)
  BY DEF List, TypeInv, CallShapes
<1>2. d \in CallTypes
  <2>1. todo \in SUBSET Paths
    OBVIOUS
  <2> HIDE DEF todo
  <2> QED BY <1>1, <2>1, Values DEF Shaped, CallTypes
<1>3. /\ d.pc = "read" /\ d.goal = call[a].goal /\ d.req = call[a].req
      /\ d.text = call[a].text /\ d.path = call[a].path
      /\ d.source = call[a].source
  BY <1>1 DEF Shaped, CallTypes
<1>4. Shaped(d)
  BY <1>1, <1>2, <1>3 DEF Shaped, Knows
<1>5. CallShapes'
  <2> HIDE DEF d
  <2> QED BY <1>1, <1>4, SetShaped DEF TypeInv
<1> QED BY <1>5 DEF List, Quiet, TypeInv, StoreTypes

LEMMA ReadShapes ==
    ASSUME TypeInv, NEW a \in Agents, Read(a)
    PROVE  TypeInv'
<1> DEFINE c == call[a]
           p == Earliest(c.todo)
<1>1. Shaped(c) /\ c.pc = "read"
  BY DEF Read, TypeInv, CallShapes
<1>2. p \in Paths
  BY <1>1, EarliestIsOne DEF Read, Shaped, CallTypes
<1> HIDE DEF p
<1>3. ASSUME file[p] \in Manifests, NEW left \in SUBSET Paths,
             Set(a, [c EXCEPT !.seen[p] = file[p], !.todo = left])
      PROVE  CallShapes'
  <2> DEFINE d == [c EXCEPT !.seen[p] = file[p], !.todo = left]
  <2>1. [c.seen EXCEPT ![p] = file[p]] \in Scans
    BY <1>1, <1>2, <1>3, Values DEF Shaped, CallTypes, Scans
  <2>2. d = [c EXCEPT !.seen = [c.seen EXCEPT ![p] = file[p]], !.todo = left]
    BY <1>1 DEF Shaped, CallTypes
  <2>3. d \in CallTypes
    BY <1>1, <2>1, <2>2 DEF Shaped, CallTypes
  <2>4. /\ d.pc = c.pc /\ d.goal = c.goal /\ d.req = c.req
        /\ d.text = c.text /\ d.path = c.path /\ d.source = c.source
    BY <1>1 DEF Shaped, CallTypes
  <2>5. Shaped(d)
    BY <1>1, <2>3, <2>4 DEF Shaped, Knows
  <2> QED BY <1>3, <2>5, SetShaped DEF TypeInv
<1>4. ASSUME Set(a, [c EXCEPT !.todo = c.todo \ {p}])
      PROVE  CallShapes'
  <2> DEFINE d == [c EXCEPT !.todo = c.todo \ {p}]
  <2>1. d \in CallTypes
    BY <1>1 DEF Shaped, CallTypes
  <2>2. /\ d.pc = c.pc /\ d.goal = c.goal /\ d.req = c.req
        /\ d.text = c.text /\ d.path = c.path /\ d.source = c.source
    BY <1>1 DEF Shaped, CallTypes
  <2>3. Shaped(d)
    BY <1>1, <2>1, <2>2 DEF Shaped, Knows
  <2> QED BY <1>4, <2>3, SetShaped DEF TypeInv
<1>5. ASSUME End(a, "error")
      PROVE  CallShapes'
  BY <1>1, <1>5, EndShaped DEF TypeInv
<1>6. c.todo \in SUBSET Paths
  BY <1>1 DEF Shaped, CallTypes
<1>7. CallShapes'
  <2> DEFINE left == IF Tolerant(c) /\ file[p].id = c.req.id
                     THEN {} ELSE c.todo \ {p}
  <2>1. left \in SUBSET Paths
    BY <1>6
  <2>2. \/ file[p] \in Manifests /\ Set(a, [c EXCEPT !.seen[p] = file[p], !.todo = left])
        \/ Set(a, [c EXCEPT !.todo = c.todo \ {p}])
        \/ End(a, "error")
    BY DEF Read, p
  <2> HIDE DEF left
  <2> QED BY <1>3, <1>4, <1>5, <2>1, <2>2
<1> QED BY <1>7 DEF Read, Quiet, TypeInv, StoreTypes

LEMMA GetShapes ==
    ASSUME TypeInv, NEW a \in Agents, Get(a)
    PROVE  TypeInv'
<1>1. call[a].pc # "idle"
  BY DEF Get, Scanned
<1>2. CallShapes'
  BY <1>1, EndShaped DEF Get, TypeInv
<1>3. known' \in [Agents -> Texts]
  BY FoundType, Values DEF Get, TypeInv, StoreTypes
<1> QED BY <1>2, <1>3 DEF Get, Quiet, TypeInv, StoreTypes

\* A call that goes on to write or remove a file.
LEMMA GoOnShaped ==
    ASSUME NEW c, Shaped(c), c.pc # "idle", NEW step \in {"open", "remove"},
           NEW source \in Places,
           step = "remove" \/ c.goal = "target" \/ c.req.op = "rename"
               => source \in Paths
    PROVE  Shaped([c EXCEPT !.pc = step, !.seen = Nothing, !.source = source])
<1> DEFINE d == [c EXCEPT !.pc = step, !.seen = Nothing, !.source = source]
<1>1. d \in CallTypes
  BY Values DEF Shaped, CallTypes
<1>2. /\ d.pc = step /\ d.goal = c.goal /\ d.req = c.req
      /\ d.text = c.text /\ d.path = c.path /\ d.source = source
  BY DEF Shaped, CallTypes
<1> QED BY <1>1, <1>2 DEF Shaped, Knows

LEMMA SaveShapes ==
    ASSUME TypeInv, NEW a \in Agents, Save(a)
    PROVE  TypeInv'
<1> DEFINE c == call[a]
           d == [c EXCEPT !.pc = "open", !.seen = Nothing]
<1>1. /\ Shaped(c) /\ c.pc = "read" /\ c.goal = "lookup"
      /\ c.req.op \in {"save", "author"}
  BY DEF Save, Scanned, TypeInv, CallShapes
<1>2. d = [c EXCEPT !.pc = "open", !.seen = Nothing, !.source = c.source]
  BY <1>1 DEF Shaped, CallTypes
<1>3. Shaped(d)
  <2>1. c.source \in Places
    BY <1>1 DEF Shaped, CallTypes
  <2> QED BY <1>1, <1>2, <2>1, GoOnShaped
<1>4. CallShapes'
  BY <1>1, <1>3, SetShaped, EndShaped DEF Save, TypeInv
<1> QED BY <1>4 DEF Save, Quiet, TypeInv, StoreTypes

LEMMA DeleteShapes ==
    ASSUME TypeInv, NEW a \in Agents, Delete(a)
    PROVE  TypeInv'
<1> DEFINE c == call[a]
           d == [c EXCEPT !.pc = "remove", !.seen = Nothing,
                          !.source = FoundAt(c)]
<1>1. Shaped(c) /\ c.pc = "read"
  BY DEF Delete, Scanned, TypeInv, CallShapes
<1>2. ASSUME Found(c) # None
      PROVE  Shaped(d)
  <2>1. FoundAt(c) \in Paths /\ FoundAt(c) \in Places
    BY <1>2, FoundType, Values
  <2> QED BY <1>1, <2>1, GoOnShaped
<1>3. CallShapes'
  BY <1>1, <1>2, SetShaped, EndShaped DEF Delete, TypeInv
<1> QED BY <1>3 DEF Delete, Quiet, TypeInv, StoreTypes

LEMMA RenameSourceShapes ==
    ASSUME TypeInv, NEW a \in Agents, RenameSource(a)
    PROVE  TypeInv'
<1> DEFINE c == call[a]
           text == [Found(c) EXCEPT !.id = c.req.to]
           path == Home(c.req.to, Found(c).format)
           d == [c EXCEPT !.source = FoundAt(c), !.text = text, !.path = path]
<1>1. Shaped(c) /\ c.pc = "read" /\ c.goal = "lookup" /\ c.req.op = "rename"
  BY DEF RenameSource, Scanned, TypeInv, CallShapes
<1>2. ASSUME Found(c) # None
      PROVE  Shaped(Scan(d, "target"))
  <2>1. FoundAt(c) \in Paths /\ Found(c) \in Manifests
    BY <1>2, FoundType
  <2>2. c.req.to \in Ids
    BY <1>1 DEF Shaped, RequestTypes
  <2>3. text \in Manifests /\ path \in Paths
    BY <2>1, <2>2 DEF Manifests, Home, Paths
  <2> HIDE DEF text, path
  <2>4. d \in CallTypes
    BY <1>1, <2>1, <2>3, Values DEF Shaped, CallTypes
  <2>5. /\ d.pc = c.pc /\ d.goal = c.goal /\ d.req = c.req
        /\ d.text = text /\ d.path = path /\ d.source = FoundAt(c)
    BY <1>1 DEF Shaped, CallTypes
  <2> HIDE DEF d
  <2>6. Shaped(d) /\ d.pc # "idle"
    BY <1>1, <2>1, <2>3, <2>4, <2>5 DEF Shaped, Knows
  <2> QED BY <2>1, <2>5, <2>6, ScanShaped
<1>3. CallShapes'
  BY <1>1, <1>2, SetShaped, EndShaped DEF RenameSource, TypeInv
<1> QED BY <1>3 DEF RenameSource, Quiet, TypeInv, StoreTypes

LEMMA RenameTargetShapes ==
    ASSUME TypeInv, NEW a \in Agents, RenameTarget(a)
    PROVE  TypeInv'
<1> DEFINE c == call[a]
           d == [c EXCEPT !.pc = "open", !.seen = Nothing]
<1>1. Shaped(c) /\ c.pc = "read" /\ c.goal = "target"
  BY DEF RenameTarget, Scanned, TypeInv, CallShapes
<1>2. d = [c EXCEPT !.pc = "open", !.seen = Nothing, !.source = c.source]
  BY <1>1 DEF Shaped, CallTypes
<1>3. Shaped(d)
  <2>1. c.source \in Paths /\ c.source \in Places
    BY <1>1, Values DEF Shaped, Knows
  <2> QED BY <1>1, <1>2, <2>1, GoOnShaped
<1>4. CallShapes'
  BY <1>1, <1>3, SetShaped, EndShaped DEF RenameTarget, TypeInv
<1> QED BY <1>4 DEF RenameTarget, Quiet, TypeInv, StoreTypes

LEMMA OpenShapes ==
    ASSUME TypeInv, NEW a \in Agents, Open(a)
    PROVE  TypeInv'
<1> DEFINE c == call[a]
           h == Target(c)
           d == [c EXCEPT !.pc = "fill", !.handle = h]
<1>1. Shaped(c) /\ c.pc = "open" /\ Set(a, d)
  BY DEF Open, TypeInv, CallShapes
<1>2. h \in Handles
  BY <1>1 DEF Shaped, Target, TempOf, Handles
<1> HIDE DEF h
<1>3. d \in CallTypes
  BY <1>1, <1>2, Values DEF Shaped, CallTypes
<1>4. /\ d.pc = "fill" /\ d.goal = c.goal /\ d.req = c.req
      /\ d.text = c.text /\ d.path = c.path /\ d.source = c.source
  BY <1>1 DEF Shaped, CallTypes
<1>5. Shaped(d)
  BY <1>1, <1>3, <1>4 DEF Shaped, Knows
<1>6. CallShapes'
  BY <1>1, <1>5, SetShaped DEF TypeInv
<1>7. file' \in [Paths -> Contents] /\ temp' \in [Paths -> Contents]
  BY Values DEF Open, TypeInv, StoreTypes
<1> QED BY <1>6, <1>7 DEF Open, Quiet, TypeInv, StoreTypes

LEMMA FillShapes ==
    ASSUME TypeInv, NEW a \in Agents, Fill(a)
    PROVE  TypeInv'
<1> DEFINE c == call[a]
           d == [c EXCEPT !.handle = None]
           e == [c EXCEPT !.pc = "commit", !.handle = None]
<1>1. Shaped(c) /\ c.pc = "fill"
  BY DEF Fill, TypeInv, CallShapes
<1>2. d \in CallTypes /\ e \in CallTypes
  BY <1>1, Values DEF Shaped, CallTypes
<1>3. /\ d.pc = "fill" /\ d.goal = c.goal /\ d.req = c.req
      /\ d.text = c.text /\ d.path = c.path /\ d.source = c.source
      /\ e.pc = "commit" /\ e.goal = c.goal /\ e.req = c.req
      /\ e.text = c.text /\ e.path = c.path /\ e.source = c.source
  BY <1>1 DEF Shaped, CallTypes
<1>4. Set(a, Scan(d, "sync")) \/ Set(a, e)
  BY DEF Fill
<1> HIDE DEF d, e
<1>5. Shaped(d) /\ Shaped(e)
  BY <1>1, <1>2, <1>3 DEF Shaped, Knows
<1>6. CallShapes'
  BY <1>3, <1>4, <1>5, ScanShaped, SetShaped DEF TypeInv
<1>7. \A old : Written(old, c.text) \subseteq Contents
  BY <1>1, Values DEF Written, Shaped
<1>8. file' \in [Paths -> Contents] /\ temp' \in [Paths -> Contents]
  <2>1. CASE c.handle = None \/ c.handle[1] \notin {"file", "temp"}
    BY <2>1 DEF Fill, TypeInv, StoreTypes
  <2>2. CASE c.handle # None /\ c.handle[1] = "file"
    BY <1>7, <2>2 DEF Fill, TypeInv, StoreTypes
  <2>3. CASE c.handle # None /\ c.handle[1] = "temp"
    BY <1>7, <2>3 DEF Fill, TypeInv, StoreTypes
  <2> QED BY <2>1, <2>2, <2>3
<1> QED BY <1>6, <1>8 DEF Fill, Quiet, TypeInv, StoreTypes

\* Handles that follow a file leave the calls in shape.
LEMMA MovedShaped ==
    ASSUME NEW c, Shaped(c), NEW from, NEW to \in Handles
    PROVE  Shaped([c EXCEPT !.handle = Moved(c.handle, from, to)])
<1> DEFINE h == Moved(c.handle, from, to)
           d == [c EXCEPT !.handle = h]
<1>1. h \in Handles
  BY Values DEF Moved, Shaped, CallTypes
<1> HIDE DEF h
<1>2. d \in CallTypes
  BY <1>1 DEF Shaped, CallTypes
<1>3. /\ d.pc = c.pc /\ d.goal = c.goal /\ d.req = c.req
      /\ d.text = c.text /\ d.path = c.path /\ d.source = c.source
  BY DEF Shaped, CallTypes
<1>4. Shaped(d)
  BY <1>2, <1>3 DEF Shaped, Knows
<1> QED BY <1>4 DEF h

LEMMA WithMovedShapes ==
    ASSUME CallShapes, NEW a \in Agents, NEW c, Shaped(c),
           NEW from, NEW to \in Handles,
           call' = WithMoved([call EXCEPT ![a] = c], from, to)
    PROVE  CallShapes'
<1> DEFINE cs == [call EXCEPT ![a] = c]
<1>1. \A b \in Agents : Shaped(cs[b])
  BY DEF CallShapes
<1> HIDE DEF cs
<1>2. \A b \in Agents : Shaped(call'[b])
  BY <1>1, MovedShaped DEF WithMoved, cs
<1> QED BY <1>2 DEF CallShapes, WithMoved, Shaped

LEMMA CommitShapes ==
    ASSUME TypeInv, NEW a \in Agents, Commit(a)
    PROVE  TypeInv'
<1> DEFINE c == call[a]
           t == TempOf(c.path)
           over == file[c.path]
           shown == Answer(file, c.text.id)
           d == [c EXCEPT !.over = over, !.shown = shown]
<1>1. Shaped(c) /\ c.pc = "commit" /\ t \in Paths
  BY DEF Commit, TypeInv, CallShapes, Shaped, TempOf
<1>2. over \in Contents /\ shown \in Texts
  BY <1>1, AnswerType DEF TypeInv, StoreTypes, Shaped
<1>3. ASSUME temp[t] # None,
             call' = WithMoved([call EXCEPT ![a] = AfterCommit(d)],
                               <<"temp", t>>, <<"file", c.path>>)
      PROVE  CallShapes'
  <2> HIDE DEF over, shown
  <2>1. d \in CallTypes
    BY <1>1, <1>2 DEF Shaped, CallTypes
  <2>2. /\ d.pc = c.pc /\ d.goal = c.goal /\ d.req = c.req
        /\ d.text = c.text /\ d.path = c.path /\ d.source = c.source
    BY <1>1 DEF Shaped, CallTypes
  <2>3. Shaped(d)
    BY <1>1, <2>1, <2>2 DEF Shaped, Knows
  <2>4. d.req.op = "rename" => d.source \in Paths
    BY <1>1, <2>2 DEF Shaped, Knows
  <2>5. <<"file", c.path>> \in Handles
    BY <1>1 DEF Shaped, Handles
  <2> HIDE DEF d
  <2>6. d.req.op = "rename" => Shaped([d EXCEPT !.pc = "remove"])
    <3> DEFINE e == [d EXCEPT !.pc = "remove"]
    <3>1. e \in CallTypes
      BY <2>1, Values DEF CallTypes
    <3>2. /\ e.pc = "remove" /\ e.goal = d.goal /\ e.req = d.req
          /\ e.text = d.text /\ e.path = d.path /\ e.source = d.source
      BY <2>1 DEF CallTypes
    <3> QED BY <1>1, <2>2, <2>3, <2>4, <3>1, <3>2 DEF Shaped, Knows
  <2>7. Shaped(AfterCommit(d))
    BY <1>1, <2>2, <2>3, <2>6, ScanShaped DEF AfterCommit
  <2> QED BY <1>3, <2>5, <2>7, WithMovedShapes DEF TypeInv
<1>4. CallShapes'
  BY <1>1, <1>3, EndShaped DEF Commit, TypeInv
<1>5. file' \in [Paths -> Contents] /\ temp' \in [Paths -> Contents]
  BY <1>1, Values DEF Commit, TypeInv, StoreTypes
<1> QED BY <1>4, <1>5 DEF Commit, Quiet, TypeInv, StoreTypes

LEMMA RemoveShapes ==
    ASSUME TypeInv, NEW a \in Agents, Remove(a)
    PROVE  TypeInv'
<1> DEFINE c == call[a]
<1>1. Shaped(c) /\ c.pc = "remove"
  BY DEF Remove, TypeInv, CallShapes
<1>2. Shaped(Scan(c, "sync"))
  BY <1>1, ScanShaped
<1>3. CallShapes'
  BY <1>1, <1>2, SetShaped, EndShaped, WithMovedShapes, Values DEF Remove, TypeInv
<1>4. file' \in [Paths -> Contents]
  BY Values DEF Remove, TypeInv, StoreTypes
<1> QED BY <1>3, <1>4 DEF Remove, Quiet, TypeInv, StoreTypes

LEMMA PublishShapes ==
    ASSUME TypeInv, NEW a \in Agents, Publish(a)
    PROVE  TypeInv'
<1> DEFINE c == call[a]
<1>1. Shaped(c) /\ c.pc = "read"
  BY DEF Publish, Scanned, TypeInv, CallShapes
<1>2. Shaped(Scan(c, "inputs"))
  BY <1>1, ScanShaped
<1>3. CallShapes'
  BY <1>1, <1>2, SetShaped, EndShaped DEF Publish, TypeInv
<1>4. registry' \in [Ids -> Texts]
  BY LoadedType DEF Publish, TypeInv, StoreTypes
<1> QED BY <1>3, <1>4 DEF Publish, Quiet, TypeInv, StoreTypes

LEMMA ResolveInputsShapes ==
    ASSUME TypeInv, NEW a \in Agents, ResolveInputs(a)
    PROVE  TypeInv'
<1> DEFINE c == call[a]
<1>1. Shaped(c) /\ c.pc = "read"
  BY DEF ResolveInputs, Scanned, TypeInv, CallShapes
<1>2. Shaped(Scan(c, "run"))
  BY <1>1, ScanShaped
<1>3. CallShapes'
  BY <1>1, <1>2, SetShaped, EndShaped DEF ResolveInputs, TypeInv
<1> QED BY <1>3 DEF ResolveInputs, Quiet, TypeInv, StoreTypes

LEMMA RunShapes ==
    ASSUME TypeInv, NEW a \in Agents, Run(a)
    PROVE  TypeInv'
<1> DEFINE c == call[a]
           d == [c EXCEPT !.ran = Found(c)]
<1>1. Shaped(c) /\ c.pc = "read"
  BY DEF Run, Scanned, TypeInv, CallShapes
<1>2. Found(c) \in Texts
  BY AnswerType DEF Found
<1>3. d \in CallTypes
  BY <1>1, <1>2 DEF Shaped, CallTypes
<1>4. /\ d.pc = c.pc /\ d.goal = c.goal /\ d.req = c.req
      /\ d.text = c.text /\ d.path = c.path /\ d.source = c.source
  BY <1>1 DEF Shaped, CallTypes
<1>5. End(a, "error") \/ Set(a, Answered(d, "ok"))
  BY DEF Run
<1> HIDE DEF d
<1>6. Shaped(Answered(d, "ok"))
  BY <1>1, <1>3, <1>4, AnsweredShaped DEF Shaped, Knows
<1>7. CallShapes'
  BY <1>1, <1>5, <1>6, SetShaped, EndShaped DEF TypeInv
<1> QED BY <1>7 DEF Run, Quiet, TypeInv, StoreTypes

LEMMA FaultShapes ==
    ASSUME TypeInv, Restart \/ \E a \in Agents : Fail(a)
    PROVE  TypeInv'
<1>1. CASE Restart
  <2>1. call' \in [Agents -> CallTypes] /\ \A a \in Agents : Shaped(call'[a])
    BY <1>1, NoCallShaped DEF Restart, Shaped
  <2>2. known' \in [Agents -> Texts] /\ registry' \in [Ids -> Texts]
    BY <1>1, LoadedType, Values DEF Restart
  <2>3. faults' \in 0..MaxFaults
    BY <1>1, StoreAssumption DEF Restart, TypeInv, StoreTypes
  <2> QED BY <1>1, <2>1, <2>2, <2>3 DEF Restart, TypeInv, StoreTypes, CallShapes
<1>2. ASSUME NEW a \in Agents, Fail(a)
      PROVE  TypeInv'
  <2>1. CallShapes'
    BY <1>2, EndShaped DEF Fail, TypeInv
  <2>2. faults' \in 0..MaxFaults
    BY <1>2, StoreAssumption DEF Fail, TypeInv, StoreTypes
  <2> QED BY <1>2, <2>1, <2>2 DEF Fail, TypeInv, StoreTypes
<1> QED BY <1>1, <1>2

LEMMA InitShapes ==
    ASSUME Init
    PROVE  TypeInv
<1>1. file \in [Paths -> Contents] /\ temp \in [Paths -> Contents]
  BY StoreAssumption, Values DEF Init, Contents, Nothing
<1>2. registry \in [Ids -> Texts] /\ known \in [Agents -> Texts]
  BY LoadedType, Values DEF Init
<1>3. CallShapes
  BY NoCallShaped DEF Init, CallShapes, Shaped
<1> QED BY <1>1, <1>2, <1>3, StoreAssumption DEF Init, TypeInv, StoreTypes

LEMMA NextShapes ==
    ASSUME TypeInv, [Next]_vars
    PROVE  TypeInv'
<1>1. CASE UNCHANGED vars
  BY <1>1 DEF vars, TypeInv, StoreTypes, CallShapes
<1>2. CASE Restart
  BY <1>2, FaultShapes
<1>3. ASSUME NEW a \in Agents, Step(a)
      PROVE  TypeInv'
  BY <1>3, BeginShapes, ListShapes, ReadShapes, GetShapes, SaveShapes,
     DeleteShapes, RenameSourceShapes, RenameTargetShapes, OpenShapes,
     FillShapes, CommitShapes, RemoveShapes, PublishShapes,
     ResolveInputsShapes, RunShapes, FaultShapes DEF Step
<1> QED BY <1>1, <1>2, <1>3 DEF Next

(***************************************************************************)
(* The variables of the store keep to their types: a call that has begun   *)
(* has what it needs for each of its steps.                                *)
(***************************************************************************)
THEOREM StoreTyping == Spec => []TypeOK
<1>1. TypeInv => TypeOK
  BY DEF TypeInv, StoreTypes, CallShapes, TypeOK
<1> QED BY InitShapes, NextShapes, <1>1, PTL DEF Spec

------------------------------------------------------------------------------
(***************************************************************************)
(* Names.  In a directory that starts out with files named after their     *)
(* workflows they stay so, and whatever a call writes, holds open or means *)
(* to remove bears the name of a workflow the call is about.               *)
(***************************************************************************)
FilesNamed(dir) == \A p \in Paths : dir[p] \in Manifests => dir[p].id = p[1]
Named(c) ==
    /\ c.pc # "idle" => /\ c.path[1] = c.text.id
                        /\ c.text.id \in {c.req.id, c.req.to}
    /\ c.source # None => c.source[1] = c.req.id
    /\ c.handle # None => c.pc = "fill" /\ c.handle[2] = c.path
    /\ FilesNamed(c.seen)
NameInv ==
    /\ FilesNamed(file)
    /\ FilesNamed(temp)
    /\ \A a \in Agents : Named(call[a])

LEMMA NothingNamed == FilesNamed(Nothing)
BY StoreAssumption DEF FilesNamed, Nothing

LEMMA NoCallNamed == Named(NoCall)
BY NothingNamed DEF Named, NoCall

LEMMA AnsweredNamed ==
    ASSUME NEW c, Shaped(c), Named(c), c.pc # "idle", NEW o
    PROVE  Named(Answered(c, o))
<1> DEFINE d == Answered(c, o)
<1>1. /\ d.req = c.req /\ d.text = c.text /\ d.path = c.path
      /\ d.source = c.source /\ d.handle = None /\ d.seen = Nothing
  BY DEF Shaped, CallTypes, Answered
<1> QED BY <1>1, NothingNamed DEF Named

LEMMA ScanNamed ==
    ASSUME NEW c, Shaped(c), Named(c), c.pc # "idle", c.handle = None, NEW g
    PROVE  Named(Scan(c, g))
<1> DEFINE d == Scan(c, g)
<1>1. /\ d.req = c.req /\ d.text = c.text /\ d.path = c.path
      /\ d.source = c.source /\ d.handle = None /\ d.seen = Nothing
  BY DEF Shaped, CallTypes, Scan
<1> QED BY <1>1, NothingNamed DEF Named

\* A step of one call that leaves the files alone.
LEMMA SetNamed ==
    ASSUME CallShapes, NameInv, UNCHANGED <<file, temp>>,
           NEW a \in Agents, NEW c, Named(c), Set(a, c)
    PROVE  NameInv'
BY DEF NameInv, Set, CallShapes

LEMMA EndNamed ==
    ASSUME CallShapes, NameInv, UNCHANGED <<file, temp>>,
           NEW a \in Agents, call[a].pc # "idle", NEW o, End(a, o)
    PROVE  NameInv'
BY AnsweredNamed, SetNamed DEF End, CallShapes, NameInv

LEMMA FoundNamed ==
    ASSUME NEW c, FilesNamed(c.seen), Found(c) # None
    PROVE  Found(c).id = c.req.id /\ FoundAt(c)[1] = c.req.id
BY AnswerIsHeld DEF Found, FoundAt, FilesNamed

LEMMA BeginNames ==
    ASSUME TypeInv, NameInv, NEW a \in Agents, Begin(a)
    PROVE  NameInv'
<1> PICK r \in requests[a] :
        LET c == [NoCall EXCEPT
                    !.req = r,
                    !.base = IF r.guarded THEN known[a] ELSE None,
                    !.path = Home(r.id, r.format),
                    !.text = [id |-> r.id, body |-> r.body,
                              format |-> r.format]]
        IN \/ Set(a, Scan(c, "lookup"))
           \/ Set(a, [c EXCEPT !.pc = "open"])
           \/ Set(a, Answered(c, "error"))
  BY DEF Begin
<1> DEFINE c == [NoCall EXCEPT
                    !.req = r,
                    !.base = IF r.guarded THEN known[a] ELSE None,
                    !.path = Home(r.id, r.format),
                    !.text = [id |-> r.id, body |-> r.body,
                              format |-> r.format]]
<1>1. /\ DOMAIN c = DOMAIN NoCall
      /\ c.req = r /\ c.path = Home(r.id, r.format) /\ c.text.id = r.id
      /\ c.source = None /\ c.handle = None /\ c.seen = Nothing
  BY DEF NoCall
<1>2. c.path[1] = r.id
  BY <1>1 DEF Home
<1> HIDE DEF c
<1>3. /\ Scan(c, "lookup").req = c.req /\ Scan(c, "lookup").text = c.text
      /\ Scan(c, "lookup").path = c.path /\ Scan(c, "lookup").source = None
      /\ Scan(c, "lookup").handle = None /\ Scan(c, "lookup").seen = Nothing
  BY <1>1 DEF Scan, NoCall
<1>4. /\ Answered(c, "error").req = c.req /\ Answered(c, "error").text = c.text
      /\ Answered(c, "error").path = c.path /\ Answered(c, "error").source = None
      /\ Answered(c, "error").handle = None /\ Answered(c, "error").seen = Nothing
  BY <1>1 DEF Answered, NoCall
<1>5. Named(Scan(c, "lookup")) /\ Named(Answered(c, "error"))
  BY <1>1, <1>2, <1>3, <1>4, NothingNamed DEF Named
<1>6. Named([c EXCEPT !.pc = "open"])
  BY <1>1, <1>2, NothingNamed DEF Named
<1> QED BY <1>5, <1>6, SetNamed DEF c, Begin, TypeInv

LEMMA ReadNames ==
    ASSUME TypeInv, NameInv, NEW a \in Agents, List(a) \/ Read(a)
    PROVE  NameInv'
<1> DEFINE c == call[a]
           p == Earliest(c.todo)
<1>1. Shaped(c) /\ Named(c) /\ c.pc \in {"list", "read"}
  BY DEF List, Read, TypeInv, CallShapes, NameInv
<1>2. CASE List(a)
  <2> DEFINE d == [c EXCEPT !.pc = "read",
                            !.todo = {q \in Paths : file[q] # None}]
  <2>1. /\ d.req = c.req /\ d.text = c.text /\ d.path = c.path
        /\ d.source = c.source /\ d.handle = c.handle /\ d.seen = c.seen
    BY <1>1 DEF Shaped, CallTypes
  <2>2. Set(a, d) /\ UNCHANGED <<file, temp>>
    BY <1>2 DEF List
  <2> HIDE DEF d
  <2>3. Named(d)
    BY <1>1, <1>2, <2>1 DEF Named, List
  <2> QED BY <2>2, <2>3, SetNamed DEF TypeInv
<1>3. CASE Read(a)
  <2> DEFINE left == IF Tolerant(c) /\ file[p].id = c.req.id
                     THEN {} ELSE c.todo \ {p}
             d == [c EXCEPT !.seen[p] = file[p], !.todo = left]
             e == [c EXCEPT !.todo = c.todo \ {p}]
  <2>1. p \in Paths /\ UNCHANGED <<file, temp>>
    BY <1>1, <1>3, EarliestIsOne DEF Read, Shaped, CallTypes
  <2>2. \/ Set(a, d) \/ Set(a, e) \/ End(a, "error")
    BY <1>3 DEF Read
  <2> HIDE DEF p, left
  <2>3. /\ d.req = c.req /\ d.text = c.text /\ d.path = c.path /\ d.pc = c.pc
        /\ d.source = c.source /\ d.handle = c.handle
        /\ d.seen = [c.seen EXCEPT ![p] = file[p]]
        /\ e.req = c.req /\ e.text = c.text /\ e.path = c.path /\ e.pc = c.pc
        /\ e.source = c.source /\ e.handle = c.handle /\ e.seen = c.seen
    BY <1>1 DEF Shaped, CallTypes
  <2> HIDE DEF d, e
  <2>4. FilesNamed([c.seen EXCEPT ![p] = file[p]])
    BY <1>1, <2>1 DEF FilesNamed, Named, NameInv, Shaped, CallTypes, Scans
  <2>5. Named(d) /\ Named(e)
    BY <1>1, <2>3, <2>4 DEF Named
  <2> QED BY <1>1, <2>1, <2>2, <2>5, SetNamed, EndNamed DEF TypeInv
<1> QED BY <1>2, <1>3

\* A call whose lookup has ended goes on, or means to remove what it found.
LEMMA GoOnNamed ==
    ASSUME NEW c, Shaped(c), Named(c), c.pc = "read",
           NEW step \in {"open", "remove"}, NEW source,
           source # None => source[1] = c.req.id
    PROVE  Named([c EXCEPT !.pc = step, !.seen = Nothing, !.source = source])
<1> DEFINE d == [c EXCEPT !.pc = step, !.seen = Nothing, !.source = source]
<1>1. /\ d.req = c.req /\ d.text = c.text /\ d.path = c.path
      /\ d.source = source /\ d.handle = c.handle /\ d.seen = Nothing
  BY DEF Shaped, CallTypes
<1> HIDE DEF d
<1>2. Named(d)
  BY <1>1, NothingNamed DEF Named
<1> QED BY <1>2 DEF d

LEMMA DecideNames ==
    ASSUME TypeInv, NameInv, NEW a \in Agents,
           Get(a) \/ Save(a) \/ Delete(a) \/ RenameTarget(a)
    PROVE  NameInv'
<1> DEFINE c == call[a]
           d == [c EXCEPT !.pc = "open", !.seen = Nothing]
           e == [c EXCEPT !.pc = "remove", !.seen = Nothing,
                          !.source = FoundAt(c)]
<1>1. Shaped(c) /\ Named(c) /\ c.pc = "read" /\ UNCHANGED <<file, temp>>
  BY DEF Get, Save, Delete, RenameTarget, Scanned, TypeInv, CallShapes, NameInv
<1>2. \/ End(a, "ok") \/ End(a, "error") \/ Set(a, d)
      \/ Found(c) # None /\ Set(a, e)
  BY DEF Get, Save, Delete, RenameTarget
<1>3. Named(d)
  <2>1. d = [c EXCEPT !.pc = "open", !.seen = Nothing, !.source = c.source]
    BY <1>1 DEF Shaped, CallTypes
  <2>2. c.source # None => c.source[1] = c.req.id
    BY <1>1 DEF Named
  <2> QED BY <1>1, <2>1, <2>2, GoOnNamed
<1>4. Found(c) # None => Named(e)
  BY <1>1, FoundNamed, GoOnNamed DEF Named
<1> QED BY <1>1, <1>2, <1>3, <1>4, SetNamed, EndNamed DEF TypeInv

LEMMA RenameSourceNames ==
    ASSUME TypeInv, NameInv, NEW a \in Agents, RenameSource(a)
    PROVE  NameInv'
<1> DEFINE c == call[a]
           text == [Found(c) EXCEPT !.id = c.req.to]
           path == Home(c.req.to, Found(c).format)
           d == [c EXCEPT !.source = FoundAt(c), !.text = text, !.path = path]
           e == Scan(d, "target")
<1>1. Shaped(c) /\ Named(c) /\ c.pc = "read" /\ UNCHANGED <<file, temp>>
  BY DEF RenameSource, Scanned, TypeInv, CallShapes, NameInv
<1>2. End(a, "error") \/ (Found(c) # None /\ Set(a, e))
  BY DEF RenameSource
<1>3. ASSUME Found(c) # None
      PROVE  Named(e)
  <2>1. /\ FoundAt(c)[1] = c.req.id /\ text.id = c.req.to
        /\ path[1] = c.req.to
    BY <1>1, <1>3, FoundType, FoundNamed DEF Named, Manifests, Home
  <2> HIDE DEF text, path
  <2>2. /\ e.req = c.req /\ e.text = text /\ e.path = path
        /\ e.source = FoundAt(c) /\ e.handle = c.handle /\ e.seen = Nothing
    BY <1>1 DEF Shaped, CallTypes, Scan
  <2>3. c.handle = None
    BY <1>1 DEF Named
  <2> HIDE DEF e
  <2> QED BY <2>1, <2>2, <2>3, NothingNamed DEF Named
<1> QED BY <1>1, <1>2, <1>3, SetNamed, EndNamed DEF TypeInv

LEMMA PublishNames ==
    ASSUME TypeInv, NameInv, NEW a \in Agents,
           Publish(a) \/ ResolveInputs(a)
    PROVE  NameInv'
<1> DEFINE c == call[a]
<1>1. /\ Shaped(c) /\ Named(c) /\ c.pc = "read" /\ c.handle = None
      /\ UNCHANGED <<file, temp>>
  BY DEF Publish, ResolveInputs, Scanned, TypeInv, CallShapes, NameInv, Named
<1>2. \/ End(a, "ok") \/ End(a, "error")
      \/ Set(a, Scan(c, "inputs")) \/ Set(a, Scan(c, "run"))
  BY DEF Publish, ResolveInputs
<1>3. Named(Scan(c, "inputs")) /\ Named(Scan(c, "run"))
  BY <1>1, ScanNamed
<1> QED BY <1>1, <1>2, <1>3, SetNamed, EndNamed DEF TypeInv

LEMMA RunNames ==
    ASSUME TypeInv, NameInv, NEW a \in Agents, Run(a) \/ Fail(a)
    PROVE  NameInv'
<1> DEFINE c == call[a]
           d == [c EXCEPT !.ran = Found(c)]
           e == Answered(d, "ok")
<1>1. Shaped(c) /\ Named(c) /\ c.pc # "idle" /\ UNCHANGED <<file, temp>>
  BY DEF Run, Fail, Scanned, TypeInv, CallShapes, NameInv
<1>2. Set(a, e) \/ End(a, "error")
  BY DEF Run, Fail
<1>3. /\ e.req = c.req /\ e.text = c.text /\ e.path = c.path
      /\ e.source = c.source /\ e.handle = None /\ e.seen = Nothing
  BY <1>1 DEF Shaped, CallTypes, Answered
<1>4. Named(e)
  <2> HIDE DEF e
  <2> QED BY <1>1, <1>3, NothingNamed DEF Named
<1> QED BY <1>1, <1>2, <1>4, SetNamed, EndNamed DEF TypeInv

LEMMA RestartNames ==
    ASSUME NameInv, Restart
    PROVE  NameInv'
BY NoCallNamed DEF Restart, NameInv

LEMMA MovedNamed ==
    ASSUME NEW c, Shaped(c), Named(c), NEW p \in Paths,
           NEW from \in {<<"file", p>>, <<"temp", p>>},
           NEW to \in {<<"file", p>>, None}
    PROVE  Named([c EXCEPT !.handle = Moved(c.handle, from, to)])
<1> DEFINE h == Moved(c.handle, from, to)
           d == [c EXCEPT !.handle = h]
<1>1. from # None
  BY StoreAssumption
<1>2. h # None => c.handle # None /\ h[2] = c.path
  BY <1>1 DEF Moved, Named
<1> HIDE DEF h
<1>3. /\ d.pc = c.pc /\ d.req = c.req /\ d.text = c.text /\ d.path = c.path
      /\ d.source = c.source /\ d.handle = h /\ d.seen = c.seen
  BY DEF Shaped, CallTypes
<1> HIDE DEF d
<1>4. Named(d)
  BY <1>2, <1>3 DEF Named
<1> QED BY <1>4 DEF d, h

LEMMA WithMovedNamed ==
    ASSUME CallShapes, NameInv, NEW a \in Agents, NEW c, Shaped(c), Named(c),
           NEW p \in Paths, NEW from \in {<<"file", p>>, <<"temp", p>>},
           NEW to \in {<<"file", p>>, None},
           call' = WithMoved([call EXCEPT ![a] = c], from, to)
    PROVE  /\ \A b \in Agents : Named(call'[b])
           /\ call'[a].pc = c.pc
<1> DEFINE cs == [call EXCEPT ![a] = c]
<1>1. \A b \in Agents : Shaped(cs[b]) /\ Named(cs[b])
  BY DEF CallShapes, NameInv
<1>2. cs[a] = c
  BY DEF CallShapes
<1> HIDE DEF cs
<1>3. \A b \in Agents :
          call'[b] = [cs[b] EXCEPT !.handle = Moved(cs[b].handle, from, to)]
  BY DEF WithMoved, cs
<1>4. call'[a].pc = c.pc
  BY <1>2, <1>3 DEF Shaped, CallTypes
<1>5. ASSUME NEW b \in Agents
      PROVE  Named(call'[b])
  <2>1. Named([cs[b] EXCEPT !.handle = Moved(cs[b].handle, from, to)])
    BY <1>1, MovedNamed
  <2> QED BY <1>3, <2>1
<1> QED BY <1>4, <1>5

\* What a step of a call may do to the files, and to the call.
Within(a) ==
    /\ call'[a] # call[a] /\ call[a].req # None
    /\ \A p \in Paths : file'[p] # file[p] =>
           p[1] \in {call[a].req.id, call[a].req.to}

LEMMA CallIsBegun ==
    ASSUME TypeInv, NEW a \in Agents, call[a].pc # "idle"
    PROVE  call[a].req # None
BY StoreAssumption DEF TypeInv, CallShapes, Shaped

LEMMA OpenNames ==
    ASSUME TypeInv, NameInv, NEW a \in Agents, Open(a)
    PROVE  NameInv' /\ Within(a)
<1> DEFINE c == call[a]
           h == Target(c)
           d == [c EXCEPT !.pc = "fill", !.handle = h]
<1>1. Shaped(c) /\ Named(c) /\ c.pc = "open" /\ Set(a, d) /\ c.req # None
  BY CallIsBegun DEF Open, TypeInv, CallShapes, NameInv
<1>2. h[2] = c.path /\ c.path \in Paths
  BY <1>1 DEF Target, TempOf, Shaped
<1>3. /\ \A p \in Paths : file'[p] # file[p] => p = c.path /\ file'[p] = Empty
      /\ \A p \in Paths : temp'[p] # temp[p] => p = c.path /\ temp'[p] = Empty
  BY <1>2 DEF Open, TypeInv, StoreTypes
<1> HIDE DEF h
<1>4. /\ d.pc = "fill" /\ d.req = c.req /\ d.text = c.text /\ d.path = c.path
      /\ d.source = c.source /\ d.handle = h /\ d.seen = c.seen
  BY <1>1 DEF Shaped, CallTypes
<1> HIDE DEF d
<1>5. Named(d)
  BY <1>1, <1>2, <1>4 DEF Named
<1>6. FilesNamed(file') /\ FilesNamed(temp')
  BY <1>3, StoreAssumption DEF FilesNamed, NameInv, Broken
<1>7. /\ \A b \in Agents : Named(call'[b])
      /\ call'[a].pc = "fill"
  BY <1>1, <1>4, <1>5 DEF Set, NameInv, TypeInv, CallShapes
<1> QED BY <1>1, <1>3, <1>6, <1>7 DEF NameInv, Within, Named

LEMMA FillNames ==
    ASSUME TypeInv, NameInv, NEW a \in Agents, Fill(a)
    PROVE  NameInv' /\ Within(a)
<1> DEFINE c == call[a]
           d == [c EXCEPT !.handle = None]
           e == [c EXCEPT !.pc = "commit", !.handle = None]
           s == Scan(d, "sync")
<1>1. Shaped(c) /\ Named(c) /\ c.pc = "fill" /\ c.req # None
  BY CallIsBegun DEF Fill, TypeInv, CallShapes, NameInv
<1>2. c.path[1] = c.text.id /\ c.text.id \in {c.req.id, c.req.to}
  BY <1>1 DEF Named
<1>3. \A old : \A w \in Written(old, c.text) :
          w \in Manifests => w.id = c.text.id
  BY StoreAssumption DEF Written, Broken
<1>4. \A p \in Paths : file'[p] # file[p] \/ temp'[p] # temp[p] => p = c.path
  BY <1>1 DEF Fill, Named, TypeInv, StoreTypes
<1>5. /\ \A p \in Paths : file'[p] # file[p] /\ file'[p] \in Manifests =>
             file'[p].id = c.text.id
      /\ \A p \in Paths : temp'[p] # temp[p] /\ temp'[p] \in Manifests =>
             temp'[p].id = c.text.id
  BY <1>1, <1>3 DEF Fill, TypeInv, StoreTypes
<1>6. FilesNamed(file') /\ FilesNamed(temp')
  BY <1>2, <1>4, <1>5 DEF FilesNamed, NameInv
<1>7. /\ s.pc = "list" /\ s.req = c.req /\ s.text = c.text /\ s.path = c.path
      /\ s.source = c.source /\ s.handle = None /\ s.seen = Nothing
      /\ e.pc = "commit" /\ e.req = c.req /\ e.text = c.text
      /\ e.path = c.path /\ e.source = c.source /\ e.handle = None
      /\ e.seen = c.seen
  BY <1>1 DEF Shaped, CallTypes, Scan
<1>8. Set(a, s) \/ Set(a, e)
  BY DEF Fill
<1> HIDE DEF s, e
<1>9. Named(s) /\ Named(e)
  BY <1>1, <1>7, NothingNamed DEF Named
<1>10. /\ \A b \in Agents : Named(call'[b])
       /\ call'[a].pc # "fill"
  BY <1>7, <1>8, <1>9 DEF Set, NameInv, TypeInv, CallShapes
<1> QED BY <1>1, <1>2, <1>4, <1>6, <1>10 DEF NameInv, Within

LEMMA CommitNames ==
    ASSUME TypeInv, NameInv, NEW a \in Agents, Commit(a)
    PROVE  NameInv' /\ Within(a)
<1> DEFINE c == call[a]
           t == TempOf(c.path)
           d == [c EXCEPT !.over = file[c.path],
                          !.shown = Answer(file, c.text.id)]
           e == AfterCommit(d)
<1>1. Shaped(c) /\ Named(c) /\ c.pc = "commit" /\ c.req # None
  BY CallIsBegun DEF Commit, TypeInv, CallShapes, NameInv
<1>2. /\ c.path \in Paths /\ t = c.path
      /\ c.path[1] \in {c.req.id, c.req.to} /\ c.handle = None
  BY <1>1 DEF Shaped, Named, TempOf
<1>3. CASE End(a, "error") /\ UNCHANGED <<file, temp>>
  <2>1. call'[a].pc = "done"
    BY <1>1, <1>3 DEF End, Set, Answered, TypeInv, CallShapes, Shaped, CallTypes
  <2>2. call'[a] # call[a]
    BY <1>1, <2>1
  <2> QED BY <1>1, <1>3, <2>2, EndNamed DEF TypeInv, Within
<1>4. CASE /\ file' = [file EXCEPT ![c.path] = temp[t]]
           /\ temp' = [temp EXCEPT ![t] = None]
           /\ call' = WithMoved([call EXCEPT ![a] = e],
                                <<"temp", t>>, <<"file", c.path>>)
  <2>1. \A p \in Paths : file'[p] # file[p] => p = c.path /\ file'[p] = temp[p]
    BY <1>2, <1>4 DEF TypeInv, StoreTypes
  <2>2. \A p \in Paths : temp'[p] # temp[p] => temp'[p] = None
    BY <1>2, <1>4 DEF TypeInv, StoreTypes
  <2>3. FilesNamed(file') /\ FilesNamed(temp')
    BY <2>1, <2>2, StoreAssumption DEF FilesNamed, NameInv
  <2>4. d \in CallTypes
    <3>1. file[c.path] \in Contents /\ Answer(file, c.text.id) \in Texts
      BY <1>2, AnswerType DEF TypeInv, StoreTypes
    <3> QED BY <1>1, <3>1 DEF Shaped, CallTypes
  <2>5. /\ d.pc = c.pc /\ d.req = c.req /\ d.text = c.text /\ d.path = c.path
        /\ d.source = c.source /\ d.handle = None /\ d.seen = c.seen
        /\ d.goal = c.goal
    BY <1>1, <1>2 DEF Shaped, CallTypes
  <2> HIDE DEF d
  <2>6. Shaped(d) /\ Named(d)
    BY <1>1, <2>4, <2>5 DEF Shaped, Knows, Named
  <2>7. /\ e.pc \in {"remove", "list"} /\ e.req = d.req /\ e.text = d.text
        /\ e.path = d.path /\ e.source = d.source /\ e.handle = None
        /\ e.seen \in {d.seen, Nothing}
    BY <2>4, <2>5 DEF AfterCommit, Scan, CallTypes
  <2>8. Named(e)
    <3> HIDE DEF e
    <3> QED BY <1>1, <2>5, <2>6, <2>7, NothingNamed DEF Named
  <2>9. Shaped(e)
    <3>1. ASSUME d.req.op = "rename"
          PROVE  Shaped([d EXCEPT !.pc = "remove"])
      <4>1. d.source \in Paths
        BY <1>1, <2>5, <3>1 DEF Shaped, Knows
      <4> DEFINE f == [d EXCEPT !.pc = "remove"]
      <4>2. f \in CallTypes
        BY <2>4, Values DEF CallTypes
      <4>3. /\ f.pc = "remove" /\ f.req = d.req /\ f.text = d.text
            /\ f.path = d.path /\ f.source = d.source /\ f.goal = d.goal
        BY <2>4 DEF CallTypes
      <4> HIDE DEF f
      <4>4. Shaped(f)
        BY <1>1, <2>5, <2>6, <4>1, <4>2, <4>3 DEF Shaped, Knows
      <4> QED BY <4>4 DEF f
    <3> QED BY <1>1, <2>5, <2>6, <3>1, ScanShaped DEF AfterCommit
  <2> HIDE DEF e
  <2>10. /\ \A b \in Agents : Named(call'[b])
         /\ call'[a].pc = e.pc
    BY <1>2, <1>4, <2>8, <2>9, WithMovedNamed DEF TypeInv
  <2>11. call'[a] # call[a]
    BY <1>1, <2>7, <2>10
  <2> QED BY <1>1, <1>2, <2>1, <2>3, <2>10, <2>11 DEF NameInv, Within
<1> QED BY <1>3, <1>4 DEF Commit

LEMMA RemoveNames ==
    ASSUME TypeInv, NameInv, NEW a \in Agents, Remove(a)
    PROVE  NameInv' /\ Within(a)
<1> DEFINE c == call[a]
           e == Scan(c, "sync")
<1>1. Shaped(c) /\ Named(c) /\ c.pc = "remove" /\ c.req # None
  BY CallIsBegun DEF Remove, TypeInv, CallShapes, NameInv
<1>2. c.handle = None /\ c.source \in Paths
  BY <1>1 DEF Named, Shaped, Knows
<1>3. Shaped(e) /\ Named(e) /\ e.pc = "list"
  <2>1. e.pc = "list"
    BY <1>1 DEF Scan, Shaped, CallTypes
  <2> QED BY <1>1, <1>2, <2>1, ScanShaped, ScanNamed
<1>4. CASE End(a, "error") /\ UNCHANGED <<file, temp>>
  <2>1. call'[a].pc = "done"
    BY <1>1, <1>4 DEF End, Set, Answered, TypeInv, CallShapes, Shaped, CallTypes
  <2>2. call'[a] # call[a]
    BY <1>1, <2>1
  <2> QED BY <1>1, <1>4, <2>2, EndNamed DEF TypeInv, Within
<1> HIDE DEF e
<1>5. CASE Set(a, e) /\ UNCHANGED <<file, temp>>
  <2>1. call'[a] # call[a]
    BY <1>1, <1>3, <1>5 DEF Set, TypeInv, CallShapes
  <2> QED BY <1>1, <1>3, <1>5, <2>1, SetNamed DEF TypeInv, Within
<1>6. CASE /\ file[c.source] # None
           /\ file' = [file EXCEPT ![c.source] = None]
           /\ call' = WithMoved([call EXCEPT ![a] = e],
                                <<"file", c.source>>, None)
           /\ UNCHANGED temp
  <2>1. \A p \in Paths : file'[p] # file[p] => p = c.source /\ file'[p] = None
    BY <1>6 DEF TypeInv, StoreTypes
  <2>2. FilesNamed(file') /\ FilesNamed(temp')
    BY <1>6, <2>1, StoreAssumption DEF FilesNamed, NameInv
  <2>3. /\ \A b \in Agents : Named(call'[b])
        /\ call'[a].pc = e.pc
    BY <1>2, <1>3, <1>6, WithMovedNamed DEF TypeInv
  <2>4. call'[a] # call[a]
    BY <1>1, <1>3, <2>3
  <2>5. c.source[1] = c.req.id
    BY <1>1, <1>2, StoreAssumption DEF Named
  <2> QED BY <1>1, <2>1, <2>2, <2>3, <2>4, <2>5 DEF NameInv, Within
<1> QED BY <1>4, <1>5, <1>6 DEF Remove, e

LEMMA InitNames ==
    ASSUME NamedAfterWorkflows, Init
    PROVE  NameInv
<1>1. FilesNamed(file)
  BY StoreAssumption DEF Init, NamedAfterWorkflows, FilesNamed
<1> QED BY <1>1, NothingNamed, NoCallNamed DEF Init, NameInv

\* A step keeps the names, and one that changes a file is a step of a call
\* whose workflow the file is named after.
LEMMA NextNames ==
    ASSUME TypeInv, NameInv, [Next]_vars
    PROVE  /\ NameInv'
           /\ UNCHANGED file \/ \E a \in Agents : Within(a)
<1>1. CASE UNCHANGED vars
  BY <1>1 DEF vars, NameInv
<1>2. CASE Restart
  BY <1>2, RestartNames DEF Restart
<1>3. ASSUME NEW a \in Agents, Step(a)
      PROVE  NameInv' /\ (UNCHANGED file \/ Within(a))
  <2>1. CASE Begin(a)
    BY <2>1, BeginNames DEF Begin
  <2>2. CASE List(a) \/ Read(a)
    BY <2>2, ReadNames DEF List, Read
  <2>3. CASE Get(a) \/ Save(a) \/ Delete(a) \/ RenameTarget(a)
    BY <2>3, DecideNames DEF Get, Save, Delete, RenameTarget
  <2>4. CASE RenameSource(a)
    BY <2>4, RenameSourceNames DEF RenameSource
  <2>5. CASE Open(a)
    BY <2>5, OpenNames
  <2>6. CASE Fill(a)
    BY <2>6, FillNames
  <2>7. CASE Commit(a)
    BY <2>7, CommitNames
  <2>8. CASE Remove(a)
    BY <2>8, RemoveNames
  <2>9. CASE Publish(a) \/ ResolveInputs(a)
    BY <2>9, PublishNames DEF Publish, ResolveInputs
  <2>10. CASE Run(a) \/ Fail(a)
    BY <2>10, RunNames DEF Run, Fail
  <2> QED BY <1>3, <2>1, <2>2, <2>3, <2>4, <2>5, <2>6, <2>7, <2>8, <2>9,
             <2>10 DEF Step
<1> QED BY <1>1, <1>2, <1>3 DEF Next

\* What a lookup answers depends only on the files named after the workflow.
LEMMA AnswerOfNamed ==
    ASSUME NEW dir, NEW dirNew, FilesNamed(dir), FilesNamed(dirNew), NEW id,
           \A p \in Paths : p[1] = id => dirNew[p] = dir[p]
    PROVE  Answer(dirNew, id) = Answer(dir, id)
<1>1. Holding(dirNew, id) = Holding(dir, id)
  BY DEF Holding, FilesNamed
<1>2. CASE Holding(dir, id) = {}
  BY <1>1, <1>2 DEF Answer
<1>3. CASE Holding(dir, id) # {}
  <2> DEFINE p == Earliest(Holding(dir, id))
  <2>1. p \in Holding(dir, id)
    <3>1. Holding(dir, id) \in SUBSET Paths
      BY DEF Holding
    <3> QED BY <1>3, <3>1, EarliestIsOne
  <2> HIDE DEF p
  <2>2. dirNew[p] = dir[p]
    BY <2>1 DEF Holding, FilesNamed
  <2> QED BY <1>1, <1>3, <2>2 DEF Answer, p
<1> QED BY <1>2, <1>3

(***************************************************************************)
(* Where files are named after their workflows, no step of a call changes  *)
(* what a lookup answers for a workflow the call is not about: not the     *)
(* steps that truncate, fill, rename or remove files, however the calls of *)
(* all agents and of the TUI meet, and whatever fails or dies.  The names  *)
(* are invariant because a call derives every path it touches from its own *)
(* request, or from a scan that saw only such files.                       *)
(***************************************************************************)
THEOREM CallsKeepToTheirWorkflows ==
    ASSUME NamedAfterWorkflows
    PROVE  Spec => OthersUntouched
<1> DEFINE OneStep ==
        \A id \in Ids : Answer(file', id) # Answer(file, id) =>
            \E a \in Agents : call'[a] # call[a] /\ call[a].req # None
                             /\ id \in {call[a].req.id, call[a].req.to}
<1>1. Init => TypeInv /\ NameInv
  BY InitShapes, InitNames
<1>2. TypeInv /\ NameInv /\ [Next]_vars => (TypeInv /\ NameInv)'
  BY NextShapes, NextNames
<1>3. TypeInv /\ NameInv /\ [Next]_vars => [OneStep]_vars
  <2> SUFFICES ASSUME TypeInv, NameInv, [Next]_vars,
                      NEW id \in Ids, Answer(file', id) # Answer(file, id)
               PROVE  \E a \in Agents :
                          call'[a] # call[a] /\ call[a].req # None
                          /\ id \in {call[a].req.id, call[a].req.to}
    OBVIOUS
  <2>1. PICK a \in Agents : Within(a)
    BY NextNames
  <2>2. FilesNamed(file) /\ FilesNamed(file')
    BY NextNames DEF NameInv
  <2>3. id \in {call[a].req.id, call[a].req.to}
    BY <2>1, <2>2, AnswerOfNamed DEF Within
  <2> QED BY <2>1, <2>3 DEF Within
<1>4. Spec => [][OneStep]_vars
  BY <1>1, <1>2, <1>3, PTL DEF Spec
<1> QED BY <1>4 DEF OthersUntouched

------------------------------------------------------------------------------
(***************************************************************************)
(* One agent.  When only one agent asks for anything, and the TUI for      *)
(* nothing, the other calls rest: the directory changes under nobody's     *)
(* scan, and the temporary file of a call is its own.                      *)
(***************************************************************************)
Sole(m) ==
    /\ \A b \in Agents \ {m} : requests[b] = {}
    /\ \A r \in requests[m] :
           /\ r.op \notin {"tui_import", "tui_remove"}
           /\ r.guarded => r.op \in {"save", "author"}

Scanning(c) == c.pc \in {"list", "read"}
Seeking(c) == Scanning(c) /\ c.goal = "target"
Writing(c) == c.pc \in {"open", "fill", "commit"}

\* The write of the call, and the removal it asks for, are behind it.
Past(c) ==
    \/ Scanning(c) /\ c.goal \in {"sync", "inputs", "run"}
    \/ Succeeded(c)

\* A call is of a tool, its path is that of its text, and its text names the
\* workflow that it is to store.
AimFits(c) ==
    /\ c.pc # "idle" =>
          /\ ~InTui(c)
          /\ c.path[1] = c.text.id
          /\ c.req.op # "rename" => c.text.id = c.req.id
          /\ c.base # None => c.req.op \in {"save", "author"}
    /\ Seeking(c) => c.req.op = "rename"
    /\ (Writing(c) \/ Seeking(c)) /\ c.req.op = "rename" => c.text.id = c.req.to

\* What a scan has seen so far is what the directory holds.
ScanFits(c, dir) ==
    /\ c.pc = "list" => c.seen = Nothing
    /\ c.pc = "read" =>
          \A p \in Paths : c.seen[p] = IF p \in c.todo THEN None ELSE dir[p]

\* A call fills the temporary file that it has opened, and moves what it wrote.
TempFits(c, tmp) ==
    /\ c.pc = "fill" => c.handle = <<"temp", c.path>> /\ tmp[c.path] = Empty
    /\ c.pc = "commit" => tmp[c.path] = c.text

\* What a call has stored, removed and published is as the call left it.
WorkFits(c, dir, reg) ==
    /\ (c.pc = "remove" \/ Past(c)) /\ Stores(c) => dir[c.path] = c.text
    /\ Past(c) /\ c.req.op = "rename" /\ c.source # c.path => dir[c.source] = None
    /\ c.pc = "remove" => \/ c.req.op = "delete"
                          \/ c.req.op = "rename" /\ c.source # c.path
    /\ Scanning(c) /\ c.goal \in {"inputs", "run"} => reg = Loaded(dir)
    /\ Succeeded(c) /\ c.req.op \in Changes => reg = Loaded(dir)
    /\ Succeeded(c) /\ c.req.op = "author" => c.ran = Answer(dir, c.text.id)

\* A rename keeps the body at its source until it is at its target.
SourceFits(c, dir) ==
    (Seeking(c) \/ Writing(c) \/ c.pc = "remove") /\ c.req.op = "rename" =>
        dir[c.source] \in Manifests /\ dir[c.source].body = c.text.body

\* A call that is about to write may still do so, and one that has written could.
Allowed(c, over, shown) ==
    /\ c.req.overwrite \/ over = None \/ ~NamedAfterWorkflows
    /\ c.base = None \/ shown \in {c.base, None}
RightFits(c, dir) ==
    /\ Writing(c) => Allowed(c, Answer(dir, c.text.id), Answer(dir, c.text.id))
    /\ (c.pc = "remove" \/ Past(c)) /\ Stores(c) => Allowed(c, c.over, c.shown)

Fits(c, dir, tmp, reg) ==
    /\ AimFits(c) /\ ScanFits(c, dir) /\ TempFits(c, tmp)
    /\ WorkFits(c, dir, reg) /\ SourceFits(c, dir) /\ RightFits(c, dir)

InOrder(m) == Readable(file) /\ Fits(call[m], file, temp, registry)
SoleInv ==
    \A m \in Agents : Sole(m) =>
        InOrder(m) /\ \A b \in Agents \ {m} : call[b] = NoCall

\* The earliest path comes before every other.
LEMMA EarliestIsFirst ==
    ASSUME NEW S \in SUBSET Paths, NEW q \in S
    PROVE  /\ Earliest(S) \in S
           /\ Earliest(S) # q => Rank[Earliest(S)] < Rank[q]
<1>1. Earliest(S) \in S
  BY EarliestIsOne
<1>2. \E p \in S : \A other \in S : Rank[p] <= Rank[other]
  BY EarliestExists
<1>3. Rank[Earliest(S)] <= Rank[q]
  BY <1>2 DEF Earliest
<1>4. Rank[Earliest(S)] \in Nat /\ Rank[q] \in Nat
  BY <1>1, StoreAssumption
<1>5. Earliest(S) # q => Rank[Earliest(S)] # Rank[q]
  BY <1>1, StoreAssumption
<1> QED BY <1>1, <1>3, <1>4, <1>5

\* A text that is stored is found, or one at an earlier path is.
LEMMA StoredIsFound ==
    ASSUME NEW dir, NEW path \in Paths, dir[path] \in Manifests
    PROVE  \/ Answer(dir, dir[path].id) = dir[path]
           \/ \E p \in Holding(dir, dir[path].id) : Rank[p] < Rank[path]
<1> DEFINE S == Holding(dir, dir[path].id)
<1>1. S \in SUBSET Paths /\ path \in S
  BY DEF Holding
<1>2. /\ Earliest(S) \in S
      /\ Earliest(S) # path => Rank[Earliest(S)] < Rank[path]
  BY <1>1, EarliestIsFirst
<1>3. Earliest(S) = path => Answer(dir, dir[path].id) = dir[path]
  BY <1>1 DEF Answer
<1> QED BY <1>2, <1>3

\* In a directory whose files are whole and named after their workflows, what
\* is not found has no file.
LEMMA NotFoundNoFile ==
    ASSUME NEW dir \in [Paths -> Contents], Readable(dir), FilesNamed(dir),
           NEW path \in Paths, Answer(dir, path[1]) = None
    PROVE  dir[path] = None
<1>1. dir[path] \in Manifests \/ dir[path] = None
  BY DEF Readable, Contents
<1>2. dir[path] \in Manifests => path \in Holding(dir, path[1])
  BY DEF FilesNamed, Holding
<1>3. Holding(dir, path[1]) = {}
  BY AnswerIsHeld, StoreAssumption
<1> QED BY <1>1, <1>2, <1>3

\* A scan that has read all it listed has seen the directory.
LEMMA ScanIsWhole ==
    ASSUME NEW c, Shaped(c), NEW dir \in [Paths -> Contents], ScanFits(c, dir),
           c.pc = "read", c.todo = {}
    PROVE  c.seen = dir
<1>1. c.seen \in [Paths -> Texts]
  BY DEF Shaped, CallTypes, Scans
<1>2. \A p \in Paths : c.seen[p] = dir[p]
  BY DEF ScanFits
<1> QED BY <1>1, <1>2

\* What a call has once it has answered, and once it scans.
LEMMA AnsweredFields ==
    ASSUME NEW c, Shaped(c), NEW o \in {"ok", "error"}
    PROVE  LET d == Answered(c, o) IN
           /\ d.pc = "done" /\ d.goal = "none" /\ d.outcome = o
           /\ d.req = c.req /\ d.text = c.text /\ d.path = c.path
           /\ d.base = c.base /\ d.source = c.source /\ d.ran = c.ran
           /\ d.over = c.over /\ d.shown = c.shown
BY DEF Shaped, CallTypes, Answered

LEMMA ScanFields ==
    ASSUME NEW c, Shaped(c), NEW g
    PROVE  LET d == Scan(c, g) IN
           /\ d.pc = "list" /\ d.goal = g /\ d.seen = Nothing
           /\ d.req = c.req /\ d.text = c.text /\ d.path = c.path
           /\ d.base = c.base /\ d.source = c.source /\ d.ran = c.ran
           /\ d.over = c.over /\ d.shown = c.shown
BY DEF Shaped, CallTypes, Scan

\* A call that ends with an error claims nothing.
LEMMA ErrorFits ==
    ASSUME NEW c, Shaped(c), AimFits(c), c.pc # "idle", NEW dir, NEW tmp, NEW reg
    PROVE  Fits(Answered(c, "error"), dir, tmp, reg)
<1> DEFINE d == Answered(c, "error")
<1>1. /\ d.pc = "done" /\ d.outcome = "error" /\ d.req = c.req /\ d.text = c.text
      /\ d.path = c.path /\ d.base = c.base
  BY AnsweredFields
<1> HIDE DEF d
<1>2. AimFits(d)
  BY <1>1 DEF AimFits, InTui, Seeking, Scanning, Writing
<1>3. ScanFits(d, dir) /\ TempFits(d, tmp)
  BY <1>1 DEF ScanFits, TempFits
<1>4. WorkFits(d, dir, reg) /\ SourceFits(d, dir) /\ RightFits(d, dir)
  BY <1>1 DEF WorkFits, SourceFits, RightFits, Succeeded, Past, Seeking, Scanning, Writing
<1>5. Fits(d, dir, tmp, reg)
  BY <1>2, <1>3, <1>4 DEF Fits
<1> QED BY <1>5 DEF d

LEMMA NoCallFits ==
    ASSUME NEW dir, NEW tmp, NEW reg
    PROVE  Fits(NoCall, dir, tmp, reg)
<1>1. NoCall.pc = "idle"
  BY DEF NoCall
<1> QED BY <1>1 DEF Fits, AimFits, ScanFits, TempFits, WorkFits, SourceFits, RightFits, Succeeded,
                    Past, Seeking, Scanning, Writing

\* The call of an agent after a step that sets it.
LEMMA SetCall ==
    ASSUME CallShapes, NEW m \in Agents, NEW d, Set(m, d)
    PROVE  call'[m] = d /\ \A b \in Agents \ {m} : call'[b] = call[b]
BY DEF CallShapes, Set

LEMMA SetFits ==
    ASSUME CallShapes, NEW m \in Agents, NEW d, Set(m, d), Readable(file'),
           Fits(d, file', temp', registry')
    PROVE  InOrder(m)'
BY SetCall DEF InOrder

LEMMA EndFits ==
    ASSUME CallShapes, NEW m \in Agents, InOrder(m), call[m].pc # "idle", End(m, "error"),
           UNCHANGED file
    PROVE  InOrder(m)'
<1>1. Shaped(call[m]) /\ AimFits(call[m])
  BY DEF CallShapes, InOrder, Fits
<1>2. Fits(Answered(call[m], "error"), file', temp', registry')
  BY <1>1, ErrorFits
<1>3. Readable(file')
  BY DEF InOrder
<1> QED BY <1>2, <1>3, SetFits DEF End

\* A call that still looks its workflow up claims nothing either.
LEMMA LookupFits ==
    ASSUME NEW d, Scanning(d), d.goal = "lookup", AimFits(d), NEW dir, ScanFits(d, dir),
           NEW tmp, NEW reg
    PROVE  Fits(d, dir, tmp, reg)
<1>1. d.pc \in {"list", "read"}
  BY DEF Scanning
<1>2. TempFits(d, tmp)
  BY <1>1 DEF TempFits
<1>3. WorkFits(d, dir, reg) /\ SourceFits(d, dir) /\ RightFits(d, dir)
  BY <1>1 DEF WorkFits, SourceFits, RightFits, Succeeded, Past, Seeking, Writing
<1> QED BY <1>2, <1>3 DEF Fits

LEMMA BeginInOrder ==
    ASSUME TypeInv, NEW m \in Agents, Sole(m), InOrder(m), Begin(m)
    PROVE  InOrder(m)'
<1> PICK r \in requests[m] :
        LET c == [NoCall EXCEPT
                    !.req = r,
                    !.base = IF r.guarded THEN known[m] ELSE None,
                    !.path = Home(r.id, r.format),
                    !.text = [id |-> r.id, body |-> r.body,
                              format |-> r.format]]
        IN \/ r.op # "tui_import" /\ Set(m, Scan(c, "lookup"))
           \/ r.op = "tui_import" /\ Set(m, [c EXCEPT !.pc = "open"])
           \/ Set(m, Answered(c, "error"))
  BY DEF Begin
<1> DEFINE c == [NoCall EXCEPT
                    !.req = r,
                    !.base = IF r.guarded THEN known[m] ELSE None,
                    !.path = Home(r.id, r.format),
                    !.text = [id |-> r.id, body |-> r.body,
                              format |-> r.format]]
<1>1. /\ r \in RequestTypes /\ r.op \notin {"tui_import", "tui_remove"}
      /\ r.guarded => r.op \in {"save", "author"}
  BY DEF TypeInv, StoreTypes, Sole
<1>2. /\ Home(r.id, r.format) \in Paths /\ Home(r.id, r.format)[1] = r.id
      /\ [id |-> r.id, body |-> r.body, format |-> r.format] \in Manifests
      /\ (IF r.guarded THEN known[m] ELSE None) \in Texts
  BY <1>1, Values DEF RequestTypes, Home, Paths, Manifests, TypeInv, StoreTypes
<1>3. NoCall \in CallTypes /\ NoCall.goal = "none" /\ NoCall.pc = "idle"
  BY NoCallShaped DEF Shaped, NoCall
<1>4. c \in CallTypes
  BY <1>1, <1>2, <1>3, Values DEF CallTypes
<1>5. /\ c.req = r /\ c.goal = "none" /\ c.pc = "idle" /\ c.path[1] = r.id /\ c.text.id = r.id
      /\ c.base # None => r.guarded
  BY <1>2, <1>3 DEF CallTypes
<1> HIDE DEF c
<1>6. Shaped(c)
  BY <1>4, <1>5 DEF Shaped, Knows
<1>7. ASSUME NEW d, d.req = c.req, d.text = c.text, d.path = c.path, d.base = c.base,
             d.pc \in {"list", "done"}, d.goal # "target"
      PROVE  AimFits(d)
  BY <1>1, <1>5, <1>7 DEF AimFits, InTui, Seeking, Writing
<1>8. Fits(Scan(c, "lookup"), file, temp, registry)
  <2> DEFINE d == Scan(c, "lookup")
  <2>1. /\ d.pc = "list" /\ d.goal = "lookup" /\ d.seen = Nothing /\ d.req = c.req
        /\ d.text = c.text /\ d.path = c.path /\ d.base = c.base
    BY <1>6, ScanFields
  <2> HIDE DEF d
  <2>2. Fits(d, file, temp, registry)
    <3>1. AimFits(d)
      BY <1>7, <2>1
    <3>2. Scanning(d) /\ ScanFits(d, file)
      BY <2>1 DEF Scanning, ScanFits
    <3> QED BY <2>1, <3>1, <3>2, LookupFits
  <2> QED BY <2>2 DEF d
<1>9. Fits(Answered(c, "error"), file, temp, registry)
  <2> DEFINE d == Answered(c, "error")
  <2>1. /\ d.pc = "done" /\ d.goal = "none" /\ d.outcome = "error" /\ d.req = c.req
        /\ d.text = c.text /\ d.path = c.path /\ d.base = c.base
    BY <1>6, AnsweredFields
  <2> HIDE DEF d
  <2>2. AimFits(d)
    BY <1>7, <2>1
  <2>3. Fits(d, file, temp, registry)
    BY <2>1, <2>2 DEF Fits, ScanFits, TempFits, WorkFits, SourceFits, RightFits, Succeeded, Past,
                      Seeking, Scanning, Writing
  <2> QED BY <2>3 DEF d
<1>10. UNCHANGED <<file, temp, registry>> /\ Readable(file)
  BY DEF Begin, InOrder
<1>11. Set(m, Scan(c, "lookup")) \/ Set(m, Answered(c, "error"))
  BY <1>1 DEF c
<1>12. CallShapes /\ Readable(file')
  BY <1>10 DEF TypeInv
<1> QED BY <1>8, <1>9, <1>10, <1>11, <1>12, SetFits

\* A call that only goes on with its scan.
LEMMA ScanGoesOn ==
    ASSUME NEW c, NEW d, NEW dir, NEW tmp, NEW reg, Fits(c, dir, tmp, reg), Scanning(c), Scanning(d),
           d.goal = c.goal, d.req = c.req, d.text = c.text, d.path = c.path, d.base = c.base,
           d.source = c.source, d.over = c.over, d.shown = c.shown, ScanFits(d, dir)
    PROVE  Fits(d, dir, tmp, reg)
<1>1. c.pc \in {"list", "read"} /\ d.pc \in {"list", "read"}
  BY DEF Scanning
<1>2. AimFits(d) /\ TempFits(d, tmp)
  BY <1>1 DEF Fits, AimFits, InTui, Seeking, Scanning, Writing, TempFits
<1>3. WorkFits(d, dir, reg)
  BY <1>1 DEF Fits, WorkFits, Stores, Past, Succeeded, Scanning
<1>4. SourceFits(d, dir)
  BY <1>1 DEF Fits, SourceFits, Seeking, Scanning, Writing
<1>5. RightFits(d, dir)
  BY <1>1 DEF Fits, RightFits, Allowed, Stores, Past, Succeeded, Scanning, Writing
<1> QED BY <1>2, <1>3, <1>4, <1>5 DEF Fits

LEMMA ListInOrder ==
    ASSUME TypeInv, NEW m \in Agents, InOrder(m), List(m)
    PROVE  InOrder(m)'
<1> DEFINE c == call[m]
           todo == {p \in Paths : file[p] # None}
           d == [c EXCEPT !.pc = "read", !.todo = todo]
<1>1. Shaped(c) /\ c.pc = "list" /\ Set(m, d) /\ UNCHANGED <<file, temp, registry>>
  BY DEF List, TypeInv, CallShapes
<1>2. Readable(file) /\ Fits(c, file, temp, registry)
  BY DEF InOrder
<1>3. todo \in SUBSET Paths /\ \A p \in Paths \ todo : file[p] = None
  OBVIOUS
<1> HIDE DEF todo
<1>4. /\ d.pc = "read" /\ d.goal = c.goal /\ d.req = c.req /\ d.text = c.text /\ d.path = c.path
      /\ d.base = c.base /\ d.source = c.source /\ d.over = c.over /\ d.shown = c.shown
      /\ d.seen = c.seen /\ d.todo = todo
  BY <1>1 DEF Shaped, CallTypes
<1> HIDE DEF d
<1>5. c.seen = Nothing
  BY <1>1, <1>2 DEF Fits, ScanFits
<1>6. ScanFits(d, file)
  BY <1>3, <1>4, <1>5 DEF ScanFits, Nothing
<1>7. Fits(d, file, temp, registry)
  BY <1>1, <1>2, <1>4, <1>6, ScanGoesOn DEF Scanning
<1> HIDE DEF c
<1> QED BY <1>1, <1>2, <1>7, SetFits DEF TypeInv

LEMMA ReadInOrder ==
    ASSUME TypeInv, NEW m \in Agents, InOrder(m), Read(m)
    PROVE  InOrder(m)'
<1> DEFINE c == call[m]
           p == Earliest(c.todo)
           d == [c EXCEPT !.seen[p] = file[p], !.todo = c.todo \ {p}]
<1>1. /\ Shaped(c) /\ c.pc = "read" /\ UNCHANGED <<file, temp, registry>>
      /\ c.todo \in SUBSET Paths
  BY DEF Read, TypeInv, CallShapes, Shaped, CallTypes
<1>2. Readable(file) /\ Fits(c, file, temp, registry)
  BY DEF InOrder
<1>3. ~Tolerant(c)
  BY <1>1, <1>2 DEF Fits, AimFits, InTui, Tolerant
<1>4. p \in Paths /\ p \in c.todo
  BY <1>1, EarliestIsOne DEF Read
<1>5. Set(m, d) \/ End(m, "error")
  BY <1>3 DEF Read
<1> HIDE DEF p
<1>6. /\ d.pc = "read" /\ d.goal = c.goal /\ d.req = c.req /\ d.text = c.text /\ d.path = c.path
      /\ d.base = c.base /\ d.source = c.source /\ d.over = c.over /\ d.shown = c.shown
      /\ d.todo = c.todo \ {p} /\ d.seen = [c.seen EXCEPT ![p] = file[p]]
  BY <1>1 DEF Shaped, CallTypes
<1> HIDE DEF d
<1>7. ScanFits(d, file)
  <2>1. c.seen \in [Paths -> Texts]
    BY <1>1 DEF Shaped, CallTypes, Scans
  <2>2. \A q \in Paths : c.seen[q] = IF q \in c.todo THEN None ELSE file[q]
    BY <1>1, <1>2 DEF Fits, ScanFits
  <2>3. \A q \in Paths : d.seen[q] = IF q \in d.todo THEN None ELSE file[q]
    BY <1>4, <1>6, <2>1, <2>2
  <2> QED BY <1>6, <2>3 DEF ScanFits
<1>8. Fits(d, file, temp, registry)
  BY <1>1, <1>2, <1>6, <1>7, ScanGoesOn DEF Scanning
<1>9. call[m].pc # "idle"
  BY <1>1
<1> HIDE DEF c
<1> QED BY <1>1, <1>2, <1>5, <1>8, <1>9, SetFits, EndFits DEF TypeInv

\* What a finished scan finds is what is there.
LEMMA FoundIsThere ==
    ASSUME TypeInv, NEW m \in Agents, InOrder(m), NEW goal, Scanned(m, goal)
    PROVE  LET c == call[m] IN
           /\ Shaped(c) /\ c.pc = "read" /\ c.goal = goal /\ c.seen = file
           /\ Found(c) = Answer(file, c.req.id)
           /\ Found(c) # None =>
                 /\ FoundAt(c) \in Paths /\ file[FoundAt(c)] = Found(c) /\ Found(c) \in Manifests
<1> DEFINE c == call[m]
<1>1. /\ Shaped(c) /\ c.pc = "read" /\ c.todo = {} /\ c.goal = goal
      /\ file \in [Paths -> Contents] /\ ScanFits(c, file)
  BY DEF Scanned, TypeInv, CallShapes, StoreTypes, InOrder, Fits
<1>2. c.seen = file
  BY <1>1, ScanIsWhole
<1> QED BY <1>1, <1>2, AnswerIsHeld DEF Found, FoundAt

LEMMA GetInOrder ==
    ASSUME TypeInv, NEW m \in Agents, InOrder(m), Get(m)
    PROVE  InOrder(m)'
<1> DEFINE c == call[m]
           d == Answered(c, "ok")
<1>1. /\ Shaped(c) /\ c.pc = "read" /\ c.req.op = "get" /\ UNCHANGED <<file, temp, registry>>
      /\ End(m, "error") \/ Set(m, d)
  BY DEF Get, Scanned, End, TypeInv, CallShapes
<1>2. Readable(file) /\ Fits(c, file, temp, registry)
  BY DEF InOrder
<1>3. /\ d.pc = "done" /\ d.req = c.req /\ d.text = c.text /\ d.path = c.path /\ d.base = c.base
  BY <1>1, AnsweredFields
<1> HIDE DEF d
<1>4. AimFits(d)
  BY <1>1, <1>2, <1>3 DEF Fits, AimFits, InTui, Seeking, Scanning, Writing
<1>5. WorkFits(d, file, registry) /\ RightFits(d, file) /\ SourceFits(d, file)
  BY <1>1, <1>3 DEF WorkFits, RightFits, SourceFits, Stores, Changes, Seeking, Scanning, Writing
<1>6. Fits(d, file, temp, registry)
  BY <1>3, <1>4, <1>5 DEF Fits, ScanFits, TempFits
<1>7. call[m].pc # "idle"
  BY <1>1
<1> HIDE DEF c
<1> QED BY <1>1, <1>2, <1>6, <1>7, SetFits, EndFits DEF TypeInv

\* A call that goes on to write what it may.
LEMMA OpeningFits ==
    ASSUME NEW c, Shaped(c), AimFits(c), NEW dir, NEW tmp, NEW reg, c.pc = "read",
           c.req.op = "rename" => c.text.id = c.req.to /\ SourceFits(c, dir) /\ Seeking(c),
           Allowed(c, Answer(dir, c.text.id), Answer(dir, c.text.id))
    PROVE  Fits([c EXCEPT !.pc = "open", !.seen = Nothing], dir, tmp, reg)
<1> DEFINE d == [c EXCEPT !.pc = "open", !.seen = Nothing]
<1>1. /\ d.pc = "open" /\ d.goal = c.goal /\ d.req = c.req /\ d.text = c.text /\ d.path = c.path
      /\ d.base = c.base /\ d.source = c.source
  BY DEF Shaped, CallTypes
<1> HIDE DEF d
<1>2. AimFits(d)
  BY <1>1 DEF AimFits, InTui, Seeking, Scanning
<1>3. ScanFits(d, dir) /\ TempFits(d, tmp) /\ WorkFits(d, dir, reg)
  BY <1>1 DEF ScanFits, TempFits, WorkFits, Past, Succeeded, Scanning
<1>4. SourceFits(d, dir)
  BY <1>1 DEF SourceFits
<1>5. RightFits(d, dir)
  BY <1>1 DEF RightFits, Allowed, Past, Succeeded, Scanning
<1>6. Fits(d, dir, tmp, reg)
  BY <1>2, <1>3, <1>4, <1>5 DEF Fits
<1> QED BY <1>6 DEF d

LEMMA SaveInOrder ==
    ASSUME TypeInv, NEW m \in Agents, InOrder(m), Save(m)
    PROVE  InOrder(m)'
<1> DEFINE c == call[m]
           d == [c EXCEPT !.pc = "open", !.seen = Nothing]
<1>1. /\ Scanned(m, "lookup") /\ c.req.op \in {"save", "author"}
      /\ UNCHANGED <<file, temp, registry>>
      /\ IF Conflict(c) THEN End(m, "error") ELSE Set(m, d)
  BY DEF Save
<1>2. Readable(file) /\ Fits(c, file, temp, registry)
  BY DEF InOrder
<1>3. /\ Shaped(c) /\ c.pc = "read" /\ Found(c) = Answer(file, c.req.id)
      /\ AimFits(c)
  BY <1>1, <1>2, FoundIsThere DEF Fits
<1>4. ASSUME ~Conflict(c)
      PROVE  Fits(d, file, temp, registry)
  <2>1. c.text.id = c.req.id
    BY <1>1, <1>3 DEF AimFits
  <2>2. Allowed(c, Answer(file, c.text.id), Answer(file, c.text.id))
    BY <1>3, <1>4, <2>1 DEF Conflict, Allowed
  <2> QED BY <1>1, <1>3, <2>2, OpeningFits
<1> HIDE DEF d
<1>5. call[m].pc # "idle"
  BY <1>3
<1> HIDE DEF c
<1> QED BY <1>1, <1>2, <1>4, <1>5, SetFits, EndFits DEF TypeInv

LEMMA DeleteInOrder ==
    ASSUME TypeInv, NEW m \in Agents, InOrder(m), Delete(m)
    PROVE  InOrder(m)'
<1> DEFINE c == call[m]
           d == [c EXCEPT !.pc = "remove", !.seen = Nothing, !.source = FoundAt(c)]
<1>1. /\ Scanned(m, "lookup") /\ c.req.op \in {"delete", "tui_remove"}
      /\ UNCHANGED <<file, temp, registry>>
      /\ End(m, "error") \/ Set(m, d)
  BY DEF Delete
<1>2. Readable(file) /\ Fits(c, file, temp, registry)
  BY DEF InOrder
<1>3. Shaped(c) /\ c.pc = "read"
  BY <1>1, FoundIsThere
<1>4. /\ d.pc = "remove" /\ d.goal = c.goal /\ d.req = c.req /\ d.text = c.text /\ d.path = c.path
      /\ d.base = c.base
  BY <1>3 DEF Shaped, CallTypes
<1> HIDE DEF d
<1>5. AimFits(d)
  BY <1>2, <1>3, <1>4 DEF Fits, AimFits, InTui, Seeking, Scanning, Writing
<1>6. ScanFits(d, file) /\ TempFits(d, temp) /\ WorkFits(d, file, registry)
  BY <1>1, <1>4, <1>5 DEF ScanFits, TempFits, WorkFits, AimFits, InTui, Stores, Past, Succeeded,
                          Scanning
<1>7. SourceFits(d, file) /\ RightFits(d, file)
  BY <1>1, <1>4 DEF SourceFits, RightFits, Stores, Writing, Past, Succeeded, Scanning
<1>8. Fits(d, file, temp, registry)
  BY <1>5, <1>6, <1>7 DEF Fits
<1>9. call[m].pc # "idle"
  BY <1>3
<1> HIDE DEF c
<1> QED BY <1>1, <1>2, <1>8, <1>9, SetFits, EndFits DEF TypeInv

LEMMA RenameSourceInOrder ==
    ASSUME TypeInv, NEW m \in Agents, InOrder(m), RenameSource(m)
    PROVE  InOrder(m)'
<1> DEFINE c == call[m]
           text == [Found(c) EXCEPT !.id = c.req.to]
           path == Home(c.req.to, Found(c).format)
           e == [c EXCEPT !.source = FoundAt(c), !.text = text, !.path = path]
           d == Scan(e, "target")
<1>1. /\ Scanned(m, "lookup") /\ c.req.op = "rename" /\ UNCHANGED <<file, temp, registry>>
      /\ IF Found(c) = None THEN End(m, "error") ELSE Set(m, d)
  BY DEF RenameSource
<1>2. Readable(file) /\ Fits(c, file, temp, registry)
  BY DEF InOrder
<1>3. /\ Shaped(c) /\ c.pc = "read" /\ AimFits(c)
      /\ Found(c) # None => /\ FoundAt(c) \in Paths /\ file[FoundAt(c)] = Found(c)
                            /\ Found(c) \in Manifests
  BY <1>1, <1>2, FoundIsThere DEF Fits
<1>4. ASSUME Found(c) # None
      PROVE  Fits(d, file, temp, registry)
  <2>1. text.id = c.req.to /\ text.body = Found(c).body /\ path[1] = c.req.to
    BY <1>3, <1>4 DEF Manifests, Home
  <2> HIDE DEF text, path
  <2>2. /\ d.pc = "list" /\ d.goal = "target" /\ d.seen = Nothing /\ d.req = c.req
        /\ d.text = text /\ d.path = path /\ d.base = c.base /\ d.source = FoundAt(c)
    BY <1>3 DEF Scan, Shaped, CallTypes
  <2> HIDE DEF d
  <2>3. AimFits(d)
    BY <1>1, <1>3, <2>1, <2>2 DEF AimFits, InTui, Seeking, Scanning, Writing
  <2>4. ScanFits(d, file) /\ TempFits(d, temp) /\ WorkFits(d, file, registry)
    BY <2>2 DEF ScanFits, TempFits, WorkFits, Past, Succeeded
  <2>5. SourceFits(d, file)
    BY <1>3, <1>4, <2>1, <2>2 DEF SourceFits
  <2>6. RightFits(d, file)
    BY <2>2 DEF RightFits, Writing, Past, Succeeded
  <2> QED BY <2>3, <2>4, <2>5, <2>6 DEF Fits
<1> HIDE DEF d
<1>5. call[m].pc # "idle"
  BY <1>3
<1> HIDE DEF c
<1> QED BY <1>1, <1>2, <1>4, <1>5, SetFits, EndFits DEF TypeInv

LEMMA RenameTargetInOrder ==
    ASSUME TypeInv, NEW m \in Agents, InOrder(m), RenameTarget(m)
    PROVE  InOrder(m)'
<1> DEFINE c == call[m]
           d == [c EXCEPT !.pc = "open", !.seen = Nothing]
<1>1. /\ Scanned(m, "target") /\ UNCHANGED <<file, temp, registry>>
      /\ IF Answer(c.seen, c.req.to) # None /\ ~c.req.overwrite
         THEN End(m, "error") ELSE Set(m, d)
  BY DEF RenameTarget
<1>2. Readable(file) /\ Fits(c, file, temp, registry)
  BY DEF InOrder
<1>3. Shaped(c) /\ c.pc = "read" /\ c.goal = "target" /\ c.seen = file
  BY <1>1, FoundIsThere
<1>4. /\ AimFits(c) /\ SourceFits(c, file) /\ Seeking(c)
      /\ c.req.op = "rename" /\ c.text.id = c.req.to /\ c.base = None
  BY <1>2, <1>3 DEF Fits, AimFits, Seeking, Scanning
<1>5. ASSUME Answer(c.seen, c.req.to) = None \/ c.req.overwrite
      PROVE  Fits(d, file, temp, registry)
  <2>1. Allowed(c, Answer(file, c.text.id), Answer(file, c.text.id))
    BY <1>3, <1>4, <1>5 DEF Allowed
  <2> QED BY <1>3, <1>4, <2>1, OpeningFits
<1> HIDE DEF d
<1>6. call[m].pc # "idle"
  BY <1>3
<1> HIDE DEF c
<1> QED BY <1>1, <1>2, <1>5, <1>6, SetFits, EndFits DEF TypeInv

\* A call opens its temporary file, and fills it.
LEMMA OpenInOrder ==
    ASSUME TypeInv, NEW m \in Agents, InOrder(m), Open(m)
    PROVE  InOrder(m)' /\ UNCHANGED file
<1> DEFINE c == call[m]
           d == [c EXCEPT !.pc = "fill", !.handle = <<"temp", c.path>>]
<1>1. /\ Shaped(c) /\ c.pc = "open" /\ c.path \in Paths
      /\ Readable(file) /\ Fits(c, file, temp, registry) /\ temp \in [Paths -> Contents]
  BY DEF Open, TypeInv, StoreTypes, CallShapes, Shaped, InOrder
<1>2. Target(c) = <<"temp", c.path>>
  BY <1>1 DEF Fits, AimFits, Target, TempOf
<1>3. /\ Set(m, d) /\ UNCHANGED <<file, registry>>
      /\ temp' = [temp EXCEPT ![c.path] = Empty]
  BY <1>2 DEF Open
<1>4. /\ d.pc = "fill" /\ d.goal = c.goal /\ d.req = c.req /\ d.text = c.text /\ d.path = c.path
      /\ d.base = c.base /\ d.source = c.source /\ d.handle = <<"temp", c.path>>
  BY <1>1 DEF Shaped, CallTypes
<1> HIDE DEF d
<1>5. AimFits(d)
  BY <1>1, <1>4 DEF Fits, AimFits, InTui, Seeking, Scanning, Writing
<1>6. TempFits(d, temp')
  BY <1>1, <1>3, <1>4 DEF TempFits
<1>7. ScanFits(d, file) /\ WorkFits(d, file, registry)
  BY <1>4 DEF ScanFits, WorkFits, Past, Succeeded, Scanning
<1>8. SourceFits(d, file)
  BY <1>1, <1>4 DEF Fits, SourceFits, Writing
<1>9. RightFits(d, file)
  BY <1>1, <1>4 DEF Fits, RightFits, Allowed, Writing, Past, Succeeded, Scanning
<1>10. Fits(d, file', temp', registry')
  BY <1>3, <1>5, <1>6, <1>7, <1>8, <1>9 DEF Fits
<1>11. Readable(file') /\ CallShapes
  BY <1>1, <1>3 DEF TypeInv
<1> HIDE DEF c
<1> QED BY <1>3, <1>10, <1>11, SetFits

LEMMA FillInOrder ==
    ASSUME TypeInv, NEW m \in Agents, InOrder(m), Fill(m)
    PROVE  InOrder(m)' /\ UNCHANGED file
<1> DEFINE c == call[m]
           h == c.handle
           d == [c EXCEPT !.pc = "commit", !.handle = None]
<1>1. /\ Shaped(c) /\ c.pc = "fill" /\ c.path \in Paths
      /\ Readable(file) /\ Fits(c, file, temp, registry) /\ temp \in [Paths -> Contents]
  BY DEF Fill, TypeInv, StoreTypes, CallShapes, Shaped, InOrder
<1>2. h = <<"temp", c.path>> /\ temp[c.path] = Empty /\ ~InTui(c)
  BY <1>1 DEF Fits, TempFits, AimFits
<1>3. h # None /\ h[1] = "temp" /\ h[2] = c.path
  BY <1>1, <1>2, StoreAssumption
<1>4. /\ Set(m, d) /\ UNCHANGED <<file, registry>>
      /\ \E w \in Written(temp[h[2]], c.text) : temp' = [temp EXCEPT ![h[2]] = w]
  BY <1>2, <1>3 DEF Fill
<1>5. temp' = [temp EXCEPT ![c.path] = c.text]
  BY <1>2, <1>3, <1>4 DEF Written
<1>6. /\ d.pc = "commit" /\ d.goal = c.goal /\ d.req = c.req /\ d.text = c.text /\ d.path = c.path
      /\ d.base = c.base /\ d.source = c.source
  BY <1>1 DEF Shaped, CallTypes
<1> HIDE DEF d
<1>7. AimFits(d)
  BY <1>1, <1>6 DEF Fits, AimFits, InTui, Seeking, Scanning, Writing
<1>8. TempFits(d, temp')
  BY <1>1, <1>5, <1>6 DEF TempFits
<1>9. ScanFits(d, file) /\ WorkFits(d, file, registry)
  BY <1>6 DEF ScanFits, WorkFits, Past, Succeeded, Scanning
<1>10. SourceFits(d, file)
  BY <1>1, <1>6 DEF Fits, SourceFits, Writing
<1>11. RightFits(d, file)
  BY <1>1, <1>6 DEF Fits, RightFits, Allowed, Writing, Past, Succeeded, Scanning
<1>12. Fits(d, file', temp', registry')
  BY <1>4, <1>7, <1>8, <1>9, <1>10, <1>11 DEF Fits
<1>13. Readable(file') /\ CallShapes
  BY <1>1, <1>4 DEF TypeInv
<1> HIDE DEF c
<1> QED BY <1>4, <1>12, <1>13, SetFits

\* What becomes of the calls when a file is moved or removed.
LEMMA AfterMoving ==
    ASSUME CallShapes, NEW m \in Agents, NEW e, NEW from, NEW to, Shaped(e), from # None,
           call' = WithMoved([call EXCEPT ![m] = e], from, to)
    PROVE  /\ LET d == call'[m] IN
              /\ d.pc = e.pc /\ d.goal = e.goal /\ d.seen = e.seen /\ d.req = e.req
              /\ d.text = e.text /\ d.path = e.path /\ d.base = e.base
              /\ d.source = e.source /\ d.over = e.over /\ d.shown = e.shown
           /\ \A b \in Agents \ {m} : call[b] = NoCall => call'[b] = NoCall
<1> DEFINE cs == [call EXCEPT ![m] = e]
<1>1. cs[m] = e /\ \A b \in Agents \ {m} : cs[b] = call[b]
  BY DEF CallShapes
<1>2. \A b \in Agents : call'[b] = [cs[b] EXCEPT !.handle = Moved(cs[b].handle, from, to)]
  BY DEF WithMoved
<1> HIDE DEF cs
<1>3. call'[m] = [e EXCEPT !.handle = Moved(e.handle, from, to)]
  BY <1>1, <1>2
<1>4. ASSUME NEW b \in Agents \ {m}, call[b] = NoCall
      PROVE  call'[b] = NoCall
  <2>1. Moved(None, from, to) = None
    BY DEF Moved
  <2>2. NoCall.handle = None
    BY DEF NoCall
  <2>5. cs[b] = NoCall /\ Moved(cs[b].handle, from, to) = None
    BY <1>1, <1>4, <2>1, <2>2
  <2>3. call'[b] = [NoCall EXCEPT !.handle = None]
    BY <1>2, <2>5
  <2>4. [NoCall EXCEPT !.handle = None] = NoCall
    BY DEF NoCall
  <2> QED BY <2>3, <2>4
<1> QED BY <1>3, <1>4 DEF Shaped, CallTypes

\* What a call stores is what it meant to, and takes the place of what it may.
LEMMA CommitInOrder ==
    ASSUME TypeInv, NamedAfterWorkflows => NameInv, NEW m \in Agents, InOrder(m), Commit(m)
    PROVE  /\ InOrder(m)' /\ \A b \in Agents \ {m} : call[b] = NoCall => call'[b] = NoCall
           /\ file' = [file EXCEPT ![call[m].path] = call[m].text]
<1> DEFINE c == call[m]
           from == <<"temp", c.path>>
           to == <<"file", c.path>>
           d == [c EXCEPT !.over = file[c.path], !.shown = Answer(file, c.text.id)]
           e == AfterCommit(d)
<1>1. /\ Shaped(c) /\ c.pc = "commit" /\ c.path \in Paths /\ c.text \in Manifests
      /\ Readable(file) /\ Fits(c, file, temp, registry) /\ file \in [Paths -> Contents]
  BY DEF Commit, TypeInv, StoreTypes, CallShapes, Shaped, InOrder
<1>2. temp[c.path] = c.text /\ temp[c.path] # None
  BY <1>1, StoreAssumption DEF Fits, TempFits
<1>3. /\ file' = [file EXCEPT ![c.path] = c.text] /\ UNCHANGED registry
      /\ call' = WithMoved([call EXCEPT ![m] = e], from, to)
  BY <1>2 DEF Commit, TempOf
<1>4. from # None
  BY <1>1, StoreAssumption
<1>5. /\ d \in CallTypes
      /\ d.pc = "commit" /\ d.goal = c.goal /\ d.req = c.req /\ d.text = c.text /\ d.path = c.path
      /\ d.base = c.base /\ d.source = c.source /\ d.seen = c.seen
      /\ d.over = file[c.path] /\ d.shown = Answer(file, c.text.id)
  <2>1. file[c.path] \in Contents /\ Answer(file, c.text.id) \in Texts
    BY <1>1, AnswerType
  <2> QED BY <1>1, <2>1 DEF Shaped, CallTypes
<1> HIDE DEF d, from, to
<1>6. Shaped(d)
  BY <1>1, <1>5 DEF Shaped, Knows
<1>7. /\ Shaped(e) /\ e.req = c.req /\ e.text = c.text /\ e.path = c.path
      /\ e.base = c.base /\ e.source = c.source
      /\ e.over = file[c.path] /\ e.shown = Answer(file, c.text.id)
      /\ \/ e.pc = "remove" /\ c.req.op = "rename" /\ c.source # c.path
         \/ /\ e.pc = "list" /\ e.goal = "sync" /\ e.seen = Nothing
            /\ c.req.op # "rename" \/ c.source = c.path
  <2>1. CASE c.req.op = "rename" /\ c.source # c.path
    <3> DEFINE f == [d EXCEPT !.pc = "remove"]
    <3>1. e = f
      BY <1>5, <2>1 DEF AfterCommit
    <3>2. /\ f \in CallTypes /\ f.pc = "remove" /\ f.goal = d.goal /\ f.req = d.req
          /\ f.text = d.text /\ f.path = d.path /\ f.base = d.base /\ f.source = d.source
          /\ f.over = d.over /\ f.shown = d.shown
      BY <1>5, Values DEF CallTypes
    <3> HIDE DEF f
    <3>3. c.source \in Paths
      BY <1>1, <2>1 DEF Shaped, Knows
    <3>4. Shaped(f)
      BY <1>1, <1>5, <3>2, <3>3 DEF Shaped, Knows
    <3> QED BY <1>5, <2>1, <3>1, <3>2, <3>4
  <2>2. CASE ~(c.req.op = "rename" /\ c.source # c.path)
    <3>1. e = Scan(d, "sync")
      BY <1>5, <2>2 DEF AfterCommit
    <3>2. Shaped(Scan(d, "sync"))
      BY <1>5, <1>6, ScanShaped
    <3> QED BY <1>5, <1>6, <2>2, <3>1, <3>2, ScanFields
  <2> QED BY <2>1, <2>2
<1> HIDE DEF e
<1> DEFINE f == call'[m]
<1>17. /\ f.pc = e.pc /\ f.goal = e.goal /\ f.seen = e.seen /\ f.req = e.req
       /\ f.text = e.text /\ f.path = e.path /\ f.base = e.base /\ f.source = e.source
       /\ f.over = e.over /\ f.shown = e.shown
       /\ \A b \in Agents \ {m} : call[b] = NoCall => call'[b] = NoCall
  <2> HIDE DEF c
  <2>1. CallShapes
    BY DEF TypeInv
  <2>2. Shaped(e)
    BY <1>7
  <2> QED BY <1>3, <1>4, <2>1, <2>2, AfterMoving
<1> HIDE DEF f
<1>8. /\ f.pc = e.pc /\ f.goal = e.goal /\ f.seen = e.seen /\ f.req = c.req
      /\ f.text = c.text /\ f.path = c.path /\ f.base = c.base /\ f.source = c.source
      /\ f.over = file[c.path] /\ f.shown = Answer(file, c.text.id)
      /\ \A b \in Agents \ {m} : call[b] = NoCall => call'[b] = NoCall
  BY <1>7, <1>17
<1>9. file'[c.path] = c.text /\ \A p \in Paths \ {c.path} : file'[p] = file[p]
  BY <1>1, <1>3
<1>10. Readable(file')
  BY <1>1, <1>9, StoreAssumption DEF Readable
<1>11. AimFits(f)
  BY <1>1, <1>7, <1>8 DEF Fits, AimFits, InTui, Seeking, Scanning, Writing
<1>12. ScanFits(f, file') /\ TempFits(f, temp')
  BY <1>7, <1>8 DEF ScanFits, TempFits
<1>13. WorkFits(f, file', registry')
  BY <1>7, <1>8, <1>9 DEF WorkFits, Stores, Past, Succeeded, Scanning
<1>14. SourceFits(f, file')
  <2> SUFFICES ASSUME f.pc = "remove"
               PROVE  file'[c.source] \in Manifests /\ file'[c.source].body = c.text.body
    BY <1>7, <1>8 DEF SourceFits, Seeking, Scanning, Writing
  <2>1. c.req.op = "rename" /\ c.source # c.path
    BY <1>7, <1>8
  <2>2. c.source \in Paths
    BY <1>1, <2>1 DEF Shaped, Knows
  <2>3. file'[c.source] = file[c.source]
    BY <1>9, <2>1, <2>2
  <2> QED BY <1>1, <2>1, <2>3 DEF Fits, SourceFits, Writing
<1>15. RightFits(f, file')
  <2>1. Allowed(c, Answer(file, c.text.id), Answer(file, c.text.id))
    BY <1>1 DEF Fits, RightFits, Writing
  <2>2. c.path[1] = c.text.id
    BY <1>1 DEF Fits, AimFits
  <2>3. NamedAfterWorkflows /\ Answer(file, c.text.id) = None => file[c.path] = None
    BY <1>1, <2>2, NotFoundNoFile DEF NameInv
  <2>4. Allowed(c, file[c.path], Answer(file, c.text.id))
    BY <2>1, <2>3 DEF Allowed
  <2> QED BY <1>7, <1>8, <2>4 DEF RightFits, Allowed, Writing
<1>16. Fits(f, file', temp', registry')
  BY <1>11, <1>12, <1>13, <1>14, <1>15 DEF Fits
<1> QED BY <1>3, <1>8, <1>10, <1>16 DEF InOrder, f

\* A rename removes its source only when what it held is at its target.
LEMMA RemoveInOrder ==
    ASSUME TypeInv, NEW m \in Agents, InOrder(m), Remove(m)
    PROVE  /\ InOrder(m)' /\ \A b \in Agents \ {m} : call[b] = NoCall => call'[b] = NoCall
           /\ UNCHANGED file \/ file' = [file EXCEPT ![call[m].source] = None]
<1> DEFINE c == call[m]
           from == <<"file", c.source>>
           e == Scan(c, "sync")
           f == call'[m]
<1>1. /\ Shaped(c) /\ c.pc = "remove" /\ c.source \in Paths /\ UNCHANGED <<temp, registry>>
      /\ Readable(file) /\ Fits(c, file, temp, registry) /\ file \in [Paths -> Contents]
      /\ ~InTui(c) /\ CallShapes
  BY DEF Remove, TypeInv, StoreTypes, CallShapes, Shaped, Knows, InOrder, Fits, AimFits
<1>2. /\ Shaped(e) /\ e.pc = "list" /\ e.goal = "sync" /\ e.seen = Nothing
      /\ e.req = c.req /\ e.text = c.text /\ e.path = c.path /\ e.base = c.base
      /\ e.source = c.source /\ e.over = c.over /\ e.shown = c.shown
  BY <1>1, ScanShaped, ScanFields
<1>3. from # None
  BY <1>1, StoreAssumption
<1>4. \/ file' = [file EXCEPT ![c.source] = None] /\ call' = WithMoved([call EXCEPT ![m] = e], from, None)
      \/ UNCHANGED file /\ file[c.source] = None /\ Set(m, e)
      \/ UNCHANGED file /\ End(m, "error")
  BY <1>1 DEF Remove
<1> HIDE DEF from, e
<1>5. CASE UNCHANGED file /\ End(m, "error")
  <2>1. \A b \in Agents \ {m} : call'[b] = call[b]
    BY <1>1, <1>5, SetCall DEF End
  <2>2. call[m].pc # "idle"
    BY <1>1
  <2> QED BY <1>1, <1>5, <2>1, <2>2, EndFits
<1>6. CASE \/ file' = [file EXCEPT ![c.source] = None] /\ call' = WithMoved([call EXCEPT ![m] = e], from, None)
           \/ UNCHANGED file /\ file[c.source] = None /\ Set(m, e)
  <2>1. /\ f.pc = "list" /\ f.goal = "sync" /\ f.seen = Nothing
        /\ f.req = c.req /\ f.text = c.text /\ f.path = c.path /\ f.base = c.base
        /\ f.source = c.source /\ f.over = c.over /\ f.shown = c.shown
        /\ \A b \in Agents \ {m} : call[b] = NoCall => call'[b] = NoCall
    <3>1. CASE call' = WithMoved([call EXCEPT ![m] = e], from, None)
      <4>1. /\ f.pc = e.pc /\ f.goal = e.goal /\ f.seen = e.seen /\ f.req = e.req
            /\ f.text = e.text /\ f.path = e.path /\ f.base = e.base /\ f.source = e.source
            /\ f.over = e.over /\ f.shown = e.shown
            /\ \A b \in Agents \ {m} : call[b] = NoCall => call'[b] = NoCall
        <5>1. CallShapes /\ Shaped(e)
          BY <1>1, <1>2
        <5> HIDE DEF c
        <5> QED BY <1>3, <3>1, <5>1, AfterMoving
      <4> QED BY <1>2, <4>1
    <3>2. CASE Set(m, e)
      BY <1>1, <1>2, <3>2, SetCall
    <3> QED BY <1>6, <3>1, <3>2
  <2> HIDE DEF f
  <2>2. file'[c.source] = None /\ \A p \in Paths \ {c.source} : file'[p] = file[p]
    BY <1>1, <1>6
  <2>3. Readable(file')
    BY <1>1, <2>2, StoreAssumption DEF Readable
  <2>4. AimFits(f)
    BY <1>1, <2>1 DEF Fits, AimFits, InTui, Seeking, Scanning, Writing
  <2>5. ScanFits(f, file') /\ TempFits(f, temp')
    BY <2>1 DEF ScanFits, TempFits
  <2>6. Stores(c) => file'[c.path] = c.text
    BY <1>1, <2>2 DEF Fits, WorkFits, Stores, Shaped
  <2>7. WorkFits(f, file', registry')
    BY <2>1, <2>2, <2>6 DEF WorkFits, Stores, Past, Succeeded, Scanning
  <2>8. SourceFits(f, file')
    BY <2>1 DEF SourceFits, Seeking, Scanning, Writing
  <2>9. RightFits(f, file')
    BY <1>1, <2>1 DEF Fits, RightFits, Allowed, Stores, Writing, Past, Succeeded, Scanning
  <2>10. Fits(f, file', temp', registry')
    BY <2>4, <2>5, <2>7, <2>8, <2>9 DEF Fits
  <2> QED BY <1>6, <2>1, <2>3, <2>10 DEF InOrder, f
<1> QED BY <1>4, <1>5, <1>6

\* A call that has done its work goes on to another scan, or ends well.
LEMMA WorkIsKept ==
    ASSUME NEW c, NEW d, Past(c), d.req = c.req, d.text = c.text, d.path = c.path,
           d.base = c.base, d.source = c.source, d.over = c.over, d.shown = c.shown,
           NEW dir, NEW tmp, NEW reg, NEW old, Fits(c, dir, tmp, old), reg = Loaded(dir),
           \/ d.pc = "list" /\ d.goal \in {"inputs", "run"} /\ d.seen = Nothing
           \/ d.pc = "done" /\ d.goal = "none"
                /\ (c.req.op = "author" => d.ran = Answer(dir, c.text.id))
    PROVE  Fits(d, dir, tmp, reg)
<1>1. c.pc \in {"list", "read", "done"}
  BY DEF Past, Scanning, Succeeded
<1>2. AimFits(d)
  BY <1>1 DEF Fits, AimFits, InTui, Seeking, Scanning, Writing
<1>3. ScanFits(d, dir) /\ TempFits(d, tmp) /\ SourceFits(d, dir)
  BY DEF ScanFits, TempFits, SourceFits, Seeking, Scanning, Writing
<1>4. WorkFits(d, dir, reg)
  BY DEF Fits, WorkFits, Stores, Succeeded
<1>5. RightFits(d, dir)
  BY DEF Fits, RightFits, Allowed, Stores, Writing
<1> QED BY <1>2, <1>3, <1>4, <1>5 DEF Fits

LEMMA PublishInOrder ==
    ASSUME TypeInv, NEW m \in Agents, InOrder(m), Publish(m)
    PROVE  InOrder(m)'
<1> DEFINE c == call[m]
<1>1. /\ Shaped(c) /\ c.pc = "read" /\ c.goal = "sync" /\ c.seen = file
      /\ Readable(file) /\ Fits(c, file, temp, registry) /\ ~InTui(c) /\ CallShapes
  BY FoundIsThere DEF Publish, InOrder, Fits, AimFits, TypeInv
<1>2. registry' = Loaded(file) /\ UNCHANGED <<file, temp>>
  BY <1>1 DEF Publish
<1>3. \/ c.req.op = "author" /\ Set(m, Scan(c, "inputs"))
      \/ c.req.op # "author" /\ Set(m, Answered(c, "ok"))
  BY <1>1 DEF Publish, End
<1>4. Past(c)
  BY <1>1 DEF Past, Scanning
<1>5. Fits(Scan(c, "inputs"), file, temp, registry')
  <2> DEFINE d == Scan(c, "inputs")
  <2>1. /\ d.pc = "list" /\ d.goal = "inputs" /\ d.seen = Nothing /\ d.req = c.req
        /\ d.text = c.text /\ d.path = c.path /\ d.base = c.base /\ d.source = c.source
        /\ d.over = c.over /\ d.shown = c.shown
    BY <1>1, ScanFields
  <2> HIDE DEF d, c
  <2>2. Fits(d, file, temp, registry')
    BY <1>1, <1>2, <1>4, <2>1, WorkIsKept
  <2> QED BY <2>2 DEF d
<1>6. c.req.op # "author" => Fits(Answered(c, "ok"), file, temp, registry')
  <2> DEFINE d == Answered(c, "ok")
  <2>1. /\ d.pc = "done" /\ d.goal = "none" /\ d.req = c.req
        /\ d.text = c.text /\ d.path = c.path /\ d.base = c.base /\ d.source = c.source
        /\ d.over = c.over /\ d.shown = c.shown
    BY <1>1, AnsweredFields
  <2> HIDE DEF d, c
  <2>2. c.req.op # "author" => Fits(d, file, temp, registry')
    BY <1>1, <1>2, <1>4, <2>1, WorkIsKept
  <2> QED BY <2>2 DEF d
<1> HIDE DEF c
<1> QED BY <1>1, <1>2, <1>3, <1>5, <1>6, SetFits

LEMMA ResolveInputsInOrder ==
    ASSUME TypeInv, NEW m \in Agents, InOrder(m), ResolveInputs(m)
    PROVE  InOrder(m)'
<1> DEFINE c == call[m]
           d == Scan(c, "run")
<1>1. /\ Shaped(c) /\ c.pc = "read" /\ c.goal = "inputs"
      /\ Readable(file) /\ Fits(c, file, temp, registry) /\ CallShapes
      /\ UNCHANGED <<file, temp, registry>>
  BY FoundIsThere DEF ResolveInputs, InOrder, TypeInv
<1>2. End(m, "error") \/ Set(m, d)
  BY DEF ResolveInputs
<1>3. Past(c) /\ registry = Loaded(file)
  BY <1>1 DEF Past, Scanning, Fits, WorkFits
<1>4. /\ d.pc = "list" /\ d.goal = "run" /\ d.seen = Nothing /\ d.req = c.req
      /\ d.text = c.text /\ d.path = c.path /\ d.base = c.base /\ d.source = c.source
      /\ d.over = c.over /\ d.shown = c.shown
  BY <1>1, ScanFields
<1> HIDE DEF d
<1>5. call[m].pc # "idle"
  BY <1>1
<1> HIDE DEF c
<1>6. Fits(d, file, temp, registry)
  BY <1>1, <1>3, <1>4, WorkIsKept
<1> QED BY <1>1, <1>2, <1>5, <1>6, SetFits, EndFits

LEMMA RunInOrder ==
    ASSUME TypeInv, NEW m \in Agents, InOrder(m), Run(m)
    PROVE  InOrder(m)'
<1> DEFINE c == call[m]
           e == [c EXCEPT !.ran = Found(c)]
           d == Answered(e, "ok")
<1>1. /\ Shaped(c) /\ c.pc = "read" /\ c.goal = "run" /\ Found(c) = Answer(file, c.req.id)
      /\ Readable(file) /\ Fits(c, file, temp, registry) /\ CallShapes
      /\ UNCHANGED <<file, temp, registry>>
  BY FoundIsThere DEF Run, InOrder, TypeInv
<1>2. End(m, "error") \/ Set(m, d)
  BY DEF Run
<1>3. Past(c) /\ registry = Loaded(file)
  BY <1>1 DEF Past, Scanning, Fits, WorkFits
<1>4. /\ d.pc = "done" /\ d.goal = "none" /\ d.req = c.req
      /\ d.text = c.text /\ d.path = c.path /\ d.base = c.base /\ d.source = c.source
      /\ d.over = c.over /\ d.shown = c.shown /\ d.ran = Found(c)
  BY <1>1 DEF Answered, Shaped, CallTypes
<1> HIDE DEF d
<1>5. c.req.op = "author" => d.ran = Answer(file, c.text.id)
  BY <1>1, <1>4 DEF Fits, AimFits
<1>6. call[m].pc # "idle"
  BY <1>1
<1> HIDE DEF c
<1>7. Fits(d, file, temp, registry)
  BY <1>1, <1>3, <1>4, <1>5, WorkIsKept
<1> QED BY <1>1, <1>2, <1>6, <1>7, SetFits, EndFits

LEMMA FailInOrder ==
    ASSUME TypeInv, NEW m \in Agents, InOrder(m), Fail(m)
    PROVE  InOrder(m)'
BY EndFits DEF Fail, TypeInv

\* Agents that ask for nothing do nothing.
LEMMA OthersRest ==
    ASSUME TypeInv, NEW m \in Agents, Sole(m), \A b \in Agents \ {m} : call[b] = NoCall,
           NEW a \in Agents, Step(a)
    PROVE  a = m
<1> SUFFICES ASSUME a # m PROVE FALSE
  OBVIOUS
<1>1. call[a].pc = "idle" /\ requests[a] = {}
  BY DEF NoCall, Sole
<1>2. ~Begin(a)
  BY <1>1 DEF Begin
<1>3. ~List(a) /\ ~Read(a) /\ ~Open(a) /\ ~Fill(a) /\ ~Commit(a) /\ ~Remove(a) /\ ~Fail(a)
  BY <1>1 DEF List, Read, Open, Fill, Commit, Remove, Fail
<1>4. /\ ~Get(a) /\ ~Save(a) /\ ~Delete(a) /\ ~RenameSource(a) /\ ~RenameTarget(a)
      /\ ~Publish(a) /\ ~ResolveInputs(a) /\ ~Run(a)
  BY <1>1 DEF Get, Save, Delete, RenameSource, RenameTarget, Publish, ResolveInputs, Run, Scanned
<1> QED BY <1>2, <1>3, <1>4 DEF Step

\* Most steps of a call change no other.
LEMMA OwnCallOnly ==
    ASSUME TypeInv, NEW m \in Agents, Step(m), ~Commit(m), ~Remove(m)
    PROVE  \A b \in Agents \ {m} : call'[b] = call[b]
<1>1. CallShapes
  BY DEF TypeInv
<1>2. CASE Begin(m) \/ List(m) \/ Read(m) \/ Open(m) \/ Fill(m)
  BY <1>1, <1>2, SetCall DEF Begin, List, Read, Open, Fill, End
<1>3. CASE Get(m) \/ Save(m) \/ Delete(m) \/ RenameSource(m) \/ RenameTarget(m)
  BY <1>1, <1>3, SetCall DEF Get, Save, Delete, RenameSource, RenameTarget, End
<1>4. CASE Publish(m) \/ ResolveInputs(m) \/ Run(m) \/ Fail(m)
  BY <1>1, <1>4, SetCall DEF Publish, ResolveInputs, Run, Fail, End
<1> QED BY <1>2, <1>3, <1>4 DEF Step

LEMMA StepInOrder ==
    ASSUME TypeInv, NamedAfterWorkflows => NameInv, NEW m \in Agents, Sole(m), InOrder(m), Step(m)
    PROVE  InOrder(m)'
BY BeginInOrder, ListInOrder, ReadInOrder, GetInOrder, SaveInOrder, DeleteInOrder,
   RenameSourceInOrder, RenameTargetInOrder, OpenInOrder, FillInOrder, CommitInOrder,
   RemoveInOrder, PublishInOrder, ResolveInputsInOrder, RunInOrder, FailInOrder DEF Step

OneAgentInv ==
    /\ TypeInv
    /\ requests \in Workloads
    /\ NamedAfterWorkflows => NameInv
    /\ SoleInv

LEMMA RequestsStay ==
    ASSUME [Next]_vars
    PROVE  UNCHANGED requests
BY DEF Next, vars, Restart, Step, Quiet, Begin, List, Read, Get, Save, Delete, RenameSource,
       RenameTarget, Open, Fill, Commit, Remove, Publish, ResolveInputs, Run, Fail

LEMMA OneAgentStarts ==
    ASSUME Init
    PROVE  OneAgentInv
<1>1. Readable(file)
  BY StoreAssumption DEF Init, Readable, Broken
<1>2. \A m \in Agents : call[m] = NoCall
  BY DEF Init
<1>3. SoleInv
  BY <1>1, <1>2, NoCallFits DEF SoleInv, InOrder
<1> QED BY <1>3, InitShapes, InitNames DEF Init, OneAgentInv

LEMMA OneAgentIsKept ==
    ASSUME OneAgentInv, [Next]_vars
    PROVE  OneAgentInv'
<1>1. TypeInv' /\ (requests \in Workloads)' /\ (NamedAfterWorkflows => NameInv')
  BY NextShapes, NextNames, RequestsStay DEF OneAgentInv
<1>2. SoleInv'
  <2> SUFFICES ASSUME NEW m \in Agents, Sole(m)
               PROVE  InOrder(m)' /\ \A b \in Agents \ {m} : call'[b] = NoCall
    BY RequestsStay DEF SoleInv, Sole
  <2>1. /\ TypeInv /\ (NamedAfterWorkflows => NameInv) /\ InOrder(m)
        /\ \A b \in Agents \ {m} : call[b] = NoCall
    BY DEF OneAgentInv, SoleInv
  <2>2. CASE UNCHANGED vars
    BY <2>1, <2>2 DEF vars, InOrder
  <2>3. CASE Restart
    <3>1. Readable(file') /\ \A b \in Agents : call'[b] = NoCall
      BY <2>1, <2>3 DEF Restart, InOrder
    <3> QED BY <3>1, NoCallFits DEF InOrder
  <2>4. CASE Step(m)
    <3>1. InOrder(m)'
      BY <2>1, <2>4, StepInOrder
    <3>2. \A b \in Agents \ {m} : call'[b] = NoCall
      BY <2>1, <2>4, OwnCallOnly, CommitInOrder, RemoveInOrder
    <3> QED BY <3>1, <3>2
  <2>5. ASSUME NEW a \in Agents, Step(a)
        PROVE  a = m
    BY <2>1, <2>5, OthersRest
  <2> QED BY <2>2, <2>3, <2>4, <2>5 DEF Next
<1> QED BY <1>1, <1>2 DEF OneAgentInv

LEMMA ToolsAreOfOne ==
    ASSUME OneAgentInv, ToolsOfOne
    PROVE  \E m \in Agents :
               Sole(m) /\ InOrder(m) /\ \A b \in Agents \ {m} : call[b] = NoCall
<1>1. PICK m \in Agents :
          /\ \A b \in Agents \ {m} : requests[b] = {}
          /\ \A r \in requests[m] : r.op \notin {"tui_import", "tui_remove"}
  BY DEF ToolsOfOne
<1>2. \A r \in requests[m] : r.guarded => r.op \in {"save", "author"}
  BY GuardAssumption DEF OneAgentInv
<1> QED BY <1>1, <1>2 DEF Sole, OneAgentInv, SoleInv

(***************************************************************************)
(* The results of a tool call, for one agent.                              *)
(***************************************************************************)

\* A manifest file is whole at any moment, whatever write fails and whenever
\* the process dies, because a call only ever writes its temporary file.
THEOREM WholeManifests == Spec => []ManifestsWhole
<1>1. OneAgentInv => ManifestsWhole
  BY ToolsAreOfOne DEF ManifestsWhole, InOrder
<1> QED BY <1>1, OneAgentStarts, OneAgentIsKept, PTL DEF Spec

\* What save, rename and delete report as done is so: the text is found unless an
\* earlier file names its workflow, a renamed workflow has left its file, what
\* was run is what is found, and the registry holds what the directory does.
THEOREM TruthOfSuccess == Spec => []SuccessIsTrue
<1>1. OneAgentInv => SuccessIsTrue
  <2> SUFFICES ASSUME OneAgentInv, ToolsOfOne, NEW a \in Agents,
                      Succeeded(call[a]), call[a].req.op \in Changes
               PROVE  LET c == call[a] IN
                      /\ registry = Loaded(file)
                      /\ Stores(c) =>
                            \/ Answer(file, c.text.id) = c.text
                            \/ \E p \in Holding(file, c.text.id) : Rank[p] < Rank[c.path]
                      /\ c.req.op = "rename" /\ c.source # c.path => file[c.source] = None
                      /\ c.req.op = "author" => c.ran = Answer(file, c.text.id)
    BY DEF SuccessIsTrue
  <2> DEFINE c == call[a]
  <2>1. InOrder(a)
    BY ToolsAreOfOne DEF Succeeded, NoCall
  <2>2. Shaped(c) /\ c.pc # "idle" /\ Past(c) /\ WorkFits(c, file, registry)
    BY <2>1 DEF OneAgentInv, TypeInv, CallShapes, InOrder, Fits, Succeeded, Past
  <2>3. Stores(c) => file[c.path] = c.text /\ c.path \in Paths /\ c.text \in Manifests
    BY <2>2 DEF Shaped, WorkFits
  <2>4. /\ registry = Loaded(file)
        /\ c.req.op = "rename" /\ c.source # c.path => file[c.source] = None
        /\ c.req.op = "author" => c.ran = Answer(file, c.text.id)
    BY <2>2 DEF WorkFits
  <2>5. Stores(c) => \/ Answer(file, c.text.id) = c.text
                     \/ \E p \in Holding(file, c.text.id) : Rank[p] < Rank[c.path]
    BY <2>3, StoredIsFound
  <2> QED BY <2>4, <2>5
<1> QED BY <1>1, OneAgentStarts, OneAgentIsKept, PTL DEF Spec

\* Where files are named after their workflows, a save or rename that was not
\* asked to overwrite has replaced no file, and one that names a version has
\* replaced that version or nothing.
THEOREM ReplacingSafety ==
    ASSUME NamedAfterWorkflows
    PROVE  Spec => []ReplacesOnlyWhatItMay
<1>1. OneAgentInv => ReplacesOnlyWhatItMay
  <2> SUFFICES ASSUME OneAgentInv, ToolsOfOne, NEW a \in Agents,
                      Succeeded(call[a]), Stores(call[a])
               PROVE  Allowed(call[a], call[a].over, call[a].shown)
    BY DEF ReplacesOnlyWhatItMay, Allowed
  <2>1. InOrder(a)
    BY ToolsAreOfOne DEF Succeeded, NoCall
  <2> QED BY <2>1 DEF InOrder, Fits, RightFits, Past
<1> QED BY <1>1, OneAgentStarts, OneAgentIsKept, PTL DEF Spec

\* A file that changes is that of a call which replaces or removes it.
LEMMA FileChanges ==
    ASSUME TypeInv, NamedAfterWorkflows => NameInv, NEW m \in Agents, InOrder(m), Step(m)
    PROVE  \/ UNCHANGED file
           \/ Commit(m) /\ file' = [file EXCEPT ![call[m].path] = call[m].text]
           \/ Remove(m) /\ file' = [file EXCEPT ![call[m].source] = None]
<1>1. CASE Begin(m) \/ List(m) \/ Read(m) \/ Get(m) \/ Save(m) \/ Delete(m) \/ RenameSource(m)
           \/ RenameTarget(m) \/ Publish(m) \/ ResolveInputs(m) \/ Run(m) \/ Fail(m)
  BY <1>1 DEF Begin, List, Read, Get, Save, Delete, RenameSource, RenameTarget, Publish,
              ResolveInputs, Run, Fail
<1> QED BY <1>1, OpenInOrder, FillInOrder, CommitInOrder, RemoveInOrder DEF Step

\* A write that was not allowed to overwrite takes a place that is free, and a
\* rename removes its source when its body is at its target.
LEMMA BodiesAreKept ==
    ASSUME TypeInv, NameInv, NamedAfterWorkflows, NEW m \in Agents, InOrder(m), Step(m),
           ~Asked(call[m])
    PROVE  Held(file) \subseteq Held(file')
<1> DEFINE c == call[m]
<1>1. /\ Shaped(c) /\ Fits(c, file, temp, registry) /\ Readable(file)
      /\ file \in [Paths -> Contents]
  BY DEF TypeInv, StoreTypes, CallShapes, InOrder
<1> SUFFICES ASSUME NEW q \in Paths, file[q] \in Manifests
             PROVE  \E p \in Paths : file'[p] \in Manifests /\ file'[p].body = file[q].body
  BY DEF Held
<1>2. CASE UNCHANGED file
  BY <1>2
<1>3. CASE Commit(m) /\ file' = [file EXCEPT ![c.path] = c.text]
  <2>1. ~c.req.overwrite /\ c.pc = "commit" /\ c.path \in Paths /\ c.path[1] = c.text.id
    BY <1>1, <1>3 DEF Commit, Asked, Shaped, Fits, AimFits
  <2>2. Answer(file, c.path[1]) = None
    BY <1>1, <2>1 DEF Fits, RightFits, Allowed, Writing
  <2>3. file[c.path] = None
    BY <1>1, <2>1, <2>2, NotFoundNoFile DEF NameInv
  <2>4. q # c.path
    BY <2>3, StoreAssumption
  <2>5. file'[q] = file[q]
    BY <1>1, <1>3, <2>4
  <2> QED BY <2>5
<1>4. CASE Remove(m) /\ file' = [file EXCEPT ![c.source] = None]
  <2>1. c.pc = "remove" /\ ~InTui(c) /\ c.req.op # "delete"
    BY <1>1, <1>4 DEF Remove, Asked, Fits, AimFits, InTui
  <2>2. CASE q # c.source
    <3>1. file'[q] = file[q]
      BY <1>1, <1>4, <2>2
    <3> QED BY <3>1
  <2>3. CASE q = c.source
    <3>1. c.req.op = "rename" /\ c.source # c.path
      BY <1>1, <2>1 DEF Fits, WorkFits
    <3>2. file[c.path] = c.text /\ file[c.source].body = c.text.body
      BY <1>1, <2>1, <3>1 DEF Fits, WorkFits, SourceFits, Stores
    <3>3. c.path \in Paths /\ c.text \in Manifests
      BY <1>1, <2>1 DEF Shaped
    <3>4. file'[c.path] = c.text
      BY <1>1, <1>4, <3>1, <3>2, <3>3
    <3> QED BY <2>3, <3>2, <3>3, <3>4
  <2> QED BY <2>2, <2>3
<1> QED BY <1>2, <1>3, <1>4, FileChanges

\* Where files are named after their workflows, a body is lost from the directory
\* only by a deletion, or by a write that was allowed to overwrite: at no point
\* of a rename, a failed write or a death of the process.
THEOREM BodySafety ==
    ASSUME NamedAfterWorkflows
    PROVE  Spec => BodiesSurvive
<1> DEFINE OneStep ==
        ToolsOfOne => \/ Held(file) \subseteq Held(file')
                      \/ \E a \in Agents : Asked(call[a])
<1>1. OneAgentInv /\ [Next]_vars => [OneStep]_vars
  <2> SUFFICES ASSUME OneAgentInv, [Next]_vars, ToolsOfOne, \A a \in Agents : ~Asked(call[a])
               PROVE  Held(file) \subseteq Held(file')
    OBVIOUS
  <2>1. PICK m \in Agents :
            Sole(m) /\ InOrder(m) /\ \A b \in Agents \ {m} : call[b] = NoCall
    BY ToolsAreOfOne
  <2>2. TypeInv /\ NameInv
    BY DEF OneAgentInv
  <2>3. CASE UNCHANGED file
    BY <2>3 DEF Held
  <2>4. CASE Step(m)
    BY <2>1, <2>2, <2>4, BodiesAreKept
  <2>5. ASSUME NEW a \in Agents, Step(a)
        PROVE  a = m
    BY <2>1, <2>2, <2>5, OthersRest
  <2> QED BY <2>3, <2>4, <2>5 DEF Next, Restart, vars
<1>2. Spec => [][OneStep]_vars
  BY <1>1, OneAgentStarts, OneAgentIsKept, PTL DEF Spec
<1> QED BY <1>2 DEF BodiesSurvive
==============================================================================
