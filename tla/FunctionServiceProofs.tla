------------------------ MODULE FunctionServiceProofs ------------------------
(***************************************************************************)
(* What holds of the functions of an application for any number of ids,    *)
(* names and requests, however requests overlap and fail: no function is   *)
(* lost between the collection and the recycle bin (RequestInv, DataInv);  *)
(* the runtime's cache and modules are current once its stream is settled  *)
(* (KnowledgeInv); the two databases agree about every name that is        *)
(* not torn once all requests have ended (AgreementInv).                   *)
(***************************************************************************)
EXTENDS FunctionService, FiniteSetTheorems, TLAPS

Item == [id : Ids, doc : Doc]
FnSets == UNION {[S -> Doc] : S \in SUBSET Ids}
Kinds == {"none", "create", "update", "rename", "remove", "restore", "use"}
Transactional == {"rename", "remove", "restore", "use"}
Steps == {"idle", "find", "check", "bin", "room", "take", "insert", "write", "reread", "move",
          "return", "publish", "triggers", "commit"}

RequestType ==
    [kind : Kinds, at : Steps, name : Names \cup {None}, to : Names \cup {None},
     code : Codes \cup {None}, ids : SUBSET Ids, func : Docs, items : SUBSET Item,
     fns : FnSets, called : BOOLEAN, found : BOOLEAN, alone : BOOLEAN]

-----------------------------------------------------------------------------
(* The records of the requests *)

\* Everything of a request but what is known of its neighbours and of triggers.
SameWork(x, y) ==
    /\ x.kind = y.kind /\ x.at = y.at /\ x.name = y.name /\ x.to = y.to /\ x.code = y.code
    /\ x.ids = y.ids /\ x.func = y.func /\ x.items = y.items /\ x.fns = y.fns

LEMMA SingleFn ==
  ASSUME NEW i \in Ids, NEW d \in Doc
  PROVE  /\ [j \in {i} |-> d] \in FnSets /\ DOMAIN [j \in {i} |-> d] = {i}
         /\ [j \in {i} |-> d][i] = d
         /\ [j \in {i} |-> d] # <<>>
<1> DEFINE f == [j \in {i} |-> d]
<1>1. f \in [{i} -> Doc] /\ DOMAIN f = {i} /\ f[i] = d
  OBVIOUS
<1>2. f \in FnSets
  BY <1>1 DEF FnSets
<1>3. DOMAIN <<>> = {}
  OBVIOUS
<1> QED  BY <1>1, <1>2, <1>3

LEMMA NoFns == <<>> \in FnSets /\ DOMAIN <<>> = {}
<1>1. <<>> \in [{} -> Doc]
  OBVIOUS
<1> QED  BY <1>1 DEF FnSets

LEMMA FnsFacts ==
  ASSUME NEW f \in FnSets
  PROVE  DOMAIN f \subseteq Ids /\ \A i \in DOMAIN f : f[i] \in Doc
BY DEF FnSets

LEMMA ItemFns ==
  ASSUME NEW items \in SUBSET Item
  PROVE  /\ AsFunction(items) \in FnSets
         /\ DOMAIN AsFunction(items) = {b.id : b \in items}
<1> DEFINE ids == {b.id : b \in items}
<1>1. ids \subseteq Ids
  BY DEF Item
<1>2. ASSUME NEW i \in ids PROVE (CHOOSE b \in items : b.id = i).doc \in Doc
  <2>1. \E b \in items : b.id = i
    OBVIOUS
  <2>2. (CHOOSE b \in items : b.id = i) \in items
    BY <2>1
  <2> QED  BY <2>2 DEF Item
<1>3. AsFunction(items) \in [ids -> Doc] /\ DOMAIN AsFunction(items) = ids
  BY <1>2 DEF AsFunction
<1> HIDE DEF ids
<1>4. AsFunction(items) \in FnSets
  BY <1>1, <1>3 DEF FnSets
<1> QED  BY <1>3, <1>4 DEF ids

LEMMA FnItems ==
  ASSUME NEW f \in FnSets
  PROVE  /\ Items(f, DOMAIN f) \subseteq Item
         /\ \A b \in Items(f, DOMAIN f) : b.id \in DOMAIN f
         /\ \A i \in DOMAIN f : \E b \in Items(f, DOMAIN f) : b.id = i
<1>1. \A i \in DOMAIN f : [id |-> i, doc |-> f[i]] \in Item
  BY FnsFacts DEF Item
<1>2. \A i \in DOMAIN f : [id |-> i, doc |-> f[i]] \in Items(f, DOMAIN f)
                           /\ [id |-> i, doc |-> f[i]].id = i
  BY DEF Items
<1>3. \A b \in Items(f, DOMAIN f) : \E i \in DOMAIN f : b = [id |-> i, doc |-> f[i]]
  BY DEF Items
<1> QED  BY <1>1, <1>2, <1>3

LEMMA IdleFacts == Idle \in RequestType
BY NoFns DEF Idle, RequestType, Kinds, Steps, Docs

LEMMA SetAt ==
  ASSUME request \in [Requests -> RequestType], NEW r \in Requests, NEW s \in Steps
  PROVE  LET rec == [request[r] EXCEPT !.at = s]
         IN  /\ rec \in RequestType
             /\ [request EXCEPT ![r].at = s] = [request EXCEPT ![r] = rec]
             /\ SameWork([rec EXCEPT !.at = request[r].at], request[r])
             /\ rec.at = s
BY DEF RequestType, SameWork

-----------------------------------------------------------------------------
(* The invariant *)

\* What the steps of each kind of request have made of its record.
Shape(x) ==
    /\ x.kind \in Kinds \ {"none", "restore"} => x.name \in Names
    /\ x.kind \in {"create", "update", "use"} => x.code \in Codes
    /\ x.kind = "rename" => x.to \in Names
    /\ x.kind = "use" /\ x.at = "check" => x.to \in Names
    /\ x.kind = "rename" /\ x.at \in {"check", "move"} => x.func \in Doc
    /\ x.kind = "restore" /\ x.at = "return" => x.items # {} /\ \A b \in x.items : b.id \in x.ids
    /\ x.at = "commit" => x.kind \in Transactional
    /\ x.at = "find" => x.kind \in {"update", "rename", "remove"}
    /\ x.at \in {"write", "reread"} => x.kind \in {"create", "update"}
    /\ x.at \in {"move", "triggers"} => x.kind = "rename"
    /\ x.at \in {"room", "take"} => x.kind = "remove"
    /\ x.at \in {"bin", "return"} => x.kind = "restore"
    /\ x.at \in {"check", "insert"} => x.kind \in {"create", "rename", "use"}
    /\ x.fns = <<>> <=> x.at \notin {"publish", "triggers", "commit"}

InTx(x) == x.kind \in Transactional /\ x.fns # <<>>
WritesOf(x) == DOMAIN x.fns \cup (IF x.kind = "restore" THEN {b.id : b \in x.items} ELSE {})

\* What a transaction has locked is still as it found it.
Fits(x) ==
    InTx(x) =>
        /\ x.kind \in {"rename", "remove"} => \A i \in DOMAIN x.fns : Has(stored, i)
        /\ x.kind = "use" => DOMAIN x.fns \cap born = {}
        /\ x.kind = "restore" => x.items \subseteq bin
                                 /\ \A b \in bin : b.id \in DOMAIN x.fns => b \in x.items

Disjoint(x, y) == InTx(x) /\ InTx(y) => WritesOf(x) \cap WritesOf(y) = {}

RequestInv ==
    /\ request \in [Requests -> RequestType]
    /\ torn \subseteq Names
    /\ \A r \in Requests : Shape(request[r]) /\ Fits(request[r])
    /\ \A r \in Requests, q \in Requests : r # q => Disjoint(request[r], request[q])

DataInv ==
    /\ stored \in [Ids -> Docs]
    /\ bin \subseteq Item
    /\ trigger \subseteq Names
    /\ born \subseteq Ids
    /\ purged \subseteq born
    /\ \A i \in Ids : Has(stored, i) => i \in born
    /\ \A b \in bin : b.id \in born
    /\ NothingLost

LEMMA LockedFacts ==
  ASSUME NEW q \in Requests
  PROVE  /\ InTransaction(q) <=> InTx(request[q])
         /\ Writes(q) = WritesOf(request[q])
         /\ InTx(request[q]) => WritesOf(request[q]) \subseteq Locked
<1>1. (InTransaction(q) <=> InTx(request[q])) /\ Writes(q) = WritesOf(request[q])
  BY DEF InTransaction, InTx, Writes, WritesOf, Kind, Fns, Transactional
<1> QED  BY <1>1 DEF Locked

LEMMA WritesAreIds == ASSUME NEW x \in RequestType PROVE WritesOf(x) \subseteq Ids
<1>1. x.fns \in FnSets /\ x.items \subseteq Item
  BY DEF RequestType
<1>2. DOMAIN x.fns \subseteq Ids /\ \A b \in x.items : b.id \in Ids
  BY <1>1, FnsFacts DEF Item
<1> QED  BY <1>2 DEF WritesOf

\* Only the work of a request counts for the invariant.
LEMMA SameFacts ==
  ASSUME NEW x, NEW y, SameWork(x, y)
  PROVE  /\ Shape(y) => Shape(x)
         /\ Fits(y) => Fits(x)
         /\ (InTx(x) <=> InTx(y)) /\ WritesOf(x) = WritesOf(y)
         /\ Fits(y)' <=> Fits(x)'
BY DEF SameWork, Shape, Fits, InTx, WritesOf

\* A request's record changes; which names its neighbours and it touch is all that else does.
LEMMA TearEffect ==
  ASSUME request \in [Requests -> RequestType], NEW r \in Requests, NEW rec \in RequestType,
         NEW names \in SUBSET Names, Tear([request EXCEPT ![r] = rec], names)
  PROVE  /\ request' \in [Requests -> RequestType]
         /\ torn' \subseteq Names
         /\ SameWork(request'[r], rec)
         /\ \A q \in Requests \ {r} : SameWork(request'[q], request[q])
<1> DEFINE reqs == [request EXCEPT ![r] = rec]
           live == {q \in Requests : reqs[q].at # "idle"}
           met(q) == {n \in Touches(reqs[q]) :
                        \E p \in Requests \ {q} : reqs[p].at # "idle" /\ n \in Touches(reqs[p])}
<1>1. reqs \in [Requests -> RequestType] /\ reqs[r] = rec
      /\ \A q \in Requests \ {r} : reqs[q] = request[q]
  OBVIOUS
<1>2. request' = [q \in Requests |-> IF q \in live /\ met(q) # {}
                                       THEN [reqs[q] EXCEPT !.alone = FALSE] ELSE reqs[q]]
  BY DEF Tear
<1>3. ASSUME NEW x \in RequestType
      PROVE  /\ [x EXCEPT !.alone = FALSE] \in RequestType
             /\ SameWork([x EXCEPT !.alone = FALSE], x) /\ SameWork(x, x)
             /\ Touches(x) \subseteq Names
  <2>1. [x EXCEPT !.alone = FALSE] \in RequestType
        /\ SameWork([x EXCEPT !.alone = FALSE], x) /\ SameWork(x, x)
    BY DEF RequestType, SameWork
  <2>2. x.name \in Names \cup {None} /\ x.to \in Names \cup {None} /\ x.fns \in FnSets
    BY DEF RequestType
  <2>3. \A i \in DOMAIN x.fns : x.fns[i].name \in Names
    BY <2>2, FnsFacts DEF Doc
  <2> QED  BY <2>1, <2>2, <2>3 DEF Touches
<1>4. ASSUME NEW q \in Requests
      PROVE  /\ request'[q] \in RequestType /\ SameWork(request'[q], reqs[q])
             /\ met(q) \subseteq Names
  <2>1. reqs[q] \in RequestType
    BY <1>1
  <2>2. request'[q] = reqs[q] \/ request'[q] = [reqs[q] EXCEPT !.alone = FALSE]
    BY <1>2
  <2> QED  BY <1>3, <2>1, <2>2
<1>5. request' \in [Requests -> RequestType]
  BY <1>2, <1>4
<1>6. torn' \subseteq Names
  <2>1. Doubled(stored) \subseteq Names /\ live \subseteq Requests
    BY DEF Doubled
  <2>2. \A q \in live : met(q) \subseteq Names
    BY <1>4, <2>1
  <2> DEFINE all == UNION {met(q) : q \in live}
  <2>3. torn' = names \cup Doubled(stored) \cup all
    BY DEF Tear
  <2>4. all \subseteq Names
    <3> HIDE DEF met, live
    <3> QED  BY <2>2
  <2> HIDE DEF all
  <2> QED  BY <2>1, <2>3, <2>4
<1> QED  BY <1>1, <1>4, <1>5, <1>6

\* A request goes on while the data stay as they are.
LEMMA RequestChange ==
  ASSUME RequestInv, DataInv, NEW r \in Requests, NEW rec \in RequestType,
         NEW names \in SUBSET Names, Tear([request EXCEPT ![r] = rec], names),
         Shape(rec), Fits(rec), \A q \in Requests \ {r} : Disjoint(rec, request[q]),
         UNCHANGED <<stored, bin, trigger, born, purged, triggered>>
  PROVE  RequestInv' /\ DataInv'
<1>1. /\ request' \in [Requests -> RequestType] /\ torn' \subseteq Names
      /\ SameWork(request'[r], rec)
      /\ \A q \in Requests \ {r} : SameWork(request'[q], request[q])
  BY TearEffect DEF RequestInv
<1>2. \A x : Fits(x)' <=> Fits(x)
  BY DEF Fits, Has
<1>3. \A q \in Requests : Shape(request'[q]) /\ Fits(request'[q])
  BY <1>1, SameFacts DEF RequestInv
<1>4. \A q \in Requests, p \in Requests : q # p => Disjoint(request'[q], request'[p])
  <2>1. ASSUME NEW q \in Requests \ {r}
        PROVE  Disjoint(request'[q], request'[r]) /\ Disjoint(request'[r], request'[q])
    BY <1>1, SameFacts DEF Disjoint
  <2>2. ASSUME NEW q \in Requests \ {r}, NEW p \in Requests \ {r}, q # p
        PROVE  Disjoint(request'[q], request'[p])
    <3>1. Disjoint(request[q], request[p])
      BY <2>2 DEF RequestInv
    <3>2. /\ InTx(request'[q]) <=> InTx(request[q])
          /\ WritesOf(request'[q]) = WritesOf(request[q])
          /\ InTx(request'[p]) <=> InTx(request[p])
          /\ WritesOf(request'[p]) = WritesOf(request[p])
      BY <1>1, SameFacts
    <3> QED  BY <3>1, <3>2 DEF Disjoint
  <2> QED  BY <2>1, <2>2
<1>5. RequestInv'
  BY <1>1, <1>2, <1>3, <1>4 DEF RequestInv, Fits, Has
<1>6. DataInv'
  BY DEF DataInv, NothingLost, Has
<1> QED  BY <1>5, <1>6

-----------------------------------------------------------------------------
(* Steps that leave the data alone *)

Data == <<stored, bin, trigger, born, purged, triggered>>

\* What a request may tear, heal or hand on are names.
LEMMA MarksAreNames ==
  ASSUME RequestInv, NEW r \in Requests
  PROVE  /\ Touches(request[r]) \subseteq Names /\ torn \subseteq Names
         /\ Healed(r) \subseteq Names
         /\ Inherited(r) \subseteq Names
<1>1. request[r] \in RequestType /\ torn \subseteq Names /\ Shape(request[r])
  BY DEF RequestInv
<1>2. request[r].name \in Names \cup {None} /\ request[r].to \in Names \cup {None}
      /\ request[r].fns \in FnSets
  BY <1>1 DEF RequestType
<1>3. \A i \in DOMAIN request[r].fns : request[r].fns[i].name \in Names
  BY <1>2, FnsFacts DEF Doc
<1>4. Touches(request[r]) \subseteq Names
  BY <1>2, <1>3 DEF Touches
<1>5. Inherited(r) \subseteq Names
  BY <1>1, <1>3 DEF Shape, Inherited, Kind, Name, Fns, Kinds
<1> QED  BY <1>1, <1>4, <1>5 DEF Shape, Healed, Kind, Name, Kinds

LEMMA ReleaseKeeps ==
  ASSUME RequestInv, DataInv, NEW r \in Requests, End(r) \/ Failed(r) \/ Succeeded(r),
         UNCHANGED Data
  PROVE  RequestInv' /\ DataInv'
<1>1. Touches(request[r]) \subseteq Names /\ torn \subseteq Names
      /\ Healed(r) \subseteq Names /\ Inherited(r) \subseteq Names
  BY MarksAreNames
<1>2. PICK names \in SUBSET Names : Tear([request EXCEPT ![r] = Idle], names)
  BY <1>1 DEF End, Failed, Succeeded
<1>3. Shape(Idle) /\ ~InTx(Idle)
  BY DEF Shape, InTx, Idle, Transactional
<1> QED  BY <1>2, <1>3, IdleFacts, RequestChange DEF Fits, Disjoint, Data

\* A step that changes neither what a transaction will write nor what it has found.
LEMMA SameTransaction ==
  ASSUME RequestInv, NEW r \in Requests, NEW x,
         x.kind = request[r].kind, x.fns = request[r].fns,
         x.items = request[r].items \/ x.kind # "restore"
  PROVE  Fits(x) /\ \A q \in Requests \ {r} : Disjoint(x, request[q])
<1>1. /\ InTx(x) <=> InTx(request[r])
      /\ WritesOf(x) = WritesOf(request[r])
      /\ Fits(request[r])
      /\ \A q \in Requests \ {r} : Disjoint(request[r], request[q])
  BY DEF InTx, WritesOf, RequestInv
<1> QED  BY <1>1 DEF Fits, Disjoint, InTx

LEMMA NoTransaction ==
  ASSUME NEW x, ~InTx(x)
  PROVE  Fits(x) /\ \A q \in Requests : Disjoint(x, request[q])
BY DEF Fits, Disjoint

LEMMA GotoKeeps ==
  ASSUME RequestInv, DataInv, NEW r \in Requests, NEW s \in Steps, Goto(r, s), UNCHANGED Data,
         Shape([request[r] EXCEPT !.at = s])
  PROVE  RequestInv' /\ DataInv'
<1> DEFINE rec == [request[r] EXCEPT !.at = s]
<1>1. /\ rec \in RequestType
      /\ [request EXCEPT ![r].at = s] = [request EXCEPT ![r] = rec]
      /\ SameWork([rec EXCEPT !.at = request[r].at], request[r])
  BY SetAt DEF RequestInv
<1>2. rec.kind = request[r].kind /\ rec.fns = request[r].fns /\ rec.items = request[r].items
  BY DEF RequestInv, RequestType
<1>3. Fits(rec) /\ \A q \in Requests \ {r} : Disjoint(rec, request[q])
  <2> HIDE DEF rec
  <2> QED  BY <1>2, SameTransaction
<1>4. Tear([request EXCEPT ![r] = rec], torn) /\ torn \in SUBSET Names
  BY <1>1 DEF Goto, RequestInv
<1>5. Shape(rec)
  OBVIOUS
<1> HIDE DEF rec
<1> QED  BY <1>1, <1>3, <1>4, <1>5, RequestChange DEF Data

LEMMA SnapshotFacts ==
  ASSUME DataInv, NEW kind, NEW names
  PROVE  Snapshot(kind, names) \in SUBSET Item
<1>1. \A k \in Named(stored, names) : k \in Ids /\ stored[k] \in Doc
  BY DEF DataInv, Named, Has, Docs
<1> QED  BY <1>1 DEF Snapshot, Items, Item

LEMMA CallKeeps ==
  ASSUME RequestInv, DataInv, NEW r \in Requests, NEW kind \in Kinds \ {"none"},
         NEW name \in Names \cup {None}, NEW to \in Names \cup {None},
         NEW code \in Codes \cup {None}, NEW ids \in SUBSET Ids,
         Call(r, kind, name, to, code, ids),
         kind # "restore" => name \in Names, kind \in {"rename", "use"} => to \in Names,
         kind \in {"create", "update", "use"} => code \in Codes
  PROVE  RequestInv' /\ DataInv'
<1> DEFINE items == Snapshot(kind, {name, to})
           rec == [Idle EXCEPT !.kind = kind, !.at = FirstStep(kind), !.name = name,
                               !.to = to, !.code = code, !.ids = ids, !.items = items]
<1>0. items \in SUBSET Item
  BY SnapshotFacts
<1>1. FirstStep(kind) \in Steps \ {"idle", "move", "return", "publish", "triggers", "commit"}
      /\ (FirstStep(kind) = "check" => kind \in {"create", "use"})
      /\ (FirstStep(kind) = "find" => kind \in {"update", "rename", "remove"})
      /\ (FirstStep(kind) = "bin" => kind = "restore")
      /\ FirstStep(kind) \in {"find", "check", "bin"}
  BY DEF FirstStep, Kinds, Steps
<1> HIDE DEF FirstStep
<1>3. Tear([request EXCEPT ![r] = rec], torn) /\ torn \in SUBSET Names
  BY DEF Call, RequestInv
<1> HIDE DEF items
<1>2. /\ rec \in RequestType
      /\ rec.kind = kind /\ rec.at = FirstStep(kind) /\ rec.name = name /\ rec.to = to
      /\ rec.code = code /\ rec.fns = <<>>
  BY <1>0, <1>1, IdleFacts DEF Idle, RequestType
<1> HIDE DEF rec
<1>4. Shape(rec)
  BY <1>1, <1>2 DEF Shape, Kinds, Transactional
<1>5. ~InTx(rec)
  BY <1>2 DEF InTx
<1> QED  BY <1>2, <1>3, <1>4, <1>5, NoTransaction, RequestChange DEF Data, Call

LEMMA NamedFacts ==
  ASSUME DataInv, NEW n, NEW i \in Named(stored, {n})
  PROVE  i \in Ids /\ Has(stored, i) /\ stored[i] \in Doc /\ stored[i].name = n
BY DEF DataInv, Named, Has, Docs

LEMMA FindKeeps ==
  ASSUME RequestInv, DataInv, NEW r \in Requests, Find(r) PROVE RequestInv' /\ DataInv'
<1>1. UNCHANGED Data /\ request[r].at = "find"
  BY DEF Find, Data, At
<1>2. CASE Named(stored, {Name(r)}) = {}
  BY <1>1, <1>2, ReleaseKeeps DEF Find
<1>3. CASE Named(stored, {Name(r)}) # {}
  <2> DEFINE step == CASE Kind(r) = "update" -> "write" [] Kind(r) = "rename" -> "check"
                       [] Kind(r) = "remove" -> "room"
  <2>1. PICK i \in Named(stored, {Name(r)}) :
          Tear([request EXCEPT ![r].func = stored[i], ![r].at = step], torn)
    BY <1>3 DEF Find
  <2>2. request[r] \in RequestType /\ Shape(request[r]) /\ torn \in SUBSET Names
        /\ request \in [Requests -> RequestType]
    BY DEF RequestInv
  <2>3. request[r].kind \in {"update", "rename", "remove"} /\ request[r].fns = <<>>
        /\ request[r].name \in Names
        /\ (request[r].kind = "rename" => request[r].to \in Names)
        /\ (request[r].kind = "update" => request[r].code \in Codes)
    BY <1>1, <2>2 DEF Shape, Kinds
  <2>4. \/ step = "write" /\ request[r].kind = "update"
        \/ step = "check" /\ request[r].kind = "rename"
        \/ step = "room" /\ request[r].kind = "remove"
    BY <2>3 DEF Kind
  <2> HIDE DEF step
  <2>5. step \in Steps
    BY <2>4 DEF Steps
  <2> DEFINE doc == stored[i]
             rec == [request[r] EXCEPT !.func = doc, !.at = step]
  <2>6. doc \in Doc /\ doc \in Docs
    BY NamedFacts DEF Docs
  <2> HIDE DEF doc
  <2>7. /\ rec \in RequestType
        /\ [request EXCEPT ![r].func = doc, ![r].at = step] = [request EXCEPT ![r] = rec]
        /\ rec.at = step /\ rec.func = doc /\ rec.kind = request[r].kind /\ rec.fns = <<>>
        /\ rec.name = request[r].name /\ rec.to = request[r].to /\ rec.code = request[r].code
    BY <2>2, <2>3, <2>5, <2>6 DEF RequestType
  <2>8. Tear([request EXCEPT ![r] = rec], torn)
    BY <2>1, <2>7 DEF doc
  <2> HIDE DEF rec
  <2>9. Shape(rec)
    BY <2>3, <2>4, <2>6, <2>7 DEF Shape, Kinds
  <2>10. ~InTx(rec)
    BY <2>7 DEF InTx
  <2> QED  BY <1>1, <2>2, <2>7, <2>8, <2>9, <2>10, NoTransaction, RequestChange DEF Data
<1> QED  BY <1>2, <1>3

\* The steps that only look, and those of a transaction that goes on.
LEMMA GoOnKeeps ==
  ASSUME RequestInv, DataInv, NEW r \in Requests, NEW s \in Steps, Goto(r, s), UNCHANGED Data,
         \/ At(r, "room") /\ s = "take"
         \/ At(r, "check") /\ Kind(r) = "create" /\ s = "insert"
         \/ At(r, "check") /\ Kind(r) = "rename" /\ s = "move"
         \/ At(r, "publish") /\ Kind(r) = "rename" /\ s = "triggers"
         \/ At(r, "publish") /\ Kind(r) \in Transactional /\ s = "commit"
  PROVE  RequestInv' /\ DataInv'
<1>1. Shape(request[r]) /\ request[r] \in RequestType
  BY DEF RequestInv
<1> DEFINE rec == [request[r] EXCEPT !.at = s]
<1>2. /\ rec.at = s /\ rec.kind = request[r].kind /\ rec.fns = request[r].fns
      /\ rec.name = request[r].name /\ rec.to = request[r].to /\ rec.code = request[r].code
      /\ rec.func = request[r].func
  BY <1>1 DEF RequestType
<1> HIDE DEF rec
<1>3. Shape(rec)
  BY <1>1, <1>2 DEF Shape, At, Kind, Transactional
<1> QED  BY <1>3, GotoKeeps DEF rec

LEMMA LookKeeps ==
  ASSUME RequestInv, DataInv, NEW r \in Requests, Room(r) \/ CheckNew(r) \/ CheckNewName(r)
  PROVE  RequestInv' /\ DataInv'
<1>1. UNCHANGED Data /\ {"take", "insert", "move"} \subseteq Steps
  BY DEF Room, CheckNew, CheckNewName, Data, Steps
<1>2. CASE Room(r)
  BY <1>1, <1>2, ReleaseKeeps, GoOnKeeps DEF Room
<1>3. CASE CheckNew(r)
  BY <1>1, <1>3, ReleaseKeeps, GoOnKeeps DEF CheckNew
<1>4. CASE CheckNewName(r)
  BY <1>1, <1>4, ReleaseKeeps, GoOnKeeps DEF CheckNewName
<1> QED  BY <1>2, <1>3, <1>4

LEMMA CheckItemsKeeps ==
  ASSUME RequestInv, DataInv, NEW r \in Requests, CheckItems(r) PROVE RequestInv' /\ DataInv'
<1> DEFINE found(n) == {b \in request[r].items : b.doc.name = n}
<1>0. request[r].name \in Names /\ request[r].to \in Names
  BY DEF CheckItems, RequestInv, Shape, At, Kind, Kinds
<1>1. PICK n \in Names :
        Tear([request EXCEPT ![r].name = n, ![r].to = None, ![r].at = "insert",
                             ![r].items = {b \in @ : b.doc.name = n}], torn)
  <2> DEFINE m == IF Named(stored, {Name(r)}) # {} THEN request[r].to ELSE Name(r)
  <2>1. m \in Names
    BY <1>0 DEF Name
  <2>2. Tear([request EXCEPT ![r].name = m, ![r].to = None, ![r].at = "insert",
                             ![r].items = {b \in @ : b.doc.name = m}], torn)
    BY DEF CheckItems
  <2> HIDE DEF m
  <2> QED  BY <2>1, <2>2
<1>2. /\ request \in [Requests -> RequestType] /\ torn \in SUBSET Names
      /\ Shape(request[r]) /\ request[r].kind = "use" /\ request[r].at = "check"
  BY DEF RequestInv, CheckItems, At, Kind
<1> DEFINE rec == [request[r] EXCEPT !.name = n, !.to = None, !.at = "insert",
                                     !.items = found(n)]
<1>3. /\ rec \in RequestType
      /\ [request EXCEPT ![r].name = n, ![r].to = None, ![r].at = "insert",
                         ![r].items = {b \in @ : b.doc.name = n}]
           = [request EXCEPT ![r] = rec]
      /\ rec.at = "insert" /\ rec.kind = "use" /\ rec.fns = request[r].fns /\ rec.name = n
      /\ rec.code = request[r].code
  BY <1>2 DEF RequestType, Steps
<1>4. Tear([request EXCEPT ![r] = rec], torn)
  BY <1>1, <1>3
<1> HIDE DEF rec
<1>5. Shape(rec)
  BY <1>2, <1>3 DEF Shape
<1>6. ~InTx(rec)
  BY <1>2, <1>3 DEF InTx, Shape
<1> QED  BY <1>2, <1>3, <1>4, <1>5, <1>6, NoTransaction, RequestChange DEF CheckItems

\* What is compiled is a function, and so is what an insert makes.
LEMMA RereadKeeps ==
  ASSUME RequestInv, DataInv, NEW r \in Requests, Reread(r) PROVE RequestInv' /\ DataInv'
<1>1. UNCHANGED Data /\ request[r].at = "reread"
  BY DEF Reread, Data, At
<1>2. CASE Named(stored, {Name(r)}) = {}
  BY <1>1, <1>2, ReleaseKeeps DEF Reread
<1>3. CASE Named(stored, {Name(r)}) # {}
  <2>1. PICK i \in Named(stored, {Name(r)}) :
          Tear([request EXCEPT ![r].fns = [j \in {i} |-> stored[i]], ![r].at = "publish"], torn)
    BY <1>3 DEF Reread
  <2> DEFINE f == [j \in {i} |-> stored[i]]
             rec == [request[r] EXCEPT !.fns = f, !.at = "publish"]
  <2>2. f \in FnSets /\ f # <<>>
    BY NamedFacts, SingleFn
  <2> HIDE DEF f
  <2>3. /\ request \in [Requests -> RequestType] /\ torn \in SUBSET Names
        /\ request[r] \in RequestType /\ Shape(request[r])
    BY DEF RequestInv
  <2>4. /\ rec \in RequestType
        /\ [request EXCEPT ![r].fns = f, ![r].at = "publish"] = [request EXCEPT ![r] = rec]
        /\ rec.at = "publish" /\ rec.fns = f
    BY <2>2, <2>3 DEF RequestType, Steps
  <2>5. /\ rec.kind = request[r].kind /\ rec.name = request[r].name
        /\ rec.code = request[r].code /\ rec.to = request[r].to
    BY <2>3 DEF RequestType
  <2>6. Tear([request EXCEPT ![r] = rec], torn)
    BY <2>1, <2>4 DEF f
  <2> HIDE DEF rec
  <2>7. Shape(rec)
    BY <1>1, <2>2, <2>3, <2>4, <2>5 DEF Shape
  <2>8. ~InTx(rec)
    BY <1>1, <2>3, <2>5 DEF InTx, Shape, Transactional
  <2> QED  BY <1>1, <2>3, <2>4, <2>6, <2>7, <2>8, NoTransaction, RequestChange DEF Data
<1> QED  BY <1>2, <1>3

\* A transaction begins: what it writes is locked by no other one.
LEMMA BeginKeeps ==
  ASSUME RequestInv, DataInv, NEW r \in Requests, NEW rec \in RequestType,
         Tear([request EXCEPT ![r] = rec], torn), UNCHANGED Data,
         Shape(rec), Fits(rec), WritesOf(rec) \cap Locked = {}
  PROVE  RequestInv' /\ DataInv'
<1>1. \A q \in Requests \ {r} : Disjoint(rec, request[q])
  BY LockedFacts DEF Disjoint
<1> QED  BY <1>1, RequestChange DEF RequestInv, Data

LEMMA InsertItemsKeeps ==
  ASSUME RequestInv, DataInv, NEW r \in Requests, InsertItems(r) PROVE RequestInv' /\ DataInv'
<1>1. PICK i \in Fresh :
        Tear([request EXCEPT ![r].fns = [j \in {i} |-> NewDoc(r)], ![r].at = "publish"], torn)
  BY DEF InsertItems
<1>2. /\ request \in [Requests -> RequestType] /\ torn \in SUBSET Names
      /\ request[r] \in RequestType /\ Shape(request[r])
      /\ request[r].kind = "use" /\ request[r].at = "insert" /\ UNCHANGED Data
  BY DEF RequestInv, InsertItems, At, Kind, Data
<1>4. i \in Ids /\ i \notin born /\ i \notin Locked /\ NewDoc(r) \in Doc
  BY <1>2 DEF Fresh, NewDoc, Doc, Shape, Kinds, Name
<1> DEFINE f == [j \in {i} |-> NewDoc(r)]
           rec == [request[r] EXCEPT !.fns = f, !.at = "publish"]
<1>5. f \in FnSets /\ DOMAIN f = {i} /\ f # <<>>
  BY <1>4, SingleFn
<1>6. Tear([request EXCEPT ![r].fns = f, ![r].at = "publish"], torn)
  BY <1>1
<1> HIDE DEF f
<1>7. /\ rec \in RequestType
      /\ [request EXCEPT ![r].fns = f, ![r].at = "publish"] = [request EXCEPT ![r] = rec]
      /\ rec.at = "publish" /\ rec.fns = f /\ rec.kind = "use"
      /\ rec.name = request[r].name /\ rec.code = request[r].code
  BY <1>2, <1>5 DEF RequestType, Steps
<1>8. Tear([request EXCEPT ![r] = rec], torn)
  BY <1>6, <1>7
<1> HIDE DEF rec
<1>9. Shape(rec)
  BY <1>2, <1>5, <1>7 DEF Shape, Kinds
<1>10. Fits(rec) /\ WritesOf(rec) \cap Locked = {}
  BY <1>4, <1>5, <1>7 DEF Fits, WritesOf
<1> QED  BY <1>2, <1>7, <1>8, <1>9, <1>10, BeginKeeps

LEMMA TakeKeeps ==
  ASSUME RequestInv, DataInv, NEW r \in Requests, Take(r) PROVE RequestInv' /\ DataInv'
<1>1. /\ request \in [Requests -> RequestType]
      /\ request[r] \in RequestType /\ Shape(request[r])
      /\ request[r].at = "take" /\ request[r].kind = "remove" /\ UNCHANGED Data
  BY DEF RequestInv, Take, At, Data, Shape
<1>2. CASE Failed(r)
  BY <1>1, <1>2, ReleaseKeeps
<1>3. CASE ~Failed(r)
  <2>1. PICK i \in Named(stored, {Name(r)}) :
          /\ i \notin Locked
          /\ Tear([request EXCEPT ![r].fns = [j \in {i} |-> stored[i]], ![r].at = "publish"], torn)
    BY <1>3 DEF Take
  <2> DEFINE f == [j \in {i} |-> stored[i]]
             rec == [request[r] EXCEPT !.fns = f, !.at = "publish"]
  <2>2. f \in FnSets /\ DOMAIN f = {i} /\ f # <<>> /\ Has(stored, i)
    BY NamedFacts, SingleFn
  <2>3. Tear([request EXCEPT ![r].fns = f, ![r].at = "publish"], torn)
    BY <2>1
  <2> HIDE DEF f
  <2>4. /\ rec \in RequestType
        /\ [request EXCEPT ![r].fns = f, ![r].at = "publish"] = [request EXCEPT ![r] = rec]
        /\ rec.at = "publish" /\ rec.fns = f
    BY <1>1, <2>2 DEF RequestType, Steps
  <2>5. rec.kind = "remove" /\ rec.name = request[r].name
    BY <1>1 DEF RequestType
  <2>6. Tear([request EXCEPT ![r] = rec], torn)
    BY <2>3, <2>4
  <2> HIDE DEF rec
  <2>7. Shape(rec)
    BY <1>1, <2>2, <2>4, <2>5 DEF Shape
  <2>8. Fits(rec) /\ WritesOf(rec) \cap Locked = {}
    BY <2>1, <2>2, <2>4, <2>5 DEF Fits, WritesOf
  <2> QED  BY <1>1, <2>4, <2>6, <2>7, <2>8, BeginKeeps
<1> QED  BY <1>2, <1>3

LEMMA MoveKeeps ==
  ASSUME RequestInv, DataInv, NEW r \in Requests, Move(r) PROVE RequestInv' /\ DataInv'
<1>1. /\ request \in [Requests -> RequestType]
      /\ request[r] \in RequestType /\ Shape(request[r])
      /\ request[r].at = "move" /\ request[r].kind = "rename" /\ UNCHANGED Data
  BY DEF RequestInv, Move, At, Data, Shape
<1>2. CASE Failed(r)
  BY <1>1, <1>2, ReleaseKeeps
<1>3. CASE ~Failed(r)
  <2> DEFINE moved(i) == [name |-> request[r].to, code |-> stored[i].code,
                          compiled |-> request[r].func.code]
             called == Name(r) \in trigger
  <2>1. PICK i \in Named(stored, {Name(r)}) :
          /\ i \notin Locked
          /\ Tear([request EXCEPT ![r].fns = [j \in {i} |-> moved(i)], ![r].at = "publish",
                                  ![r].called = called], torn)
    BY <1>3 DEF Move
  <2> DEFINE f == [j \in {i} |-> moved(i)]
             rec == [request[r] EXCEPT !.fns = f, !.at = "publish", !.called = called]
  <2>2. moved(i) \in Doc /\ Has(stored, i) /\ i \in Ids
    BY <1>1, NamedFacts DEF Shape, Doc
  <2> HIDE DEF moved
  <2>3. f \in FnSets /\ DOMAIN f = {i} /\ f # <<>>
    BY <2>2, SingleFn
  <2>4. Tear([request EXCEPT ![r].fns = f, ![r].at = "publish", ![r].called = called], torn)
    BY <2>1
  <2>5. called \in BOOLEAN
    OBVIOUS
  <2> HIDE DEF f, called
  <2>6. /\ rec \in RequestType
        /\ [request EXCEPT ![r].fns = f, ![r].at = "publish", ![r].called = called]
             = [request EXCEPT ![r] = rec]
        /\ rec.at = "publish" /\ rec.fns = f /\ rec.kind = "rename"
        /\ rec.name = request[r].name /\ rec.to = request[r].to
    BY <1>1, <2>3, <2>5 DEF RequestType, Steps
  <2>7. Tear([request EXCEPT ![r] = rec], torn)
    BY <2>4, <2>6
  <2> HIDE DEF rec
  <2>8. Shape(rec)
    BY <1>1, <2>3, <2>6 DEF Shape, Kinds
  <2>9. Fits(rec) /\ WritesOf(rec) \cap Locked = {}
    BY <2>1, <2>2, <2>3, <2>6 DEF Fits, WritesOf
  <2> QED  BY <1>1, <2>6, <2>7, <2>8, <2>9, BeginKeeps
<1> QED  BY <1>2, <1>3

LEMMA RetargetKeeps ==
  ASSUME RequestInv, DataInv, NEW r \in Requests, Retarget(r) PROVE RequestInv' /\ DataInv'
<1>1. /\ request \in [Requests -> RequestType] /\ torn \in SUBSET Names
      /\ request[r] \in RequestType /\ Shape(request[r])
      /\ request[r].at = "triggers" /\ request[r].kind = "rename" /\ UNCHANGED Data
  BY DEF RequestInv, Retarget, At, Data, Shape
<1> DEFINE found == Name(r) \in trigger
           rec == [request[r] EXCEPT !.at = "commit", !.found = found]
<1>2. found \in BOOLEAN
  OBVIOUS
<1>3. Tear([request EXCEPT ![r].at = "commit", ![r].found = found], torn)
  BY DEF Retarget
<1> HIDE DEF found
<1>4. /\ rec \in RequestType
      /\ [request EXCEPT ![r].at = "commit", ![r].found = found] = [request EXCEPT ![r] = rec]
      /\ rec.at = "commit" /\ rec.fns = request[r].fns /\ rec.kind = request[r].kind
      /\ rec.name = request[r].name /\ rec.to = request[r].to /\ rec.items = request[r].items
  BY <1>1, <1>2 DEF RequestType, Steps
<1>5. Tear([request EXCEPT ![r] = rec], torn)
  BY <1>3, <1>4
<1> HIDE DEF rec
<1>6. Shape(rec)
  BY <1>1, <1>4 DEF Shape, Transactional
<1>7. Fits(rec) /\ \A q \in Requests \ {r} : Disjoint(rec, request[q])
  BY <1>4, SameTransaction
<1> QED  BY <1>1, <1>4, <1>5, <1>6, <1>7, RequestChange DEF Data

LEMMA ReadBinKeeps ==
  ASSUME RequestInv, DataInv, NEW r \in Requests, ReadBin(r) PROVE RequestInv' /\ DataInv'
<1>1. /\ request \in [Requests -> RequestType] /\ torn \in SUBSET Names
      /\ request[r] \in RequestType /\ Shape(request[r])
      /\ request[r].at = "bin" /\ request[r].kind = "restore" /\ UNCHANGED Data
  BY DEF RequestInv, ReadBin, At, Data, Shape
<1> DEFINE items == {b \in bin : b.id \in request[r].ids}
           rec == [request[r] EXCEPT !.items = items, !.at = "return"]
<1>2. CASE items = {}
  BY <1>1, <1>2, ReleaseKeeps DEF ReadBin
<1>3. CASE items # {}
  <2>1. Tear([request EXCEPT ![r].items = items, ![r].at = "return"], torn)
    BY <1>3 DEF ReadBin
  <2>2. items \in SUBSET Item /\ \A b \in items : b.id \in request[r].ids
    BY DEF DataInv
  <2> HIDE DEF items
  <2>3. /\ rec \in RequestType
        /\ [request EXCEPT ![r].items = items, ![r].at = "return"] = [request EXCEPT ![r] = rec]
        /\ rec.at = "return" /\ rec.fns = request[r].fns /\ rec.kind = "restore"
        /\ rec.items = items /\ rec.ids = request[r].ids
    BY <1>1, <2>2 DEF RequestType, Steps
  <2>4. Tear([request EXCEPT ![r] = rec], torn)
    BY <2>1, <2>3
  <2> HIDE DEF rec
  <2>5. Shape(rec)
    BY <1>1, <1>3, <2>2, <2>3 DEF Shape
  <2>6. ~InTx(rec)
    BY <1>1, <2>3 DEF InTx, Shape
  <2> QED  BY <1>1, <2>3, <2>4, <2>5, <2>6, NoTransaction, RequestChange DEF Data
<1> QED  BY <1>2, <1>3

LEMMA ReturnKeeps ==
  ASSUME RequestInv, DataInv, NEW r \in Requests, Return(r) PROVE RequestInv' /\ DataInv'
<1> DEFINE items == request[r].items
           now == {b \in bin : b.id \in request[r].ids}
           f == AsFunction(items)
           rec == [request[r] EXCEPT !.fns = f, !.items = now, !.at = "publish"]
<1>1. /\ request \in [Requests -> RequestType] /\ torn \in SUBSET Names
      /\ request[r] \in RequestType /\ Shape(request[r])
      /\ request[r].at = "return" /\ request[r].kind = "restore" /\ UNCHANGED Data
  BY DEF RequestInv, Return, At, Data, Shape
<1>2. CASE Failed(r)
  BY <1>1, <1>2, ReleaseKeeps
<1>3. CASE ~Failed(r)
  <2>1. /\ Tear([request EXCEPT ![r].fns = f, ![r].items = now, ![r].at = "publish"], torn)
        /\ \A b \in items \cup now : b.id \notin Locked
    BY <1>3 DEF Return
  <2>2. items \in SUBSET Item /\ items # {} /\ now \in SUBSET Item
        /\ \A b \in items : b.id \in request[r].ids
    BY <1>1 DEF DataInv, RequestType, Shape
  <2>3. f \in FnSets /\ DOMAIN f = {b.id : b \in items}
    BY <2>2, ItemFns
  <2>4. f # <<>>
    BY <2>2, <2>3, NoFns
  <2>5. now \subseteq bin /\ \A b \in bin : b.id \in DOMAIN f => b \in now
    BY <2>2, <2>3
  <2>6. DOMAIN f \cap Locked = {} /\ {b.id : b \in now} \cap Locked = {}
    BY <2>1, <2>3
  <2> HIDE DEF f, now
  <2>7. /\ rec \in RequestType
        /\ [request EXCEPT ![r].fns = f, ![r].items = now, ![r].at = "publish"]
             = [request EXCEPT ![r] = rec]
        /\ rec.at = "publish" /\ rec.fns = f /\ rec.kind = "restore" /\ rec.items = now
    BY <1>1, <2>2, <2>3 DEF RequestType, Steps
  <2>8. Tear([request EXCEPT ![r] = rec], torn)
    BY <2>1, <2>7
  <2> HIDE DEF rec
  <2>9. Shape(rec)
    BY <2>4, <2>7 DEF Shape
  <2>10. Fits(rec) /\ WritesOf(rec) \cap Locked = {}
    BY <2>5, <2>6, <2>7 DEF Fits, WritesOf
  <2> QED  BY <1>1, <2>7, <2>8, <2>9, <2>10, BeginKeeps
<1> QED  BY <1>2, <1>3

\* What is published does not matter to what is stored.
LEMMA PublishKeeps ==
  ASSUME RequestInv, DataInv, NEW r \in Requests,
         \/ PublishOne(r) \/ PublishRenamed(r) \/ PublishMany(r) \/ PublishItems(r)
         \/ UnpublishRemoved(r)
  PROVE  RequestInv' /\ DataInv'
<1>1. UNCHANGED Data /\ {"triggers", "commit"} \subseteq Steps
  BY DEF PublishOne, PublishRenamed, PublishMany, PublishItems, UnpublishRemoved, PublishThen,
         Data, Steps
<1>2. CASE PublishOne(r)
  BY <1>1, <1>2, ReleaseKeeps DEF PublishOne, PublishThen
<1>3. CASE PublishRenamed(r)
  BY <1>1, <1>3, ReleaseKeeps, GoOnKeeps DEF PublishRenamed, PublishThen
<1>4. CASE PublishMany(r)
  BY <1>1, <1>4, ReleaseKeeps, GoOnKeeps DEF PublishMany, PublishThen, Transactional
<1>5. CASE PublishItems(r)
  BY <1>1, <1>5, ReleaseKeeps, GoOnKeeps DEF PublishItems, PublishThen, Transactional
<1>6. CASE UnpublishRemoved(r)
  BY <1>1, <1>6, GoOnKeeps DEF UnpublishRemoved, Transactional
<1> QED  BY <1>2, <1>3, <1>4, <1>5, <1>6

-----------------------------------------------------------------------------
(* Steps that change the data *)

\* What a request has locked is left alone.
Spared(i) ==
    /\ stored[i] # None => stored'[i] # None
    /\ i \in born' => i \in born
    /\ \A b \in bin \cup bin' : b.id = i => (b \in bin <=> b \in bin')

LEMMA SparedFits ==
  ASSUME RequestInv, NEW q \in Requests,
         InTx(request[q]) => \A i \in WritesOf(request[q]) : Spared(i)
  PROVE  \A x : x = request[q] => Fits(x)'
<1> SUFFICES ASSUME NEW x, x = request[q], InTx(x)
             PROVE  /\ x.kind \in {"rename", "remove"} => \A i \in DOMAIN x.fns : stored'[i] # None
                    /\ x.kind = "use" => DOMAIN x.fns \cap born' = {}
                    /\ x.kind = "restore" =>
                         x.items \subseteq bin'
                         /\ \A b \in bin' : b.id \in DOMAIN x.fns => b \in x.items
  BY DEF Fits, Has
<1>1. Fits(x) /\ \A i \in WritesOf(x) : Spared(i)
  BY DEF RequestInv
<1>2. DOMAIN x.fns \subseteq WritesOf(x)
      /\ (x.kind = "restore" => \A b \in x.items : b.id \in WritesOf(x))
  BY DEF WritesOf
<1>3. x.kind \in {"rename", "remove"} => \A i \in DOMAIN x.fns : stored'[i] # None
  BY <1>1, <1>2 DEF Spared, Fits, Has
<1>4. x.kind = "use" => DOMAIN x.fns \cap born' = {}
  BY <1>1, <1>2 DEF Spared, Fits
<1>5. ASSUME x.kind = "restore"
      PROVE  x.items \subseteq bin' /\ \A b \in bin' : b.id \in DOMAIN x.fns => b \in x.items
  <2>1. x.items \subseteq bin /\ \A b \in bin : b.id \in DOMAIN x.fns => b \in x.items
    BY <1>1, <1>5 DEF Fits
  <2>2. \A b \in bin \cup bin' : b.id \in WritesOf(x) => (b \in bin <=> b \in bin')
    BY <1>1 DEF Spared
  <2> QED  BY <1>2, <1>5, <2>1, <2>2
<1> QED  BY <1>3, <1>4, <1>5

LEMMA OthersKeep ==
  ASSUME RequestInv, NEW r \in Requests, NEW rec \in RequestType,
         NEW names \in SUBSET Names, Tear([request EXCEPT ![r] = rec], names),
         Shape(rec), ~InTx(rec),
         \A q \in Requests \ {r} : InTx(request[q]) => \A i \in WritesOf(request[q]) : Spared(i)
  PROVE  RequestInv'
<1>1. /\ request' \in [Requests -> RequestType] /\ torn' \subseteq Names
      /\ SameWork(request'[r], rec)
      /\ \A q \in Requests \ {r} : SameWork(request'[q], request[q])
  BY TearEffect DEF RequestInv
<1>2. Shape(request'[r]) /\ ~InTx(request'[r])
  BY <1>1, SameFacts
<1>3. ASSUME NEW q \in Requests \ {r}
      PROVE  /\ Shape(request'[q]) /\ \A x : x = request'[q] => Fits(x)'
             /\ InTx(request'[q]) <=> InTx(request[q])
             /\ WritesOf(request'[q]) = WritesOf(request[q])
  <2>1. \A x : x = request[q] => Fits(x)'
    BY SparedFits
  <2>2. ASSUME NEW x, x = request'[q] PROVE Fits(x)'
    <3>1. PICK y : y = request[q]
      OBVIOUS
    <3>2. SameWork(x, y) /\ Fits(y)'
      BY <1>1, <2>1, <2>2, <3>1
    <3> QED  BY <3>2 DEF SameWork, Fits, InTx
  <2> QED  BY <1>1, <2>2, SameFacts DEF RequestInv
<1>4. \A q \in Requests : Shape(request'[q]) /\ \A x : x = request'[q] => Fits(x)'
  <2>1. \A x : x = request'[r] => Fits(x)'
    BY <1>2 DEF Fits, InTx
  <2> QED  BY <1>2, <1>3, <2>1
<1>5. \A q \in Requests, p \in Requests : q # p => Disjoint(request'[q], request'[p])
  BY <1>2, <1>3 DEF Disjoint, RequestInv
<1>6. \A q \in Requests : Fits(request[q])'
  BY <1>4
<1> QED  BY <1>1, <1>4, <1>5, <1>6 DEF RequestInv, Shape, Disjoint, InTx, WritesOf

LEMMA QuietKeep ==
  ASSUME RequestInv, UNCHANGED <<request, torn>>,
         \A q \in Requests : InTx(request[q]) => \A i \in WritesOf(request[q]) : Spared(i)
  PROVE  RequestInv'
<1>1. \A q \in Requests : \A x : x = request[q] => Fits(x)'
  BY SparedFits
<1>2. \A q \in Requests : Fits(request[q])'
  BY <1>1
<1> QED  BY <1>2 DEF RequestInv, Shape, Disjoint, InTx, WritesOf

\* The ids of documents that are not locked.
LEMMA SparedOthers ==
  ASSUME NEW S, S \cap Locked = {},
         \A i : i \notin S => Spared(i)
  PROVE  \A q \in Requests : InTx(request[q]) => \A i \in WritesOf(request[q]) : Spared(i)
BY LockedFacts

LEMMA InsertKeeps ==
  ASSUME RequestInv, DataInv, NEW r \in Requests, InsertOne(r) PROVE RequestInv' /\ DataInv'
<1>1. PICK i \in Fresh : stored' = [stored EXCEPT ![i] = NewDoc(r)] /\ born' = born \cup {i}
  BY DEF InsertOne
<1>2. /\ request \in [Requests -> RequestType] /\ torn \in SUBSET Names
      /\ request[r] \in RequestType /\ Shape(request[r])
      /\ request[r].kind = "create" /\ request[r].at = "insert"
      /\ UNCHANGED <<bin, trigger, purged, triggered>> /\ Goto(r, "reread")
  BY DEF RequestInv, InsertOne, At, Kind
<1>3. i \in Ids /\ i \notin born /\ {i} \cap Locked = {} /\ NewDoc(r) \in Doc
  BY <1>2 DEF Fresh, NewDoc, Doc, Shape, Kinds, Name
<1>4. stored' \in [Ids -> Docs] /\ stored'[i] # None
      /\ \A j \in Ids \ {i} : stored'[j] = stored[j]
  BY <1>1, <1>3, FunctionAssumption DEF DataInv, Docs
<1>5. DataInv'
  <2>1. \A b \in bin : b.id # i /\ b.id \in born /\ b.id \in Ids
    BY <1>3 DEF DataInv, Item
  <2>2. NothingLost'
    BY <1>1, <1>2, <1>3, <1>4, <2>1 DEF DataInv, NothingLost, Has
  <2> QED  BY <1>1, <1>2, <1>3, <1>4, <2>1, <2>2 DEF DataInv, Has
<1>6. \A j : j \notin {i} => Spared(j)
  BY <1>1, <1>2, <1>3 DEF Spared, DataInv
<1> DEFINE rec == [request[r] EXCEPT !.at = "reread"]
<1>7. /\ rec \in RequestType /\ rec.at = "reread" /\ rec.kind = "create"
      /\ [request EXCEPT ![r].at = "reread"] = [request EXCEPT ![r] = rec]
      /\ rec.fns = request[r].fns /\ rec.name = request[r].name /\ rec.code = request[r].code
  BY <1>2 DEF RequestType, Steps
<1>8. Tear([request EXCEPT ![r] = rec], torn)
  BY <1>2, <1>7 DEF Goto
<1> HIDE DEF rec
<1>9. Shape(rec) /\ ~InTx(rec)
  BY <1>2, <1>7 DEF Shape, InTx, Transactional, Kinds
<1> QED  BY <1>2, <1>3, <1>5, <1>6, <1>7, <1>8, <1>9, SparedOthers, OthersKeep

LEMMA WriteKeeps ==
  ASSUME RequestInv, DataInv, NEW r \in Requests, Write(r) PROVE RequestInv' /\ DataInv'
<1>1. /\ request \in [Requests -> RequestType] /\ torn \in SUBSET Names
      /\ request[r] \in RequestType /\ Shape(request[r])
      /\ request[r].kind \in {"create", "update"} /\ request[r].at = "write"
      /\ UNCHANGED <<bin, trigger, born, purged, triggered>> /\ Goto(r, "reread")
  BY DEF RequestInv, Write, At, Shape
<1>2. stored' \in [Ids -> Docs] /\ \A j \in Ids : stored'[j] # None <=> stored[j] # None
  <2>1. CASE stored' = stored
    BY <2>1 DEF DataInv
  <2>2. CASE stored' # stored
    <3> DEFINE code == request[r].code
    <3>1. PICK i \in Named(stored, {Name(r)}) :
            stored' = [stored EXCEPT ![i].code = code, ![i].compiled = code]
      BY <2>2 DEF Write
    <3>2. code \in Codes
      BY <1>1 DEF Shape
    <3> HIDE DEF code
    <3> DEFINE doc == [stored[i] EXCEPT !.code = code, !.compiled = code]
    <3>3. i \in Ids /\ stored[i] \in Doc /\ stored[i] # None
      BY NamedFacts DEF Has
    <3>4. doc \in Doc
      BY <3>2, <3>3 DEF Doc
    <3>5. stored' = [stored EXCEPT ![i] = doc]
      BY <3>1, <3>3 DEF DataInv
    <3> HIDE DEF doc
    <3> QED  BY <3>3, <3>4, <3>5, FunctionAssumption DEF DataInv, Docs
  <2> QED  BY <2>1, <2>2
<1>3. DataInv'
  <2>1. \A b \in bin : b.id \in Ids
    BY DEF DataInv, Item
  <2>2. NothingLost'
    BY <1>1, <1>2, <2>1 DEF DataInv, NothingLost, Has
  <2> QED  BY <1>1, <1>2, <2>2 DEF DataInv, Has
<1>4. \A q \in Requests : InTx(request[q]) => \A i \in WritesOf(request[q]) : Spared(i)
  <2>1. \A i \in Ids : Spared(i)
    BY <1>1, <1>2 DEF Spared
  <2> QED  BY <2>1, WritesAreIds DEF RequestInv
<1> DEFINE rec == [request[r] EXCEPT !.at = "reread"]
<1>5. /\ rec \in RequestType /\ rec.at = "reread" /\ rec.kind = request[r].kind
      /\ [request EXCEPT ![r].at = "reread"] = [request EXCEPT ![r] = rec]
      /\ rec.fns = request[r].fns /\ rec.name = request[r].name /\ rec.code = request[r].code
  BY <1>1 DEF RequestType, Steps
<1>6. Tear([request EXCEPT ![r] = rec], torn)
  BY <1>1, <1>5 DEF Goto
<1> HIDE DEF rec
<1>7. Shape(rec) /\ ~InTx(rec)
  BY <1>1, <1>5 DEF Shape, InTx, Transactional, Kinds
<1> QED  BY <1>1, <1>3, <1>4, <1>5, <1>6, <1>7, OthersKeep

\* A commit moves what it has locked, and nothing else.
LEMMA CommitKeeps ==
  ASSUME RequestInv, DataInv, NEW r \in Requests, Commit(r) PROVE RequestInv' /\ DataInv'
<1> DEFINE x == request[r]
           d == DOMAIN x.fns
           gone == {b.id : b \in x.items}
<1>1. /\ request \in [Requests -> RequestType] /\ x \in RequestType /\ Shape(x) /\ Fits(x)
      /\ x.at = "commit" /\ x.kind \in Transactional /\ InTx(x)
  BY DEF RequestInv, Commit, At, Shape, InTx
<1>2. x.fns \in FnSets /\ d \subseteq Ids /\ (\A i \in d : x.fns[i] \in Doc /\ x.fns[i] # None)
      /\ x.items \subseteq Item
  <2>1. x.fns \in FnSets /\ x.items \subseteq Item
    BY <1>1 DEF RequestType
  <2>2. d \subseteq Ids /\ \A i \in d : x.fns[i] \in Doc
    BY <2>1, FnsFacts
  <2> QED  BY <2>1, <2>2, FunctionAssumption
<1>3. /\ stored' = [i \in Ids |-> IF i \notin d THEN stored[i]
                                  ELSE IF x.kind = "remove" THEN None ELSE x.fns[i]]
      /\ born' = born \cup d /\ triggered' = triggered
      /\ x.kind = "remove" => bin' = bin \cup Items(x.fns, d) /\ purged' = purged
      /\ x.kind = "restore" => bin' = bin \ x.items /\ purged' = purged \cup (gone \ d)
      /\ x.kind \in {"rename", "use"} => bin' = bin /\ purged' = purged
  BY <1>1 DEF Commit, Committed, Kind, Fns, Transactional
<1>4. /\ trigger' \subseteq Names
      /\ triggered' => trigger' # {}
  <2>1. trigger' = trigger \/ (x.kind = "rename" /\ x.to \in trigger'
                               /\ trigger' \subseteq trigger \cup {x.to})
    BY DEF Commit, Kind
  <2> QED  BY <1>1, <1>3, <2>1 DEF Shape, DataInv, NothingLost
<1>5. PICK names \in SUBSET Names : Tear([request EXCEPT ![r] = Idle], names)
  <2>1. Succeeded(r) /\ torn \subseteq Names
    BY DEF Commit, RequestInv
  <2>2. Healed(r) \subseteq Names /\ Inherited(r) \subseteq Names
    BY MarksAreNames
  <2> QED  BY <2>1, <2>2 DEF Succeeded
<1>6. /\ \A i \in Ids \ d : stored'[i] = stored[i]
      /\ \A i \in d : stored'[i] \in Docs /\ (x.kind = "remove" <=> stored'[i] = None)
  BY <1>2, <1>3 DEF Docs
<1>7. stored' \in [Ids -> Docs]
  BY <1>3, <1>6 DEF DataInv
<1>8. /\ \A b \in bin : b.id \in born /\ b.id \in Ids /\ ~Has(stored, b.id)
      /\ \A i \in born \ purged : Has(stored, i) \/ \E b \in bin : b.id = i
  BY DEF DataInv, NothingLost, Item
<1>9. /\ bin' \subseteq Item
      /\ \A b \in bin' : b.id \in born'
      /\ purged' \subseteq born'
      /\ \A i \in Ids : ~(stored'[i] # None /\ \E b \in bin' : b.id = i)
      /\ \A i \in born' \ purged' : stored'[i] # None \/ \E b \in bin' : b.id = i
      /\ \A b \in bin \cup bin' : b.id \notin WritesOf(x) => (b \in bin <=> b \in bin')
  <2>1. CASE x.kind = "remove"
    <3> DEFINE taken == Items(x.fns, d)
    <3>1. /\ taken \subseteq Item /\ \A b \in taken : b.id \in d
          /\ \A i \in d : \E b \in taken : b.id = i
      BY <1>2, FnItems
    <3> HIDE DEF taken
    <3>2. bin' = bin \cup taken /\ purged' = purged /\ born' = born \cup d
      BY <1>3, <2>1 DEF taken
    <3>3. bin \subseteq Item /\ purged \subseteq born
      BY DEF DataInv
    <3>4. WritesOf(x) = d
      BY <2>1 DEF WritesOf
    <3>5. \A i \in Ids : stored'[i] # None => i \notin d /\ Has(stored, i)
      BY <1>6, <2>1 DEF Has
    <3>6. \A i \in born \ purged : stored'[i] # None \/ \E b \in bin' : b.id = i
      <4> SUFFICES ASSUME NEW i \in born, i \notin purged, i \notin d
                   PROVE  stored'[i] # None \/ \E b \in bin' : b.id = i
        BY <3>1, <3>2
      <4>1. i \in Ids
        BY DEF DataInv
      <4> QED  BY <1>6, <1>8, <3>2, <4>1 DEF Has
    <3> HIDE DEF d
    <3>7. \A i \in born' \ purged' : stored'[i] # None \/ \E b \in bin' : b.id = i
      BY <3>1, <3>2, <3>6
    <3>8. \A i \in Ids : ~(stored'[i] # None /\ \E b \in bin' : b.id = i)
      BY <1>8, <3>1, <3>2, <3>5
    <3>9. bin' \subseteq Item /\ (\A b \in bin' : b.id \in born') /\ purged' \subseteq born'
      BY <1>8, <3>1, <3>2, <3>3
    <3> QED  BY <3>1, <3>2, <3>4, <3>7, <3>8, <3>9
  <2>2. CASE x.kind = "restore"
    <3>1. bin' = bin \ x.items /\ purged' = purged \cup (gone \ d) /\ born' = born \cup d
      BY <1>3, <2>2
    <3>2. x.items \subseteq bin /\ \A b \in bin : b.id \in d => b \in x.items
      BY <1>1, <2>2 DEF Fits
    <3>3. gone \subseteq born
      BY <1>8, <3>2
    <3>4. bin \subseteq Item /\ purged \subseteq born
      BY DEF DataInv
    <3>5. \A b \in x.items : b.id \in gone
      OBVIOUS
    <3>6. WritesOf(x) = d \cup gone
      BY <2>2 DEF WritesOf
    <3> HIDE DEF gone
    <3>7. \A i \in born' \ purged' : stored'[i] # None \/ \E b \in bin' : b.id = i
      <4> SUFFICES ASSUME NEW i \in born, i \notin d, i \notin purged, i \notin gone
                   PROVE  stored'[i] # None \/ \E b \in bin' : b.id = i
        BY <1>6, <2>2, <3>1, <1>2
      <4>1. i \in Ids
        BY DEF DataInv
      <4> QED  BY <1>6, <1>8, <3>1, <3>5, <4>1 DEF Has
    <3> QED  BY <1>6, <1>8, <2>2, <3>1, <3>2, <3>3, <3>4, <3>5, <3>6, <3>7 DEF Has
  <2>3. CASE x.kind \in {"rename", "use"}
    <3>1. bin' = bin /\ purged' = purged /\ born' = born \cup d
      BY <1>3, <2>3
    <3>2. \A b \in bin : b.id \notin d
      BY <1>1, <1>8, <2>3 DEF Fits
    <3>3. bin \subseteq Item /\ purged \subseteq born /\ born \subseteq Ids
      BY DEF DataInv
    <3> QED  BY <1>2, <1>6, <1>8, <2>3, <3>1, <3>2, <3>3 DEF Has
  <2> QED  BY <1>1, <2>1, <2>2, <2>3 DEF Transactional
<1>10. \A i \in Ids : stored'[i] # None => i \in born'
  BY <1>3, <1>6 DEF DataInv, Has
<1>11. born' \subseteq Ids
  BY <1>2, <1>3 DEF DataInv
<1>12. NothingLost'
  BY <1>4, <1>9 DEF NothingLost, Has
<1>13. DataInv'
  BY <1>4, <1>7, <1>9, <1>10, <1>11, <1>12 DEF DataInv, Has
<1>14. \A q \in Requests \ {r} : InTx(request[q]) => \A i \in WritesOf(request[q]) : Spared(i)
  <2> SUFFICES ASSUME NEW q \in Requests \ {r}, InTx(request[q]), NEW i \in WritesOf(request[q])
               PROVE  Spared(i)
    OBVIOUS
  <2>1. i \notin WritesOf(x) /\ i \in Ids
    BY <1>1, WritesAreIds DEF RequestInv, Disjoint
  <2>2. i \notin d
    BY <2>1 DEF WritesOf
  <2> QED  BY <1>3, <1>6, <1>9, <2>1, <2>2 DEF Spared
<1>15. Shape(Idle) /\ ~InTx(Idle)
  BY DEF Shape, InTx, Idle, Transactional
<1> QED  BY <1>5, <1>13, <1>14, <1>15, IdleFacts, OthersKeep

LEMMA PurgeKeeps ==
  ASSUME RequestInv, DataInv, NEW ids \in SUBSET Ids, Purge(ids) PROVE RequestInv' /\ DataInv'
<1>1. /\ bin' = {b \in bin : b.id \notin ids}
      /\ purged' = purged \cup {b.id : b \in {c \in bin : c.id \in ids}}
      /\ UNCHANGED <<stored, trigger, request, born, triggered, torn>>
      /\ ids \cap Locked = {}
  BY DEF Purge
<1>2. \A j : j \notin ids => Spared(j)
  BY <1>1 DEF Spared
<1>3. DataInv'
  <2>1. purged' \subseteq born
    BY <1>1 DEF DataInv
  <2>2. NothingLost'
    BY <1>1 DEF DataInv, NothingLost, Has
  <2> QED  BY <1>1, <2>1, <2>2 DEF DataInv, Has
<1> QED  BY <1>1, <1>2, <1>3, SparedOthers, QuietKeep

\* The steps that concern neither requests nor their data.
LEMMA AsideKeeps ==
  ASSUME RequestInv, DataInv, UNCHANGED <<stored, bin, request, born, purged, torn>>,
         trigger' \subseteq Names, triggered' => trigger' # {}
  PROVE  RequestInv' /\ DataInv'
<1>1. \A i : Spared(i)
  BY DEF Spared
<1>2. DataInv'
  BY DEF DataInv, NothingLost, Has
<1> QED  BY <1>1, <1>2, QuietKeep

-----------------------------------------------------------------------------
(* Every step *)

LEMMA ControlInitInv == Init => RequestInv /\ DataInv
<1> SUFFICES ASSUME Init PROVE RequestInv /\ DataInv
  OBVIOUS
<1>1. \A r \in Requests : request[r] = Idle /\ request \in [Requests -> RequestType]
  BY IdleFacts DEF Init, ControlInit
<1>2. Shape(Idle) /\ ~InTx(Idle)
  BY DEF Shape, InTx, Idle, Transactional
<1>3. RequestInv
  BY <1>1, <1>2, IdleFacts DEF RequestInv, Fits, Disjoint, Init, ControlInit
<1>4. stored \in [Ids -> Docs] /\ born = Named(stored, Names)
      /\ bin = {} /\ trigger = {} /\ ~triggered /\ purged = {}
  BY DEF Init, ControlInit
<1>5. \A i \in Ids : Has(stored, i) <=> i \in born
  BY <1>4 DEF Named, Has, Docs, Doc
<1>6. born \subseteq Ids
  BY <1>4 DEF Named
<1> QED  BY <1>3, <1>4, <1>5, <1>6 DEF DataInv, NothingLost

LEMMA CalledKeeps == ASSUME RequestInv, DataInv, Called PROVE RequestInv' /\ DataInv'
<1>1. PICK r \in Requests, n \in Names :
        \/ \E c \in Codes, kind \in bound.kinds \cap {"create", "update"} : Call(r, kind, n, None, c, {})
        \/ "use" \in bound.kinds /\ n = Taken /\ \E c \in Codes : Call(r, "use", n, Copy, c, {})
        \/ "rename" \in bound.kinds /\ \E m \in Names \ {n} : Call(r, "rename", n, m, None, {})
        \/ "remove" \in bound.kinds /\ Call(r, "remove", n, None, None, {})
        \/ "restore" \in bound.kinds /\ \E ids \in SUBSET Ids \ {{}} :
             Call(r, "restore", None, None, None, ids)
  BY DEF Called
<1> USE DEF Kinds
<1>2. CASE \E c \in Codes, kind \in bound.kinds \cap {"create", "update"} : Call(r, kind, n, None, c, {})
  <2>1. PICK c \in Codes, kind \in {"create", "update"} : Call(r, kind, n, None, c, {})
    BY <1>2
  <2>2. /\ kind \in Kinds \ {"none"} /\ kind \notin {"restore", "rename"}
        /\ n \in Names \cup {None} /\ None \in Names \cup {None}
        /\ c \in Codes \cup {None} /\ {} \in SUBSET Ids
    OBVIOUS
  <2> HIDE DEF Kinds
  <2> QED  BY <2>1, <2>2, CallKeeps
<1>3. CASE \E c \in Codes : Call(r, "use", n, Copy, c, {})
  <2>1. PICK c \in Codes : Call(r, "use", n, Copy, c, {})
    BY <1>3
  <2>2. /\ "use" \in Kinds \ {"none"}
        /\ n \in Names \cup {None} /\ Copy \in Names \cup {None} /\ Copy \in Names
        /\ c \in Codes \cup {None} /\ {} \in SUBSET Ids
    BY FunctionAssumption
  <2> HIDE DEF Kinds
  <2> QED  BY <2>1, <2>2, CallKeeps
<1>4. CASE \E m \in Names \ {n} : Call(r, "rename", n, m, None, {})
  BY <1>4, CallKeeps
<1>5. CASE Call(r, "remove", n, None, None, {})
  BY <1>5, CallKeeps
<1>6. CASE \E ids \in SUBSET Ids \ {{}} : Call(r, "restore", None, None, None, ids)
  BY <1>6, CallKeeps
<1> QED  BY <1>1, <1>2, <1>3, <1>4, <1>5, <1>6

LEMMA ControlStep == RequestInv /\ DataInv /\ [Next]_vars => RequestInv' /\ DataInv'
<1> SUFFICES ASSUME RequestInv, DataInv, [Next]_vars PROVE RequestInv' /\ DataInv'
  OBVIOUS
<1>0. CASE UNCHANGED control
  BY <1>0, AsideKeeps DEF control, DataInv, NothingLost
<1>1. CASE Called
  BY <1>1, CalledKeeps
<1>2. ASSUME NEW r \in Requests, RequestStep(r) PROVE RequestInv' /\ DataInv'
  BY <1>2, FindKeeps, LookKeeps, CheckItemsKeeps, InsertKeeps, InsertItemsKeeps, WriteKeeps,
     RereadKeeps, MoveKeeps, RetargetKeeps, TakeKeeps, ReadBinKeeps, ReturnKeeps, PublishKeeps,
     CommitKeeps DEF RequestStep
<1>3. ASSUME NEW r \in Requests, Fail(r) PROVE RequestInv' /\ DataInv'
  BY <1>3, ReleaseKeeps DEF Fail, Data
<1>4. ASSUME NEW n \in Names, CreateTrigger(n) PROVE RequestInv' /\ DataInv'
  BY <1>4, AsideKeeps DEF CreateTrigger, DataInv
<1>5. ASSUME NEW ids \in SUBSET Ids, Purge(ids) PROVE RequestInv' /\ DataInv'
  BY <1>5, PurgeKeeps
<1>6. CASE Served \/ StartsOrStops \/ Disconnected
  BY <1>0, <1>6 DEF Served, StartsOrStops, Disconnected
<1>7. CASE UNCHANGED vars
  BY <1>0, <1>7 DEF vars
<1> QED  BY <1>1, <1>2, <1>3, <1>4, <1>5, <1>6, <1>7 DEF Next, Requested, Disturbed

-----------------------------------------------------------------------------
(* The published functions and the runtime *)

Event == [type : {"delete", "insert"}, id : Ids]
ReadType == [id : Ids \cup {None}, got : BOOLEAN, doc : Docs]

CacheInv ==
    /\ CacheTypeOK
    /\ \A k \in Reads : read[k] # NoRead => read[k].id \in Ids

LEMMA EventSeqs ==
  ASSUME NEW es \in Seq(Event)
  PROVE  /\ \A k \in 1..Len(es) : es[k].id \in Ids
         /\ es # <<>> => Head(es).id \in Ids /\ Tail(es) \in Seq(Event)
         /\ \A fs \in Seq(Event) : es \o fs \in Seq(Event)
<1>1. \A k \in 1..Len(es) : es[k] \in Event
  OBVIOUS
<1>2. es # <<>> => Head(es) \in Event /\ Tail(es) \in Seq(Event)
  OBVIOUS
<1>3. \A fs \in Seq(Event) : es \o fs \in Seq(Event)
  OBVIOUS
<1>4. \A e \in Event : e.id \in Ids
  BY DEF Event
<1> QED  BY <1>1, <1>2, <1>3, <1>4

LEMMA EventsTyped == CacheInv => events \in Seq(Event)
BY DEF CacheInv, CacheTypeOK, Event

\* What holds of a runtime that is down.
LEMMA DownType ==
  /\ [k \in Reads |-> NoRead] \in [Reads -> ReadType]
  /\ [i \in Ids |-> None] \in [Ids -> Docs]
  /\ Uncompiled \in [Names -> SUBSET Entry]
  /\ [n \in Names |-> None] \in [Names -> Entry \cup {None}]
  /\ <<>> \in Seq(Event)
BY DEF NoRead, ReadType, Docs, Uncompiled

LEMMA SequenceOf ==
  ASSUME NEW S, IsFiniteSet(S)
  PROVE  SetToSeq(S) \in Seq(S)
<1>1. Cardinality(S) \in Nat /\ ExistsBijection(1..Cardinality(S), S)
  BY FS_CardinalityType
<1>2. \E f \in [1..Cardinality(S) -> S] : IsInjective(f)
  BY <1>1 DEF ExistsBijection, Bijection, Injection
<1>3. SetToSeq(S) \in [1..Cardinality(S) -> S]
  BY <1>2 DEF SetToSeq
<1> QED  BY <1>1, <1>3

LEMMA EventsFinite ==
  ASSUME NEW ids \in SUBSET Ids, NEW type \in {"delete", "insert"}
  PROVE  /\ IsFiniteSet({[type |-> type, id |-> i] : i \in ids})
         /\ {[type |-> type, id |-> i] : i \in ids} \subseteq Event
<1> DEFINE S == {[type |-> type, id |-> i] : i \in ids}
           f == [i \in ids |-> [type |-> type, id |-> i]]
<1>1. f \in [ids -> S]
  OBVIOUS
<1>2. \A i, j \in ids : f[i] = f[j] => i = j
  <2> SUFFICES ASSUME NEW i \in ids, NEW j \in ids, f[i] = f[j] PROVE i = j
    OBVIOUS
  <2>1. f[i].id = i /\ f[j].id = j
    OBVIOUS
  <2> QED  BY <2>1
<1>3. \A e \in S : \E i \in ids : f[i] = e
  OBVIOUS
<1>4. DOMAIN f = ids
  OBVIOUS
<1>5. S \subseteq Event
  BY DEF Event
<1> HIDE DEF f, S
<1>6. f \in Bijection(ids, S)
  BY <1>1, <1>2, <1>3, <1>4 DEF Bijection, Injection, Surjection, IsInjective
<1>7. IsFiniteSet(ids)
  BY FunctionAssumption, FS_Subset
<1>8. IsFiniteSet(S)
  BY <1>6, <1>7, FS_Bijection DEF ExistsBijection
<1> QED  BY <1>5, <1>8 DEF S

LEMMA EventsType ==
  ASSUME NEW removed \in SUBSET Ids, NEW inserted \in SUBSET Ids
  PROVE  EventsOf(removed, inserted) \in Seq(Event)
<1> DEFINE gone == {[type |-> "delete", id |-> i] : i \in removed}
           come == {[type |-> "insert", id |-> i] : i \in inserted}
<1>1. IsFiniteSet(gone) /\ gone \subseteq Event
  BY EventsFinite
<1>2. IsFiniteSet(come) /\ come \subseteq Event
  BY EventsFinite
<1> HIDE DEF gone, come
<1>3. SetToSeq(gone) \in Seq(Event) /\ SetToSeq(come) \in Seq(Event)
  BY <1>1, <1>2, SequenceOf
<1>4. SetToSeq(gone) \o SetToSeq(come) \in Seq(Event)
  BY <1>3
<1> QED  BY <1>4 DEF EventsOf, gone, come

LEMMA PublicationType ==
  ASSUME CacheInv, published' \in [Ids -> Docs], UNCHANGED runtime,
         NEW removed \in SUBSET Ids, NEW inserted \in SUBSET Ids, Changed(removed, inserted)
  PROVE  CacheInv'
<1>1. events' \in Seq(Event) /\ missed' \subseteq Ids
  <2>1. events \in Seq(Event) /\ EventsOf(removed, inserted) \in Seq(Event)
    BY EventsTyped, EventsType
  <2>2. events \o EventsOf(removed, inserted) \in Seq(Event)
    BY <2>1, EventSeqs
  <2>3. missed \subseteq Ids
    BY DEF CacheInv, CacheTypeOK
  <2> QED  BY <2>1, <2>2, <2>3 DEF Changed
<1> QED  BY <1>1 DEF CacheInv, CacheTypeOK, Changed, runtime, Event

LEMMA PublishType ==
  ASSUME CacheInv, UNCHANGED runtime, NEW names, NEW fns \in FnSets, PublishAs(names, fns)
  PROVE  CacheInv'
<1>1. DOMAIN fns \subseteq Ids /\ \A i \in DOMAIN fns : fns[i] \in Docs
  BY FnsFacts DEF Docs
<1>2. published' \in [Ids -> Docs]
  BY <1>1 DEF PublishAs, Replaced, CacheInv, CacheTypeOK, Docs
<1>3. Named(published, names) \subseteq Ids
  BY DEF Named
<1> QED  BY <1>1, <1>2, <1>3, PublicationType DEF PublishAs

LEMMA UnpublishType ==
  ASSUME CacheInv, UNCHANGED runtime, NEW name, Unpublish(name)
  PROVE  CacheInv'
<1>1. CASE UNCHANGED publication
  BY <1>1 DEF publication, runtime, CacheInv, CacheTypeOK
<1>2. CASE ~UNCHANGED publication
  <2>1. PICK i \in Named(published, {name}) :
          published' = [published EXCEPT ![i] = None] /\ Changed({i}, {})
    BY <1>2 DEF Unpublish
  <2>2. i \in Ids /\ published' \in [Ids -> Docs]
    BY <2>1 DEF Named, CacheInv, CacheTypeOK, Docs
  <2> QED  BY <2>1, <2>2, PublicationType
<1> QED  BY <1>1, <1>2

LEMMA RuntimeAlone ==
  ASSUME CacheInv, UNCHANGED <<publication, runtime>>
  PROVE  CacheInv'
BY DEF publication, runtime, CacheInv, CacheTypeOK

\* A request publishes whole documents.
LEMMA RequestedType ==
  ASSUME RequestInv, CacheInv, NEW r \in Requests, RequestStep(r), UNCHANGED runtime
  PROVE  CacheInv'
<1>1. Fns(r) \in FnSets /\ request[r].items \subseteq Item
  BY DEF RequestInv, RequestType, Fns
<1>2. AsFunction(Items(Fns(r), DOMAIN Fns(r)) \cup request[r].items) \in FnSets
  <2>1. Items(Fns(r), DOMAIN Fns(r)) \cup request[r].items \in SUBSET Item
    BY <1>1, FnItems
  <2> QED  BY <2>1, ItemFns
<1>3. CASE UNCHANGED publication
  BY <1>3, RuntimeAlone
<1>4. CASE \E names : PublishAs(names, Fns(r))
  BY <1>1, <1>4, PublishType
<1>5. CASE PublishItems(r)
  BY <1>2, <1>3, <1>5, PublishType DEF PublishItems, PublishThen
<1>6. CASE UnpublishRemoved(r)
  BY <1>6, UnpublishType DEF UnpublishRemoved
<1>7. CASE PublishOne(r) \/ PublishRenamed(r) \/ PublishMany(r)
  BY <1>3, <1>4, <1>7 DEF PublishOne, PublishRenamed, PublishMany, PublishThen
<1> QED
  BY <1>3, <1>5, <1>6, <1>7
     DEF RequestStep, Find, Room, CheckNew, CheckNewName, CheckItems, InsertOne, InsertItems, Write,
         Reread, Move, Retarget, Take, ReadBin, Return, Commit

LEMMA StreamTypes ==
  ASSUME CacheInv, Start \/ OpenStream \/ CloseStream \/ Query \/ Drop \/ Stop
  PROVE  CacheInv'
<1> USE DEF CacheInv, CacheTypeOK, runtime
<1>1. CASE Start \/ OpenStream
  BY <1>1 DEF Start, OpenStream
<1>2. CASE CloseStream
  <2>1. \A k \in 1..Len(events) : events[k].id \in Ids
    BY EventsTyped, EventSeqs
  <2>2. missed' \subseteq Ids
    BY <1>2, <2>1 DEF CloseStream
  <2> QED  BY <1>2, <2>2, DownType DEF CloseStream, Event
<1>3. CASE Query
  BY <1>3 DEF Query, Clash
<1>4. CASE Drop
  <2>1. Head(events).id \in Ids /\ Tail(events) \in Seq(Event)
    BY <1>4, EventsTyped, EventSeqs DEF Drop
  <2>2. missed' \subseteq Ids
    BY <1>4, <2>1 DEF Drop
  <2> QED  BY <1>4, <2>1, <2>2 DEF Drop, Event
<1>5. CASE Stop
  <2>1. /\ read' \in [Reads -> ReadType] /\ snapshot' \in [Ids -> Docs]
        /\ cache' \in [Names -> Entry \cup {None}] /\ module' \in [Names -> SUBSET Entry]
        /\ events' \in Seq(Event) /\ missed' = {} /\ overtaken' = FALSE /\ clashed' = FALSE
        /\ phase' = "down" /\ stream' = "closed" /\ published' = published
    BY <1>5, DownType DEF Stop
  <2>2. (\A n \in Names : cache'[n] = None) /\ (\A k \in Reads : read'[k] = NoRead)
    BY <1>5 DEF Stop
  <2> QED  BY <2>1, <2>2 DEF ReadType, Event
<1> QED  BY <1>1, <1>2, <1>3, <1>4, <1>5

LEMMA RegisterTypes == ASSUME CacheInv, Register PROVE CacheInv'
<1>1. PICK last \in [Names -> Ids \cup {None}] :
        /\ \A n \in Names : IF Named(snapshot, {n}) = {} THEN last[n] = None
                                                         ELSE last[n] \in Named(snapshot, {n})
        /\ cache' = [n \in Names |-> IF last[n] = None THEN None
                                     ELSE [id |-> last[n], doc |-> snapshot[last[n]]]]
  BY DEF Register
<1>2. ASSUME NEW n \in Names, cache'[n] # None
      PROVE  cache'[n] \in Entry /\ cache'[n].doc.name = n
  <2>1. last[n] \in Named(snapshot, {n})
        /\ cache'[n] = [id |-> last[n], doc |-> snapshot[last[n]]]
    BY <1>1, <1>2
  <2>2. last[n] \in Ids /\ snapshot[last[n]] \in Doc /\ snapshot[last[n]].name = n
    BY <2>1 DEF Named, Has, CacheInv, CacheTypeOK, Docs
  <2> QED  BY <2>1, <2>2 DEF Entry
<1>3. cache' \in [Names -> Entry \cup {None}]
  BY <1>1, <1>2
<1>4. \A n \in Names : cache'[n] # None => cache'[n].doc.name = n
  BY <1>2
<1> QED  BY <1>3, <1>4 DEF Register, CacheInv, CacheTypeOK, Docs

LEMMA HandleTypes == ASSUME CacheInv, HandleDelete \/ HandleInsert PROVE CacheInv'
<1>1. /\ Head(events).id \in Ids /\ events' \in Seq(Event)
  BY EventsTyped, EventSeqs DEF HandleDelete, HandleInsert, Handled
<1>2. CASE HandleDelete
  <2>1. /\ cache' \in [Names -> Entry \cup {None}]
        /\ \A n \in Names : cache'[n] = None \/ cache'[n] = cache[n]
    BY <1>2 DEF HandleDelete, CacheInv, CacheTypeOK
  <2>2. module' \in [Names -> SUBSET Entry] /\ missed' \subseteq Ids /\ overtaken' \in BOOLEAN
    BY <1>2 DEF HandleDelete, CacheInv, CacheTypeOK, Uncompiled, Overtakes
  <2> QED  BY <1>1, <1>2, <2>1, <2>2 DEF HandleDelete, CacheInv, CacheTypeOK, Event
<1>3. CASE HandleInsert
  <2> DEFINE new == [id |-> Head(events).id, got |-> FALSE, doc |-> None]
  <2>1. PICK k \in Reads : read' = [read EXCEPT ![k] = new]
    BY <1>3 DEF HandleInsert
  <2>2. new \in ReadType /\ new.id \in Ids
    BY <1>1 DEF ReadType, Docs
  <2> HIDE DEF new
  <2>3. read' \in [Reads -> ReadType] /\ \A j \in Reads : read'[j] # NoRead => read'[j].id \in Ids
    BY <2>1, <2>2 DEF CacheInv, CacheTypeOK, ReadType
  <2> QED  BY <1>1, <1>3, <2>3 DEF HandleInsert, CacheInv, CacheTypeOK, ReadType, Event
<1> QED  BY <1>2, <1>3

LEMMA ReadTypes ==
  ASSUME CacheInv, NEW k \in Reads, FindById(k) \/ Store(k) PROVE CacheInv'
<1>1. read \in [Reads -> ReadType] /\ \A j \in Reads : read[j] # NoRead => read[j].id \in Ids
  BY DEF CacheInv, CacheTypeOK, ReadType
<1>2. CASE FindById(k)
  <2> DEFINE doc == published[read[k].id]
             new == [read[k] EXCEPT !.got = TRUE, !.doc = doc]
  <2>1. doc \in Docs /\ read[k].id \in Ids
    BY <1>1, <1>2 DEF FindById, CacheInv, CacheTypeOK
  <2>2. read' = [read EXCEPT ![k].got = TRUE, ![k].doc = doc]
    BY <1>2 DEF FindById
  <2> HIDE DEF doc
  <2>3. new \in ReadType /\ new.id \in Ids /\ read' = [read EXCEPT ![k] = new]
    BY <1>1, <2>1, <2>2 DEF ReadType
  <2> HIDE DEF new
  <2>4. read' \in [Reads -> ReadType] /\ \A j \in Reads : read'[j] # NoRead => read'[j].id \in Ids
    BY <1>1, <2>3
  <2> QED  BY <1>2, <2>4 DEF FindById, CacheInv, CacheTypeOK, ReadType, publication
<1>3. CASE Store(k)
  <2>1. read[k].id \in Ids /\ read[k].doc \in Docs
    BY <1>1, <1>3 DEF Store, NoRead, ReadType
  <2>2. NoRead \in ReadType
    BY DEF NoRead, ReadType, Docs
  <2>3. read' \in [Reads -> ReadType] /\ \A j \in Reads : read'[j] # NoRead => read'[j].id \in Ids
    BY <1>1, <1>3, <2>2 DEF Store
  <2>4. /\ cache' \in [Names -> Entry \cup {None}]
        /\ \A n \in Names : cache'[n] # None => cache'[n].doc.name = n
    <3>1. CASE read[k].doc = None
      BY <1>3, <3>1 DEF Store, CacheInv, CacheTypeOK
    <3>2. CASE read[k].doc # None
      <4> DEFINE new == [id |-> read[k].id, doc |-> read[k].doc]
                 name == read[k].doc.name
      <4>1. new \in Entry /\ name \in Names /\ new.doc.name = name
        BY <2>1, <3>2 DEF Entry, Docs, Doc
      <4>2. cache' = [cache EXCEPT ![name] = new]
        BY <1>3, <3>2 DEF Store
      <4> HIDE DEF new, name
      <4> QED  BY <4>1, <4>2 DEF CacheInv, CacheTypeOK
    <3> QED  BY <3>1, <3>2
  <2>5. overtaken' \in BOOLEAN
    BY <1>3 DEF Store, CacheInv, CacheTypeOK, Supplants
  <2> QED  BY <1>3, <2>3, <2>4, <2>5 DEF Store, CacheInv, CacheTypeOK, ReadType, publication
<1> QED  BY <1>2, <1>3

LEMMA InvokeTypes == ASSUME CacheInv, NEW n \in Names, Invoke(n) PROVE CacheInv'
<1> DEFINE imported == [m \in Imports(n) |-> IF Compiled(m) THEN module[m] ELSE {cache[m]}]
<1>1. Imports(n) \subseteq Names
  BY ImportAssumption DEF Imports
<1>2. cache[n] \in Entry /\ \A m \in Imports(n) : imported[m] \subseteq Entry
  BY <1>1 DEF Invoke, CacheInv, CacheTypeOK
<1>3. UNION {imported[k] : k \in Imports(n)} \subseteq Entry
  <2> HIDE DEF imported
  <2> QED  BY <1>2
<1>4. module' \in [Names -> SUBSET Entry]
  <2> DEFINE all == {cache[n]} \cup UNION {imported[k] : k \in Imports(n)}
  <2>1. all \subseteq Entry
    BY <1>2, <1>3
  <2>2. module' = [m \in Names |-> CASE m = n -> all
                                     [] m \in Imports(n) -> imported[m]
                                     [] OTHER -> module[m]]
    BY DEF Invoke
  <2> HIDE DEF all, imported
  <2> QED  BY <1>2, <2>1, <2>2 DEF CacheInv, CacheTypeOK
<1> QED  BY <1>4 DEF Invoke, CacheInv, CacheTypeOK, publication

LEMMA CacheInitInv == Init => CacheInv
<1> SUFFICES ASSUME Init PROVE CacheInv
  OBVIOUS
<1>1. /\ read \in [Reads -> ReadType] /\ snapshot \in [Ids -> Docs]
      /\ cache \in [Names -> Entry \cup {None}] /\ module \in [Names -> SUBSET Entry]
      /\ events \in Seq(Event) /\ missed = {} /\ overtaken = FALSE /\ clashed = FALSE
      /\ phase = "down" /\ stream = "closed"
  BY DownType DEF Init, CacheInit
<1>2. (\A n \in Names : cache[n] = None) /\ (\A k \in Reads : read[k] = NoRead)
  BY DEF Init, CacheInit
<1>3. published \in [Ids -> Docs]
  BY DEF Init, ControlInit
<1> QED  BY <1>1, <1>2, <1>3 DEF CacheInv, CacheTypeOK, ReadType, Event

LEMMA CacheStepInv == RequestInv /\ CacheInv /\ [Next]_vars => CacheInv'
<1> SUFFICES ASSUME RequestInv, CacheInv, [Next]_vars PROVE CacheInv'
  OBVIOUS
<1>1. CASE Requested
  BY <1>1, RequestedType DEF Requested
<1>2. CASE Served
  BY <1>2, StreamTypes, RegisterTypes, HandleTypes, ReadTypes, InvokeTypes DEF Served, CacheStep
<1>3. CASE StartsOrStops \/ Disconnected
  BY <1>3, StreamTypes DEF StartsOrStops, Disconnected
<1>4. CASE Called
  BY <1>4, RuntimeAlone DEF Called, Call
<1>5. CASE Disturbed
  BY <1>5, RuntimeAlone DEF Disturbed, Fail, CreateTrigger, Purge
<1>6. CASE UNCHANGED vars
  BY <1>6, RuntimeAlone DEF vars
<1> QED  BY <1>1, <1>2, <1>3, <1>4, <1>5, <1>6 DEF Next

-----------------------------------------------------------------------------
(* The theorems *)

\* The functions, the requests, what is published and what the runtime keeps of it have
\* their types: nothing but whole documents of their own name is ever cached or compiled.
THEOREM TypeCorrect == Spec => []TypeOK
<1>1. RequestInv /\ DataInv /\ CacheInv => TypeOK
  <2> SUFFICES ASSUME RequestInv, DataInv, CacheInv PROVE TypeOK
    OBVIOUS
  <2>1. \A r \in Requests : Fns(r) \in FnSets
    BY DEF RequestInv, RequestType, Fns
  <2>2. \A r \in Requests : DOMAIN Fns(r) \subseteq Ids /\ \A i \in DOMAIN Fns(r) : Fns(r)[i] \in Doc
    BY <2>1, FnsFacts
  <2> QED  BY <2>2 DEF TypeOK, RequestInv, DataInv, CacheInv, Item
<1> QED  BY <1>1, ControlInitInv, ControlStep, CacheInitInv, CacheStepInv, PTL DEF Spec

\* However requests overlap, fail and meet deletions from the recycle bin: a function is in
\* the collection or in the bin, never in both, until it is deleted from there.
THEOREM NeverLost == Spec => []NothingLost
<1>1. RequestInv /\ DataInv => NothingLost
  BY DEF DataInv
<1> QED  BY <1>1, ControlInitInv, ControlStep, PTL DEF Spec

-----------------------------------------------------------------------------
(* What the runtime knows: the queue of its change stream *)

\* The place p of the queue holds a change of i.
Tells(p, type, i) == p \in 1..Len(events) /\ events[p].type = type /\ events[p].id = i

Gone(i) == \E p \in Nat : Tells(p, "delete", i)
Comes(i) == \E p \in Nat : Tells(p, "insert", i)
ComesAfter(p, i) == \E q \in Nat : q > p /\ Tells(q, "insert", i)

\* Before i is heard of there is a deletion, which clears the modules.
Swept(i) ==
    \E p \in Nat, q \in Nat, j \in Ids, type \in {"delete", "insert"} :
        p <= q /\ Tells(p, "delete", j) /\ Tells(q, type, i)

\* What i, called n, was is heard of before whatever is called n now.
Supplanted(i, n) ==
    \E p \in Nat :
        /\ Tells(p, "delete", i)
        /\ \A j \in Ids : Has(published, j) /\ published[j].name = n => ComesAfter(p, j)

LEMMA SequenceOnto ==
  ASSUME NEW S, IsFiniteSet(S)
  PROVE  /\ SetToSeq(S) \in Seq(S)
         /\ \A e \in S : \E p \in 1..Len(SetToSeq(S)) : SetToSeq(S)[p] = e
<1> DEFINE n == Cardinality(S)
           f == SetToSeq(S)
<1>1. n \in Nat /\ ExistsBijection(1..n, S)
  BY FS_CardinalityType
<1>2. \E g \in [1..n -> S] : IsInjective(g)
  BY <1>1 DEF ExistsBijection, Bijection, Injection
<1>3. f \in [1..n -> S] /\ IsInjective(f)
  BY <1>2 DEF SetToSeq
<1>4. f \in Injection(1..n, S)
  BY <1>3 DEF Injection
<1>5. IsFiniteSet(1..n) /\ Cardinality(1..n) = n
  BY <1>1, FS_Interval
<1>6. f \in Surjection(1..n, S)
  <2> HIDE DEF f
  <2> QED  BY <1>4, <1>5, FS_Injection
<1>7. Len(f) = n /\ f \in Seq(S)
  <2> HIDE DEF f
  <2> QED  BY <1>1, <1>3
<1> QED  BY <1>6, <1>7 DEF Surjection

\* The changes of a transaction: m deletions, then what was inserted.
InOrder(es, m, removed, inserted) ==
    /\ m <= Len(es)
    /\ \A p \in 1..m : es[p].type = "delete" /\ es[p].id \in removed
    /\ \A p \in (m + 1)..Len(es) : es[p].type = "insert" /\ es[p].id \in inserted
    /\ \A i \in removed : \E p \in 1..m : es[p].id = i
    /\ \A i \in inserted : \E p \in (m + 1)..Len(es) : es[p].id = i

LEMMA EventsInOrder ==
  ASSUME NEW removed \in SUBSET Ids, NEW inserted \in SUBSET Ids
  PROVE  /\ EventsOf(removed, inserted) \in Seq(Event)
         /\ \E m \in Nat : InOrder(EventsOf(removed, inserted), m, removed, inserted)
<1> DEFINE gone == {[type |-> "delete", id |-> i] : i \in removed}
           come == {[type |-> "insert", id |-> i] : i \in inserted}
           f == SetToSeq(gone)
           g == SetToSeq(come)
           es == EventsOf(removed, inserted)
<1>1. /\ \A e \in gone : e \in Event /\ e.type = "delete" /\ e.id \in removed
      /\ \A e \in come : e \in Event /\ e.type = "insert" /\ e.id \in inserted
      /\ \A i \in removed : \E e \in gone : e.id = i
      /\ \A i \in inserted : \E e \in come : e.id = i
  <2> DEFINE del(i) == [type |-> "delete", id |-> i]
             ins(i) == [type |-> "insert", id |-> i]
  <2>1. \A i \in Ids : /\ del(i) \in Event /\ del(i).type = "delete" /\ del(i).id = i
                       /\ ins(i) \in Event /\ ins(i).type = "insert" /\ ins(i).id = i
    BY DEF Event
  <2>2. /\ \A e \in gone : \E i \in removed : e = del(i)
        /\ \A e \in come : \E i \in inserted : e = ins(i)
        /\ \A i \in removed : del(i) \in gone
        /\ \A i \in inserted : ins(i) \in come
    OBVIOUS
  <2> HIDE DEF gone, come, del, ins
  <2> QED  BY <2>1, <2>2
<1>2. IsFiniteSet(gone) /\ IsFiniteSet(come)
  BY EventsFinite
<1> HIDE DEF gone, come
<1>3. /\ f \in Seq(gone) /\ \A e \in gone : \E p \in 1..Len(f) : f[p] = e
      /\ g \in Seq(come) /\ \A e \in come : \E p \in 1..Len(g) : g[p] = e
  BY <1>2, SequenceOnto
<1>4. es = f \o g
  BY DEF EventsOf, gone, come
<1> HIDE DEF f, g, es
<1>5. /\ Len(f) \in Nat /\ Len(g) \in Nat
      /\ \A p \in 1..Len(f) : f[p] \in gone
      /\ \A p \in 1..Len(g) : g[p] \in come
  BY <1>3
<1>6. f \in Seq(Event) /\ g \in Seq(Event)
  BY <1>1, <1>3
<1>7. /\ es \in Seq(Event) /\ Len(es) = Len(f) + Len(g)
      /\ \A p \in 1..Len(f) : es[p] = f[p]
      /\ \A p \in 1..Len(g) : es[Len(f) + p] = g[p]
  BY <1>4, <1>6
<1>8. \A p \in 1..Len(f) : es[p].type = "delete" /\ es[p].id \in removed
  BY <1>1, <1>5, <1>7
<1>9. \A p \in (Len(f) + 1)..Len(es) : es[p].type = "insert" /\ es[p].id \in inserted
  <2> SUFFICES ASSUME NEW p \in (Len(f) + 1)..Len(es)
               PROVE  es[p].type = "insert" /\ es[p].id \in inserted
    OBVIOUS
  <2>1. p - Len(f) \in 1..Len(g) /\ Len(f) + (p - Len(f)) = p
    BY <1>5, <1>7
  <2>2. es[p] = g[p - Len(f)]
    BY <1>7, <2>1
  <2> QED  BY <1>1, <1>5, <2>1, <2>2
<1>10. \A i \in removed : \E p \in 1..Len(f) : es[p].id = i
  <2> SUFFICES ASSUME NEW i \in removed PROVE \E p \in 1..Len(f) : es[p].id = i
    OBVIOUS
  <2>1. PICK e \in gone : e.id = i
    BY <1>1
  <2>2. PICK p \in 1..Len(f) : f[p] = e
    BY <1>3
  <2>3. es[p].id = i
    BY <1>7, <2>1, <2>2
  <2> QED  BY <2>3
<1>11. \A i \in inserted : \E p \in (Len(f) + 1)..Len(es) : es[p].id = i
  <2> SUFFICES ASSUME NEW i \in inserted
               PROVE  \E p \in (Len(f) + 1)..Len(es) : es[p].id = i
    OBVIOUS
  <2>0. PICK e \in come : e.id = i
    BY <1>1
  <2>1. PICK p \in 1..Len(g) : g[p].id = i
    BY <1>3, <2>0
  <2>2. es[Len(f) + p].id = i
    BY <1>7, <2>1
  <2>3. Len(f) + p \in (Len(f) + 1)..Len(es)
    BY <1>5, <1>7
  <2> QED  BY <2>2, <2>3
<1>12. Len(f) <= Len(es)
  BY <1>5, <1>7
<1>13. InOrder(es, Len(f), removed, inserted)
  BY <1>8, <1>9, <1>10, <1>11, <1>12 DEF InOrder
<1> QED  BY <1>5, <1>7, <1>13 DEF es

LEMMA QueueGrows ==
  ASSUME CacheInv, NEW removed \in SUBSET Ids, NEW inserted \in SUBSET Ids,
         events' = events \o EventsOf(removed, inserted)
  PROVE  \E m \in Nat :
           /\ \A p \in Nat : \A type, i : Tells(p, type, i) => p <= m /\ Tells(p, type, i)'
           /\ \A i \in removed : \E p \in Nat : p <= m /\ Tells(p, "delete", i)'
           /\ \A i \in inserted : \E p \in Nat : p > m /\ Tells(p, "insert", i)'
           /\ \A p \in Nat : \A i : Tells(p, "delete", i)' =>
                p <= m /\ (Tells(p, "delete", i) \/ i \in removed)
<1> DEFINE es == EventsOf(removed, inserted)
           old == Len(events)
<1>1. events \in Seq(Event) /\ es \in Seq(Event) /\ old \in Nat
  <2>1. events \in Seq(Event)
    BY EventsTyped
  <2> QED  BY <2>1, EventsInOrder
<1>0. PICK k \in Nat : InOrder(es, k, removed, inserted)
  BY EventsInOrder
<1> HIDE DEF es
<1>2. /\ k <= Len(es)
      /\ \A p \in 1..k : es[p].type = "delete" /\ es[p].id \in removed
      /\ \A p \in (k + 1)..Len(es) : es[p].type = "insert" /\ es[p].id \in inserted
      /\ \A i \in removed : \E p \in 1..k : es[p].id = i
      /\ \A i \in inserted : \E p \in (k + 1)..Len(es) : es[p].id = i
  BY <1>0 DEF InOrder
<1>3. events' = events \o es
  BY DEF es
<1>4. /\ Len(events') = old + Len(es) /\ Len(es) \in Nat
      /\ \A p \in 1..old : events'[p] = events[p]
      /\ \A p \in 1..Len(es) : events'[old + p] = es[p]
  BY <1>1, <1>3
<1> HIDE DEF old
<1>5. ASSUME NEW p \in Nat, NEW type, NEW i, Tells(p, type, i)
      PROVE  p <= old + k /\ Tells(p, type, i)'
  <2>1. p \in 1..old /\ events[p].type = type /\ events[p].id = i
    BY <1>5 DEF Tells, old
  <2>2. p <= old + k /\ p \in 1..Len(events') /\ events'[p] = events[p]
    BY <1>1, <1>2, <1>4, <2>1
  <2> QED  BY <2>1, <2>2 DEF Tells
<1>6. ASSUME NEW i \in removed
      PROVE  \E p \in Nat : p <= old + k /\ Tells(p, "delete", i)'
  <2>1. PICK p \in 1..k : es[p].id = i /\ es[p].type = "delete"
    BY <1>2
  <2>2. old + p \in Nat /\ old + p <= old + k /\ old + p \in 1..Len(events') /\ p \in 1..Len(es)
    BY <1>1, <1>2, <1>4
  <2>3. events'[old + p] = es[p]
    BY <1>4, <2>2
  <2> QED  BY <2>1, <2>2, <2>3 DEF Tells
<1>7. ASSUME NEW i \in inserted
      PROVE  \E p \in Nat : p > old + k /\ Tells(p, "insert", i)'
  <2>1. PICK p \in (k + 1)..Len(es) : es[p].id = i /\ es[p].type = "insert"
    BY <1>2
  <2>2. old + p \in Nat /\ old + p > old + k /\ old + p \in 1..Len(events') /\ p \in 1..Len(es)
    BY <1>1, <1>2, <1>4
  <2>3. events'[old + p] = es[p]
    BY <1>4, <2>2
  <2> QED  BY <2>1, <2>2, <2>3 DEF Tells
<1>8. ASSUME NEW p \in Nat, NEW i, Tells(p, "delete", i)'
      PROVE  p <= old + k /\ (Tells(p, "delete", i) \/ i \in removed)
  <2>1. p \in 1..Len(events') /\ events'[p].type = "delete" /\ events'[p].id = i
    BY <1>8 DEF Tells
  <2>2. CASE p \in 1..old
    <3>1. Tells(p, "delete", i)
      BY <1>4, <2>1, <2>2 DEF Tells, old
    <3> QED  BY <1>5, <3>1
  <2>3. CASE p \notin 1..old
    <3>1. p - old \in 1..Len(es) /\ old + (p - old) = p
      BY <1>1, <1>4, <2>1, <2>3
    <3>2. es[p - old].type = "delete" /\ es[p - old].id = i
      BY <1>4, <2>1, <3>1
    <3>3. p - old \in 1..k
      <4>1. p - old \notin (k + 1)..Len(es)
        BY <1>2, <3>2
      <4> QED  BY <1>2, <3>1, <4>1
    <3>4. p <= old + k
      BY <1>1, <3>1, <3>3
    <3> QED  BY <1>2, <3>2, <3>3, <3>4
  <2> QED  BY <2>2, <2>3
<1>9. old + k \in Nat
  BY <1>1, <1>2
<1> QED  BY <1>5, <1>6, <1>7, <1>8, <1>9

LEMMA QueueShrinks ==
  ASSUME CacheInv, events # <<>>, events' = Tail(events)
  PROVE  /\ \A p \in Nat : \A type, i :
              /\ Tells(p, type, i) =>
                   \/ p = 1 /\ type = Head(events).type /\ i = Head(events).id
                   \/ \E q \in Nat : q + 1 = p /\ Tells(q, type, i)'
              /\ Tells(p, type, i)' => Tells(p + 1, type, i)
         /\ Tells(1, Head(events).type, Head(events).id)
<1>1. /\ events \in Seq(Event) /\ Len(events) \in Nat \ {0}
      /\ Head(events) = events[1] /\ Len(events') = Len(events) - 1
      /\ \A p \in 1..Len(events') : events'[p] = events[p + 1]
  BY EventsTyped
<1>2. ASSUME NEW p \in Nat, NEW type, NEW i, Tells(p, type, i)
      PROVE  \/ p = 1 /\ type = Head(events).type /\ i = Head(events).id
             \/ \E q \in Nat : q + 1 = p /\ Tells(q, type, i)'
  <2>1. p \in 1..Len(events) /\ events[p].type = type /\ events[p].id = i
    BY <1>2 DEF Tells
  <2>2. CASE p = 1
    BY <1>1, <2>1, <2>2
  <2>3. CASE p # 1
    <3>1. p - 1 \in Nat /\ (p - 1) + 1 = p /\ p - 1 \in 1..Len(events')
      BY <1>1, <2>1, <2>3
    <3>2. events'[p - 1] = events[p]
      BY <1>1, <3>1
    <3>3. Tells(p - 1, type, i)'
      BY <2>1, <3>1, <3>2 DEF Tells
    <3> QED  BY <3>1, <3>3
  <2> QED  BY <2>2, <2>3
<1>3. ASSUME NEW p \in Nat, NEW type, NEW i, Tells(p, type, i)'
      PROVE  Tells(p + 1, type, i)
  <2>1. p \in 1..Len(events') /\ events'[p].type = type /\ events'[p].id = i
    BY <1>3 DEF Tells
  <2>2. p + 1 \in 1..Len(events) /\ events'[p] = events[p + 1]
    BY <1>1, <2>1
  <2> QED  BY <2>1, <2>2 DEF Tells
<1>4. Tells(1, Head(events).type, Head(events).id)
  BY <1>1 DEF Tells
<1> QED  BY <1>2, <1>3, <1>4

LEMMA QueueStays ==
  ASSUME UNCHANGED events
  PROVE  \A p, type, i : Tells(p, type, i)' <=> Tells(p, type, i)
BY DEF Tells

LEMMA QueueEnds ==
  ASSUME events' = <<>>
  PROVE  \A p, type, i : ~Tells(p, type, i)'
BY DEF Tells

LEMMA SameQueue ==
  ASSUME UNCHANGED <<events, published>>
  PROVE  \A p, i : /\ Gone(i)' <=> Gone(i)
                   /\ Comes(i)' <=> Comes(i)
                   /\ ComesAfter(p, i)' <=> ComesAfter(p, i)
                   /\ Swept(i)' <=> Swept(i)
                   /\ Supplanted(i, p)' <=> Supplanted(i, p)
<1>1. \A p, type, i : Tells(p, type, i)' <=> Tells(p, type, i)
  BY QueueStays
<1>2. \A p, i : ComesAfter(p, i)' <=> ComesAfter(p, i)
  BY <1>1 DEF ComesAfter
<1>3. \A i : (Gone(i)' <=> Gone(i)) /\ (Comes(i)' <=> Comes(i)) /\ (Swept(i)' <=> Swept(i))
  BY <1>1 DEF Gone, Comes, Swept
<1>4. \A p, i : Supplanted(i, p)' <=> Supplanted(i, p)
  BY <1>1, <1>2 DEF Supplanted, Has
<1> QED  BY <1>2, <1>3, <1>4

LEMMA NoQueue ==
  ASSUME events = <<>>
  PROVE  \A p, i : ~Gone(i) /\ ~Comes(i) /\ ~ComesAfter(p, i) /\ ~Swept(i) /\ ~Supplanted(i, p)
<1>1. \A p, type, i : ~Tells(p, type, i)
  BY DEF Tells
<1> QED  BY <1>1 DEF Gone, Comes, ComesAfter, Swept, Supplanted

-----------------------------------------------------------------------------
(* What the runtime knows: the invariant *)

\* The documents of a read that will still be stored.
Awaited(i) == \E k \in Reads : read[k].id = i /\ (read[k].got => read[k].doc # None)

\* The stream tells everything that has happened since the first event it holds.
StreamInv ==
    /\ stream # "open" => events = <<>>
    /\ \A p \in Nat, i \in Ids : Tells(p, "delete", i) /\ Has(published, i) => ComesAfter(p, i)
    /\ phase # "ready" => /\ \A n \in Names : cache[n] = None /\ module[n] = {}
                          /\ \A k \in Reads : read[k] = NoRead

SnapshotTrue ==
    /\ ~Clash(snapshot)
    /\ \A i \in Ids \ missed :
         /\ Has(snapshot, i) => snapshot[i] = published[i] \/ Gone(i)
         /\ Has(published, i) => snapshot[i] = published[i] \/ Comes(i)

\* What the cache, a read or a module has and is not published any more, is still to be
\* heard of; what is published and is not there is to be heard of or being read.
CacheTrue ==
    \A n \in Names, i \in Ids \ missed :
        cache[n] # None /\ cache[n].id = i => cache[n].doc = published[i] \/ Gone(i)

CacheFull ==
    \A i \in Ids \ missed :
        Has(published, i) => \/ Comes(i) \/ Awaited(i)
                             \/ cache[published[i].name] = [id |-> i, doc |-> published[i]]

ReadsTrue ==
    \A k \in Reads, i \in Ids \ missed :
        read[k].id = i /\ read[k].got /\ read[k].doc # None =>
            read[k].doc = published[i] \/ Supplanted(i, read[k].doc.name)

ModulesTrue ==
    \A n \in Names : \A e \in module[n] :
        e.id \in missed \/ cache[e.doc.name] = e \/ Swept(e.id)

KnowledgeInv ==
    ~overtaken /\ ~clashed =>
        /\ Listens => ~Clash(published)
        /\ phase = "found" => SnapshotTrue
        /\ phase = "ready" => CacheTrue /\ CacheFull /\ ReadsTrue /\ ModulesTrue

\* A publication: what was there and is not, or is another, has been removed; what is there
\* and was not, or was another, has been inserted.
Republishes(removed, inserted) ==
    /\ \A i \in Ids : published'[i] # published[i] =>
         /\ published[i] # None => i \in removed
         /\ published'[i] # None => i \in inserted
    /\ \A i \in removed : published'[i] # None => i \in inserted

LEMMA PublicationStream ==
  ASSUME CacheInv, StreamInv, UNCHANGED runtime, NEW removed \in SUBSET Ids,
         NEW inserted \in SUBSET Ids, Republishes(removed, inserted), Changed(removed, inserted)
  PROVE  StreamInv'
<1>1. UNCHANGED <<cache, module, read, phase, stream>>
  BY DEF Changed, runtime
<1>2. CASE stream = "open"
  <2>1. events' = events \o EventsOf(removed, inserted)
    BY <1>2 DEF Changed
  <2>2. PICK m \in Nat :
          /\ \A p \in Nat : \A type, i : Tells(p, type, i) => p <= m /\ Tells(p, type, i)'
          /\ \A i \in removed : \E p \in Nat : p <= m /\ Tells(p, "delete", i)'
          /\ \A i \in inserted : \E p \in Nat : p > m /\ Tells(p, "insert", i)'
          /\ \A p \in Nat : \A i : Tells(p, "delete", i)' =>
               p <= m /\ (Tells(p, "delete", i) \/ i \in removed)
    BY <2>1, QueueGrows
  <2>3. ASSUME NEW p \in Nat, NEW i \in Ids, Tells(p, "delete", i)', Has(published, i)'
        PROVE  ComesAfter(p, i)'
    <3>1. p <= m /\ published'[i] # None
      BY <2>2, <2>3 DEF Has
    <3>2. CASE i \in inserted
      <4>1. PICK q \in Nat : q > m /\ Tells(q, "insert", i)'
        BY <2>2, <3>2
      <4>2. q > p
        BY <3>1, <4>1
      <4> QED  BY <4>1, <4>2 DEF ComesAfter
    <3>3. CASE i \notin inserted
      <4>1. published'[i] = published[i] /\ i \notin removed
        BY <3>1, <3>3 DEF Republishes
      <4>2. ComesAfter(p, i)
        BY <2>2, <2>3, <3>1, <4>1 DEF StreamInv, Has
      <4> QED  BY <2>2, <4>2 DEF ComesAfter
    <3> QED  BY <3>2, <3>3
  <2> QED  BY <1>1, <1>2, <2>3 DEF StreamInv
<1>3. CASE stream # "open"
  <2>1. events' = <<>>
    BY <1>3 DEF Changed, StreamInv
  <2> QED  BY <1>1, <2>1, QueueEnds DEF StreamInv
<1> QED  BY <1>2, <1>3

LEMMA PublicationKnown ==
  ASSUME CacheInv, StreamInv, KnowledgeInv, UNCHANGED runtime, NEW removed \in SUBSET Ids,
         NEW inserted \in SUBSET Ids, Republishes(removed, inserted), Changed(removed, inserted)
  PROVE  KnowledgeInv'
<1> SUFFICES ASSUME ~overtaken', ~clashed' PROVE KnowledgeInv'
  BY DEF KnowledgeInv
<1>1. /\ UNCHANGED <<cache, module, read, snapshot, overtaken, phase, stream>>
      /\ ~overtaken /\ ~clashed
      /\ Listens' <=> Listens
      /\ Listens' => ~Clash(published')
  BY DEF Changed, runtime, Listens
<1>2. Clash(published)' = Clash(published')
  BY DEF Clash, Has
<1>3. /\ Listens => ~Clash(published)
      /\ phase = "found" => SnapshotTrue
      /\ phase = "ready" => CacheTrue /\ CacheFull /\ ReadsTrue /\ ModulesTrue
  BY <1>1 DEF KnowledgeInv
<1>4. \A i : Awaited(i)' <=> Awaited(i)
  BY <1>1 DEF Awaited
<1>5. ASSUME Listens, stream # "open"
      PROVE  /\ phase = "found" => SnapshotTrue'
             /\ phase = "ready" => CacheTrue' /\ CacheFull' /\ ReadsTrue' /\ ModulesTrue'
  <2>1. events = <<>> /\ missed' = missed \cup removed \cup inserted
    BY <1>5 DEF Changed, StreamInv
  <2>2. \A p, i : ~Gone(i) /\ ~Comes(i) /\ ~ComesAfter(p, i) /\ ~Swept(i) /\ ~Supplanted(i, p)
    BY <2>1, NoQueue
  <2>3. \A i \in Ids \ missed' : i \in Ids \ missed /\ published'[i] = published[i]
    BY <2>1 DEF Republishes
  <2>4. phase = "found" => SnapshotTrue'
    BY <1>1, <1>3, <2>2, <2>3 DEF SnapshotTrue, Has, Clash
  <2>5. phase = "ready" => CacheTrue' /\ CacheFull'
    BY <1>1, <1>3, <1>4, <2>2, <2>3 DEF CacheTrue, CacheFull, Has
  <2>6. phase = "ready" => ReadsTrue'
    BY <1>1, <1>3, <2>2, <2>3 DEF ReadsTrue
  <2>7. phase = "ready" => ModulesTrue'
    BY <1>1, <1>3, <2>1, <2>2 DEF ModulesTrue
  <2> QED  BY <2>4, <2>5, <2>6, <2>7
<1>6. ASSUME Listens, stream = "open"
      PROVE  /\ phase = "found" => SnapshotTrue'
             /\ phase = "ready" => CacheTrue' /\ CacheFull' /\ ReadsTrue' /\ ModulesTrue'
  <2>1. events' = events \o EventsOf(removed, inserted) /\ missed' = missed
    BY <1>6 DEF Changed
  <2>2. PICK m \in Nat :
          /\ \A p \in Nat : \A type, i : Tells(p, type, i) => p <= m /\ Tells(p, type, i)'
          /\ \A i \in removed : \E p \in Nat : p <= m /\ Tells(p, "delete", i)'
          /\ \A i \in inserted : \E p \in Nat : p > m /\ Tells(p, "insert", i)'
          /\ \A p \in Nat : \A i : Tells(p, "delete", i)' =>
               p <= m /\ (Tells(p, "delete", i) \/ i \in removed)
    BY <2>1, QueueGrows
  <2>3. /\ \A i : (Gone(i) => Gone(i)') /\ (Comes(i) => Comes(i)') /\ (Swept(i) => Swept(i)')
        /\ \A i \in removed : Gone(i)'
        /\ \A i \in inserted : Comes(i)'
    BY <2>2 DEF Gone, Comes, Swept
  <2>4. \A i \in Ids : \/ published'[i] = published[i]
                       \/ (published[i] # None => Gone(i)') /\ (published'[i] # None => Comes(i)')
    BY <2>3 DEF Republishes
  <2>5. phase = "found" => SnapshotTrue'
    BY <1>1, <1>3, <2>1, <2>3, <2>4 DEF SnapshotTrue, Has, Clash
  <2>6. phase = "ready" => CacheTrue'
    <3> SUFFICES ASSUME phase = "ready", NEW n \in Names, NEW i \in Ids \ missed,
                        cache[n] # None, cache[n].id = i
                 PROVE  cache[n].doc = published'[i] \/ Gone(i)'
      BY <1>1, <2>1 DEF CacheTrue
    <3>1. cache[n].doc = published[i] \/ Gone(i)
      BY <1>3 DEF CacheTrue
    <3>2. cache[n].doc # None
      BY FunctionAssumption DEF CacheInv, CacheTypeOK, Entry
    <3> QED  BY <2>3, <2>4, <3>1, <3>2
  <2>7. phase = "ready" => CacheFull'
    BY <1>1, <1>3, <1>4, <2>1, <2>3, <2>4 DEF CacheFull, Has
  <2>8. phase = "ready" => ModulesTrue'
    BY <1>1, <1>3, <2>1, <2>3 DEF ModulesTrue
  <2>9. phase = "ready" => ReadsTrue'
    <3> SUFFICES ASSUME phase = "ready", NEW k \in Reads, NEW i \in Ids \ missed,
                        read[k].id = i, read[k].got, read[k].doc # None,
                        read[k].doc # published'[i], NEW n, read'[k].doc.name = n
                 PROVE  Supplanted(i, n)'
      BY <1>1, <2>1 DEF ReadsTrue
    <3>0. read[k].doc.name = n
      BY <1>1
    <3>1. read[k].doc = published[i] \/ Supplanted(i, n)
      BY <1>3, <3>0 DEF ReadsTrue
    <3>2. ASSUME NEW p \in Nat, p <= m, NEW j \in inserted PROVE ComesAfter(p, j)'
      <4>1. PICK q \in Nat : q > m /\ Tells(q, "insert", j)'
        BY <2>2
      <4>2. q > p
        BY <3>2, <4>1
      <4> QED  BY <4>1, <4>2 DEF ComesAfter
    <3>3. CASE Supplanted(i, n)
      <4>1. PICK p \in Nat :
              /\ Tells(p, "delete", i)
              /\ \A j \in Ids : Has(published, j) /\ published[j].name = n => ComesAfter(p, j)
        BY <3>3 DEF Supplanted
      <4>2. p <= m /\ Tells(p, "delete", i)'
        BY <2>2, <4>1
      <4>3. ASSUME NEW j \in Ids, Has(published, j)', published'[j].name = n
            PROVE  ComesAfter(p, j)'
        <5>1. CASE j \in inserted
          BY <3>2, <4>2, <5>1
        <5>2. CASE j \notin inserted
          <6>1. published'[j] = published[j]
            BY <4>3, <5>2 DEF Republishes, Has
          <6>2. ComesAfter(p, j)
            BY <4>1, <4>3, <6>1 DEF Has
          <6> QED  BY <2>2, <6>2 DEF ComesAfter
        <5> QED  BY <5>1, <5>2
      <4> QED  BY <4>2, <4>3 DEF Supplanted
    <3>4. CASE read[k].doc = published[i]
      <4>1. i \in removed
        BY <3>4 DEF Republishes
      <4>2. PICK p \in Nat : p <= m /\ Tells(p, "delete", i)'
        BY <2>2, <4>1
      <4>3. ASSUME NEW j \in Ids, Has(published, j)', published'[j].name = n
            PROVE  j \in inserted
        <5>1. CASE published'[j] = published[j]
          <6>1. j # i /\ Has(published, j) /\ Has(published, i) /\ published[i].name = published[j].name
            BY <3>0, <3>4, <4>3, <5>1 DEF Has
          <6> QED  BY <1>3, <1>6, <6>1 DEF Clash
        <5>2. CASE published'[j] # published[j]
          BY <4>3, <5>2 DEF Republishes, Has
        <5> QED  BY <5>1, <5>2
      <4> QED  BY <3>2, <4>2, <4>3 DEF Supplanted
    <3> QED  BY <3>1, <3>3, <3>4
  <2> QED  BY <2>5, <2>6, <2>7, <2>8, <2>9
<1> QED  BY <1>1, <1>2, <1>5, <1>6 DEF KnowledgeInv, Listens

-----------------------------------------------------------------------------
(* What the runtime knows: its steps *)

ServeInv == StreamInv /\ KnowledgeInv

\* A process that starts knows nothing, and needs nothing but its query.
LEMMA StartServes ==
  ASSUME CacheInv, ServeInv, Start \/ Stop \/ OpenStream \/ Query
  PROVE  ServeInv'
<1>1. CASE Start
  <2>1. UNCHANGED <<events, published, stream, cache, module, read>> /\ phase' = "loading" /\ phase # "ready"
    BY <1>1 DEF Start, runtime
  <2>2. StreamInv'
    BY <2>1, SameQueue, QueueStays DEF ServeInv, StreamInv, Has
  <2>3. KnowledgeInv'
    BY <2>1 DEF KnowledgeInv, Listens
  <2> QED  BY <2>2, <2>3 DEF ServeInv
<1>2. CASE Stop
  <2>1. events' = <<>> /\ phase' = "down"
    BY <1>2 DEF Stop
  <2>2. /\ \A n \in Names : cache'[n] = None /\ module'[n] = {}
        /\ \A k \in Reads : read'[k] = NoRead
    BY <1>2 DEF Stop, Uncompiled
  <2>3. StreamInv'
    BY <2>1, <2>2, QueueEnds DEF StreamInv
  <2>4. KnowledgeInv'
    BY <2>1 DEF KnowledgeInv, Listens
  <2> QED  BY <2>3, <2>4 DEF ServeInv
<1>3. CASE OpenStream
  <2>1. UNCHANGED <<events, published, phase, clashed, missed, runtime>> /\ stream' = "open"
    BY <1>3 DEF OpenStream
  <2>2. StreamInv'
    BY <2>1, SameQueue, QueueStays DEF ServeInv, StreamInv, Has, runtime
  <2>3. KnowledgeInv'
    BY <2>1, SameQueue
       DEF ServeInv, KnowledgeInv, SnapshotTrue, CacheTrue, CacheFull, ReadsTrue, ModulesTrue,
           Awaited, Has, Listens, Clash, runtime
  <2> QED  BY <2>2, <2>3 DEF ServeInv
<1>4. CASE Query
  <2>1. UNCHANGED <<events, published, stream, cache, module, read>> /\ phase' = "found" /\ phase # "ready"
    BY <1>4 DEF Query
  <2>2. StreamInv'
    BY <2>1, SameQueue, QueueStays DEF ServeInv, StreamInv, Has
  <2>3. KnowledgeInv'
    BY <1>4, <2>1 DEF Query, KnowledgeInv, SnapshotTrue, Clash, Has
  <2> QED  BY <2>2, <2>3 DEF ServeInv
<1> QED  BY <1>1, <1>2, <1>3, <1>4

\* What a stream that closes has not told, is missed.
LEMMA CloseServes == ASSUME CacheInv, ServeInv, CloseStream PROVE ServeInv'
<1>1. /\ events' = <<>> /\ UNCHANGED <<published, clashed, phase, runtime>>
      /\ Listens => missed' = missed \cup {events[p].id : p \in 1..Len(events)}
  BY DEF CloseStream
<1>2. StreamInv'
  BY <1>1, QueueEnds DEF ServeInv, StreamInv, runtime
<1>3. ASSUME NEW i, i \notin missed', Listens
      PROVE  i \notin missed /\ ~Gone(i) /\ ~Comes(i) /\ ~Swept(i) /\ \A n : ~Supplanted(i, n)
  <2>1. i \notin missed /\ \A p, type : ~Tells(p, type, i)
    BY <1>1, <1>3 DEF Tells
  <2> QED  BY <2>1 DEF Gone, Comes, Swept, Supplanted
<1>4. KnowledgeInv'
  <2> SUFFICES ASSUME ~overtaken', ~clashed', Listens PROVE KnowledgeInv'
    BY <1>1 DEF KnowledgeInv, Listens
  <2>1. /\ ~Clash(published)
        /\ phase = "found" => SnapshotTrue
        /\ phase = "ready" => CacheTrue /\ CacheFull /\ ReadsTrue /\ ModulesTrue
    BY <1>1 DEF ServeInv, KnowledgeInv, runtime
  <2>2. ~Clash(published)'
    BY <1>1, <2>1 DEF Clash, Has
  <2>3. phase = "found" => SnapshotTrue'
    BY <1>1, <1>3, <2>1 DEF SnapshotTrue, Clash, Has, runtime
  <2>4. phase = "ready" => CacheTrue' /\ CacheFull'
    BY <1>1, <1>3, <2>1 DEF CacheTrue, CacheFull, Awaited, Has, runtime
  <2>5. phase = "ready" => ReadsTrue'
    BY <1>1, <1>3, <2>1 DEF ReadsTrue, runtime
  <2>6. phase = "ready" => ModulesTrue'
    BY <1>1, <1>3, <2>1 DEF ModulesTrue, runtime
  <2> QED  BY <1>1, <2>2, <2>3, <2>4, <2>5, <2>6 DEF KnowledgeInv
<1> QED  BY <1>2, <1>4 DEF ServeInv

\* Of functions with names of their own, each is found under its name.
LEMMA RegisterServes == ASSUME CacheInv, ServeInv, Register PROVE ServeInv'
<1>1. /\ UNCHANGED <<published, clashed, stream, events, missed, read, module, overtaken>>
      /\ phase = "found" /\ phase' = "ready"
  BY DEF Register
<1>2. StreamInv'
  BY <1>1, SameQueue, QueueStays DEF ServeInv, StreamInv, Has
<1>3. PICK last \in [Names -> Ids \cup {None}] :
        /\ \A n \in Names : IF Named(snapshot, {n}) = {} THEN last[n] = None
                                                         ELSE last[n] \in Named(snapshot, {n})
        /\ cache' = [n \in Names |-> IF last[n] = None THEN None
                                     ELSE [id |-> last[n], doc |-> snapshot[last[n]]]]
  BY DEF Register
<1>4. ASSUME NEW n \in Names, cache'[n] # None
      PROVE  cache'[n].id \in Ids /\ Has(snapshot, cache'[n].id)
             /\ cache'[n].doc = snapshot[cache'[n].id]
  <2>1. last[n] \in Named(snapshot, {n})
        /\ cache'[n] = [id |-> last[n], doc |-> snapshot[last[n]]]
    BY <1>3, <1>4
  <2> QED  BY <2>1 DEF Named
<1>5. KnowledgeInv'
  <2> SUFFICES ASSUME ~overtaken', ~clashed' PROVE KnowledgeInv'
    BY DEF KnowledgeInv
  <2>1. ~Clash(published) /\ SnapshotTrue
    BY <1>1 DEF ServeInv, KnowledgeInv, Listens
  <2>2. CacheTrue'
    BY <1>1, <1>4, <2>1, SameQueue DEF CacheTrue, SnapshotTrue
  <2>3. CacheFull'
    <3> SUFFICES ASSUME NEW i \in Ids \ missed, Has(published, i), ~Comes(i)
                 PROVE  cache'[published[i].name] = [id |-> i, doc |-> published[i]]
      BY <1>1, SameQueue DEF CacheFull, Has
    <3>1. snapshot[i] = published[i] /\ Has(snapshot, i)
      BY <2>1 DEF SnapshotTrue, Has
    <3>2. snapshot[i].name \in Names
      BY <3>1 DEF CacheInv, CacheTypeOK, Docs, Doc, Has
    <3> DEFINE n == snapshot[i].name
    <3>3. i \in Named(snapshot, {n})
      BY <3>1 DEF Named
    <3>4. last[n] \in Named(snapshot, {n}) /\ n \in Names
      BY <1>3, <3>2, <3>3
    <3>5. last[n] = i
      <4>1. last[n] \in Ids /\ Has(snapshot, last[n]) /\ snapshot[last[n]].name = n
        BY <3>4 DEF Named
      <4> QED  BY <2>1, <3>1, <4>1 DEF SnapshotTrue, Clash
    <3>6. i # None
      BY FunctionAssumption
    <3>7. cache'[n] = [id |-> last[n], doc |-> snapshot[last[n]]]
      BY <1>3, <3>4, <3>5, <3>6
    <3> QED  BY <3>1, <3>5, <3>7
  <2>4. ReadsTrue' /\ ModulesTrue'
    BY <1>1 DEF ServeInv, StreamInv, ReadsTrue, ModulesTrue, NoRead
  <2>5. ~Clash(published)'
    BY <1>1, <2>1 DEF Clash, Has
  <2> QED  BY <1>1, <2>2, <2>3, <2>4, <2>5 DEF KnowledgeInv
<1> QED  BY <1>2, <1>5 DEF ServeInv

-----------------------------------------------------------------------------
(* What the runtime knows: events *)

\* An event is taken from the queue: of everything but its function, and of an insertion
\* everything that was to follow a deletion, is still to be heard.
LEMMA TakenEvent ==
  ASSUME CacheInv, ServeInv, events # <<>>, events' = Tail(events), UNCHANGED published
  PROVE  /\ \A p \in Nat, i \in Ids : Tells(p, "delete", i)' /\ Has(published, i) => ComesAfter(p, i)'
         /\ \A i \in Ids : i # Head(events).id => /\ Gone(i) => Gone(i)'
                                                  /\ Comes(i) => Comes(i)'
         /\ Head(events).type = "insert" =>
              \A i \in Ids : /\ Gone(i) => Gone(i)'
                             /\ Swept(i) => Swept(i)'
                             /\ \A n : Supplanted(i, n) => Supplanted(i, n)'
         /\ Head(events).type = "delete" =>
              /\ \A i \in Ids : Comes(i) => Comes(i)'
              /\ \A i \in Ids : i = Head(events).id /\ Has(published, i) => Comes(i)'
              /\ \A i \in Ids \ {Head(events).id} : \A n : Supplanted(i, n) => Supplanted(i, n)'
<1> DEFINE h == Head(events)
<1>1. /\ \A p \in Nat : \A type, i :
           /\ Tells(p, type, i) => \/ p = 1 /\ type = h.type /\ i = h.id
                                   \/ \E q \in Nat : q + 1 = p /\ Tells(q, type, i)'
           /\ Tells(p, type, i)' => Tells(p + 1, type, i)
      /\ Tells(1, h.type, h.id)
  BY QueueShrinks
<1>2. h.id \in Ids /\ h.type \in {"delete", "insert"}
  <2>1. h \in Event
    BY EventsTyped
  <2> QED  BY <2>1 DEF Event
<1> HIDE DEF h
\* What follows a place stays behind it.
<1>3. ASSUME NEW p \in Nat, NEW i, ComesAfter(p + 1, i) PROVE ComesAfter(p, i)'
  <2>1. PICK q \in Nat : q > p + 1 /\ Tells(q, "insert", i)
    BY <1>3 DEF ComesAfter
  <2>2. PICK r \in Nat : r + 1 = q /\ Tells(r, "insert", i)'
    BY <1>1, <2>1
  <2>3. r > p
    BY <2>1, <2>2
  <2> QED  BY <2>2, <2>3 DEF ComesAfter
<1>4. ASSUME NEW p \in Nat, NEW i \in Ids, Tells(p, "delete", i)', Has(published, i)
      PROVE  ComesAfter(p, i)'
  <2>1. Tells(p + 1, "delete", i) /\ p + 1 \in Nat
    BY <1>1, <1>4
  <2>2. ComesAfter(p + 1, i)
    BY <1>4, <2>1 DEF ServeInv, StreamInv
  <2> QED  BY <1>3, <2>2
<1>5. ASSUME NEW i \in Ids, i # h.id
      PROVE  (Gone(i) => Gone(i)') /\ (Comes(i) => Comes(i)')
  BY <1>1, <1>5 DEF Gone, Comes
<1>6. ASSUME NEW i \in Ids, NEW n, Supplanted(i, n), h.type = "insert" \/ i # h.id
      PROVE  Supplanted(i, n)'
  <2>1. PICK p \in Nat :
          /\ Tells(p, "delete", i)
          /\ \A j \in Ids : Has(published, j) /\ published[j].name = n => ComesAfter(p, j)
    BY <1>6 DEF Supplanted
  <2>2. PICK q \in Nat : q + 1 = p /\ Tells(q, "delete", i)'
    BY <1>1, <1>6, <2>1
  <2>3. \A j \in Ids : Has(published, j) /\ published[j].name = n => ComesAfter(q, j)'
    BY <1>3, <2>1, <2>2
  <2> QED  BY <2>2, <2>3 DEF Supplanted, Has
<1>7. ASSUME h.type = "insert", NEW i \in Ids
      PROVE  (Gone(i) => Gone(i)') /\ (Swept(i) => Swept(i)')
  <2>1. Gone(i) => Gone(i)'
    BY <1>1, <1>7 DEF Gone
  <2>2. ASSUME Swept(i) PROVE Swept(i)'
    <3>1. PICK p \in Nat, q \in Nat, j \in Ids, type \in {"delete", "insert"} :
            p <= q /\ Tells(p, "delete", j) /\ Tells(q, type, i)
      BY <2>2 DEF Swept
    <3>2. PICK r \in Nat : r + 1 = p /\ Tells(r, "delete", j)'
      BY <1>1, <1>7, <3>1
    <3>3. q # 1
      BY <3>1, <3>2 DEF Tells
    <3>4. PICK s \in Nat : s + 1 = q /\ Tells(s, type, i)'
      BY <1>1, <3>1, <3>3
    <3>5. r <= s
      BY <3>1, <3>2, <3>4
    <3> QED  BY <3>2, <3>4, <3>5 DEF Swept
  <2> QED  BY <2>1, <2>2
<1>8. ASSUME h.type = "delete"
      PROVE  /\ \A i \in Ids : Comes(i) => Comes(i)'
             /\ \A i \in Ids : i = h.id /\ Has(published, i) => Comes(i)'
  <2>1. \A i \in Ids : Comes(i) => Comes(i)'
    BY <1>1, <1>8 DEF Comes
  <2>2. Has(published, h.id) => ComesAfter(1, h.id)
    BY <1>1, <1>2, <1>8 DEF ServeInv, StreamInv
  <2>3. ComesAfter(1, h.id) => Comes(h.id)
    BY DEF ComesAfter, Comes
  <2> QED  BY <1>2, <2>1, <2>2, <2>3
<1> QED  BY <1>4, <1>5, <1>6, <1>7, <1>8 DEF h

LEMMA DropServes == ASSUME CacheInv, ServeInv, Drop PROVE ServeInv'
<1>1. /\ events # <<>> /\ events' = Tail(events) /\ phase \in {"loading", "found"}
      /\ UNCHANGED <<published, clashed, phase, stream, runtime>>
      /\ phase = "found" => missed' = missed \cup {Head(events).id}
  BY DEF Drop, Listens
<1>2. StreamInv'
  <2>1. \A p \in Nat, i \in Ids : Tells(p, "delete", i)' /\ Has(published, i)' => ComesAfter(p, i)'
    BY <1>1, TakenEvent DEF Has
  <2> QED  BY <1>1, <2>1 DEF ServeInv, StreamInv, runtime
<1>3. KnowledgeInv'
  <2> SUFFICES ASSUME ~overtaken', ~clashed', phase = "found" PROVE KnowledgeInv'
    BY <1>1 DEF KnowledgeInv, Listens
  <2>1. ~Clash(published) /\ SnapshotTrue
    BY <1>1 DEF ServeInv, KnowledgeInv, Listens, runtime
  <2>2. SnapshotTrue'
    <3>1. \A i \in Ids \ missed' :
            i \in Ids \ missed /\ (Gone(i) => Gone(i)') /\ (Comes(i) => Comes(i)')
      BY <1>1, TakenEvent
    <3> QED  BY <1>1, <2>1, <3>1 DEF SnapshotTrue, Clash, Has, runtime
  <2> QED  BY <1>1, <2>1, <2>2 DEF KnowledgeInv, Clash, Has
<1> QED  BY <1>2, <1>3 DEF ServeInv

LEMMA DeleteServes == ASSUME CacheInv, ServeInv, HandleDelete PROVE ServeInv'
<1> DEFINE h == Head(events).id
<1>1. /\ events # <<>> /\ events' = Tail(events) /\ phase = "ready" /\ Head(events).type = "delete"
      /\ UNCHANGED <<published, clashed, phase, stream, snapshot, read>>
      /\ \A n \in Names : /\ cache'[n] = IF cache[n] # None /\ cache[n].id = h THEN None ELSE cache[n]
                          /\ module'[n] = {}
      /\ missed' = missed \ {h} /\ overtaken' = (overtaken \/ Overtakes(h))
  BY DEF HandleDelete, Handled, Uncompiled
<1> HIDE DEF h
<1>2. /\ \A p \in Nat, i \in Ids : Tells(p, "delete", i)' /\ Has(published, i) => ComesAfter(p, i)'
      /\ \A i \in Ids : i # h => /\ Gone(i) => Gone(i)'
                                 /\ \A n : Supplanted(i, n) => Supplanted(i, n)'
      /\ \A i \in Ids : /\ Comes(i) => Comes(i)'
                        /\ i = h /\ Has(published, i) => Comes(i)'
  BY <1>1, TakenEvent DEF h
<1>3. StreamInv'
  <2>1. \A p \in Nat, i \in Ids : Tells(p, "delete", i)' /\ Has(published, i)' => ComesAfter(p, i)'
    BY <1>1, <1>2 DEF Has
  <2> QED  BY <1>1, <2>1 DEF ServeInv, StreamInv
<1>4. KnowledgeInv'
  <2> SUFFICES ASSUME ~overtaken', ~clashed' PROVE KnowledgeInv'
    BY DEF KnowledgeInv
  <2>1. ~Clash(published) /\ CacheTrue /\ CacheFull /\ ReadsTrue /\ ~Overtakes(h)
    BY <1>1 DEF ServeInv, KnowledgeInv, Listens
  <2>2. CacheTrue'
    <3> SUFFICES ASSUME NEW n \in Names, NEW i \in Ids \ missed', cache'[n] # None, cache'[n].id = i
                 PROVE  cache'[n].doc = published'[i] \/ Gone(i)'
      BY DEF CacheTrue
    <3>1. cache'[n] = cache[n] /\ i # h /\ i \notin missed
      BY <1>1
    <3> QED  BY <1>1, <1>2, <2>1, <3>1 DEF CacheTrue
  <2>3. CacheFull'
    <3> SUFFICES ASSUME NEW i \in Ids \ missed', Has(published, i)
                 PROVE  \/ Comes(i)' \/ Awaited(i)'
                        \/ cache'[published[i].name] = [id |-> i, doc |-> published[i]]
      BY <1>1 DEF CacheFull, Has
    <3>1. CASE i = h
      BY <1>2, <3>1
    <3>2. CASE i # h
      <4>1. \/ Comes(i) \/ Awaited(i)
            \/ cache[published[i].name] = [id |-> i, doc |-> published[i]]
        BY <1>1, <2>1, <3>2 DEF CacheFull
      <4>2. Awaited(i) => Awaited(i)'
        BY <1>1 DEF Awaited
      <4>3. published[i].name \in Names
        BY DEF CacheInv, CacheTypeOK, Docs, Doc, Has
      <4>4. ASSUME cache[published[i].name] = [id |-> i, doc |-> published[i]]
            PROVE  cache'[published[i].name] = cache[published[i].name]
        <5>1. cache[published[i].name].id # h
          BY <3>2, <4>4
        <5> QED  BY <1>1, <4>3, <5>1
      <4> QED  BY <1>2, <4>1, <4>2, <4>4
    <3> QED  BY <3>1, <3>2
  <2>4. ReadsTrue'
    <3> SUFFICES ASSUME NEW k \in Reads, NEW i \in Ids \ missed', NEW n, read'[k].doc.name = n,
                        read[k].id = i, read[k].got, read[k].doc # None
                 PROVE  read[k].doc = published[i] \/ Supplanted(i, n)'
      BY <1>1 DEF ReadsTrue
    <3>1. i # h /\ i \notin missed /\ read[k].doc.name = n
      BY <1>1, <2>1 DEF Overtakes
    <3>2. read[k].doc = published[i] \/ Supplanted(i, n)
      BY <2>1, <3>1 DEF ReadsTrue
    <3> QED  BY <1>2, <3>1, <3>2
  <2>5. ModulesTrue'
    BY <1>1 DEF ModulesTrue
  <2> QED  BY <1>1, <2>1, <2>2, <2>3, <2>4, <2>5 DEF KnowledgeInv, Clash, Has
<1> QED  BY <1>3, <1>4 DEF ServeInv

LEMMA InsertServes == ASSUME CacheInv, ServeInv, HandleInsert PROVE ServeInv'
<1> DEFINE h == Head(events).id
           new == [id |-> h, got |-> FALSE, doc |-> None]
<1>1. /\ events # <<>> /\ events' = Tail(events) /\ phase = "ready" /\ Head(events).type = "insert"
      /\ UNCHANGED <<published, clashed, phase, stream, missed, cache, snapshot, module, overtaken>>
  BY DEF HandleInsert, Handled
<1>2. PICK k \in Reads : read[k] = NoRead /\ read' = [read EXCEPT ![k] = new]
  BY DEF HandleInsert
<1>3. /\ \A p \in Nat, i \in Ids : Tells(p, "delete", i)' /\ Has(published, i) => ComesAfter(p, i)'
      /\ \A i \in Ids : /\ Gone(i) => Gone(i)'
                        /\ Swept(i) => Swept(i)'
                        /\ \A n : Supplanted(i, n) => Supplanted(i, n)'
      /\ \A i \in Ids : i # h => (Comes(i) => Comes(i)')
  BY <1>1, TakenEvent
<1>4. read \in [Reads -> ReadType] /\ new.id = h /\ ~new.got /\ None \notin Ids /\ NoRead.id = None
  BY FunctionAssumption DEF CacheInv, CacheTypeOK, ReadType, NoRead
<1> HIDE DEF h, new
<1>5. read'[k] = new /\ \A j \in Reads \ {k} : read'[j] = read[j]
  BY <1>2, <1>4
<1>6. StreamInv'
  <2>1. \A p \in Nat, i \in Ids : Tells(p, "delete", i)' /\ Has(published, i)' => ComesAfter(p, i)'
    BY <1>1, <1>3 DEF Has
  <2> QED  BY <1>1, <2>1 DEF ServeInv, StreamInv
<1>7. KnowledgeInv'
  <2> SUFFICES ASSUME ~overtaken', ~clashed' PROVE KnowledgeInv'
    BY DEF KnowledgeInv
  <2>1. ~Clash(published) /\ CacheTrue /\ CacheFull /\ ReadsTrue /\ ModulesTrue
    BY <1>1 DEF ServeInv, KnowledgeInv, Listens
  <2>2. CacheTrue'
    BY <1>1, <1>3, <2>1 DEF CacheTrue
  <2>3. CacheFull'
    <3> SUFFICES ASSUME NEW i \in Ids \ missed, Has(published, i)
                 PROVE  \/ Comes(i)' \/ Awaited(i)'
                        \/ cache[published[i].name] = [id |-> i, doc |-> published[i]]
      BY <1>1 DEF CacheFull, Has
    <3>1. CASE i = h
      <4>1. read'[k].id = i /\ ~read'[k].got
        BY <1>4, <1>5, <3>1
      <4> QED  BY <4>1 DEF Awaited
    <3>2. CASE i # h
      <4>1. Awaited(i) => Awaited(i)'
        <5> SUFFICES ASSUME NEW j \in Reads, read[j].id = i, read[j].got => read[j].doc # None
                     PROVE  Awaited(i)'
          BY DEF Awaited
        <5>1. j # k
          BY <1>2, <1>4
        <5> QED  BY <1>5, <5>1 DEF Awaited
      <4> QED  BY <1>3, <2>1, <3>2, <4>1 DEF CacheFull
    <3> QED  BY <3>1, <3>2
  <2>4. ReadsTrue'
    <3> SUFFICES ASSUME NEW j \in Reads, NEW i \in Ids \ missed, NEW n, read'[j].doc.name = n,
                        read'[j].id = i, read'[j].got, read'[j].doc # None
                 PROVE  read'[j].doc = published[i] \/ Supplanted(i, n)'
      BY <1>1 DEF ReadsTrue
    <3>1. read'[j] = read[j]
      BY <1>4, <1>5
    <3>2. read[j].doc = published[i] \/ Supplanted(i, n)
      BY <2>1, <3>1 DEF ReadsTrue
    <3> QED  BY <1>3, <3>1, <3>2
  <2>5. ModulesTrue'
    <3> SUFFICES ASSUME NEW n \in Names, NEW e \in module[n], e.id \notin missed, cache[e.doc.name] # e
                 PROVE  Swept(e.id)'
      BY <1>1 DEF ModulesTrue
    <3>1. e.id \in Ids
      BY DEF CacheInv, CacheTypeOK, Entry
    <3>2. Swept(e.id)
      BY <2>1 DEF ModulesTrue
    <3> DEFINE i == e.id
    <3>3. Swept(i)'
      BY <1>3, <3>1, <3>2
    <3> QED  BY <3>3
  <2> QED  BY <1>1, <2>1, <2>2, <2>3, <2>4, <2>5 DEF KnowledgeInv, Clash, Has
<1> QED  BY <1>6, <1>7 DEF ServeInv

-----------------------------------------------------------------------------
(* What the runtime knows: reads and modules *)

LEMMA FindServes == ASSUME CacheInv, ServeInv, NEW k \in Reads, FindById(k) PROVE ServeInv'
<1> DEFINE doc == published[read[k].id]
<1>1. /\ UNCHANGED <<publication, cache, snapshot, module, overtaken>>
      /\ read[k] # NoRead /\ ~read[k].got
      /\ read' = [read EXCEPT ![k].got = TRUE, ![k].doc = doc]
      /\ read \in [Reads -> ReadType]
  BY DEF FindById, CacheInv, CacheTypeOK, ReadType
<1>2. /\ read'[k].id = read[k].id /\ read'[k].got /\ read'[k].doc = published[read[k].id]
      /\ \A j \in Reads \ {k} : read'[j] = read[j]
  BY <1>1 DEF ReadType
<1>3. phase = "ready"
  BY <1>1 DEF ServeInv, StreamInv
<1>4. StreamInv'
  BY <1>1, <1>3, SameQueue, QueueStays DEF ServeInv, StreamInv, Has, publication
<1>5. KnowledgeInv'
  <2> SUFFICES ASSUME ~overtaken', ~clashed' PROVE KnowledgeInv'
    BY DEF KnowledgeInv
  <2>1. ~Clash(published) /\ CacheTrue /\ CacheFull /\ ReadsTrue /\ ModulesTrue
    BY <1>1, <1>3 DEF ServeInv, KnowledgeInv, Listens, publication
  <2>2. CacheTrue' /\ ModulesTrue'
    BY <1>1, <2>1, SameQueue DEF CacheTrue, ModulesTrue, publication
  <2>3. CacheFull'
    <3>1. ASSUME NEW i \in Ids, Has(published, i), Awaited(i) PROVE Awaited(i)'
      <4>1. PICK j \in Reads : read[j].id = i /\ (read[j].got => read[j].doc # None)
        BY <3>1 DEF Awaited
      <4>2. read'[j].id = i /\ (read'[j].got => read'[j].doc # None)
        BY <1>2, <3>1, <4>1 DEF Has
      <4> QED  BY <4>2 DEF Awaited
    <3> QED  BY <1>1, <2>1, <3>1, SameQueue DEF CacheFull, Has, publication
  <2>4. ReadsTrue'
    BY <1>1, <1>2, <2>1, SameQueue DEF ReadsTrue, publication
  <2> QED  BY <1>1, <1>3, <2>1, <2>2, <2>3, <2>4 DEF KnowledgeInv, Clash, Has, publication
<1> QED  BY <1>4, <1>5 DEF ServeInv

\* What a read has found is published, or supplanted; then its deletion is still to come,
\* and so is whatever has the name now.
LEMMA StoreServes == ASSUME CacheInv, ServeInv, NEW k \in Reads, Store(k) PROVE ServeInv'
<1> DEFINE j == read[k].id
           doc == read[k].doc
           name == doc.name
<1>1. /\ UNCHANGED <<publication, snapshot, module>> /\ read[k].got
      /\ read' = [read EXCEPT ![k] = NoRead]
      /\ overtaken' = (overtaken \/ Supplants(k))
      /\ doc = None => cache' = cache
      /\ doc # None => cache' = [cache EXCEPT ![name] = [id |-> j, doc |-> doc]]
  BY DEF Store
<1>2. /\ read[k] # NoRead /\ j \in Ids /\ phase = "ready" /\ (doc # None => name \in Names)
      /\ None \notin Ids /\ NoRead.id = None /\ ~NoRead.got
  BY <1>1, FunctionAssumption
     DEF NoRead, CacheInv, CacheTypeOK, ServeInv, StreamInv, Docs, Doc
<1>3. read'[k] = NoRead /\ \A h \in Reads \ {k} : read'[h] = read[h]
  BY <1>1 DEF CacheInv, CacheTypeOK
<1>4. /\ doc # None => cache'[name] = [id |-> j, doc |-> doc]
      /\ \A n \in Names : doc = None \/ n # name => cache'[n] = cache[n]
  BY <1>1, <1>2 DEF CacheInv, CacheTypeOK
<1>5. StreamInv'
  BY <1>1, <1>2, SameQueue, QueueStays DEF ServeInv, StreamInv, Has, publication
<1>6. KnowledgeInv'
  <2> SUFFICES ASSUME ~overtaken', ~clashed' PROVE KnowledgeInv'
    BY DEF KnowledgeInv
  <2>1. ~Clash(published) /\ CacheTrue /\ CacheFull /\ ReadsTrue /\ ModulesTrue /\ ~Supplants(k)
    BY <1>1, <1>2 DEF ServeInv, KnowledgeInv, Listens, publication
  <2>2. doc # None /\ j \notin missed => doc = published[j] \/ Supplanted(j, name)
    BY <1>1, <1>2, <2>1 DEF ReadsTrue
  <2>3. \A i, n : Supplanted(i, n) => Gone(i)
    BY DEF Supplanted, Gone
  <2>4. \A i \in Ids : Gone(i) => Swept(i) /\ (Has(published, i) => Comes(i))
    <3> SUFFICES ASSUME NEW i \in Ids, NEW p \in Nat, Tells(p, "delete", i)
                 PROVE  Swept(i) /\ (Has(published, i) => Comes(i))
      BY DEF Gone
    <3>1. Swept(i)
      BY DEF Swept
    <3>2. Has(published, i) => ComesAfter(p, i)
      BY DEF ServeInv, StreamInv
    <3> QED  BY <3>1, <3>2 DEF ComesAfter, Comes
  \* Whoever has the name of what was stored, and is not what was stored.
  <2>5. ASSUME doc # None, NEW i \in Ids, i # j, Has(published, i), published[i].name = name,
               cache[name] # None, cache[name].id = i
        PROVE  Comes(i) /\ Swept(i)
    <3>1. j \notin missed
      BY <2>1, <2>5 DEF Supplants
    <3>2. doc # published[j]
      BY <1>2, <2>1, <2>5 DEF Clash, Has
    <3>3. PICK p \in Nat : Tells(p, "delete", j) /\ ComesAfter(p, i)
      BY <2>2, <2>5, <3>1, <3>2 DEF Supplanted
    <3>4. PICK q \in Nat : q > p /\ Tells(q, "insert", i)
      BY <3>3 DEF ComesAfter
    <3>5. p <= q
      BY <3>4
    <3> QED  BY <1>2, <3>3, <3>4, <3>5 DEF Comes, Swept
  <2>6. CacheTrue'
    <3> SUFFICES ASSUME NEW n \in Names, NEW i \in Ids \ missed, cache'[n] # None, cache'[n].id = i
                 PROVE  cache'[n].doc = published[i] \/ Gone(i)
      BY <1>1, SameQueue DEF CacheTrue, publication
    <3>1. CASE doc = None \/ n # name
      BY <1>4, <2>1, <3>1 DEF CacheTrue
    <3>2. CASE doc # None /\ n = name
      BY <1>4, <2>2, <2>3, <3>2
    <3> QED  BY <3>1, <3>2
  <2>7. CacheFull'
    <3> SUFFICES ASSUME NEW i \in Ids \ missed, Has(published, i), ~Comes(i), ~Awaited(i)'
                 PROVE  cache'[published[i].name] = [id |-> i, doc |-> published[i]]
      BY <1>1, SameQueue DEF CacheFull, Has, publication
    <3>1. published[i].name \in Names
      BY DEF CacheInv, CacheTypeOK, Docs, Doc, Has
    <3>2. CASE i = j /\ doc # None
      BY <1>4, <2>2, <2>3, <2>4, <3>2
    <3>3. CASE i # j \/ doc = None
      <4>1. ~Awaited(i)
        <5> SUFFICES ASSUME NEW h \in Reads, read[h].id = i, read[h].got => read[h].doc # None
                     PROVE  FALSE
          BY DEF Awaited
        <5>1. h # k
          BY <1>1, <3>3
        <5> QED  BY <1>3, <5>1 DEF Awaited
      <4>2. cache[published[i].name] = [id |-> i, doc |-> published[i]]
        BY <2>1, <4>1 DEF CacheFull
      <4>3. cache[published[i].name].id = i /\ cache[published[i].name] # None
        <5>1. [id |-> i, doc |-> published[i]] \in Entry
          BY DEF Entry, CacheInv, CacheTypeOK, Docs, Has
        <5> QED  BY <4>2, <5>1, EntryAssumption
      <4>4. doc = None \/ published[i].name # name
        BY <2>5, <3>3, <4>3
      <4> QED  BY <1>4, <3>1, <4>2, <4>4
    <3> QED  BY <3>2, <3>3
  <2>8. ReadsTrue'
    BY <1>1, <1>2, <1>3, <2>1, SameQueue DEF ReadsTrue, publication
  <2>9. ModulesTrue'
    <3> SUFFICES ASSUME NEW n \in Names, NEW e \in module[n], e.id \notin missed, ~Swept(e.id)
                 PROVE  cache'[e.doc.name] = e
      BY <1>1, SameQueue DEF ModulesTrue, publication
    <3>1. e \in Entry /\ e.id \in Ids /\ e.doc \in Doc /\ e.doc.name \in Names
      BY DEF CacheInv, CacheTypeOK, Entry, Doc
    <3>2. cache[e.doc.name] = e /\ cache[e.doc.name] # None
      BY <2>1, <3>1, EntryAssumption DEF ModulesTrue
    <3>3. e.doc = published[e.id] /\ Has(published, e.id)
      <4>1. e.doc = published[e.id]
        BY <2>1, <2>4, <3>1, <3>2 DEF CacheTrue
      <4> QED  BY <3>1, <4>1, FunctionAssumption DEF Has
    <3>4. CASE doc = None \/ e.doc.name # name
      BY <1>4, <3>1, <3>2, <3>4
    <3>5. CASE doc # None /\ e.doc.name = name /\ e.id # j
      BY <2>5, <3>1, <3>2, <3>3, <3>5
    <3>6. CASE doc # None /\ e.doc.name = name /\ e.id = j
      <4>1. doc = published[j]
        BY <2>2, <2>3, <2>4, <3>1, <3>6
      <4>2. cache'[name] = [id |-> e.id, doc |-> e.doc]
        BY <1>4, <3>3, <3>6, <4>1
      <4> QED  BY <3>1, <3>6, <4>2 DEF Entry
    <3> QED  BY <3>4, <3>5, <3>6
  <2>10. (phase' = "ready") /\ ~Clash(published)'
    BY <1>1, <1>2, <2>1 DEF Clash, Has, publication
  <2> QED  BY <2>6, <2>7, <2>8, <2>9, <2>10 DEF KnowledgeInv
<1> QED  BY <1>5, <1>6 DEF ServeInv

\* A compiled module is made of what the cache has, or of modules that are there.
LEMMA InvokeServes == ASSUME CacheInv, ServeInv, NEW n \in Names, Invoke(n) PROVE ServeInv'
<1>1. UNCHANGED <<publication, cache, snapshot, read, overtaken>> /\ cache[n] # None
  BY DEF Invoke
<1>2. phase = "ready"
  BY <1>1 DEF ServeInv, StreamInv
<1>3. StreamInv'
  BY <1>1, <1>2, SameQueue, QueueStays DEF ServeInv, StreamInv, Has, publication
<1>4. KnowledgeInv'
  <2> SUFFICES ASSUME ~overtaken', ~clashed' PROVE KnowledgeInv'
    BY DEF KnowledgeInv
  <2>1. ~Clash(published) /\ CacheTrue /\ CacheFull /\ ReadsTrue /\ ModulesTrue
    BY <1>1, <1>2 DEF ServeInv, KnowledgeInv, Listens, publication
  <2>2. CacheTrue' /\ CacheFull' /\ ReadsTrue'
    BY <1>1, <2>1, SameQueue DEF CacheTrue, CacheFull, ReadsTrue, Awaited, Has, publication
  <2>3. ASSUME NEW m \in Names, NEW e \in module'[m]
        PROVE  (\E l \in Names : e \in module[l]) \/ (\E l \in Names : cache[l] # None /\ e = cache[l])
    <3> DEFINE imported == [l \in Imports(n) |-> IF Compiled(l) THEN module[l] ELSE {cache[l]}]
    <3>1. /\ Imports(n) \subseteq Names
          /\ \A l \in Imports(n) : Compiled(l) \/ cache[l] # None
          /\ module' = [l \in Names |->
               CASE l = n -> {cache[n]} \cup UNION {imported[h] : h \in Imports(n)}
                 [] l \in Imports(n) -> imported[l]
                 [] OTHER -> module[l]]
      BY ImportAssumption DEF Invoke, Imports
    <3>2. \A l \in Imports(n) : imported[l] = module[l] \/ (imported[l] = {cache[l]} /\ cache[l] # None)
      BY <3>1
    <3> HIDE DEF imported
    <3>3. \/ e = cache[n] \/ (\E l \in Imports(n) : e \in imported[l]) \/ e \in module[m]
      BY <2>3, <3>1
    <3> QED  BY <1>1, <3>1, <3>2, <3>3
  <2>4. ModulesTrue'
    <3> SUFFICES ASSUME NEW m \in Names, NEW e \in module'[m]
                 PROVE  e.id \in missed \/ cache[e.doc.name] = e \/ Swept(e.id)
      BY <1>1, SameQueue DEF ModulesTrue, publication
    <3>1. \A l \in Names : cache[l] # None => cache[l].doc.name = l
      BY DEF CacheInv, CacheTypeOK
    <3> QED  BY <2>1, <2>3, <3>1 DEF ModulesTrue
  <2> QED  BY <1>1, <1>2, <2>1, <2>2, <2>4 DEF KnowledgeInv, Clash, Has, publication
<1> QED  BY <1>3, <1>4 DEF ServeInv

-----------------------------------------------------------------------------
(* What the runtime knows: publications, and the theorems *)

LEMMA PublicationServes ==
  ASSUME CacheInv, ServeInv, UNCHANGED runtime, NEW removed \in SUBSET Ids,
         NEW inserted \in SUBSET Ids, Republishes(removed, inserted), Changed(removed, inserted)
  PROVE  ServeInv'
BY PublicationStream, PublicationKnown DEF ServeInv

LEMMA PublishServes ==
  ASSUME CacheInv, ServeInv, UNCHANGED runtime, NEW names, NEW fns \in FnSets,
         ~DuplicateKey(names, fns), PublishAs(names, fns)
  PROVE  ServeInv'
<1>1. DOMAIN fns \subseteq Ids /\ Named(published, names) \subseteq Ids
  BY FnsFacts DEF Named
<1>2. Changed(Named(published, names), DOMAIN fns)
  BY DEF PublishAs
<1>3. Republishes(Named(published, names), DOMAIN fns)
  BY DEF PublishAs, Replaced, DuplicateKey, Republishes, CacheInv, CacheTypeOK, Has, Named
<1> QED  BY <1>1, <1>2, <1>3, PublicationServes

LEMMA UnpublishServes ==
  ASSUME CacheInv, ServeInv, UNCHANGED runtime, NEW name, Unpublish(name),
         ~UNCHANGED publication
  PROVE  ServeInv'
<1>1. PICK i \in Named(published, {name}) :
        published' = [published EXCEPT ![i] = None] /\ Changed({i}, {})
  BY DEF Unpublish
<1>2. i \in Ids
  BY DEF Named
<1>3. Republishes({i}, {})
  BY <1>1, <1>2 DEF Republishes, CacheInv, CacheTypeOK
<1> QED  BY <1>1, <1>2, <1>3, PublicationServes

LEMMA RuntimeRests ==
  ASSUME ServeInv, UNCHANGED <<publication, runtime>>
  PROVE  ServeInv'
<1>1. UNCHANGED <<published, phase, stream, events, missed, clashed>> /\ UNCHANGED runtime
  BY DEF publication
<1>2. StreamInv'
  BY <1>1, SameQueue, QueueStays DEF ServeInv, StreamInv, Has, runtime
<1>3. KnowledgeInv'
  BY <1>1, SameQueue
     DEF ServeInv, KnowledgeInv, SnapshotTrue, CacheTrue, CacheFull, ReadsTrue, ModulesTrue,
         Awaited, Has, Listens, Clash, runtime
<1> QED  BY <1>2, <1>3 DEF ServeInv

LEMMA RequestedServes ==
  ASSUME RequestInv, CacheInv, ServeInv, NEW r \in Requests, RequestStep(r), UNCHANGED runtime
  PROVE  ServeInv'
<1>1. Fns(r) \in FnSets /\ request[r].items \subseteq Item
  BY DEF RequestInv, RequestType, Fns
<1>2. AsFunction(Items(Fns(r), DOMAIN Fns(r)) \cup request[r].items) \in FnSets
  <2>1. Items(Fns(r), DOMAIN Fns(r)) \cup request[r].items \in SUBSET Item
    BY <1>1, FnItems
  <2> QED  BY <2>1, ItemFns
<1>3. CASE UNCHANGED publication
  BY <1>3, RuntimeRests
<1>4. CASE \E names : ~DuplicateKey(names, Fns(r)) /\ PublishAs(names, Fns(r))
  BY <1>1, <1>4, PublishServes
<1>5. CASE PublishItems(r)
  BY <1>2, <1>3, <1>5, PublishServes DEF PublishItems, PublishThen
<1>6. CASE UnpublishRemoved(r)
  BY <1>3, <1>6, UnpublishServes DEF UnpublishRemoved
<1>7. CASE PublishOne(r) \/ PublishRenamed(r) \/ PublishMany(r)
  BY <1>3, <1>4, <1>7 DEF PublishOne, PublishRenamed, PublishMany, PublishThen
<1> QED
  BY <1>3, <1>5, <1>6, <1>7
     DEF RequestStep, Find, Room, CheckNew, CheckNewName, CheckItems, InsertOne, InsertItems, Write,
         Reread, Move, Retarget, Take, ReadBin, Return, Commit

LEMMA ServeInit == Init => ServeInv
<1> SUFFICES ASSUME Init PROVE ServeInv
  OBVIOUS
<1>1. /\ events = <<>> /\ phase = "down"
      /\ \A n \in Names : cache[n] = None /\ module[n] = {}
      /\ \A k \in Reads : read[k] = NoRead
  BY DEF Init, CacheInit, Uncompiled
<1>2. \A p, type, i : ~Tells(p, type, i)
  BY <1>1 DEF Tells
<1> QED  BY <1>1, <1>2 DEF ServeInv, StreamInv, KnowledgeInv, Listens

LEMMA ServeStep == RequestInv /\ CacheInv /\ ServeInv /\ [Next]_vars => ServeInv'
<1> SUFFICES ASSUME RequestInv, CacheInv, ServeInv, [Next]_vars PROVE ServeInv'
  OBVIOUS
<1>1. CASE Requested
  BY <1>1, RequestedServes DEF Requested
<1>2. CASE Served
  BY <1>2, StartServes, RegisterServes, DropServes, DeleteServes, InsertServes, FindServes,
     StoreServes, InvokeServes DEF Served, CacheStep
<1>3. CASE StartsOrStops \/ Disconnected
  BY <1>3, StartServes, CloseServes DEF StartsOrStops, Disconnected
<1>4. CASE Called
  BY <1>4, RuntimeRests DEF Called, Call
<1>5. CASE Disturbed
  BY <1>5, RuntimeRests DEF Disturbed, Fail, CreateTrigger, Purge
<1>6. CASE UNCHANGED vars
  BY <1>6, RuntimeRests DEF vars
<1> QED  BY <1>1, <1>2, <1>3, <1>4, <1>5, <1>6 DEF Next

LEMMA ServeKept == Spec => [](CacheInv /\ ServeInv)
<1> QED  BY ControlInitInv, ControlStep, CacheInitInv, CacheStepInv, ServeInit, ServeStep, PTL
         DEF Spec

LEMMA SettledFacts ==
  ASSUME CacheInv, ServeInv, Settled, ~overtaken, ~clashed
  PROVE  /\ CacheTrue /\ CacheFull /\ ModulesTrue
         /\ \A i : ~Gone(i) /\ ~Comes(i) /\ ~Swept(i) /\ (i \in Ids => ~Awaited(i))
<1>1. CacheTrue /\ CacheFull /\ ModulesTrue
  BY DEF ServeInv, KnowledgeInv, Settled
<1>2. \A i : ~Gone(i) /\ ~Comes(i) /\ ~Swept(i)
  BY NoQueue DEF Settled
<1>3. \A i \in Ids : ~Awaited(i)
  BY FunctionAssumption DEF Settled, Awaited, NoRead
<1> QED  BY <1>1, <1>2, <1>3

\* Whatever requests overlap and fail, however the runtime starts, stops and loses its
\* stream: with nothing left to handle it has each published function of which it has not
\* missed a change, and no other.
THEOREM CacheIsCurrent == Spec => []CacheAgrees
<1>1. CacheInv /\ ServeInv => CacheAgrees
  BY SettledFacts DEF CacheAgrees, CacheTrue, CacheFull
<1> QED  BY <1>1, ServeKept, PTL

\* ... and runs no module that was compiled from, or imports, an older one.
THEOREM ModulesKeptCurrent == Spec => []ModulesAreCurrent
<1>1. CacheInv /\ ServeInv => ModulesAreCurrent
  BY SettledFacts DEF ModulesAreCurrent, ModulesTrue
<1> QED  BY <1>1, ServeKept, PTL

-----------------------------------------------------------------------------
(* Agreement of the two databases *)

\* The functions of one name in a collection.
Part(coll, n) == Items(coll, Named(coll, {n}))
Filed(i, d) == [id |-> i, doc |-> d]
Single(S) == \A b \in S, c \in S : b = c
Written(b) == b.doc.compiled = b.doc.code
Agree(S, P) == S = P /\ \A b \in S : Written(b)

LEMMA FiledFacts ==
  ASSUME NEW i, NEW d, NEW j, NEW e
  PROVE  /\ Filed(i, d).id = i /\ Filed(i, d).doc = d
         /\ Filed(i, d) = Filed(j, e) <=> i = j /\ d = e
BY DEF Filed

LEMMA PartIs ==
  ASSUME NEW coll, NEW n, NEW b
  PROVE  b \in Part(coll, n) <=>
           \E i \in Ids : coll[i] # None /\ coll[i].name = n /\ b = Filed(i, coll[i])
BY DEF Part, Items, Named, Has, Filed

LEMMA PartSame ==
  ASSUME NEW coll, NEW other, NEW n,
         \A i \in Ids : \/ coll[i] = other[i]
                        \/ /\ coll[i] # None => coll[i].name # n
                           /\ other[i] # None => other[i].name # n
  PROVE  Part(coll, n) = Part(other, n)
<1>1. \A b : b \in Part(coll, n) <=> b \in Part(other, n)
  BY PartIs
<1> HIDE DEF Part
<1> QED  BY <1>1

LEMMA SingleIs ==
  ASSUME NEW coll, NEW n \in Names
  PROVE  /\ n \notin Doubled(coll) <=> Single(Part(coll, n))
         /\ Cardinality(Named(coll, {n})) = 1 =>
              Single(Part(coll, n)) /\ Part(coll, n) # {}
<1> DEFINE S == Named(coll, {n})
<1>1. IsFiniteSet(S)
  <2>1. S \in SUBSET Ids
    BY DEF Named
  <2> QED  BY <2>1, FunctionAssumption, FS_Subset
<1>2. n \in Doubled(coll) <=> Cardinality(S) > 1
  BY DEF Doubled
<1>3. /\ \A b : b \in Part(coll, n) => \E i \in S : b = Filed(i, coll[i])
      /\ \A i \in S : Filed(i, coll[i]) \in Part(coll, n)
  BY PartIs DEF Named, Has
<1> HIDE DEF S
<1>4. Cardinality(S) \in Nat
  BY <1>1, FS_CardinalityType
<1>5. Single(Part(coll, n)) <=> \A i \in S, j \in S : i = j
  <2> DEFINE P == Part(coll, n)
             f(i) == Filed(i, coll[i])
  <2>1. \A b \in P : \E i \in S : b = f(i)
    BY <1>3
  <2>2. \A i \in S : f(i) \in P
    BY <1>3
  <2>3. \A i \in S, j \in S : f(i) = f(j) <=> i = j
    BY FiledFacts
  <2> HIDE DEF P, f
  <2>4. Single(P) <=> \A i \in S, j \in S : i = j
    BY <2>1, <2>2, <2>3 DEF Single
  <2> QED  BY <2>4 DEF P
<1>6. Cardinality(S) > 1 => ~(\A i \in S, j \in S : i = j)
  <2> SUFFICES ASSUME \A i \in S, j \in S : i = j PROVE ~(Cardinality(S) > 1)
    OBVIOUS
  <2>1. CASE S = {}
    <3>1. Cardinality(S) = 0
      BY <2>1, FS_EmptySet
    <3> QED  BY <3>1
  <2>2. CASE S # {}
    <3>1. \E i : S = {i}
      BY <2>2
    <3>2. Cardinality(S) = 1
      BY <1>1, <3>1, FS_Singleton
    <3> QED  BY <3>2
  <2> QED  BY <2>1, <2>2
<1>7. ASSUME NEW i \in S, NEW j \in S, i # j PROVE Cardinality(S) > 1
  <2>1. IsFiniteSet({i}) /\ Cardinality({i}) = 1
    BY FS_Singleton
  <2>2. {i} \in SUBSET S
    OBVIOUS
  <2>3. /\ Cardinality({i}) <= Cardinality(S)
        /\ Cardinality(S) = Cardinality({i}) => S = {i}
    BY <1>1, <2>2, FS_Subset
  <2>4. S # {i}
    BY <1>7
  <2> QED  BY <1>4, <2>1, <2>3, <2>4
<1>8. ASSUME Cardinality(S) = 1
      PROVE  /\ \A i \in S, j \in S : i = j
             /\ Part(coll, n) # {}
  <2>1. PICK i : S = {i}
    BY <1>1, <1>8, FS_Singleton
  <2> QED  BY <1>3, <2>1
<1>9. n \notin Doubled(coll) <=> Single(Part(coll, n))
  BY <1>2, <1>5, <1>6, <1>7
<1>10. Cardinality(Named(coll, {n})) = 1 => Single(Part(coll, n)) /\ Part(coll, n) # {}
  BY <1>5, <1>8 DEF S
<1> QED  BY <1>9, <1>10

\* What a request will have made of the functions of a name when it is committed.
After(x, n, S) ==
    {b \in S : b.id \notin DOMAIN x.fns}
      \cup {Filed(i, x.fns[i]) : i \in {j \in DOMAIN x.fns : x.kind # "remove" /\ x.fns[j].name = n}}

LEMMA AfterIs ==
  ASSUME NEW x, NEW n, NEW S, NEW b
  PROVE  b \in After(x, n, S) <=>
           \/ b \in S /\ b.id \notin DOMAIN x.fns
           \/ /\ x.kind # "remove"
              /\ \E i \in DOMAIN x.fns : x.fns[i].name = n /\ b = Filed(i, x.fns[i])
BY DEF After

LEMMA CommittedIs ==
  ASSUME RequestInv, NEW r \in Requests, NEW n
  PROVE  Part(Committed(r), n) = After(request[r], n, Part(stored, n))
<1> DEFINE x == request[r]
           coll == Committed(r)
           S == Part(stored, n)
<1>1. DOMAIN x.fns \subseteq Ids /\ \A i \in DOMAIN x.fns : x.fns[i] # None
  <2>1. x.fns \in FnSets
    BY DEF RequestInv, RequestType
  <2> QED  BY <2>1, FnsFacts, FunctionAssumption
<1>2. \A i \in Ids : coll[i] = IF i \notin DOMAIN x.fns THEN stored[i]
                               ELSE IF x.kind = "remove" THEN None ELSE x.fns[i]
  BY DEF Committed, Fns, Kind
<1> HIDE DEF x, coll
<1>3. \A b : b \in Part(coll, n) <=>
        \E i \in Ids : coll[i] # None /\ coll[i].name = n /\ b = Filed(i, coll[i])
  BY PartIs
<1>4. \A b : b \in S <=>
        \E i \in Ids : stored[i] # None /\ stored[i].name = n /\ b = Filed(i, stored[i])
  BY PartIs
<1>5. \A b : b \in After(x, n, S) <=>
           \/ b \in S /\ b.id \notin DOMAIN x.fns
           \/ /\ x.kind # "remove"
              /\ \E i \in DOMAIN x.fns : x.fns[i].name = n /\ b = Filed(i, x.fns[i])
  BY AfterIs
<1> HIDE DEF S
<1>6. \A b : b \in Part(coll, n) => b \in After(x, n, S)
  BY <1>1, <1>2, <1>3, <1>4, <1>5, FiledFacts
<1>7. \A b : b \in After(x, n, S) => b \in Part(coll, n)
  BY <1>1, <1>2, <1>3, <1>4, <1>5, FiledFacts
<1>8. Part(coll, n) = After(x, n, S)
  <2> HIDE DEF Part, After
  <2> QED  BY <1>6, <1>7
<1> QED  BY <1>8 DEF x, coll, S

\* The names a request is about while it lives.
Subject(x) == IF x.at = "idle" THEN {} ELSE Touches(x)

Updates(x) == x.kind \in {"create", "update"}

\* The request has changed one of the databases for this name, and not yet the other.
Past(x, n) ==
    /\ n \in Subject(x)
    /\ x.at \in {"triggers", "commit"} \/ (Updates(x) /\ x.at \in {"reread", "publish"})

\* Names that get what is wrong with what is renamed or restored.
Brings(x, T) ==
    IF x.kind = "rename" /\ x.name \in T THEN {x.to}
    ELSE IF x.kind = "restore"
      THEN {x.fns[i].name : i \in {j \in DOMAIN x.fns : x.fns[j].code # x.fns[j].compiled}}
    ELSE {}

\* What a request may still rely on of what it has read, S being the stored functions of
\* name n, P the published ones and T the torn names: an update that was not disturbed ...
UpdateKnows(x, n, S) ==
    Updates(x) /\ n = x.name /\ x.alone =>
        /\ x.at = "reread" /\ S # {} => \E b \in S : Written(b)
        /\ x.at = "publish" => /\ DOMAIN x.fns # {} /\ \E b \in S : Written(b)
                               /\ \A i \in DOMAIN x.fns : Filed(i, x.fns[i]) \in S

\* ... a rename or a removal of the function of an untorn name ...
SourceKnown(x, n, S) ==
    n = x.name =>
        /\ x.kind = "rename" /\ x.at \in {"check", "move"} =>
             \A b \in S : b.doc.code = x.func.code
        /\ x.kind = "rename" /\ x.at = "publish" =>
             \A i \in DOMAIN x.fns : x.fns[i].code = x.fns[i].compiled
        /\ x.kind \in {"rename", "remove"} /\ x.at = "publish" =>
             \A b \in S : b.id \in DOMAIN x.fns

\* ... what takes an untorn name that was free ...
TargetFree(x, n, S) ==
    /\ x.kind = "rename" /\ n = x.to /\ x.at \in {"move", "publish"} => S = {}
    /\ x.kind = "use" /\ n = x.name /\ x.at \in {"insert", "publish"} => S = {} /\ x.items = {}
    /\ x.kind = "use" /\ x.at = "check" => {b \in x.items : b.doc.name = n} = S

\* ... and what has published what it will commit.
HalfWay(x, n, S, P, T) ==
    /\ x.at \in {"triggers", "commit"}
    /\ Single(After(x, n, S)) /\ n \notin Brings(x, T)
    => Agree(After(x, n, S), P)

Knows(x, n, S, P, T) ==
    /\ UpdateKnows(x, n, S)
    /\ n \notin T => SourceKnown(x, n, S) /\ TargetFree(x, n, S) /\ HalfWay(x, n, S, P, T)

\* What the documents of a request are called, and what is stored where it writes.
Labelled(x) ==
    /\ x.kind # "rename" /\ ~(x.kind = "use" /\ x.at = "check") => x.to = None
    /\ x.kind = "rename" => x.to # x.name
    /\ x.kind = "restore" => x.name = None
    /\ \A i \in DOMAIN x.fns :
         /\ x.kind \in {"create", "update", "use", "remove"} => x.fns[i].name = x.name
         /\ x.kind = "rename" => x.fns[i].name = x.to
         /\ x.kind = "use" => x.fns[i].code = x.fns[i].compiled
    /\ x.kind = "use" /\ x.at \in {"insert", "publish"} => \A b \in x.items : b.doc.name = x.name

Over(x, coll) ==
    InTx(x) => \A i \in DOMAIN x.fns :
                 /\ x.kind \in {"rename", "remove"} => coll[i] # None /\ coll[i].name = x.name
                 /\ x.kind \in {"restore", "use"} => coll[i] = None

Meeting ==
    \A r \in Requests, q \in Requests : r # q =>
        \A n \in Subject(request[r]) \cap Subject(request[q]) : n \in torn /\ ~request[r].alone

Noticing ==
    \A r \in Requests : Live(r) /\ Updates(request[r]) /\ ~request[r].alone => request[r].name \in torn

Documents ==
    \A r \in Requests : Labelled(request[r]) /\ Over(request[r], stored)

Knowing ==
    \A r \in Requests : \A n \in Subject(request[r]) :
        Knows(request[r], n, Part(stored, n), Part(published, n), torn)

\* Where nothing was torn and no request is half-way, the two databases agree.
Agreeing ==
    \A n \in Names \ (torn \cup Doubled(stored)) :
        (\A r \in Requests : ~Past(request[r], n)) => Agree(Part(stored, n), Part(published, n))

AgreementInv == Meeting /\ Noticing /\ Documents /\ Knowing /\ Agreeing

\* Marking the neighbours changes nothing of a request but whether it was alone.
MarkedFrom(y, x) == SameWork(y, x) /\ (y.alone => x.alone)

LEMMA MarkedFacts ==
  ASSUME NEW x, NEW y, MarkedFrom(y, x)
  PROVE  /\ Subject(y) = Subject(x) /\ (Updates(y) <=> Updates(x))
         /\ \A n : Past(y, n) <=> Past(x, n)
         /\ Labelled(x) => Labelled(y)
         /\ \A coll : Over(x, coll) => Over(y, coll)
         /\ \A n, S, P, T : Knows(x, n, S, P, T) => Knows(y, n, S, P, T)
<1>1. /\ y.kind = x.kind /\ y.at = x.at /\ y.name = x.name /\ y.to = x.to
      /\ y.func = x.func /\ y.items = x.items /\ y.fns = x.fns /\ (y.alone => x.alone)
  BY DEF MarkedFrom, SameWork
<1>2. Subject(y) = Subject(x) /\ (Updates(y) <=> Updates(x))
  BY <1>1 DEF Subject, Touches, Updates
<1>3. \A n : Past(y, n) <=> Past(x, n)
  BY <1>1, <1>2 DEF Past
<1>4. Labelled(x) => Labelled(y)
  BY <1>1 DEF Labelled
<1>5. \A coll : Over(x, coll) => Over(y, coll)
  BY <1>1 DEF Over, InTx
<1>6. ASSUME NEW n, NEW S, NEW P, NEW T, Knows(x, n, S, P, T)
      PROVE  Knows(y, n, S, P, T)
  <2>1. UpdateKnows(x, n, S) => UpdateKnows(y, n, S)
    BY <1>1, <1>2 DEF UpdateKnows
  <2>2. SourceKnown(x, n, S) => SourceKnown(y, n, S)
    BY <1>1 DEF SourceKnown
  <2>3. TargetFree(x, n, S) => TargetFree(y, n, S)
    BY <1>1 DEF TargetFree
  <2>4. After(y, n, S) = After(x, n, S) /\ Brings(y, T) = Brings(x, T)
    BY <1>1 DEF After, Brings
  <2>5. HalfWay(x, n, S, P, T) => HalfWay(y, n, S, P, T)
    BY <1>1, <2>4 DEF HalfWay
  <2> QED  BY <1>6, <2>1, <2>2, <2>3, <2>5 DEF Knows
<1> QED  BY <1>2, <1>3, <1>4, <1>5, <1>6

LEMMA TearMarks ==
  ASSUME request \in [Requests -> RequestType], NEW r \in Requests, NEW rec \in RequestType,
         NEW names \in SUBSET Names, Tear([request EXCEPT ![r] = rec], names)
  PROVE  /\ names \cup Doubled(stored) \subseteq torn'
         /\ MarkedFrom(request'[r], rec)
         /\ \A q \in Requests \ {r} : MarkedFrom(request'[q], request[q])
         /\ \A p \in Requests, q \in Requests : p # q =>
              \A n \in Subject(request'[p]) \cap Subject(request'[q]) :
                n \in torn' /\ ~request'[p].alone
         /\ request'[r].alone \/ ~rec.alone \/ Subject(rec) \cap torn' # {}
         /\ \A q \in Requests \ {r} :
              request'[q].alone \/ ~request[q].alone \/ Subject(request[q]) \cap torn' # {}
<1> DEFINE reqs == [request EXCEPT ![r] = rec]
           live == {q \in Requests : reqs[q].at # "idle"}
           met(q) == {n \in Touches(reqs[q]) :
                        \E p \in Requests \ {q} : reqs[p].at # "idle" /\ n \in Touches(reqs[p])}
<1>1. reqs \in [Requests -> RequestType] /\ reqs[r] = rec
      /\ \A q \in Requests \ {r} : reqs[q] = request[q]
  OBVIOUS
<1>2. request' = [q \in Requests |-> IF q \in live /\ met(q) # {}
                                       THEN [reqs[q] EXCEPT !.alone = FALSE] ELSE reqs[q]]
  BY DEF Tear
<1>3. torn' = names \cup Doubled(stored) \cup UNION {met(q) : q \in live}
  BY DEF Tear
<1>4. ASSUME NEW x \in RequestType
      PROVE  /\ MarkedFrom([x EXCEPT !.alone = FALSE], x) /\ MarkedFrom(x, x)
             /\ ~[x EXCEPT !.alone = FALSE].alone
  BY DEF RequestType, SameWork, MarkedFrom
<1>5. \A n : \A p \in Requests, q \in Requests :
        p # q /\ n \in Subject(reqs[p]) \cap Subject(reqs[q]) => p \in live /\ n \in met(p)
  BY DEF Subject
<1>6. \A p \in live : met(p) \subseteq torn' /\ met(p) \subseteq Subject(reqs[p])
  BY <1>3 DEF Subject
<1>7. ASSUME NEW q \in Requests
      PROVE  /\ MarkedFrom(request'[q], reqs[q])
             /\ q \in live /\ met(q) # {} => ~request'[q].alone
             /\ ~(q \in live /\ met(q) # {}) => request'[q] = reqs[q]
  <2>1. reqs[q] \in RequestType
    BY <1>1
  <2>2. request'[q] = IF q \in live /\ met(q) # {} THEN [reqs[q] EXCEPT !.alone = FALSE] ELSE reqs[q]
    BY <1>2
  <2> HIDE DEF reqs, met, live
  <2>3. CASE q \in live /\ met(q) # {}
    BY <1>4, <2>1, <2>2, <2>3
  <2>4. CASE ~(q \in live /\ met(q) # {})
    BY <1>4, <2>1, <2>2, <2>4
  <2> QED  BY <2>3, <2>4
<1> HIDE DEF reqs, met, live
<1>8. ASSUME NEW p \in Requests, NEW q \in Requests, p # q,
             NEW n \in Subject(request'[p]) \cap Subject(request'[q])
      PROVE  n \in torn' /\ ~request'[p].alone
  <2>1. n \in Subject(reqs[p]) /\ n \in Subject(reqs[q])
    BY <1>7, <1>8, MarkedFacts
  <2> QED  BY <1>5, <1>6, <1>7, <1>8, <2>1
<1>9. ASSUME NEW q \in Requests
      PROVE  request'[q].alone \/ ~reqs[q].alone \/ Subject(reqs[q]) \cap torn' # {}
  BY <1>6, <1>7
<1>10. names \cup Doubled(stored) \subseteq torn'
  BY <1>3
<1> QED  BY <1>1, <1>7, <1>8, <1>9, <1>10

LEMMA SubjectNames ==
  ASSUME NEW x \in RequestType, Shape(x)
  PROVE  /\ Subject(x) \subseteq Names
         /\ x.at # "idle" /\ x.name \in Names => x.name \in Subject(x)
         /\ x.at # "idle" /\ x.to \in Names => x.to \in Subject(x)
         /\ x.at # "idle" => \A i \in DOMAIN x.fns : x.fns[i].name \in Subject(x)
         /\ Updates(x) /\ Labelled(x) => Subject(x) \subseteq {x.name}
<1>1. x.name \in Names \cup {None} /\ x.to \in Names \cup {None} /\ x.fns \in FnSets
  BY DEF RequestType
<1>2. \A i \in DOMAIN x.fns : x.fns[i].name \in Names
  BY <1>1, FnsFacts DEF Doc
<1>3. Subject(x) \subseteq Names
  BY <1>1, <1>2 DEF Subject, Touches
<1>4. None \notin Names
  BY FunctionAssumption
<1>5. Updates(x) /\ Labelled(x) => Subject(x) \subseteq {x.name}
  BY DEF Subject, Touches, Updates, Labelled
<1> QED  BY <1>3, <1>4, <1>5 DEF Subject, Touches

\* A request that is not disturbed keeps what it knows; the names of others stay torn.
LEMMA OthersKnow ==
  ASSUME RequestInv, AgreementInv, NEW r \in Requests, NEW names \in SUBSET Names,
         names \subseteq torn',
         \A n \in torn \ names : n \in Subject(request[r]) /\ request[r].alone,
         \A n \in Names \ Subject(request[r]) :
           Part(stored', n) = Part(stored, n) /\ Part(published', n) = Part(published, n),
         NEW q \in Requests \ {r}
  PROVE  /\ Subject(request[q]) \cap torn \subseteq torn'
         /\ \A n \in Subject(request[q]) :
              Knows(request[q], n, Part(stored', n), Part(published', n), torn')
<1> DEFINE x == request[q]
<1>1. x \in RequestType /\ Shape(x)
  BY DEF RequestInv
<1>2. Subject(x) \cap torn \subseteq torn'
  <2> SUFFICES ASSUME NEW n \in Subject(x), n \in torn, n \notin torn' PROVE FALSE
    OBVIOUS
  <2>1. n \in Subject(request[r]) /\ request[r].alone
    OBVIOUS
  <2> QED  BY <2>1 DEF AgreementInv, Meeting
<1>3. ASSUME NEW n \in Subject(x)
      PROVE  Knows(x, n, Part(stored', n), Part(published', n), torn')
  <2>1. CASE n \in Subject(request[r])
    <3>1. n \in torn /\ ~x.alone
      BY <1>3, <2>1 DEF AgreementInv, Meeting
    <3>2. n \in torn'
      BY <1>2, <1>3, <3>1
    <3> QED  BY <3>1, <3>2 DEF Knows, UpdateKnows
  <2>2. CASE n \notin Subject(request[r])
    <3>1. n \in Names
      BY <1>1, <1>3, SubjectNames
    <3> DEFINE S == Part(stored, n)
               P == Part(published, n)
    <3>2. Part(stored', n) = S /\ Part(published', n) = P
      BY <2>2, <3>1
    <3>3. Knows(x, n, S, P, torn)
      BY <1>3 DEF AgreementInv, Knowing
    <3>4. n \notin torn' => n \notin torn
      BY <2>2
    <3>5. n \in Brings(x, torn) => n \in Brings(x, torn')
      <4>1. x.kind = "rename" => x.name \in Names
        BY <1>1 DEF Shape, Kinds
      <4>2. x.at # "idle"
        BY <1>3 DEF Subject
      <4>3. x.kind = "rename" /\ x.name \in torn => x.name \in torn'
        BY <1>1, <1>2, <4>1, <4>2, SubjectNames
      <4> HIDE DEF x
      <4> QED  BY <4>3 DEF Brings
    <3> HIDE DEF S, P, x
    <3>6. Knows(x, n, S, P, torn')
      BY <3>3, <3>4, <3>5 DEF Knows, HalfWay
    <3> QED  BY <3>2, <3>6
  <2> QED  BY <2>1, <2>2
<1> QED  BY <1>2, <1>3

\* What a step of a request has to show.
LEMMA StepAgrees ==
  ASSUME RequestInv, RequestInv', AgreementInv, NEW r \in Requests, NEW rec \in RequestType,
         NEW names \in SUBSET Names, Tear([request EXCEPT ![r] = rec], names),
         \A n \in torn \ names : n \in Subject(request[r]) /\ request[r].alone,
         \A n \in Names \ Subject(request[r]) :
           Part(stored', n) = Part(stored, n) /\ Part(published', n) = Part(published, n),
         \A q \in Requests \ {r} : InTx(request[q]) =>
           \A i \in DOMAIN request[q].fns : stored'[i] = stored[i],
         Labelled(rec), Over(rec, stored'),
         rec.at # "idle" /\ Updates(rec) /\ ~rec.alone => rec.name \in torn',
         \A n \in Subject(rec) : Knows(rec, n, Part(stored', n), Part(published', n), torn'),
         \A n \in Subject(request[r]) :
           n \in Names \ (torn' \cup Doubled(stored')) /\ ~Past(rec, n) =>
             Agree(Part(stored', n), Part(published', n))
  PROVE  AgreementInv'
<1>1. /\ names \cup Doubled(stored) \subseteq torn'
      /\ MarkedFrom(request'[r], rec)
      /\ \A q \in Requests \ {r} : MarkedFrom(request'[q], request[q])
      /\ \A p \in Requests, q \in Requests : p # q =>
           \A n \in Subject(request'[p]) \cap Subject(request'[q]) :
             n \in torn' /\ ~request'[p].alone
      /\ request'[r].alone \/ ~rec.alone \/ Subject(rec) \cap torn' # {}
      /\ \A q \in Requests \ {r} :
           request'[q].alone \/ ~request[q].alone \/ Subject(request[q]) \cap torn' # {}
  BY TearMarks DEF RequestInv
<1>0. Shape(rec)
  <2>1. Shape(request'[r])
    BY DEF RequestInv
  <2>2. SameWork(rec, request'[r])
    BY <1>1 DEF MarkedFrom, SameWork
  <2> QED  BY <2>1, <2>2, SameFacts
<1>2. \A q \in Requests \ {r} :
        /\ Subject(request[q]) \cap torn \subseteq torn'
        /\ \A n \in Subject(request[q]) :
             Knows(request[q], n, Part(stored', n), Part(published', n), torn')
  BY <1>1, OthersKnow
<1>3. Meeting'
  BY <1>1 DEF Meeting
<1>4. \A q \in Requests : /\ Live(q)' /\ Updates(request'[q]) /\ ~request'[q].alone
                             => request'[q].name \in torn'
  <2>1. ASSUME NEW q \in Requests, NEW x \in RequestType, MarkedFrom(request'[q], x), Shape(x),
               Labelled(x), x.at # "idle", Updates(x),
               request'[q].alone \/ ~x.alone \/ Subject(x) \cap torn' # {},
               ~x.alone => x.name \in torn', ~request'[q].alone
        PROVE  request'[q].name \in torn'
    <3>1. request'[q].name = x.name /\ Subject(x) \subseteq {x.name}
      BY <2>1, SubjectNames DEF MarkedFrom, SameWork
    <3> QED  BY <2>1, <3>1
  <2>2. ASSUME NEW q \in Requests \ {r}, request[q].at # "idle", Updates(request[q]), ~request[q].alone
        PROVE  request[q].name \in torn'
    <3>1. request[q].name \in torn
      BY <2>2 DEF AgreementInv, Noticing, Live
    <3>2. request[q].name \in Subject(request[q])
      BY <2>2, <3>1, SubjectNames DEF RequestInv
    <3> QED  BY <1>2, <3>1, <3>2
  <2>3. ASSUME NEW q \in Requests, Live(q)', Updates(request'[q]), ~request'[q].alone
        PROVE  request'[q].name \in torn'
    <3>1. CASE q = r
      <4>1. rec.at # "idle" /\ Updates(rec)
        BY <1>1, <2>3, <3>1, MarkedFacts DEF MarkedFrom, SameWork, Live
      <4> QED  BY <1>0, <1>1, <2>1, <2>3, <3>1, <4>1
    <3>2. CASE q # r
      <4>1. MarkedFrom(request'[q], request[q])
        BY <1>1, <3>2
      <4>2. request[q].at # "idle" /\ Updates(request[q])
        BY <2>3, <4>1, MarkedFacts DEF MarkedFrom, SameWork, Live
      <4>3. request[q] \in RequestType /\ Shape(request[q]) /\ Labelled(request[q])
        BY DEF RequestInv, AgreementInv, Documents
      <4>4. /\ request'[q].alone \/ ~request[q].alone \/ Subject(request[q]) \cap torn' # {}
            /\ ~request[q].alone => request[q].name \in torn'
        BY <1>1, <2>2, <3>2, <4>2
      <4> QED  BY <2>1, <2>3, <4>1, <4>2, <4>3, <4>4
    <3> QED  BY <3>1, <3>2
  <2> QED  BY <2>3
<1>5. \A q \in Requests : Labelled(request'[q]) /\ Over(request'[q], stored')
  <2>1. Labelled(request'[r]) /\ Over(request'[r], stored')
    BY <1>1, MarkedFacts
  <2>2. ASSUME NEW q \in Requests \ {r}
        PROVE  Labelled(request'[q]) /\ Over(request'[q], stored')
    <3>1. Labelled(request[q]) /\ Over(request[q], stored)
      BY DEF AgreementInv, Documents
    <3>2. Over(request[q], stored')
      BY <3>1 DEF Over
    <3> QED  BY <1>1, <3>1, <3>2, MarkedFacts
  <2> QED  BY <2>1, <2>2
<1>6. \A q \in Requests : \A n \in Subject(request'[q]) :
        Knows(request'[q], n, Part(stored', n), Part(published', n), torn')
  <2>1. ASSUME NEW q \in Requests, NEW x, MarkedFrom(request'[q], x),
               \A n \in Subject(x) : Knows(x, n, Part(stored', n), Part(published', n), torn')
        PROVE  \A n \in Subject(request'[q]) :
                 Knows(request'[q], n, Part(stored', n), Part(published', n), torn')
    BY <2>1, MarkedFacts
  <2> QED  BY <1>1, <1>2, <2>1
<1>7. ASSUME NEW n \in Names \ (torn' \cup Doubled(stored')),
             \A q \in Requests : ~Past(request'[q], n)
      PROVE  Agree(Part(stored', n), Part(published', n))
  <2>1. CASE n \in Subject(request[r])
    <3>1. ~Past(rec, n)
      BY <1>1, <1>7, MarkedFacts
    <3> QED  BY <1>7, <2>1, <3>1
  <2>2. CASE n \notin Subject(request[r])
    <3>1. n \notin torn \cup Doubled(stored)
      BY <1>1, <1>7, <2>2
    <3>2. \A q \in Requests : ~Past(request[q], n)
      <4>1. ~Past(request[r], n)
        BY <2>2 DEF Past
      <4>2. \A q \in Requests \ {r} : ~Past(request[q], n)
        BY <1>1, <1>7, MarkedFacts
      <4> QED  BY <4>1, <4>2
    <3>3. Agree(Part(stored, n), Part(published, n))
      BY <1>7, <3>1, <3>2 DEF AgreementInv, Agreeing
    <3> QED  BY <1>7, <2>2, <3>3
  <2> QED  BY <2>1, <2>2
<1>8. Noticing' /\ Documents' /\ Knowing' /\ Agreeing'
  BY <1>4, <1>5, <1>6, <1>7 DEF Noticing, Documents, Knowing, Agreeing, Live
<1> QED  BY <1>3, <1>8 DEF AgreementInv

\* Where a request has changed nothing and its name is not torn, the databases agree.
LEMMA ClearOf ==
  ASSUME AgreementInv, NEW r \in Requests, NEW n \in Names \ (torn \cup Doubled(stored)),
         n \in Subject(request[r]), ~Past(request[r], n)
  PROVE  Agree(Part(stored, n), Part(published, n))
<1>1. \A q \in Requests \ {r} : n \notin Subject(request[q])
  BY DEF AgreementInv, Meeting
<1>2. \A q \in Requests : ~Past(request[q], n)
  BY <1>1 DEF Past
<1> QED  BY <1>2 DEF AgreementInv, Agreeing

\* A step of a request that leaves both databases alone.
LEMMA LookAgrees ==
  ASSUME RequestInv, RequestInv', AgreementInv, NEW r \in Requests, NEW rec \in RequestType,
         NEW names \in SUBSET Names, Tear([request EXCEPT ![r] = rec], names),
         torn \subseteq names, UNCHANGED <<stored, published>>,
         Labelled(rec), Over(rec, stored),
         rec.at # "idle" /\ Updates(rec) /\ ~rec.alone => rec.name \in torn,
         \A n \in Subject(request[r]) : Past(request[r], n) => n \in names \/ Past(rec, n),
         torn \cup Doubled(stored) \subseteq torn' =>
           \A n \in Subject(rec) : Knows(rec, n, Part(stored, n), Part(published, n), torn')
  PROVE  AgreementInv'
<1>1. names \cup Doubled(stored) \subseteq torn'
  BY TearMarks DEF RequestInv
<1>2. ASSUME NEW n \in Subject(request[r]), n \in Names \ (torn' \cup Doubled(stored)), ~Past(rec, n)
      PROVE  Agree(Part(stored, n), Part(published, n))
  BY <1>1, <1>2, ClearOf
<1>3. torn \cup Doubled(stored) \subseteq torn'
  BY <1>1
<1>4. \A n \in Subject(rec) : Knows(rec, n, Part(stored, n), Part(published, n), torn')
  BY <1>3
<1>5. stored' = stored /\ published' = published
  OBVIOUS
<1>6. \A n \in Subject(rec) : Knows(rec, n, Part(stored', n), Part(published', n), torn')
  BY <1>4, <1>5
<1>7. \A n \in Subject(request[r]) :
           n \in Names \ (torn' \cup Doubled(stored')) /\ ~Past(rec, n) =>
             Agree(Part(stored', n), Part(published', n))
  BY <1>2, <1>5
<1>8. \A n \in Names \ Subject(request[r]) :
           Part(stored', n) = Part(stored, n) /\ Part(published', n) = Part(published, n)
  BY <1>5
<1>9. /\ Over(rec, stored')
      /\ rec.at # "idle" /\ Updates(rec) /\ ~rec.alone => rec.name \in torn'
      /\ \A q \in Requests \ {r} : InTx(request[q]) =>
           \A i \in DOMAIN request[q].fns : stored'[i] = stored[i]
  BY <1>1, <1>5
<1> QED  BY <1>6, <1>7, <1>8, <1>9, StepAgrees

LEMMA IdleAgrees ==
  /\ Idle \in RequestType /\ Subject(Idle) = {} /\ Labelled(Idle)
  /\ \A coll : Over(Idle, coll)
BY IdleFacts, NoFns DEF Idle, Subject, Labelled, Over, InTx

\* A request ends: where it was half-way, the name is torn.
LEMMA ReleaseAgrees ==
  ASSUME RequestInv, RequestInv', AgreementInv, NEW r \in Requests, UNCHANGED <<stored, published>>,
         \/ Failed(r)
         \/ End(r) /\ request[r].at \notin {"reread", "publish", "triggers", "commit"}
  PROVE  AgreementInv'
<1>1. Idle \in RequestType /\ Subject(Idle) = {} /\ Labelled(Idle) /\ Over(Idle, stored)
      /\ Idle.at = "idle"
  BY IdleAgrees DEF Idle
<1>2. Touches(request[r]) \subseteq Names /\ torn \subseteq Names
  BY MarksAreNames
<1>3. \A n \in Subject(request[r]) : n \in Touches(request[r])
  BY DEF Subject
<1>4. CASE Failed(r)
  <2>1. Tear([request EXCEPT ![r] = Idle], torn \cup Touches(request[r]))
    BY <1>4 DEF Failed
  <2> QED  BY <1>1, <1>2, <1>3, <2>1, LookAgrees
<1>5. CASE End(r) /\ request[r].at \notin {"reread", "publish", "triggers", "commit"}
  <2>1. Tear([request EXCEPT ![r] = Idle], torn)
    BY <1>5 DEF End
  <2>2. \A n \in Subject(request[r]) : ~Past(request[r], n)
    BY <1>5 DEF Past
  <2> QED  BY <1>1, <1>2, <2>1, <2>2, LookAgrees
<1> QED  BY <1>4, <1>5

\* The steps after which there is nothing yet to rely on.
LEMMA NothingKnown ==
  ASSUME NEW x, x.at \notin {"reread", "triggers", "commit"},
         x.at = "publish" => x.kind = "restore",
         x.kind = "rename" => x.at \notin {"check", "move"},
         x.kind = "use" => x.at \notin {"check", "insert"}
  PROVE  \A n, S, P, T : Knows(x, n, S, P, T)
BY DEF Knows, UpdateKnows, Updates, SourceKnown, TargetFree, HalfWay

LEMMA CallAgrees ==
  ASSUME RequestInv, DataInv, RequestInv', AgreementInv, NEW r \in Requests,
         NEW kind \in Kinds \ {"none"},
         NEW name \in Names \cup {None}, NEW to \in Names \cup {None},
         NEW code \in Codes \cup {None}, NEW ids \in SUBSET Ids,
         Call(r, kind, name, to, code, ids),
         kind \notin {"rename", "use"} => to = None, kind = "rename" => to # name,
         kind = "restore" => name = None
  PROVE  AgreementInv'
<1> DEFINE items == Snapshot(kind, {name, to})
           rec == [Idle EXCEPT !.kind = kind, !.at = FirstStep(kind), !.name = name,
                               !.to = to, !.code = code, !.ids = ids, !.items = items]
<1>0. items \in SUBSET Item
  BY SnapshotFacts
<1>1. FirstStep(kind) \in {"find", "check", "bin"}
      /\ (FirstStep(kind) = "check" <=> kind \in {"create", "use"})
      /\ {"find", "check", "bin"} \subseteq Steps
  BY DEF FirstStep, Kinds, Steps
<1> HIDE DEF FirstStep
<1>3. Tear([request EXCEPT ![r] = rec], torn) /\ torn \in SUBSET Names
      /\ UNCHANGED <<stored, published>> /\ request[r].at = "idle"
  BY DEF Call, RequestInv, publication, Live
<1>9. \A n \in {name, to} : kind = "use" => {b \in items : b.doc.name = n} = Part(stored, n)
  BY DEF Snapshot, Part, Items, Named
<1> HIDE DEF items
<1>2. /\ rec \in RequestType
      /\ rec.kind = kind /\ rec.at = FirstStep(kind) /\ rec.name = name /\ rec.to = to
      /\ rec.fns = <<>> /\ rec.alone /\ rec.items = items
  BY <1>0, <1>1, IdleFacts DEF Idle, RequestType
<1> HIDE DEF rec
<1>4. Labelled(rec) /\ Over(rec, stored)
  BY <1>1, <1>2, NoFns DEF Labelled, Over, InTx
<1>5. ASSUME NEW n \in Subject(rec) PROVE Knows(rec, n, Part(stored, n), Part(published, n), torn')
  <2>1. CASE kind = "use"
    <3>1. n \in {name, to}
      BY <1>2, NoFns DEF Subject, Touches
    <3>2. {b \in rec.items : b.doc.name = n} = Part(stored, n)
      BY <1>2, <1>9, <2>1, <3>1
    <3> QED  BY <1>1, <1>2, <2>1, <3>2
             DEF Knows, UpdateKnows, Updates, SourceKnown, TargetFree, HalfWay
  <2>2. CASE kind # "use"
    BY <1>1, <1>2, <2>2, NothingKnown
  <2> QED  BY <2>1, <2>2
<1>6. \A n \in Subject(request[r]) : Past(request[r], n) => n \in torn \/ Past(rec, n)
  BY <1>3 DEF Subject
<1> QED  BY <1>2, <1>3, <1>4, <1>5, <1>6, LookAgrees

\* What a step keeps of a record it changes in one or two places.
LEMMA NothingPast ==
  ASSUME NEW x, x.at \notin {"reread", "publish", "triggers", "commit"}
  PROVE  \A n : ~Past(x, n)
BY DEF Past

LEMMA OwnNotice ==
  ASSUME AgreementInv, NEW r \in Requests, NEW x, request[r].at # "idle",
         x.kind = request[r].kind, x.name = request[r].name, x.alone = request[r].alone
  PROVE  x.at # "idle" /\ Updates(x) /\ ~x.alone => x.name \in torn
BY DEF AgreementInv, Noticing, Live, Updates

LEMMA FindAgrees ==
  ASSUME RequestInv, DataInv, RequestInv', AgreementInv, NEW r \in Requests, Find(r)
  PROVE  AgreementInv'
<1>1. UNCHANGED <<stored, published>> /\ request[r].at = "find"
  BY DEF Find, publication, At
<1>2. CASE Named(stored, {Name(r)}) = {}
  BY <1>1, <1>2, ReleaseAgrees DEF Find
<1>3. CASE Named(stored, {Name(r)}) # {}
  <2> DEFINE step == CASE Kind(r) = "update" -> "write" [] Kind(r) = "rename" -> "check"
                       [] Kind(r) = "remove" -> "room"
             name == Name(r)
  <2>1. PICK i \in Named(stored, {name}) :
          Tear([request EXCEPT ![r].func = stored[i], ![r].at = step], torn)
    BY <1>3 DEF Find
  <2>2. request[r] \in RequestType /\ Shape(request[r]) /\ torn \in SUBSET Names
        /\ request \in [Requests -> RequestType] /\ Labelled(request[r])
    BY DEF RequestInv, AgreementInv, Documents
  <2>3. request[r].kind \in {"update", "rename", "remove"} /\ request[r].fns = <<>>
        /\ request[r].name \in Names /\ name = request[r].name
    BY <1>1, <2>2 DEF Shape, Kinds, Name
  <2>4. \/ step = "write" /\ request[r].kind = "update"
        \/ step = "check" /\ request[r].kind = "rename"
        \/ step = "room" /\ request[r].kind = "remove"
    BY <2>3 DEF Kind
  <2> HIDE DEF step, name
  <2>5. step \in Steps
    BY <2>4 DEF Steps
  <2> DEFINE doc == stored[i]
             rec == [request[r] EXCEPT !.func = doc, !.at = step]
  <2>6. doc \in Docs /\ i \in Ids /\ stored[i] # None /\ stored[i].name = name
    BY NamedFacts DEF Docs, Has
  <2> HIDE DEF doc
  <2>7. /\ rec \in RequestType
        /\ [request EXCEPT ![r].func = doc, ![r].at = step] = [request EXCEPT ![r] = rec]
        /\ rec.at = step /\ rec.func = doc /\ rec.kind = request[r].kind /\ rec.fns = <<>>
        /\ rec.name = name /\ rec.to = request[r].to /\ rec.alone = request[r].alone
    BY <2>2, <2>3, <2>5, <2>6 DEF RequestType
  <2>8. Tear([request EXCEPT ![r] = rec], torn)
    BY <2>1, <2>7 DEF doc
  <2> HIDE DEF rec
  <2>9. Labelled(rec) /\ Over(rec, stored)
    BY <2>2, <2>3, <2>7, NoFns DEF Labelled, Over, InTx
  <2>10. rec.at # "idle" /\ Updates(rec) /\ ~rec.alone => rec.name \in torn
    BY <1>1, <2>3, <2>7, OwnNotice
  <2>11. ASSUME torn \cup Doubled(stored) \subseteq torn', NEW n \in Subject(rec)
         PROVE  Knows(rec, n, Part(stored, n), Part(published, n), torn')
    <3>1. CASE rec.kind # "rename"
      BY <2>3, <2>4, <2>7, <3>1, NothingKnown
    <3>2. CASE rec.kind = "rename"
      <4>1. rec.at = "check"
        BY <2>4, <2>7, <3>2
      <4>2. ASSUME n \notin torn', n = name, NEW b \in Part(stored, n)
            PROVE  b.doc.code = rec.func.code
        <5>1. Single(Part(stored, n))
          BY <2>3, <2>11, <4>2, SingleIs
        <5>2. Filed(i, stored[i]) \in Part(stored, n)
          BY <2>6, <4>2, PartIs
        <5>3. b = Filed(i, stored[i])
          BY <5>1, <5>2 DEF Single
        <5> QED  BY <2>7, <5>3, FiledFacts DEF doc
      <4>3. n \notin torn' => SourceKnown(rec, n, Part(stored, n))
        BY <2>7, <4>1, <4>2 DEF SourceKnown
      <4> QED  BY <3>2, <4>1, <4>3 DEF Knows, UpdateKnows, Updates, TargetFree, HalfWay
    <3> QED  BY <3>1, <3>2
  <2>12. \A n \in Subject(request[r]) : Past(request[r], n) => n \in torn \/ Past(rec, n)
    BY <1>1, NothingPast
  <2> QED  BY <1>1, <2>2, <2>7, <2>8, <2>9, <2>10, <2>11, <2>12, LookAgrees
<1> QED  BY <1>2, <1>3

LEMMA LookupAgrees ==
  ASSUME RequestInv, DataInv, RequestInv', AgreementInv, NEW r \in Requests,
         Room(r) \/ CheckNew(r) \/ CheckNewName(r)
  PROVE  AgreementInv'
<1>1. /\ UNCHANGED <<stored, published>> /\ request[r].at \in {"room", "check"}
      /\ request[r] \in RequestType /\ Shape(request[r]) /\ Labelled(request[r])
      /\ request \in [Requests -> RequestType] /\ torn \in SUBSET Names
  BY DEF Room, CheckNew, CheckNewName, publication, At, RequestInv, AgreementInv, Documents
<1>2. CASE End(r)
  BY <1>1, <1>2, ReleaseAgrees
<1>3. ASSUME NEW s \in {"take", "insert", "move"}, Goto(r, s),
             s = "take" => request[r].kind = "remove",
             s = "insert" => request[r].kind = "create",
             s = "move" => /\ request[r].kind = "rename" /\ request[r].at = "check"
                           /\ Named(stored, {request[r].to}) = {}
      PROVE  AgreementInv'
  <2> DEFINE rec == [request[r] EXCEPT !.at = s]
  <2>1. s \in Steps
    BY DEF Steps
  <2>2. /\ rec \in RequestType
        /\ [request EXCEPT ![r].at = s] = [request EXCEPT ![r] = rec] /\ rec.at = s
    BY <1>1, <2>1, SetAt
  <2>3. /\ rec.kind = request[r].kind /\ rec.fns = request[r].fns /\ rec.func = request[r].func
        /\ rec.name = request[r].name /\ rec.to = request[r].to /\ rec.alone = request[r].alone
    BY <1>1 DEF RequestType
  <2>4. Tear([request EXCEPT ![r] = rec], torn)
    BY <1>3, <2>2 DEF Goto
  <2> HIDE DEF rec
  <2>5. request[r].fns = <<>>
    BY <1>1 DEF Shape
  <2>6. Labelled(rec) /\ Over(rec, stored)
    BY <1>1, <1>3, <2>2, <2>3, <2>5, NoFns DEF Labelled, Over, InTx
  <2>7. rec.at # "idle" /\ Updates(rec) /\ ~rec.alone => rec.name \in torn
    BY <1>1, <2>3, OwnNotice
  <2>8. \A n \in Subject(request[r]) : Past(request[r], n) => n \in torn \/ Past(rec, n)
    BY <1>1, NothingPast
  <2>9. ASSUME torn \cup Doubled(stored) \subseteq torn', NEW n \in Subject(rec)
        PROVE  Knows(rec, n, Part(stored, n), Part(published, n), torn')
    <3>1. CASE s # "move"
      BY <1>3, <2>2, <2>3, <3>1, NothingKnown
    <3>2. CASE s = "move"
      <4>1. Subject(rec) = Subject(request[r])
        BY <1>1, <2>2, <2>3, <3>2 DEF Subject, Touches
      <4>2. Knows(request[r], n, Part(stored, n), Part(published, n), torn)
        BY <2>9, <4>1 DEF AgreementInv, Knowing
      <4>3. n \notin torn' => SourceKnown(rec, n, Part(stored, n))
        BY <1>3, <2>2, <2>3, <2>9, <3>2, <4>2 DEF Knows, SourceKnown
      <4>4. n = rec.to => Part(stored, n) = {}
        BY <1>3, <2>3, <3>2 DEF Part, Items
      <4>5. TargetFree(rec, n, Part(stored, n))
        BY <1>3, <2>2, <2>3, <3>2, <4>4 DEF TargetFree
      <4> QED  BY <1>3, <2>2, <2>3, <3>2, <4>3, <4>5 DEF Knows, UpdateKnows, Updates, HalfWay
    <3> QED  BY <3>1, <3>2
  <2> QED  BY <1>1, <2>2, <2>4, <2>6, <2>7, <2>8, <2>9, LookAgrees
<1>4. CASE Room(r)
  BY <1>1, <1>2, <1>3, <1>4 DEF Room, At, Shape
<1>5. CASE CheckNew(r)
  BY <1>2, <1>3, <1>5 DEF CheckNew, Kind
<1>6. CASE CheckNewName(r)
  BY <1>2, <1>3, <1>6 DEF CheckNewName, Kind, At
<1> QED  BY <1>4, <1>5, <1>6

LEMMA CheckItemsAgrees ==
  ASSUME RequestInv, DataInv, RequestInv', AgreementInv, NEW r \in Requests, CheckItems(r)
  PROVE  AgreementInv'
<1> DEFINE found(n) == {b \in request[r].items : b.doc.name = n}
<1>1. PICK n \in Names :
        /\ Tear([request EXCEPT ![r].name = n, ![r].to = None, ![r].at = "insert",
                                ![r].items = {b \in @ : b.doc.name = n}], torn)
        /\ Named(stored, {n}) = {} /\ n \in {request[r].name, request[r].to}
  BY DEF CheckItems, RequestInv, Shape, At, Kind, Kinds, Name
<1>2. /\ request \in [Requests -> RequestType] /\ torn \in SUBSET Names
      /\ request[r] \in RequestType /\ Shape(request[r]) /\ Labelled(request[r])
      /\ request[r].kind = "use" /\ request[r].at = "check" /\ UNCHANGED <<stored, published>>
  BY DEF RequestInv, CheckItems, At, Kind, AgreementInv, Documents, publication
<1> DEFINE rec == [request[r] EXCEPT !.name = n, !.to = None, !.at = "insert",
                                     !.items = found(n)]
<1>3. /\ rec \in RequestType
      /\ [request EXCEPT ![r].name = n, ![r].to = None, ![r].at = "insert",
                         ![r].items = {b \in @ : b.doc.name = n}]
           = [request EXCEPT ![r] = rec]
      /\ rec.at = "insert" /\ rec.kind = "use" /\ rec.fns = request[r].fns /\ rec.name = n
      /\ rec.to = None /\ rec.items = found(n)
  BY <1>2 DEF RequestType, Steps
<1>4. Tear([request EXCEPT ![r] = rec], torn)
  BY <1>1, <1>3
<1> HIDE DEF rec
<1>5. Labelled(rec) /\ Over(rec, stored)
  <2>1. rec.fns = <<>>
    BY <1>2, <1>3 DEF Shape
  <2> QED  BY <1>2, <1>3, <2>1, NoFns DEF Labelled, Over, InTx
<1>6. \A m \in Subject(request[r]) : Past(request[r], m) => m \in torn \/ Past(rec, m)
  BY <1>2, NothingPast
<1>7. Part(stored, n) = {}
  BY <1>1 DEF Part, Items
<1>8. ASSUME torn \cup Doubled(stored) \subseteq torn', NEW m
      PROVE  Knows(rec, m, Part(stored, m), Part(published, m), torn')
  <2>1. ASSUME n \notin torn' PROVE found(n) = {}
    <3>1. n \in Subject(request[r])
      BY <1>1, <1>2, SubjectNames
    <3>2. TargetFree(request[r], n, Part(stored, n))
      BY <1>8, <2>1, <3>1 DEF AgreementInv, Knowing, Knows
    <3> QED  BY <1>2, <1>7, <3>2 DEF TargetFree
  <2> HIDE DEF found
  <2> QED  BY <1>3, <1>7, <2>1 DEF Knows, UpdateKnows, Updates, SourceKnown, TargetFree, HalfWay
<1>9. ~Updates(rec)
  BY <1>3 DEF Updates
<1> QED  BY <1>2, <1>3, <1>4, <1>5, <1>6, <1>8, <1>9, LookAgrees

LEMMA RereadAgrees ==
  ASSUME RequestInv, DataInv, RequestInv', AgreementInv, NEW r \in Requests, Reread(r)
  PROVE  AgreementInv'
<1>1. UNCHANGED <<stored, published>> /\ request[r].at = "reread"
  BY DEF Reread, publication, At
<1>2. CASE Named(stored, {Name(r)}) = {}
  BY <1>1, <1>2, ReleaseAgrees DEF Reread
<1>3. CASE Named(stored, {Name(r)}) # {}
  <2> DEFINE name == Name(r)
  <2>1. PICK i \in Named(stored, {name}) :
          Tear([request EXCEPT ![r].fns = [j \in {i} |-> stored[i]], ![r].at = "publish"], torn)
    BY <1>3 DEF Reread
  <2>2. /\ request \in [Requests -> RequestType] /\ torn \in SUBSET Names
        /\ request[r] \in RequestType /\ Shape(request[r]) /\ Labelled(request[r])
        /\ name = request[r].name
    BY DEF RequestInv, AgreementInv, Documents, Name
  <2> HIDE DEF name
  <2>3. i \in Ids /\ stored[i] # None /\ stored[i] \in Doc /\ stored[i].name = name
    BY NamedFacts DEF Has
  <2> DEFINE f == [j \in {i} |-> stored[i]]
             rec == [request[r] EXCEPT !.fns = f, !.at = "publish"]
  <2>4. f \in FnSets /\ DOMAIN f = {i} /\ f[i] = stored[i]
    BY <2>3, SingleFn
  <2> HIDE DEF f
  <2>5. /\ rec \in RequestType
        /\ [request EXCEPT ![r].fns = f, ![r].at = "publish"] = [request EXCEPT ![r] = rec]
        /\ rec.at = "publish" /\ rec.fns = f
    BY <2>2, <2>4 DEF RequestType, Steps
  <2>6. /\ rec.kind = request[r].kind /\ rec.name = name /\ rec.to = request[r].to
        /\ rec.alone = request[r].alone
    BY <2>2 DEF RequestType
  <2>7. Tear([request EXCEPT ![r] = rec], torn)
    BY <2>1, <2>5 DEF f
  <2> HIDE DEF rec
  <2>8. rec.kind \in {"create", "update"}
    BY <1>1, <2>2, <2>6 DEF Shape
  <2>9. Labelled(rec) /\ Over(rec, stored)
    BY <2>2, <2>3, <2>4, <2>5, <2>6, <2>8 DEF Labelled, Over, InTx, Transactional
  <2>10. rec.at # "idle" /\ Updates(rec) /\ ~rec.alone => rec.name \in torn
    BY <1>1, <2>2, <2>6, OwnNotice
  <2>11. Filed(i, stored[i]) \in Part(stored, name)
    BY <2>3, PartIs
  <2>12. name \in Names /\ name \in Subject(request[r])
    BY <1>1, <2>2, <2>3, <2>6, <2>8, SubjectNames DEF Doc
  <2>13. \A n \in Subject(request[r]) : Past(request[r], n) => n \in torn \/ Past(rec, n)
    <3>1. Subject(request[r]) \subseteq {name} /\ rec.name \in Subject(rec)
      <4>1. Updates(request[r]) /\ rec.at # "idle" /\ None \notin Names
        BY <2>5, <2>6, <2>8, FunctionAssumption DEF Updates
      <4>2. rec.name \in Subject(rec)
        BY <2>6, <2>12, <4>1 DEF Subject, Touches
      <4> QED  BY <2>2, <4>1, <4>2, SubjectNames
    <3> QED  BY <2>5, <2>6, <2>8, <3>1 DEF Past, Updates
  <2>14. ASSUME rec.alone PROVE \E b \in Part(stored, name) : Written(b)
    <3>1. UpdateKnows(request[r], name, Part(stored, name))
      BY <2>12 DEF AgreementInv, Knowing, Knows
    <3> QED  BY <1>1, <2>2, <2>6, <2>8, <2>11, <2>14, <3>1 DEF UpdateKnows, Updates
  <2>15. \A n : UpdateKnows(rec, n, Part(stored, n))
    BY <2>4, <2>5, <2>6, <2>11, <2>14 DEF UpdateKnows
  <2>16. \A n : Knows(rec, n, Part(stored, n), Part(published, n), torn')
    BY <2>5, <2>8, <2>15 DEF Knows, SourceKnown, TargetFree, HalfWay
  <2> QED  BY <1>1, <2>2, <2>5, <2>7, <2>9, <2>10, <2>13, <2>16, LookAgrees
<1> QED  BY <1>2, <1>3

LEMMA InsertItemsAgrees ==
  ASSUME RequestInv, DataInv, RequestInv', AgreementInv, NEW r \in Requests, InsertItems(r)
  PROVE  AgreementInv'
<1> DEFINE name == Name(r)
           found == request[r].items
<1>1. PICK i \in Fresh :
        Tear([request EXCEPT ![r].fns = [j \in {i} |-> NewDoc(r)], ![r].at = "publish"], torn)
  BY DEF InsertItems
<1>2. /\ request \in [Requests -> RequestType] /\ torn \in SUBSET Names
      /\ request[r] \in RequestType /\ Shape(request[r]) /\ Labelled(request[r])
      /\ request[r].kind = "use" /\ request[r].at = "insert" /\ UNCHANGED <<stored, published>>
      /\ name = request[r].name /\ name \in Names
  BY DEF RequestInv, InsertItems, At, Kind, AgreementInv, Documents, publication, Name, Shape, Kinds
<1>4. found \in SUBSET Item /\ \A b \in found : b.doc.name = name
  BY <1>2 DEF RequestType, Labelled
<1> HIDE DEF found, name
<1>5. i \in Ids /\ i \notin born /\ NewDoc(r) \in Doc /\ NewDoc(r).name = name
      /\ NewDoc(r).code = NewDoc(r).compiled
  BY <1>2 DEF Fresh, NewDoc, Doc, Shape, Kinds, Name, name
<1>6. stored[i] = None
  BY <1>5 DEF DataInv, Has
<1> DEFINE d == NewDoc(r)
           f == [j \in {i} |-> d]
           rec == [request[r] EXCEPT !.fns = f, !.at = "publish"]
<1> HIDE DEF d
<1>7. f \in FnSets /\ DOMAIN f = {i} /\ f[i] = d
  BY <1>5, SingleFn DEF d
<1>8. Tear([request EXCEPT ![r].fns = f, ![r].at = "publish"], torn)
  BY <1>1 DEF d
<1> HIDE DEF f
<1>9. /\ rec \in RequestType
      /\ [request EXCEPT ![r].fns = f, ![r].at = "publish"] = [request EXCEPT ![r] = rec]
      /\ rec.at = "publish" /\ rec.fns = f /\ rec.kind = "use" /\ rec.items = found
      /\ rec.name = name /\ rec.to = request[r].to
  BY <1>2, <1>7 DEF RequestType, found, Steps
<1>10. Tear([request EXCEPT ![r] = rec], torn)
  BY <1>8, <1>9
<1> HIDE DEF rec
<1>11. Labelled(rec) /\ Over(rec, stored)
  BY <1>2, <1>4, <1>5, <1>6, <1>7, <1>9 DEF Labelled, Over, d
<1>12. ~Updates(rec) /\ \A n \in Subject(request[r]) : Past(request[r], n) => n \in torn \/ Past(rec, n)
  BY <1>2, <1>9, NothingPast DEF Updates
<1>13. ASSUME torn \cup Doubled(stored) \subseteq torn', NEW n \in Subject(rec)
       PROVE  Knows(rec, n, Part(stored, n), Part(published, n), torn')
  <2>1. ASSUME n \notin torn', n = name PROVE Part(stored, n) = {} /\ found = {}
    <3>1. n \in Subject(request[r])
      BY <1>2, <2>1, SubjectNames
    <3>2. TargetFree(request[r], n, Part(stored, n))
      BY <1>13, <2>1, <3>1 DEF AgreementInv, Knowing, Knows
    <3> QED  BY <1>2, <2>1, <3>2 DEF TargetFree, found
  <2>2. n \notin torn' => TargetFree(rec, n, Part(stored, n))
    BY <1>9, <2>1 DEF TargetFree
  <2> QED  BY <1>9, <1>12, <2>2 DEF Knows, UpdateKnows, SourceKnown, HalfWay
<1> QED  BY <1>2, <1>9, <1>10, <1>11, <1>12, <1>13, LookAgrees

LEMMA TakeAgrees ==
  ASSUME RequestInv, DataInv, RequestInv', AgreementInv, NEW r \in Requests, Take(r)
  PROVE  AgreementInv'
<1>1. /\ request \in [Requests -> RequestType] /\ torn \in SUBSET Names
      /\ request[r] \in RequestType /\ Shape(request[r]) /\ Labelled(request[r])
      /\ request[r].at = "take" /\ request[r].kind = "remove" /\ UNCHANGED <<stored, published>>
      /\ Name(r) = request[r].name /\ Name(r) \in Names
  BY DEF RequestInv, Take, At, AgreementInv, Documents, publication, Shape, Name, Kinds
<1>2. CASE Failed(r)
  BY <1>1, <1>2, ReleaseAgrees
<1>3. CASE ~Failed(r)
  <2> DEFINE name == Name(r)
  <2>1. PICK i \in Named(stored, {name}) :
          Tear([request EXCEPT ![r].fns = [j \in {i} |-> stored[i]], ![r].at = "publish"], torn)
    BY <1>3 DEF Take
  <2>2. name = request[r].name /\ name \in Names
    BY <1>1
  <2> HIDE DEF name
  <2>3. i \in Ids /\ stored[i] # None /\ stored[i] \in Doc /\ stored[i].name = name
    BY NamedFacts DEF Has
  <2> DEFINE f == [j \in {i} |-> stored[i]]
             rec == [request[r] EXCEPT !.fns = f, !.at = "publish"]
  <2>4. f \in FnSets /\ DOMAIN f = {i} /\ f[i] = stored[i]
    BY <2>3, SingleFn
  <2> HIDE DEF f
  <2>5. /\ rec \in RequestType
        /\ [request EXCEPT ![r].fns = f, ![r].at = "publish"] = [request EXCEPT ![r] = rec]
        /\ rec.at = "publish" /\ rec.fns = f
    BY <1>1, <2>4 DEF RequestType, Steps
  <2>6. rec.kind = "remove" /\ rec.name = name /\ rec.to = request[r].to
    BY <1>1, <2>2 DEF RequestType
  <2>7. Tear([request EXCEPT ![r] = rec], torn)
    BY <2>1, <2>5 DEF f
  <2> HIDE DEF rec
  <2>8. Labelled(rec) /\ Over(rec, stored)
    BY <1>1, <2>3, <2>4, <2>5, <2>6 DEF Labelled, Over
  <2>9. ~Updates(rec) /\ \A n \in Subject(request[r]) : Past(request[r], n) => n \in torn \/ Past(rec, n)
    BY <1>1, <2>6, NothingPast DEF Updates
  <2>10. ASSUME torn \cup Doubled(stored) \subseteq torn', NEW n
         PROVE  Knows(rec, n, Part(stored, n), Part(published, n), torn')
    <3>1. ASSUME n = name, n \notin torn', NEW b \in Part(stored, n) PROVE b.id \in DOMAIN rec.fns
      <4>1. Single(Part(stored, n))
        BY <2>2, <2>10, <3>1, SingleIs
      <4>2. Filed(i, stored[i]) \in Part(stored, n)
        BY <2>3, <3>1, PartIs
      <4>3. b = Filed(i, stored[i])
        BY <4>1, <4>2 DEF Single
      <4> QED  BY <2>4, <2>5, <4>3, FiledFacts
    <3>2. n \notin torn' => SourceKnown(rec, n, Part(stored, n))
      BY <2>5, <2>6, <3>1 DEF SourceKnown
    <3> QED  BY <2>5, <2>6, <2>9, <3>2 DEF Knows, UpdateKnows, TargetFree, HalfWay
  <2> QED  BY <1>1, <2>5, <2>7, <2>8, <2>9, <2>10, LookAgrees
<1> QED  BY <1>2, <1>3

LEMMA MoveAgrees ==
  ASSUME RequestInv, DataInv, RequestInv', AgreementInv, NEW r \in Requests, Move(r)
  PROVE  AgreementInv'
<1>1. /\ request \in [Requests -> RequestType] /\ torn \in SUBSET Names
      /\ request[r] \in RequestType /\ Shape(request[r]) /\ Labelled(request[r])
      /\ request[r].at = "move" /\ request[r].kind = "rename" /\ UNCHANGED <<stored, published>>
      /\ Name(r) = request[r].name /\ Name(r) \in Names
  BY DEF RequestInv, Move, At, AgreementInv, Documents, publication, Shape, Name, Kinds
<1>2. CASE Failed(r)
  BY <1>1, <1>2, ReleaseAgrees
<1>3. CASE ~Failed(r)
  <2> DEFINE name == Name(r)
             called == Name(r) \in trigger
             moved(i) == [name |-> request[r].to, code |-> stored[i].code,
                          compiled |-> request[r].func.code]
  <2>1. PICK i \in Named(stored, {name}) :
          Tear([request EXCEPT ![r].fns = [j \in {i} |-> moved(i)], ![r].at = "publish",
                               ![r].called = called], torn)
    BY <1>3 DEF Move
  <2>2. name = request[r].name /\ name \in Names
    BY <1>1
  <2> HIDE DEF name
  <2>3. i \in Ids /\ stored[i] # None /\ stored[i] \in Doc /\ stored[i].name = name
    BY NamedFacts DEF Has
  <2> DEFINE d == moved(i)
             f == [j \in {i} |-> d]
             rec == [request[r] EXCEPT !.fns = f, !.at = "publish", !.called = called]
  <2>4. d \in Doc /\ d.name = request[r].to /\ d.code = stored[i].code
        /\ d.compiled = request[r].func.code /\ called \in BOOLEAN
    BY <1>1, <2>3 DEF Shape, Doc
  <2>5. Tear([request EXCEPT ![r].fns = f, ![r].at = "publish", ![r].called = called], torn)
    BY <2>1
  <2> HIDE DEF d
  <2>6. f \in FnSets /\ DOMAIN f = {i} /\ f[i] = d
    BY <2>3, <2>4, SingleFn
  <2> HIDE DEF f, called
  <2>7. /\ rec \in RequestType
        /\ [request EXCEPT ![r].fns = f, ![r].at = "publish", ![r].called = called]
             = [request EXCEPT ![r] = rec]
        /\ rec.at = "publish" /\ rec.fns = f /\ rec.kind = "rename"
        /\ rec.name = name /\ rec.to = request[r].to
    BY <1>1, <2>2, <2>4, <2>6 DEF RequestType, Steps
  <2>8. Tear([request EXCEPT ![r] = rec], torn)
    BY <2>5, <2>7
  <2> HIDE DEF rec
  <2>9. Labelled(rec) /\ Over(rec, stored)
    BY <1>1, <2>2, <2>3, <2>4, <2>6, <2>7 DEF Labelled, Over
  <2>10. ~Updates(rec) /\ \A n \in Subject(request[r]) : Past(request[r], n) => n \in torn \/ Past(rec, n)
    BY <1>1, <2>7, NothingPast DEF Updates
  <2>11. rec.to \in Names /\ rec.to \in Subject(request[r]) /\ name \in Subject(request[r])
    BY <1>1, <2>2, <2>7, SubjectNames DEF Shape
  <2>12. ASSUME torn \cup Doubled(stored) \subseteq torn', NEW n, n \notin torn'
         PROVE  SourceKnown(rec, n, Part(stored, n)) /\ TargetFree(rec, n, Part(stored, n))
    <3>1. ASSUME n = name, NEW b \in Part(stored, n) PROVE b = Filed(i, stored[i])
      <4>1. Single(Part(stored, n))
        BY <2>2, <2>12, <3>1, SingleIs
      <4>2. Filed(i, stored[i]) \in Part(stored, n)
        BY <2>3, <3>1, PartIs
      <4> QED  BY <4>1, <4>2 DEF Single
    <3>2. n \in Subject(request[r]) =>
            SourceKnown(request[r], n, Part(stored, n)) /\ TargetFree(request[r], n, Part(stored, n))
      BY <2>12 DEF AgreementInv, Knowing, Knows
    <3>3. ASSUME n = name PROVE d.code = d.compiled
      <4>1. Filed(i, stored[i]) \in Part(stored, n)
        BY <2>3, <3>3, PartIs
      <4>2. Filed(i, stored[i]).doc.code = request[r].func.code
        BY <1>1, <2>2, <2>11, <3>2, <3>3, <4>1 DEF SourceKnown
      <4> QED  BY <2>4, <4>2, FiledFacts
    <3>4. n = rec.to => Part(stored, n) = {}
      BY <1>1, <2>7, <2>11, <3>2 DEF TargetFree
    <3>5. n = name => \A b \in Part(stored, n) : b.id = i
      BY <3>1, FiledFacts
    <3>6. SourceKnown(rec, n, Part(stored, n))
      BY <2>6, <2>7, <3>3, <3>5 DEF SourceKnown
    <3> QED  BY <2>7, <3>4, <3>6 DEF TargetFree
  <2>13. torn \cup Doubled(stored) \subseteq torn' =>
           \A n \in Subject(rec) : Knows(rec, n, Part(stored, n), Part(published, n), torn')
    BY <2>7, <2>10, <2>12 DEF Knows, UpdateKnows, HalfWay
  <2> QED  BY <1>1, <2>7, <2>8, <2>9, <2>10, <2>13, LookAgrees
<1> QED  BY <1>2, <1>3

LEMMA RetargetAgrees ==
  ASSUME RequestInv, RequestInv', AgreementInv, NEW r \in Requests, Retarget(r)
  PROVE  AgreementInv'
<1>1. /\ request \in [Requests -> RequestType] /\ torn \in SUBSET Names
      /\ request[r] \in RequestType /\ Shape(request[r])
      /\ Labelled(request[r]) /\ Over(request[r], stored)
      /\ request[r].at = "triggers" /\ request[r].kind = "rename" /\ UNCHANGED <<stored, published>>
  BY DEF RequestInv, Retarget, At, AgreementInv, Documents, publication, Shape
<1> DEFINE found == Name(r) \in trigger
           rec == [request[r] EXCEPT !.at = "commit", !.found = found]
<1>2. found \in BOOLEAN
  OBVIOUS
<1>3. Tear([request EXCEPT ![r].at = "commit", ![r].found = found], torn)
  BY DEF Retarget
<1> HIDE DEF found
<1>4. /\ rec \in RequestType
      /\ [request EXCEPT ![r].at = "commit", ![r].found = found] = [request EXCEPT ![r] = rec]
      /\ rec.at = "commit" /\ rec.fns = request[r].fns /\ rec.kind = request[r].kind
      /\ rec.name = request[r].name /\ rec.to = request[r].to /\ rec.items = request[r].items
  BY <1>1, <1>2 DEF RequestType, Steps
<1>5. Tear([request EXCEPT ![r] = rec], torn)
  BY <1>3, <1>4
<1> HIDE DEF rec
<1>6. Labelled(rec) /\ Over(rec, stored) /\ ~Updates(rec) /\ Subject(rec) = Subject(request[r])
  BY <1>1, <1>4 DEF Labelled, Over, InTx, Updates, Subject, Touches
<1>7. \A n \in Subject(request[r]) : Past(request[r], n) => n \in torn \/ Past(rec, n)
  BY <1>4, <1>6 DEF Past
<1>8. ASSUME torn \cup Doubled(stored) \subseteq torn', NEW n \in Subject(rec), n \notin torn'
      PROVE  HalfWay(rec, n, Part(stored, n), Part(published, n), torn')
  <2> DEFINE S == Part(stored, n)
             P == Part(published, n)
  <2>1. HalfWay(request[r], n, S, P, torn)
    BY <1>6, <1>8 DEF AgreementInv, Knowing, Knows
  <2>2. After(rec, n, S) = After(request[r], n, S)
    BY <1>4 DEF After
  <2>3. n \in Brings(request[r], torn) => n \in Brings(rec, torn')
    BY <1>1, <1>4, <1>8 DEF Brings
  <2>4. HalfWay(rec, n, S, P, torn')
    <3> HIDE DEF S, P
    <3> QED  BY <1>1, <2>1, <2>2, <2>3 DEF HalfWay
  <2> QED  BY <2>4
<1>9. torn \cup Doubled(stored) \subseteq torn' =>
        \A n \in Subject(rec) : Knows(rec, n, Part(stored, n), Part(published, n), torn')
  BY <1>4, <1>6, <1>8 DEF Knows, UpdateKnows, SourceKnown, TargetFree
<1> QED  BY <1>1, <1>4, <1>5, <1>6, <1>7, <1>9, LookAgrees

LEMMA ReadBinAgrees ==
  ASSUME RequestInv, DataInv, RequestInv', AgreementInv, NEW r \in Requests, ReadBin(r)
  PROVE  AgreementInv'
<1>1. /\ request \in [Requests -> RequestType] /\ torn \in SUBSET Names
      /\ request[r] \in RequestType /\ Shape(request[r]) /\ Labelled(request[r])
      /\ request[r].at = "bin" /\ request[r].kind = "restore" /\ UNCHANGED <<stored, published>>
  BY DEF RequestInv, ReadBin, At, AgreementInv, Documents, publication, Shape
<1> DEFINE items == {b \in bin : b.id \in request[r].ids}
           rec == [request[r] EXCEPT !.items = items, !.at = "return"]
<1>2. CASE items = {}
  BY <1>1, <1>2, ReleaseAgrees DEF ReadBin
<1>3. CASE items # {}
  <2>1. Tear([request EXCEPT ![r].items = items, ![r].at = "return"], torn)
    BY <1>3 DEF ReadBin
  <2>2. items \in SUBSET Item
    BY DEF DataInv
  <2> HIDE DEF items
  <2>3. /\ rec \in RequestType
        /\ [request EXCEPT ![r].items = items, ![r].at = "return"] = [request EXCEPT ![r] = rec]
        /\ rec.at = "return" /\ rec.fns = request[r].fns /\ rec.kind = "restore"
        /\ rec.name = request[r].name /\ rec.to = request[r].to
    BY <1>1, <2>2 DEF RequestType, Steps
  <2>4. Tear([request EXCEPT ![r] = rec], torn)
    BY <2>1, <2>3
  <2> HIDE DEF rec
  <2>5. rec.fns = <<>> /\ ~Updates(rec)
    BY <1>1, <2>3 DEF Shape, Updates
  <2>6. Labelled(rec) /\ Over(rec, stored)
    BY <1>1, <2>3, <2>5, NoFns DEF Labelled, Over, InTx
  <2>7. \A n \in Subject(request[r]) : Past(request[r], n) => n \in torn \/ Past(rec, n)
    BY <1>1, NothingPast
  <2>8. \A n, S, P, T : Knows(rec, n, S, P, T)
    BY <2>3, NothingKnown
  <2> QED  BY <1>1, <2>3, <2>4, <2>5, <2>6, <2>7, <2>8, LookAgrees
<1> QED  BY <1>2, <1>3

LEMMA ReturnAgrees ==
  ASSUME RequestInv, DataInv, RequestInv', AgreementInv, NEW r \in Requests, Return(r)
  PROVE  AgreementInv'
<1> DEFINE items == request[r].items
           now == {b \in bin : b.id \in request[r].ids}
           f == AsFunction(items)
           rec == [request[r] EXCEPT !.fns = f, !.items = now, !.at = "publish"]
<1>1. /\ request \in [Requests -> RequestType] /\ torn \in SUBSET Names
      /\ request[r] \in RequestType /\ Shape(request[r]) /\ Labelled(request[r])
      /\ request[r].at = "return" /\ request[r].kind = "restore" /\ UNCHANGED <<stored, published>>
  BY DEF RequestInv, Return, At, AgreementInv, Documents, publication, Shape
<1>2. CASE Failed(r)
  BY <1>1, <1>2, ReleaseAgrees
<1>3. CASE ~Failed(r)
  <2>1. /\ Tear([request EXCEPT ![r].fns = f, ![r].items = now, ![r].at = "publish"], torn)
        /\ \A b \in items : ~Has(stored, b.id)
    BY <1>3 DEF Return
  <2>2. items \in SUBSET Item /\ now \in SUBSET Item
    BY <1>1 DEF DataInv, RequestType
  <2>3. f \in FnSets /\ DOMAIN f = {b.id : b \in items}
    BY <2>2, ItemFns
  <2> HIDE DEF f, now
  <2>4. \A i \in DOMAIN f : stored[i] = None
    <3>1. \A i \in DOMAIN f : \E b \in items : b.id = i
      BY <2>3
    <3> QED  BY <2>1, <3>1 DEF Has
  <2>5. /\ rec \in RequestType
        /\ [request EXCEPT ![r].fns = f, ![r].items = now, ![r].at = "publish"]
             = [request EXCEPT ![r] = rec]
        /\ rec.at = "publish" /\ rec.fns = f /\ rec.kind = "restore"
        /\ rec.name = request[r].name /\ rec.to = request[r].to
    BY <1>1, <2>2, <2>3 DEF RequestType, Steps
  <2>6. Tear([request EXCEPT ![r] = rec], torn)
    BY <2>1, <2>5
  <2> HIDE DEF rec
  <2>7. Labelled(rec) /\ Over(rec, stored) /\ ~Updates(rec)
    BY <1>1, <2>4, <2>5 DEF Labelled, Over, Updates
  <2>8. \A n \in Subject(request[r]) : Past(request[r], n) => n \in torn \/ Past(rec, n)
    BY <1>1, NothingPast
  <2>9. \A n, S, P, T : Knows(rec, n, S, P, T)
    BY <2>5, NothingKnown
  <2> QED  BY <1>1, <2>5, <2>6, <2>7, <2>8, <2>9, LookAgrees
<1> QED  BY <1>2, <1>3

LEMMA UnlockedKept ==
  ASSUME NEW r \in Requests, NEW i, i \notin Locked, \A j \in Ids \ {i} : stored'[j] = stored[j],
         RequestInv
  PROVE  \A q \in Requests \ {r} : InTx(request[q]) =>
           \A j \in DOMAIN request[q].fns : stored'[j] = stored[j]
<1> SUFFICES ASSUME NEW q \in Requests \ {r}, InTx(request[q]), NEW j \in DOMAIN request[q].fns
             PROVE  stored'[j] = stored[j]
  OBVIOUS
<1>1. j \in WritesOf(request[q]) /\ WritesOf(request[q]) \subseteq Ids
  BY WritesAreIds DEF RequestInv, WritesOf
<1>2. j \in Locked
  BY <1>1, LockedFacts
<1> QED  BY <1>1, <1>2

\* A creation or an update writes a function of its name, with the code it was given.
LEMMA StoreAgrees ==
  ASSUME RequestInv, DataInv, RequestInv', AgreementInv, NEW r \in Requests, Goto(r, "reread"),
         request[r].kind \in {"create", "update"}, request[r].at \in {"insert", "write"},
         NEW i \in Ids, i \notin Locked, NEW d \in Doc,
         d.name = request[r].name, d.code = d.compiled,
         stored[i] = None \/ stored[i].name = request[r].name,
         stored' = [stored EXCEPT ![i] = d], UNCHANGED published
  PROVE  AgreementInv'
<1> DEFINE name == request[r].name
           rec == [request[r] EXCEPT !.at = "reread"]
<1>1. /\ request \in [Requests -> RequestType] /\ torn \in SUBSET Names
      /\ request[r] \in RequestType /\ Shape(request[r]) /\ Labelled(request[r])
      /\ name \in Names /\ request[r].fns = <<>>
  BY DEF RequestInv, AgreementInv, Documents, Shape, Kinds
<1>2. stored'[i] = d /\ d # None /\ \A j \in Ids \ {i} : stored'[j] = stored[j]
  BY FunctionAssumption DEF DataInv
<1>3. /\ rec \in RequestType /\ rec.at = "reread" /\ rec.kind = request[r].kind
      /\ [request EXCEPT ![r].at = "reread"] = [request EXCEPT ![r] = rec]
      /\ rec.fns = request[r].fns /\ rec.name = name /\ rec.to = request[r].to
      /\ rec.alone = request[r].alone
  BY <1>1 DEF RequestType, Steps
<1>4. Tear([request EXCEPT ![r] = rec], torn)
  BY <1>3 DEF Goto
<1>5. name \in Subject(request[r]) /\ Subject(request[r]) \subseteq {name}
  BY <1>1, SubjectNames DEF Updates
<1> HIDE DEF rec, name
<1>6. Labelled(rec) /\ Over(rec, stored') /\ Subject(rec) = Subject(request[r]) /\ Updates(rec)
  BY <1>1, <1>3, NoFns DEF Labelled, Over, InTx, Subject, Touches, Updates, name
<1>7. rec.at # "idle" /\ Updates(rec) /\ ~rec.alone => rec.name \in torn
  BY <1>3, OwnNotice DEF name
<1>8. torn \subseteq torn'
  BY <1>1, <1>3, <1>4, TearMarks
<1>9. ASSUME NEW n \in Names \ Subject(request[r])
      PROVE  Part(stored', n) = Part(stored, n) /\ Part(published', n) = Part(published, n)
  <2>1. n # name
    BY <1>5, <1>9
  <2>2. ASSUME NEW j \in Ids
        PROVE  \/ stored'[j] = stored[j]
               \/ /\ stored'[j] # None => stored'[j].name # n
                  /\ stored[j] # None => stored[j].name # n
    <3>1. CASE j = i
      BY <1>2, <2>1, <3>1 DEF name
    <3>2. CASE j # i
      BY <1>2, <3>2
    <3> QED  BY <3>1, <3>2
  <2>3. Part(stored', n) = Part(stored, n)
    <3> DEFINE new == stored'
               old == stored
    <3>1. \A j \in Ids : \/ new[j] = old[j]
                         \/ /\ new[j] # None => new[j].name # n
                            /\ old[j] # None => old[j].name # n
      BY <2>2
    <3> HIDE DEF new, old
    <3>2. Part(new, n) = Part(old, n)
      BY <3>1, PartSame
    <3> QED  BY <3>2 DEF new, old
  <2> QED  BY <2>3
<1>10. \A n \in Subject(request[r]) : Past(rec, n)
  BY <1>3, <1>6 DEF Past
<1>11. \E b \in Part(stored', name) : Written(b)
  <2>1. Filed(i, d) \in Part(stored', name)
    BY <1>2, PartIs DEF name
  <2>2. Written(Filed(i, d))
    BY FiledFacts DEF Written
  <2> QED  BY <2>1, <2>2
<1>12. \A n \in Subject(rec) : Knows(rec, n, Part(stored', n), Part(published', n), torn')
  BY <1>3, <1>5, <1>6, <1>11 DEF Knows, UpdateKnows, SourceKnown, TargetFree, HalfWay
<1>13. \A q \in Requests \ {r} : InTx(request[q]) =>
         \A j \in DOMAIN request[q].fns : stored'[j] = stored[j]
  BY <1>2, UnlockedKept
<1> QED  BY <1>1, <1>3, <1>4, <1>6, <1>7, <1>8, <1>9, <1>10, <1>12, <1>13, StepAgrees

LEMMA InsertAgrees ==
  ASSUME RequestInv, DataInv, RequestInv', AgreementInv, NEW r \in Requests, InsertOne(r)
  PROVE  AgreementInv'
<1>1. PICK i \in Fresh : stored' = [stored EXCEPT ![i] = NewDoc(r)]
  BY DEF InsertOne
<1>2. /\ Shape(request[r]) /\ request[r].kind = "create" /\ request[r].at = "insert"
      /\ UNCHANGED published /\ Goto(r, "reread")
  BY DEF RequestInv, InsertOne, At, Kind, publication
<1>3. i \in Ids /\ i \notin born /\ i \notin Locked /\ NewDoc(r) \in Doc
      /\ NewDoc(r).name = request[r].name /\ NewDoc(r).code = NewDoc(r).compiled
  BY <1>2 DEF Fresh, NewDoc, Doc, Shape, Kinds, Name
<1>4. stored[i] = None
  BY <1>3 DEF DataInv, Has
<1> QED  BY <1>1, <1>2, <1>3, <1>4, StoreAgrees

LEMMA WriteAgrees ==
  ASSUME RequestInv, DataInv, RequestInv', AgreementInv, NEW r \in Requests, Write(r)
  PROVE  AgreementInv'
<1>1. /\ request \in [Requests -> RequestType] /\ torn \in SUBSET Names
      /\ request[r] \in RequestType /\ Shape(request[r]) /\ Labelled(request[r])
      /\ request[r].kind \in {"create", "update"} /\ request[r].at = "write"
      /\ UNCHANGED published /\ Goto(r, "reread") /\ Name(r) = request[r].name
      /\ request[r].code \in Codes /\ request[r].fns = <<>>
  BY DEF RequestInv, Write, At, Shape, AgreementInv, Documents, publication, Name
<1>2. CASE Named(stored, {Name(r)}) = {}
  <2> DEFINE rec == [request[r] EXCEPT !.at = "reread"]
  <2>1. /\ rec \in RequestType /\ rec.at = "reread" /\ rec.kind = request[r].kind
        /\ [request EXCEPT ![r].at = "reread"] = [request EXCEPT ![r] = rec]
        /\ rec.fns = request[r].fns /\ rec.name = request[r].name /\ rec.to = request[r].to
        /\ rec.alone = request[r].alone
    BY <1>1 DEF RequestType, Steps
  <2>2. Tear([request EXCEPT ![r] = rec], torn) /\ stored' = stored
    BY <1>1, <1>2, <2>1 DEF Goto, Write
  <2> HIDE DEF rec
  <2>3. Labelled(rec) /\ Over(rec, stored)
    BY <1>1, <2>1, NoFns DEF Labelled, Over, InTx
  <2>4. rec.at # "idle" /\ Updates(rec) /\ ~rec.alone => rec.name \in torn
    BY <1>1, <2>1, OwnNotice
  <2>5. \A n \in Subject(request[r]) : Past(request[r], n) => n \in torn \/ Past(rec, n)
    BY <1>1, NothingPast
  <2>6. Part(stored, rec.name) = {}
    BY <1>1, <1>2, <2>1 DEF Part, Items
  <2>7. \A n : Knows(rec, n, Part(stored, n), Part(published, n), torn')
    BY <1>1, <2>1, <2>6 DEF Knows, UpdateKnows, SourceKnown, TargetFree, HalfWay
  <2> QED  BY <1>1, <2>1, <2>2, <2>3, <2>4, <2>5, <2>7, LookAgrees
<1>3. CASE Named(stored, {Name(r)}) # {}
  <2> DEFINE code == request[r].code
             name == Name(r)
  <2>1. PICK i \in Named(stored, {name}) : i \notin Locked /\
          stored' = [stored EXCEPT ![i].code = code, ![i].compiled = code]
    BY <1>3 DEF Write
  <2>2. code \in Codes /\ name = request[r].name
    BY <1>1
  <2> HIDE DEF code, name
  <2> DEFINE doc == [stored[i] EXCEPT !.code = code, !.compiled = code]
  <2>3. i \in Ids /\ stored[i] \in Doc /\ stored[i].name = name
    BY NamedFacts
  <2>4. doc \in Doc /\ doc.name = name /\ doc.code = doc.compiled
    BY <2>2, <2>3 DEF Doc
  <2>5. stored' = [stored EXCEPT ![i] = doc]
    BY <2>1, <2>3 DEF DataInv
  <2> HIDE DEF doc
  <2>6. doc.name = request[r].name /\ stored[i].name = request[r].name /\ i \notin Locked
    BY <2>1, <2>2, <2>3, <2>4
  <2>7. request[r].kind \in {"create", "update"} /\ request[r].at \in {"insert", "write"}
        /\ UNCHANGED published /\ Goto(r, "reread")
    BY <1>1
  <2> QED  BY <2>3, <2>4, <2>5, <2>6, <2>7, StoreAgrees
<1> QED  BY <1>2, <1>3

\* After a publication a name that was published has what is brought, and nothing else.
LEMMA PublishedPart ==
  ASSUME NEW names, NEW f \in FnSets, ~DuplicateKey(names, f), NEW n
  PROVE  /\ n \notin names /\ (\A i \in DOMAIN f : f[i].name # n) =>
              Part(Replaced(names, f), n) = Part(published, n)
         /\ n \in names \/ Part(published, n) = {} =>
              \A b : b \in Part(Replaced(names, f), n) <=>
                       \E i \in DOMAIN f : f[i].name = n /\ b = Filed(i, f[i])
<1> DEFINE new == Replaced(names, f)
           old == published
<1>1. DOMAIN f \subseteq Ids /\ \A i \in DOMAIN f : f[i] \in Doc /\ f[i] # None
  BY FnsFacts, FunctionAssumption
<1>2. \A i \in DOMAIN f : old[i] = None \/ old[i].name \in names
  BY <1>1 DEF DuplicateKey, Named, Has
<1>3. \A i \in Ids : new[i] = IF i \in DOMAIN f THEN f[i]
                              ELSE IF old[i] # None /\ old[i].name \in names THEN None ELSE old[i]
  BY DEF Replaced, Named, Has
<1> HIDE DEF new, old
<1>4. ASSUME n \notin names, \A i \in DOMAIN f : f[i].name # n
      PROVE  Part(new, n) = Part(old, n)
  <2>1. \A i \in Ids : \/ new[i] = old[i]
                       \/ /\ new[i] # None => new[i].name # n
                          /\ old[i] # None => old[i].name # n
    BY <1>2, <1>3, <1>4
  <2> QED  BY <2>1, PartSame
<1>5. ASSUME n \in names \/ Part(old, n) = {}, NEW b
      PROVE  b \in Part(new, n) <=> \E i \in DOMAIN f : f[i].name = n /\ b = Filed(i, f[i])
  <2>1. b \in Part(new, n) <=> \E i \in Ids : new[i] # None /\ new[i].name = n /\ b = Filed(i, new[i])
    BY PartIs
  <2>2. \A i \in Ids : old[i] # None /\ old[i].name = n => n \in names
    <3>1. \A i \in Ids : old[i] # None /\ old[i].name = n => Filed(i, old[i]) \in Part(old, n)
      BY PartIs
    <3> QED  BY <1>5, <3>1
  <2>3. \A i \in Ids : new[i] # None /\ new[i].name = n => i \in DOMAIN f /\ new[i] = f[i]
    BY <1>3, <2>2
  <2>4. \A i \in DOMAIN f : i \in Ids /\ new[i] = f[i] /\ f[i] # None
    BY <1>1, <1>3
  <2> QED  BY <2>1, <2>3, <2>4
<1> QED  BY <1>4, <1>5 DEF new, old

LEMMA PublishOneAgrees ==
  ASSUME RequestInv, DataInv, RequestInv', AgreementInv, NEW r \in Requests, PublishOne(r)
  PROVE  AgreementInv'
<1> DEFINE x == request[r]
           name == request[r].name
<1>1. /\ request \in [Requests -> RequestType] /\ torn \in SUBSET Names
      /\ x \in RequestType /\ Shape(x) /\ Labelled(x) /\ UNCHANGED stored
      /\ x.kind \in {"create", "update"} /\ x.at = "publish"
      /\ name \in Names /\ x.fns \in FnSets
  BY DEF RequestInv, AgreementInv, Documents, Shape, Kinds, PublishOne, PublishThen, At, Kind, RequestType
<1>2. CASE DuplicateKey({name}, x.fns)
  <2>1. Failed(r) /\ UNCHANGED published
    BY <1>2 DEF PublishOne, PublishThen, publication, Name, Fns
  <2> QED  BY <1>1, <2>1, ReleaseAgrees
<1>3. CASE ~DuplicateKey({name}, x.fns)
  <2> DEFINE names == (torn \ Healed(r)) \cup Inherited(r)
  <2>1. /\ Tear([request EXCEPT ![r] = Idle], names)
        /\ published' = Replaced({name}, x.fns)
    BY <1>3 DEF PublishOne, PublishThen, Succeeded, PublishAs, Name, Fns
  <2>2. names \in SUBSET Names
    BY MarksAreNames
  <2>3. name \in Subject(x) /\ Subject(x) \subseteq {name}
    BY <1>1, SubjectNames DEF Updates
  <2>4. \A n \in torn \ names : n = name /\ x.alone
    BY DEF Healed, Name
  <2>5. Healed(r) # {} => x.alone
    BY DEF Healed
  <2> HIDE DEF names
  <2>6. names \cup Doubled(stored) \subseteq torn'
    BY <1>1, <2>1, <2>2, IdleAgrees, TearMarks
  <2>7. ASSUME name \notin torn' \cup Doubled(stored)
        PROVE  Agree(Part(stored, name), Part(published', name))
    <3> DEFINE S == Part(stored, name)
               P == Part(published', name)
    <3>1. x.alone
      <4>1. ~x.alone => name \in torn
        BY <1>1 DEF AgreementInv, Noticing, Live, Updates
      <4> QED  BY <2>4, <2>6, <2>7, <4>1
    <3>2. UpdateKnows(x, name, S)
      BY <2>3 DEF AgreementInv, Knowing, Knows
    <3>3. DOMAIN x.fns # {} /\ (\E b \in S : Written(b)) /\ \A i \in DOMAIN x.fns : Filed(i, x.fns[i]) \in S
      BY <1>1, <3>1, <3>2 DEF UpdateKnows, Updates
    <3>4. Single(S)
      BY <1>1, <2>7, SingleIs
    <3>5. \A b : b \in P <=> \E i \in DOMAIN x.fns : x.fns[i].name = name /\ b = Filed(i, x.fns[i])
      BY <1>1, <1>3, <2>1, PublishedPart
    <3>6. \A i \in DOMAIN x.fns : x.fns[i].name = name
      BY <1>1 DEF Labelled
    <3> HIDE DEF S, P, x, name
    <3>7. S = P /\ \A b \in S : Written(b)
      <4>1. \A b : b \in S <=> b \in P
        BY <3>3, <3>4, <3>5, <3>6 DEF Single
      <4>2. \A b \in S : Written(b)
        BY <3>3, <3>4 DEF Single
      <4> QED  BY <4>1, <4>2
    <3> QED  BY <3>7 DEF Agree, S, P
  <2>8. ASSUME NEW n \in Names \ Subject(x)
        PROVE  Part(stored', n) = Part(stored, n) /\ Part(published', n) = Part(published, n)
    <3>1. n \notin {name} /\ \A i \in DOMAIN x.fns : x.fns[i].name # n
      BY <1>1, <2>3, <2>8 DEF Labelled
    <3>2. Part(published', n) = Part(published, n)
      BY <1>1, <1>3, <2>1, <3>1, PublishedPart
    <3> QED  BY <1>1, <3>2
  <2>9. \A q \in Requests \ {r} : InTx(request[q]) =>
          \A i \in DOMAIN request[q].fns : stored'[i] = stored[i]
    BY <1>1
  <2>10. \A n \in Subject(x) : n \in Names \ (torn' \cup Doubled(stored')) /\ ~Past(Idle, n) =>
           Agree(Part(stored', n), Part(published', n))
    <3>1. stored' = stored
      BY <1>1
    <3> QED  BY <2>3, <2>7, <3>1
  <2>11. Idle \in RequestType /\ Subject(Idle) = {} /\ Labelled(Idle) /\ Over(Idle, stored')
         /\ Idle.at = "idle"
    BY IdleAgrees DEF Idle
  <2>12. \A n \in torn \ names : n \in Subject(x) /\ x.alone
    BY <2>3, <2>4
  <2> HIDE DEF x
  <2> QED  BY <2>1, <2>2, <2>8, <2>9, <2>10, <2>11, <2>12, StepAgrees DEF x
<1> QED  BY <1>2, <1>3

LEMMA NothingHalf ==
  ASSUME NEW x, x.at = "publish", x.kind \in Transactional
  PROVE  \A n : ~Past(x, n)
BY DEF Past, Updates, Transactional

\* A transaction publishes what its commit will store.
LEMMA HalfAgrees ==
  ASSUME RequestInv, RequestInv', AgreementInv, NEW r \in Requests,
         NEW s \in {"triggers", "commit"}, Goto(r, s), UNCHANGED stored,
         At(r, "publish"), Kind(r) \in Transactional,
         \A n \in Names \ Subject(request[r]) : Part(published', n) = Part(published, n),
         \A n \in Subject(request[r]) :
           /\ n \notin torn \cup Doubled(stored)
           /\ Single(After(request[r], n, Part(stored, n)))
           /\ n \notin Brings(request[r], torn')
           /\ torn \subseteq torn'
           => Agree(After(request[r], n, Part(stored, n)), Part(published', n))
  PROVE  AgreementInv'
<1> DEFINE x == request[r]
           rec == [request[r] EXCEPT !.at = s]
<1>1. /\ request \in [Requests -> RequestType] /\ torn \in SUBSET Names
      /\ x \in RequestType /\ Shape(x) /\ Labelled(x) /\ Over(x, stored)
      /\ x.at = "publish" /\ x.kind \in Transactional /\ s \in Steps
  BY DEF RequestInv, AgreementInv, Documents, At, Kind, Steps
<1>2. /\ rec \in RequestType /\ rec.at = s
      /\ [request EXCEPT ![r].at = s] = [request EXCEPT ![r] = rec]
  BY <1>1, SetAt
<1>3. /\ rec.fns = x.fns /\ rec.kind = x.kind /\ rec.name = x.name /\ rec.to = x.to
      /\ rec.items = x.items
  BY <1>1 DEF RequestType
<1>4. Tear([request EXCEPT ![r] = rec], torn)
  BY <1>2 DEF Goto
<1> HIDE DEF rec, x
<1>5. torn \cup Doubled(stored) \subseteq torn'
  BY <1>1, <1>2, <1>4, TearMarks
<1>6. /\ Labelled(rec) /\ Over(rec, stored') /\ ~Updates(rec)
      /\ Subject(rec) = Subject(x)
  BY <1>1, <1>2, <1>3 DEF Labelled, Over, InTx, Updates, Subject, Touches, Transactional
<1>7. \A n \in Subject(x) : Past(rec, n)
  BY <1>2, <1>6 DEF Past
<1>8. ASSUME NEW n \in Subject(x)
      PROVE  Knows(rec, n, Part(stored, n), Part(published', n), torn')
  <2> DEFINE S == Part(stored, n)
             P == Part(published', n)
  <2>1. After(rec, n, S) = After(x, n, S) /\ Brings(rec, torn') = Brings(x, torn')
    BY <1>3 DEF After, Brings
  <2>2. ASSUME n \notin torn', Single(After(x, n, S)), n \notin Brings(x, torn')
        PROVE  Agree(After(x, n, S), P)
    <3>1. n \notin torn \cup Doubled(stored) /\ torn \subseteq torn'
      BY <1>5, <2>2
    <3> QED  BY <1>8, <2>2, <3>1 DEF x
  <2> HIDE DEF S, P
  <2>3. n \notin torn' => HalfWay(rec, n, S, P, torn')
    BY <2>1, <2>2 DEF HalfWay
  <2>4. Knows(rec, n, S, P, torn')
    BY <1>2, <1>6, <2>3 DEF Knows, UpdateKnows, SourceKnown, TargetFree
  <2> QED  BY <2>4 DEF S, P
<1>9. stored' = stored
  OBVIOUS
<1>10. \A n \in Subject(rec) : Knows(rec, n, Part(stored', n), Part(published', n), torn')
  BY <1>6, <1>8, <1>9
<1>11. \A n \in Names \ Subject(request[r]) :
         Part(stored', n) = Part(stored, n) /\ Part(published', n) = Part(published, n)
  BY <1>9
<1>12. \A n \in Subject(request[r]) : Past(rec, n)
  BY <1>7 DEF x
<1>13. \A q \in Requests \ {r} : InTx(request[q]) =>
          \A i \in DOMAIN request[q].fns : stored'[i] = stored[i]
  BY <1>9
<1> QED  BY <1>1, <1>2, <1>4, <1>5, <1>6, <1>10, <1>11, <1>12, <1>13, StepAgrees

LEMMA RenamedAgrees ==
  ASSUME RequestInv, DataInv, RequestInv', AgreementInv, NEW r \in Requests, PublishRenamed(r)
  PROVE  AgreementInv'
<1> DEFINE x == request[r]
<1>1. /\ x \in RequestType /\ Shape(x) /\ Labelled(x) /\ UNCHANGED stored
      /\ x.kind = "rename" /\ x.at = "publish" /\ At(r, "publish") /\ Kind(r) \in Transactional
      /\ x.name \in Names /\ x.to \in Names /\ x.to # x.name /\ x.fns \in FnSets
      /\ \A i \in DOMAIN x.fns : x.fns[i].name = x.to
  BY DEF RequestInv, AgreementInv, Documents, Shape, Labelled, Kinds, PublishRenamed, PublishThen, At,
         Kind, RequestType, Transactional
<1>2. CASE DuplicateKey({x.name}, x.fns)
  <2>1. Failed(r) /\ UNCHANGED published
    BY <1>2 DEF PublishRenamed, PublishThen, publication, Name, Fns
  <2> QED  BY <1>1, <2>1, ReleaseAgrees
<1>3. CASE ~DuplicateKey({x.name}, x.fns)
  <2>1. Goto(r, "triggers") /\ published' = Replaced({x.name}, x.fns)
    BY <1>3 DEF PublishRenamed, PublishThen, PublishAs, Name, Fns
  <2>2. x.name \in Subject(x) /\ x.to \in Subject(x) /\ Subject(x) \subseteq {x.name, x.to}
    <3>1. None \notin Names
      BY FunctionAssumption
    <3>2. Subject(x) = ({x.name, x.to} \ {None}) \cup {x.fns[i].name : i \in DOMAIN x.fns}
      BY <1>1 DEF Subject, Touches
    <3> HIDE DEF x
    <3> QED  BY <1>1, <3>1, <3>2
  <2>3. ASSUME NEW n \in Names \ Subject(x) PROVE Part(published', n) = Part(published, n)
    BY <1>1, <1>3, <2>1, <2>2, <2>3, PublishedPart
  <2>4. ASSUME NEW n \in Subject(x), n \notin torn \cup Doubled(stored),
               n \notin Brings(x, torn'), torn \subseteq torn'
        PROVE  Agree(After(x, n, Part(stored, n)), Part(published', n))
    <3> DEFINE S == Part(stored, n)
               P == Part(published', n)
    <3>1. SourceKnown(x, n, S) /\ TargetFree(x, n, S)
      BY <2>4 DEF AgreementInv, Knowing, Knows
    <3>2. CASE n = x.name
      <4>1. \A b \in S : b.id \in DOMAIN x.fns
        BY <1>1, <3>1, <3>2 DEF SourceKnown
      <4>2. \A b : b \notin P
        BY <1>1, <1>3, <2>1, <3>2, PublishedPart
      <4>3. \A b : b \notin After(x, n, S)
        BY <1>1, <3>2, <4>1, AfterIs
      <4> HIDE DEF S, P, x
      <4>4. After(x, n, S) = P
        BY <4>2, <4>3
      <4>5. Agree(After(x, n, S), P)
        BY <4>3, <4>4 DEF Agree
      <4> QED  BY <4>5 DEF S, P
    <3>3. CASE n = x.to
      <4>1. S = {}
        BY <1>1, <3>1, <3>3 DEF TargetFree
      <4>2. Part(published, n) = {}
        <5>1. Agree(Part(stored, n), Part(published, n))
          <6>1. ~Past(x, n)
            BY <1>1, NothingHalf DEF Kind
          <6>2. n \in Names \ (torn \cup Doubled(stored))
            BY <1>1, <2>4, <3>3
          <6> QED  BY <6>1, <6>2, ClearOf
        <5> QED  BY <4>1, <5>1 DEF Agree
      <4>3. \A b : b \in P <=> \E i \in DOMAIN x.fns : x.fns[i].name = n /\ b = Filed(i, x.fns[i])
        BY <1>1, <1>3, <2>1, <4>2, PublishedPart
      <4>4. x.name \notin torn
        BY <1>1, <2>4, <3>3 DEF Brings
      <4>5. \A i \in DOMAIN x.fns : x.fns[i].code = x.fns[i].compiled
        <5>1. SourceKnown(x, x.name, Part(stored, x.name))
          BY <2>2, <4>4 DEF AgreementInv, Knowing, Knows
        <5> QED  BY <1>1, <5>1 DEF SourceKnown
      <4>6. \A b : b \in After(x, n, S) <=>
              \E i \in DOMAIN x.fns : x.fns[i].name = n /\ b = Filed(i, x.fns[i])
        BY <1>1, <4>1, AfterIs
      <4> HIDE DEF S, P, x
      <4>7. After(x, n, S) = P
        BY <4>3, <4>6
      <4>8. \A b \in After(x, n, S) : Written(b)
        BY <4>5, <4>6, FiledFacts DEF Written
      <4>9. Agree(After(x, n, S), P)
        BY <4>7, <4>8 DEF Agree
      <4> QED  BY <4>9 DEF S, P
    <3> QED  BY <2>2, <3>2, <3>3
  <2> QED  BY <1>1, <2>1, <2>3, <2>4, HalfAgrees
<1> QED  BY <1>2, <1>3

LEMMA RestoredAgrees ==
  ASSUME RequestInv, DataInv, RequestInv', AgreementInv, NEW r \in Requests, PublishMany(r)
  PROVE  AgreementInv'
<1> DEFINE x == request[r]
           names == {x.fns[i].name : i \in DOMAIN x.fns}
<1>1. /\ x \in RequestType /\ Shape(x) /\ Labelled(x) /\ UNCHANGED stored
      /\ x.kind = "restore" /\ x.at = "publish" /\ At(r, "publish") /\ Kind(r) \in Transactional
      /\ x.name = None /\ x.to = None /\ x.fns \in FnSets
  BY DEF RequestInv, AgreementInv, Documents, Labelled, PublishMany, PublishThen, At,
         Kind, RequestType, Transactional
<1>2. CASE DuplicateKey(names, x.fns)
  <2>1. Failed(r) /\ UNCHANGED published
    BY <1>2 DEF PublishMany, PublishThen, publication, Fns
  <2> QED  BY <1>1, <2>1, ReleaseAgrees
<1>3. CASE ~DuplicateKey(names, x.fns)
  <2>1. Goto(r, "commit") /\ published' = Replaced(names, x.fns)
    BY <1>3 DEF PublishMany, PublishThen, PublishAs, Fns
  <2>2. Subject(x) = names
    BY <1>1 DEF Subject, Touches
  <2>3. ASSUME NEW n \in Names \ Subject(x) PROVE Part(published', n) = Part(published, n)
    <3>1. n \notin names /\ \A i \in DOMAIN x.fns : x.fns[i].name # n
      BY <2>2, <2>3
    <3> HIDE DEF names, x
    <3> QED  BY <1>1, <1>3, <2>1, <3>1, PublishedPart
  <2>4. ASSUME NEW n \in Subject(x), Single(After(x, n, Part(stored, n))), n \notin Brings(x, torn')
        PROVE  Agree(After(x, n, Part(stored, n)), Part(published', n))
    <3> DEFINE A == After(x, n, Part(stored, n))
               P == Part(published', n)
    <3>1. n \in names /\ \E i \in DOMAIN x.fns : x.fns[i].name = n
      BY <2>2
    <3>2. \A b : b \in P <=> \E i \in DOMAIN x.fns : x.fns[i].name = n /\ b = Filed(i, x.fns[i])
      <4> HIDE DEF names, x
      <4> QED  BY <1>1, <1>3, <2>1, <3>1, PublishedPart
    <3>3. \A i \in DOMAIN x.fns : x.fns[i].name = n => Filed(i, x.fns[i]) \in A
      BY <1>1, AfterIs
    <3>4. Single(A)
      BY <2>4
    <3>5. \A i \in DOMAIN x.fns : x.fns[i].name = n => x.fns[i].code = x.fns[i].compiled
      BY <1>1, <2>4 DEF Brings
    <3> HIDE DEF A, P, x, names
    <3>6. \A b : b \in A <=> b \in P
      BY <3>1, <3>2, <3>3, <3>4 DEF Single
    <3>7. \A b \in P : Written(b)
      BY <3>2, <3>5, FiledFacts DEF Written
    <3>8. A = P
      BY <3>6
    <3>9. Agree(A, P)
      BY <3>7, <3>8 DEF Agree
    <3> QED  BY <3>9 DEF A, P
  <2> HIDE DEF names
  <2> QED  BY <1>1, <2>1, <2>3, <2>4, HalfAgrees
<1> QED  BY <1>2, <1>3

LEMMA ItemsAgree ==
  ASSUME RequestInv, DataInv, RequestInv', AgreementInv, NEW r \in Requests, PublishItems(r)
  PROVE  AgreementInv'
<1> DEFINE x == request[r]
           items == Items(x.fns, DOMAIN x.fns) \cup x.items
           f == AsFunction(items)
           name == x.name
<1>1. /\ x \in RequestType /\ Shape(x) /\ Labelled(x) /\ UNCHANGED stored
      /\ x.kind = "use" /\ x.at = "publish" /\ At(r, "publish") /\ Kind(r) \in Transactional
      /\ name \in Names /\ x.to = None /\ x.fns \in FnSets /\ x.items \in SUBSET Item
      /\ \A b \in x.items : b.doc.name = name
      /\ \A i \in DOMAIN x.fns : x.fns[i].name = name /\ x.fns[i].code = x.fns[i].compiled
  BY DEF RequestInv, AgreementInv, Documents, Shape, Labelled, Kinds, PublishItems, PublishThen, At,
         Kind, RequestType, Transactional
<1>2. CASE DuplicateKey({}, f)
  <2>1. Failed(r) /\ UNCHANGED published
    BY <1>2 DEF PublishItems, PublishThen, publication, Fns
  <2> QED  BY <1>1, <2>1, ReleaseAgrees
<1>3. CASE ~DuplicateKey({}, f)
  <2>1. Goto(r, "commit") /\ published' = Replaced({}, f)
    BY <1>3 DEF PublishItems, PublishThen, PublishAs, Fns
  <2>2. items \in SUBSET Item /\ f \in FnSets /\ DOMAIN f = {b.id : b \in items}
    BY <1>1, FnItems, ItemFns
  <2>3. \A b : b \in Items(x.fns, DOMAIN x.fns) <=> \E i \in DOMAIN x.fns : b = Filed(i, x.fns[i])
    BY DEF Items, Filed
  <2>4. \A b \in items : b.doc.name = name
    BY <1>1, <2>3, FiledFacts
  <2>5. \A i \in DOMAIN f : \E b \in items : b.id = i /\ f[i] = b.doc
    <3>1. ASSUME NEW i \in {b.id : b \in items} PROVE \E b \in items : b.id = i /\ f[i] = b.doc
      <4> DEFINE c == CHOOSE b \in items : b.id = i
      <4>1. \E b \in items : b.id = i
        OBVIOUS
      <4>2. c \in items /\ c.id = i
        BY <4>1
      <4>3. f[i] = c.doc
        BY DEF AsFunction
      <4> QED  BY <4>2, <4>3
    <3> QED  BY <2>2, <3>1
  <2>6. \A i \in DOMAIN f : f[i].name = name
    <3> HIDE DEF f, items, name
    <3> QED  BY <2>4, <2>5
  <2>7. name \in Subject(x) /\ Subject(x) \subseteq {name}
    <3>1. None \notin Names
      BY FunctionAssumption
    <3>2. Subject(x) = ({name, x.to} \ {None}) \cup {x.fns[i].name : i \in DOMAIN x.fns}
      BY <1>1 DEF Subject, Touches
    <3> HIDE DEF x
    <3> QED  BY <1>1, <3>1, <3>2
  <2> HIDE DEF f, items
  <2>8. ASSUME NEW n \in Names \ Subject(x) PROVE Part(published', n) = Part(published, n)
    <3>1. n # name
      BY <2>7, <2>8
    <3> QED  BY <1>3, <2>1, <2>2, <2>6, <3>1, PublishedPart
  <2>9. ASSUME NEW n \in Subject(x), n \notin torn \cup Doubled(stored)
        PROVE  Agree(After(x, n, Part(stored, n)), Part(published', n))
    <3> DEFINE S == Part(stored, n)
               P == Part(published', n)
    <3>1. n = name /\ n \in Names
      BY <1>1, <2>7
    <3>2. S = {} /\ x.items = {}
      <4>1. TargetFree(x, n, S)
        BY <2>9 DEF AgreementInv, Knowing, Knows
      <4> QED  BY <1>1, <3>1, <4>1 DEF TargetFree
    <3>3. Part(published, n) = {}
      <4>1. ~Past(x, n)
        BY <1>1, NothingHalf DEF Kind
      <4>2. n \in Names \ (torn \cup Doubled(stored))
        BY <2>9, <3>1
      <4>3. Agree(Part(stored, n), Part(published, n))
        BY <4>1, <4>2, ClearOf
      <4> QED  BY <3>2, <4>3 DEF Agree
    <3>4. \A b : b \in P <=> \E i \in DOMAIN f : f[i].name = n /\ b = Filed(i, f[i])
      BY <1>3, <2>1, <2>2, <3>3, PublishedPart
    <3>5. \A b : b \in items <=> \E i \in DOMAIN x.fns : b = Filed(i, x.fns[i])
      BY <2>3, <3>2 DEF items
    <3>6. \A b : b \in After(x, n, S) <=>
            \E i \in DOMAIN x.fns : x.fns[i].name = n /\ b = Filed(i, x.fns[i])
      BY <1>1, <3>2, AfterIs
    <3>7. DOMAIN f = DOMAIN x.fns /\ \A i \in DOMAIN f : f[i] = x.fns[i]
      <4>1. \A i \in DOMAIN f : i \in DOMAIN x.fns /\ f[i] = x.fns[i]
        BY <2>5, <3>5, FiledFacts
      <4>2. \A i \in DOMAIN x.fns : i \in DOMAIN f
        <5>1. \A i \in DOMAIN x.fns : \E b \in items : b.id = i
          BY <3>5, FiledFacts
        <5> QED  BY <2>2, <5>1
      <4> QED  BY <4>1, <4>2
    <3>8. \A i \in DOMAIN x.fns : x.fns[i].code = x.fns[i].compiled
      BY <1>1
    <3> HIDE DEF S, P, x
    <3>9. \A b : b \in After(x, n, S) <=> b \in P
      BY <3>4, <3>6, <3>7
    <3>10. \A b \in After(x, n, S) : Written(b)
      BY <3>6, <3>8, FiledFacts DEF Written
    <3>11. After(x, n, S) = P
      BY <3>9
    <3>12. Agree(After(x, n, S), P)
      BY <3>10, <3>11 DEF Agree
    <3> QED  BY <3>12 DEF S, P
  <2> QED  BY <1>1, <2>1, <2>8, <2>9, HalfAgrees
<1> QED  BY <1>2, <1>3

LEMMA RemovedAgrees ==
  ASSUME RequestInv, DataInv, CacheInv, RequestInv', AgreementInv, NEW r \in Requests,
         UnpublishRemoved(r)
  PROVE  AgreementInv'
<1> DEFINE x == request[r]
           name == x.name
<1>1. /\ x \in RequestType /\ Shape(x) /\ Labelled(x) /\ UNCHANGED stored
      /\ x.kind = "remove" /\ x.at = "publish" /\ At(r, "publish") /\ Kind(r) \in Transactional
      /\ name \in Names /\ Goto(r, "commit") /\ Unpublish(name)
      /\ name \in Subject(x) /\ Subject(x) \subseteq {name}
  <2>1. /\ x \in RequestType /\ Shape(x) /\ Labelled(x) /\ UNCHANGED stored
        /\ x.kind = "remove" /\ x.at = "publish" /\ At(r, "publish") /\ Kind(r) \in Transactional
        /\ name \in Names /\ Goto(r, "commit") /\ Unpublish(name) /\ x.to = None
        /\ \A i \in DOMAIN x.fns : x.fns[i].name = name
    BY DEF RequestInv, AgreementInv, Documents, Shape, Labelled, Kinds, UnpublishRemoved, At,
           Kind, Transactional, Name
  <2>2. None \notin Names
    BY FunctionAssumption
  <2>3. Subject(x) = ({name, x.to} \ {None}) \cup {x.fns[i].name : i \in DOMAIN x.fns}
    BY <2>1 DEF Subject, Touches
  <2>4. name \in Subject(x) /\ Subject(x) \subseteq {name}
    <3> HIDE DEF x
    <3> QED  BY <2>1, <2>2, <2>3
  <2> QED  BY <2>1, <2>4
<1>2. \/ published' = published /\ \A i \in Ids : published[i] = None \/ published[i].name # name
      \/ \E i \in Ids : /\ published[i] # None /\ published[i].name = name
                        /\ published' = [published EXCEPT ![i] = None]
  BY <1>1 DEF Unpublish, Named, Has, publication
<1> DEFINE old == published
           new == published'
<1>3. \/ new = old /\ \A i \in Ids : old[i] = None \/ old[i].name # name
      \/ \E i \in Ids : /\ old[i] # None /\ old[i].name = name
                        /\ new = [old EXCEPT ![i] = None]
  BY <1>2
<1>4. \A n : \A b : b \in Part(new, n) <=>
        \E i \in Ids : new[i] # None /\ new[i].name = n /\ b = Filed(i, new[i])
  BY PartIs
<1>5. \A n : \A i \in Ids : old[i] # None /\ old[i].name = n => Filed(i, old[i]) \in Part(old, n)
  BY PartIs
<1>6. DOMAIN old = Ids
  BY DEF CacheInv, CacheTypeOK
<1> HIDE DEF old, new
<1>7. ASSUME NEW n \in Names \ Subject(x) PROVE Part(published', n) = Part(published, n)
  <2>1. \A i \in Ids : \/ new[i] = old[i]
                       \/ /\ new[i] # None => new[i].name # n
                          /\ old[i] # None => old[i].name # n
    BY <1>1, <1>3, <1>6, <1>7
  <2>2. Part(new, n) = Part(old, n)
    BY <2>1, PartSame
  <2> QED  BY <2>2 DEF new, old
<1>8. ASSUME NEW n \in Subject(x), n \notin torn \cup Doubled(stored)
      PROVE  Agree(After(x, n, Part(stored, n)), Part(published', n))
  <2> DEFINE S == Part(stored, n)
             A == After(x, n, S)
  <2>1. n = name /\ n \in Names
    BY <1>1, <1>8
  <2>2. ~Past(x, n)
    BY <1>1, NothingHalf DEF Kind
  <2>3. n \in Names \ (torn \cup Doubled(stored))
    BY <1>8, <2>1
  <2>4. Agree(S, Part(old, n))
    BY <2>2, <2>3, ClearOf DEF old
  <2>5. Single(S)
    BY <2>3, SingleIs
  <2>6. SourceKnown(x, n, S)
    BY <1>8 DEF AgreementInv, Knowing, Knows
  <2>7. \A b \in S : b.id \in DOMAIN x.fns
    BY <1>1, <2>1, <2>6 DEF SourceKnown
  <2>8. \A b : b \notin A
    BY <1>1, <2>7, AfterIs
  <2>9. \A i \in Ids, j \in Ids :
          (old[i] # None /\ old[i].name = n) /\ (old[j] # None /\ old[j].name = n) => i = j
    <3>1. ASSUME NEW i \in Ids, NEW j \in Ids, old[i] # None /\ old[i].name = n,
                 old[j] # None /\ old[j].name = n
          PROVE  i = j
      <4>1. Filed(i, old[i]) \in Part(old, n) /\ Filed(j, old[j]) \in Part(old, n)
        BY <1>5, <3>1
      <4>2. Filed(i, old[i]) \in S /\ Filed(j, old[j]) \in S
        BY <2>4, <4>1 DEF Agree
      <4>3. Filed(i, old[i]) = Filed(j, old[j])
        BY <2>5, <4>2 DEF Single
      <4> QED  BY <4>3, FiledFacts
    <3> QED  BY <3>1
  <2>10. \A i \in Ids : new[i] # None => new[i].name # n
    BY <1>3, <1>6, <2>1, <2>9
  <2>11. \A b : b \notin Part(new, n)
    BY <1>4, <2>10
  <2> HIDE DEF A
  <2>12. A = Part(new, n)
    BY <2>8, <2>11
  <2>13. Agree(A, Part(new, n))
    BY <2>8, <2>12 DEF Agree
  <2> QED  BY <2>13 DEF A, new
<1> QED  BY <1>1, <1>7, <1>8, HalfAgrees

\* A commit stores what was published.
LEMMA CommitAgrees ==
  ASSUME RequestInv, RequestInv', AgreementInv, NEW r \in Requests, Commit(r)
  PROVE  AgreementInv'
<1> DEFINE x == request[r]
<1>1. /\ request \in [Requests -> RequestType] /\ torn \in SUBSET Names
      /\ x \in RequestType /\ Shape(x) /\ Labelled(x) /\ Over(x, stored)
      /\ x.at = "commit" /\ x.kind \in Transactional /\ InTx(x) /\ UNCHANGED published
      /\ stored' = Committed(r) /\ Succeeded(r)
  BY DEF RequestInv, AgreementInv, Documents, Commit, At, Shape, InTx, publication
<1>2. Healed(r) = {} /\ Inherited(r) = Brings(x, torn) /\ Inherited(r) \in SUBSET Names
  <2>1. Kind(r) \notin {"create", "update"}
    BY <1>1 DEF Kind, Transactional
  <2>2. Inherited(r) \in SUBSET Names
    BY MarksAreNames
  <2> QED  BY <2>1, <2>2 DEF Healed, Inherited, Brings, Kind, Name, Fns
<1> DEFINE names == torn \cup Brings(x, torn)
<1>3. names \in SUBSET Names /\ Tear([request EXCEPT ![r] = Idle], names)
  <2>1. (torn \ Healed(r)) \cup Inherited(r) = names
    BY <1>2
  <2> QED  BY <1>1, <1>2, <2>1 DEF Succeeded
<1> HIDE DEF names
<1>4. names \subseteq torn' /\ torn \subseteq names /\ Brings(x, torn) \subseteq names
  <2>1. names \subseteq torn'
    BY <1>1, <1>3, IdleFacts, TearMarks
  <2> QED  BY <2>1 DEF names
<1>5. DOMAIN x.fns \subseteq Ids /\ \A i \in DOMAIN x.fns : x.fns[i].name \in Subject(x)
  <2>1. x.fns \in FnSets
    BY <1>1 DEF RequestType
  <2> QED  BY <1>1, <2>1, FnsFacts, SubjectNames
<1>6. \A i \in DOMAIN x.fns : stored[i] = None \/ stored[i].name \in Subject(x)
  <2>1. x.kind \in {"rename", "remove"} => x.name \in Subject(x)
    BY <1>1, SubjectNames DEF Shape, Kinds
  <2> QED  BY <1>1, <2>1 DEF Over, Transactional
<1>7. \A i \in Ids : stored'[i] = IF i \notin DOMAIN x.fns THEN stored[i]
                                  ELSE IF x.kind = "remove" THEN None ELSE x.fns[i]
  BY <1>1 DEF Committed, Fns, Kind
<1>8. ASSUME NEW n \in Names \ Subject(x) PROVE Part(stored', n) = Part(stored, n)
  <2> DEFINE new == stored'
             old == stored
  <2>1. \A i \in Ids : \/ new[i] = old[i]
                       \/ /\ new[i] # None => new[i].name # n
                          /\ old[i] # None => old[i].name # n
    BY <1>5, <1>6, <1>7, <1>8
  <2> HIDE DEF new, old
  <2>2. Part(new, n) = Part(old, n)
    BY <2>1, PartSame
  <2> QED  BY <2>2 DEF new, old
<1>9. \A q \in Requests \ {r} : InTx(request[q]) =>
        \A i \in DOMAIN request[q].fns : stored'[i] = stored[i]
  <2> SUFFICES ASSUME NEW q \in Requests \ {r}, InTx(request[q]), NEW i \in DOMAIN request[q].fns
               PROVE  stored'[i] = stored[i]
    OBVIOUS
  <2>1. i \in WritesOf(request[q])
    BY DEF WritesOf
  <2>2. i \notin WritesOf(x) /\ i \in Ids
    BY <1>1, <2>1, WritesAreIds DEF RequestInv, Disjoint
  <2>3. i \notin DOMAIN x.fns
    BY <2>2 DEF WritesOf
  <2> QED  BY <1>7, <2>2, <2>3
<1>10. ASSUME NEW n \in Subject(x), n \in Names \ (torn' \cup Doubled(stored'))
       PROVE  Agree(Part(stored', n), Part(published', n))
  <2> DEFINE S == Part(stored, n)
             P == Part(published, n)
             new == stored'
  <2>1. Part(new, n) = After(x, n, S)
    <3>1. Part(Committed(r), n) = After(x, n, S)
      BY CommittedIs
    <3> QED  BY <1>1, <3>1
  <2>2. Single(Part(new, n))
    <3>1. n \notin Doubled(new)
      BY <1>10
    <3> HIDE DEF new
    <3> QED  BY <1>10, <3>1, SingleIs
  <2>3. n \notin torn /\ n \notin Brings(x, torn)
    BY <1>4, <1>10
  <2>4. HalfWay(x, n, S, P, torn)
    BY <1>10, <2>3 DEF AgreementInv, Knowing, Knows
  <2> HIDE DEF S, P, x, new
  <2>5. Agree(After(x, n, S), P)
    <3>1. x.at = "commit"
      BY <1>1
    <3> QED  BY <2>1, <2>2, <2>3, <2>4, <3>1 DEF HalfWay
  <2>6. Agree(Part(new, n), P)
    BY <2>1, <2>5
  <2> QED  BY <1>1, <2>6 DEF new, P
<1>11. \A n \in Names \ Subject(x) :
         Part(stored', n) = Part(stored, n) /\ Part(published', n) = Part(published, n)
  BY <1>1, <1>8
<1>12. Labelled(Idle) /\ Over(Idle, stored') /\ Idle.at = "idle" /\ Subject(Idle) = {}
  BY IdleAgrees DEF Idle
<1> QED  BY <1>1, <1>3, <1>4, <1>9, <1>10, <1>11, <1>12, IdleFacts, StepAgrees

\* What is neither a request's nor a publication.
LEMMA AsideAgrees ==
  ASSUME AgreementInv, UNCHANGED <<request, torn, stored, published>>
  PROVE  AgreementInv'
<1>1. Meeting' /\ Noticing'
  BY DEF AgreementInv, Meeting, Noticing, Live
<1>2. Documents'
  BY DEF AgreementInv, Documents
<1>3. Knowing' /\ Agreeing'
  BY DEF AgreementInv, Knowing, Agreeing, Part, Items, Named, Has, Doubled
<1> QED  BY <1>1, <1>2, <1>3 DEF AgreementInv

LEMMA CalledAgrees ==
  ASSUME RequestInv, DataInv, RequestInv', AgreementInv, Called PROVE AgreementInv'
<1>1. None \notin Names
  BY FunctionAssumption
<1>2. PICK r \in Requests, n \in Names :
        \/ \E c \in Codes, kind \in bound.kinds \cap {"create", "update"} : Call(r, kind, n, None, c, {})
        \/ "use" \in bound.kinds /\ n = Taken /\ \E c \in Codes : Call(r, "use", n, Copy, c, {})
        \/ "rename" \in bound.kinds /\ \E m \in Names \ {n} : Call(r, "rename", n, m, None, {})
        \/ "remove" \in bound.kinds /\ Call(r, "remove", n, None, None, {})
        \/ "restore" \in bound.kinds /\ \E ids \in SUBSET Ids \ {{}} :
             Call(r, "restore", None, None, None, ids)
  BY DEF Called
<1>3. ASSUME NEW kind \in {"create", "update", "remove"}, NEW c \in Codes \cup {None},
             Call(r, kind, n, None, c, {})
      PROVE  AgreementInv'
  <2>1. /\ kind \in Kinds \ {"none"} /\ kind \notin {"restore", "rename", "use"}
        /\ {} \in SUBSET Ids
    BY DEF Kinds
  <2> HIDE DEF Kinds
  <2> QED  BY <1>3, <2>1, CallAgrees
<1>4. ASSUME NEW m \in Names \ {n}, Call(r, "rename", n, m, None, {}) PROVE AgreementInv'
  <2>1. "rename" \in Kinds \ {"none"} /\ {} \in SUBSET Ids /\ m # n
    BY DEF Kinds
  <2> QED  BY <1>4, <2>1, CallAgrees
<1>6. ASSUME NEW c \in Codes, Call(r, "use", n, Copy, c, {}) PROVE AgreementInv'
  <2>1. "use" \in Kinds \ {"none"} /\ {} \in SUBSET Ids /\ Copy \in Names
    BY FunctionAssumption DEF Kinds
  <2> QED  BY <1>6, <2>1, CallAgrees
<1>5. ASSUME NEW ids \in SUBSET Ids, Call(r, "restore", None, None, None, ids) PROVE AgreementInv'
  <2>1. "restore" \in Kinds \ {"none"}
    BY DEF Kinds
  <2> QED  BY <1>5, <2>1, CallAgrees
<1> QED  BY <1>2, <1>3, <1>4, <1>5, <1>6

LEMMA AgreementInit == Init => AgreementInv
<1> SUFFICES ASSUME Init PROVE AgreementInv
  OBVIOUS
<1>1. /\ \A r \in Requests : request[r] = Idle
      /\ published = stored /\ torn = {} /\ Doubled(stored) = {}
      /\ \A i \in Ids : stored[i] # None => stored[i].code = stored[i].compiled
  BY DEF Init, ControlInit
<1>2. Idle.at = "idle" /\ Subject(Idle) = {} /\ Labelled(Idle) /\ Over(Idle, stored)
  BY IdleAgrees DEF Idle
<1>3. Meeting /\ Noticing /\ Documents /\ Knowing
  BY <1>1, <1>2 DEF Meeting, Noticing, Documents, Knowing, Live
<1>4. ASSUME NEW n \in Names PROVE Agree(Part(stored, n), Part(published, n))
  <2>1. \A b \in Part(stored, n) : \E i \in Ids : stored[i] # None /\ b = Filed(i, stored[i])
    BY PartIs
  <2>2. \A b \in Part(stored, n) : Written(b)
    BY <1>1, <2>1, FiledFacts DEF Written
  <2> QED  BY <1>1, <2>2 DEF Agree
<1> QED  BY <1>3, <1>4 DEF AgreementInv, Agreeing

LEMMA AgreementStep ==
  RequestInv /\ RequestInv' /\ DataInv /\ CacheInv /\ AgreementInv /\ [Next]_vars => AgreementInv'
<1> SUFFICES ASSUME RequestInv, RequestInv', DataInv, CacheInv, AgreementInv, [Next]_vars
             PROVE  AgreementInv'
  OBVIOUS
<1>1. CASE Called
  BY <1>1, CalledAgrees
<1>2. ASSUME NEW r \in Requests, RequestStep(r) PROVE AgreementInv'
  BY <1>2, FindAgrees, LookupAgrees, CheckItemsAgrees, InsertAgrees, InsertItemsAgrees, WriteAgrees,
     RereadAgrees, MoveAgrees, RetargetAgrees, TakeAgrees, ReadBinAgrees, ReturnAgrees,
     PublishOneAgrees, RenamedAgrees, RestoredAgrees, ItemsAgree, RemovedAgrees, CommitAgrees
     DEF RequestStep
<1>3. ASSUME NEW r \in Requests, Fail(r) PROVE AgreementInv'
  BY <1>3, ReleaseAgrees DEF Fail, publication
<1>4. ASSUME NEW n \in Names, CreateTrigger(n) PROVE AgreementInv'
  BY <1>4, AsideAgrees DEF CreateTrigger, publication
<1>5. ASSUME NEW ids \in SUBSET Ids, Purge(ids) PROVE AgreementInv'
  BY <1>5, AsideAgrees DEF Purge, publication
<1>6. CASE Served \/ StartsOrStops \/ Disconnected
  <2>1. UNCHANGED published
    BY <1>6 DEF Served, StartsOrStops, Disconnected, CacheStep, OpenStream, Start, Stop, CloseStream,
                Query, Register, Drop, HandleDelete, HandleInsert, Handled, FindById, Store, Invoke,
                publication
  <2> QED  BY <1>6, <2>1, AsideAgrees DEF Served, StartsOrStops, Disconnected, control
<1>7. CASE UNCHANGED vars
  BY <1>7, AsideAgrees DEF vars, control, publication
<1> QED  BY <1>1, <1>2, <1>3, <1>4, <1>5, <1>6, <1>7 DEF Next, Requested, Disturbed

\* Whatever requests overlap and fail, and on any number of functions: once all have ended, the
\* system database and the application's hold the same functions of every name that is not
\* marked, and what is published is compiled from the code that is stored.
THEOREM DatabasesAgree == Spec => []Agreement
<1>1. AgreementInv => Agreement
  <2> SUFFICES ASSUME AgreementInv, Quiet, NEW n \in Names \ (torn \cup Doubled(stored))
               PROVE  /\ Part(stored, n) = Part(published, n)
                      /\ \A i \in Named(stored, {n}) : stored[i].compiled = stored[i].code
    BY DEF Agreement, Part
  <2>1. \A r \in Requests : ~Past(request[r], n)
    BY DEF Quiet, Live, Past, Subject
  <2>2. Agree(Part(stored, n), Part(published, n))
    BY <2>1 DEF AgreementInv, Agreeing
  <2>3. \A i \in Named(stored, {n}) : Filed(i, stored[i]) \in Part(stored, n)
    BY PartIs DEF Named, Has
  <2>4. \A i \in Named(stored, {n}) : stored[i].compiled = stored[i].code
    <3>1. \A i \in Named(stored, {n}) : Written(Filed(i, stored[i]))
      BY <2>2, <2>3 DEF Agree
    <3> QED  BY <3>1, FiledFacts DEF Written
  <2> QED  BY <2>2, <2>4 DEF Agree
<1>2. Spec => [](RequestInv /\ DataInv /\ CacheInv /\ AgreementInv)
  BY ControlInitInv, ControlStep, CacheInitInv, CacheStepInv, AgreementInit, AgreementStep, PTL DEF Spec
<1> QED  BY <1>1, <1>2, PTL

=============================================================================
