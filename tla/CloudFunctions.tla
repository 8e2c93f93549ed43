--------------------------- MODULE CloudFunctions ---------------------------
(***************************************************************************)
(* The functions of an application in the control plane: the requests that *)
(* create, update, rename, remove and restore them or take them from a     *)
(* template, step by step.  Each changes the system database, some in a    *)
(* transaction, and publishes to the application's database, which is in   *)
(* no transaction with it.                                                 *)
(***************************************************************************)
EXTENDS PublishedFunctions

CONSTANTS
    Requests,   \* requests that may be under way at once
    Taken,      \* a name of a template's function,
    Copy,       \* and what the function is called if that name is taken
    MaxFunctions,  \* what the bundle of the application allows
    BinLimit    \* how many functions the recycle bin holds

ASSUME FunctionAssumption ==
    /\ {Taken, Copy} \subseteq Names
    /\ None \notin Doc \cup Names \cup Codes \cup Ids
    /\ IsFiniteSet(Ids)

VARIABLES
    stored,     \* CloudFunction: [Ids -> Doc or None]
    bin,        \* RecycleBin: a set of [id, doc]
    trigger,    \* the names that active triggers call
    request,    \* [Requests -> a record as Idle]
    born,       \* ids that were ever stored
    purged,     \* ids that were ever deleted from the recycle bin, or by a restore that did
                \* not find them there yet
    triggered,  \* a trigger was created
    torn,       \* names of which the two databases may disagree
    faults

control == <<stored, bin, trigger, request, born, purged, triggered, torn, faults>>

Idle == [kind |-> "none", at |-> "idle", name |-> None, to |-> None, code |-> None,
         ids |-> {}, func |-> None, items |-> {}, fns |-> <<>>, called |-> FALSE,
         found |-> FALSE, alone |-> TRUE]

Live(r) == request[r].at # "idle"
At(r, step) == request[r].at = step
Kind(r) == request[r].kind
Name(r) == request[r].name
Fns(r) == request[r].fns

\* What the request has changed in its transaction, which others cannot change.
InTransaction(r) == Kind(r) \in {"rename", "remove", "restore", "use"} /\ request[r].fns # <<>>
Writes(r) == DOMAIN Fns(r) \cup (IF Kind(r) = "restore" THEN {b.id : b \in request[r].items} ELSE {})
Locked == UNION {Writes(r) : r \in {q \in Requests : InTransaction(q)}}

\* The names a request is about.
Touches(q) == ({q.name, q.to} \ {None}) \cup {q.fns[i].name : i \in DOMAIN q.fns}

\* What a query has found.
Items(coll, ids) == {[id |-> i, doc |-> coll[i]] : i \in ids}
AsFunction(items) == [i \in {b.id : b \in items} |-> (CHOOSE b \in items : b.id = i).doc]

Doubled(coll) == {n \in Names : Cardinality(Named(coll, {n})) > 1}

\* Requests about the same name that overlap, and two functions of one name, tear.
Tear(reqs, names) ==
    LET met(r) == {n \in Touches(reqs[r]) :
                     \E q \in Requests \ {r} : reqs[q].at # "idle" /\ n \in Touches(reqs[q])}
        live == {r \in Requests : reqs[r].at # "idle"} IN
      /\ request' = [r \in Requests |-> IF r \in live /\ met(r) # {}
                                          THEN [reqs[r] EXCEPT !.alone = FALSE] ELSE reqs[r]]
      /\ torn' = names \cup Doubled(stored) \cup UNION {met(r) : r \in live}

Goto(r, step) == Tear([request EXCEPT ![r].at = step], torn)
End(r) == Tear([request EXCEPT ![r] = Idle], torn)
Failed(r) == Tear([request EXCEPT ![r] = Idle], torn \cup Touches(request[r]))

\* An update that nobody disturbed makes up for what happened before; a function that is
\* renamed or restored takes along what happened to it.
Healed(r) == IF request[r].alone /\ Kind(r) \in {"create", "update"}
                /\ Cardinality(Named(stored, {Name(r)})) = 1 THEN {Name(r)} ELSE {}
Inherited(r) ==
    IF Kind(r) = "rename" /\ Name(r) \in torn THEN {request[r].to}
    ELSE IF Kind(r) = "restore"
      THEN {Fns(r)[i].name : i \in {j \in DOMAIN Fns(r) : Fns(r)[j].code # Fns(r)[j].compiled}}
    ELSE {}
Succeeded(r) == Tear([request EXCEPT ![r] = Idle], (torn \ Healed(r)) \cup Inherited(r))

\* Functions there are, published, with names of their own.
ControlInit ==
    /\ stored \in [Ids -> {d \in Docs : d # None => d.code = d.compiled}]
    /\ Doubled(stored) = {}
    /\ published = stored
    /\ born = Named(stored, Names)
    /\ bin = {} /\ trigger = {} /\ triggered = FALSE
    /\ request = [r \in Requests |-> Idle]
    /\ purged = {} /\ torn = {} /\ faults = 0

-----------------------------------------------------------------------------
(* Requests and what the controllers look up *)

FirstStep(kind) == CASE kind \in {"update", "rename", "remove"} -> "find"
                     [] kind \in {"create", "use"} -> "check"
                     [] kind = "restore" -> "bin"

\* The template's transaction begins before anything is looked up, so that its search will
\* see the functions of now.
Snapshot(kind, names) == IF kind = "use" THEN Items(stored, Named(stored, names)) ELSE {}

Call(r, kind, name, to, code, ids) ==
    /\ ~Live(r)
    /\ Tear([request EXCEPT ![r] = [Idle EXCEPT !.kind = kind, !.at = FirstStep(kind), !.name = name,
                                                !.to = to, !.code = code, !.ids = ids,
                                                !.items = Snapshot(kind, {name, to})]], torn)
    /\ UNCHANGED <<publication, stored, bin, trigger, born, purged, triggered, faults>>

\* The controller's findOne, of which updateOne and removeOne get the result.
Find(r) ==
    /\ At(r, "find")
    /\ IF Named(stored, {Name(r)}) = {}
         THEN End(r)
         ELSE \E i \in Named(stored, {Name(r)}) :
                Tear([request EXCEPT ![r].func = stored[i],
                                     ![r].at = CASE Kind(r) = "update" -> "write"
                                                 [] Kind(r) = "rename" -> "check"
                                                 [] Kind(r) = "remove" -> "room"], torn)
    /\ UNCHANGED <<publication, stored, bin, trigger, born, purged, triggered, faults>>

\* Is there room in the recycle bin?
Room(r) ==
    /\ At(r, "room")
    /\ IF Cardinality(bin) >= BinLimit THEN End(r) ELSE Goto(r, "take")
    /\ UNCHANGED <<publication, stored, bin, trigger, born, purged, triggered, faults>>

\* Creation: is the name free, and does the bundle allow one more?
CheckNew(r) ==
    /\ At(r, "check") /\ Kind(r) = "create"
    /\ IF Named(stored, {Name(r)}) # {} \/ Cardinality(Named(stored, Names)) >= MaxFunctions
         THEN End(r) ELSE Goto(r, "insert")
    /\ UNCHANGED <<publication, stored, bin, trigger, born, purged, triggered, faults>>

\* Rename: is the new name free?
CheckNewName(r) ==
    /\ At(r, "check") /\ Kind(r) = "rename"
    /\ IF Named(stored, {request[r].to}) # {} THEN End(r) ELSE Goto(r, "move")
    /\ UNCHANGED <<publication, stored, bin, trigger, born, purged, triggered, faults>>

\* Template: a name that is taken is replaced by that of a copy.  This query is outside the
\* transaction; what the search for the name will find besides was there at its snapshot.
CheckItems(r) ==
    /\ At(r, "check") /\ Kind(r) = "use"
    /\ LET n == IF Named(stored, {Name(r)}) # {} THEN request[r].to ELSE Name(r) IN
         /\ Named(stored, {n}) = {}
         /\ Tear([request EXCEPT ![r].name = n, ![r].to = None, ![r].at = "insert",
                                 ![r].items = {b \in @ : b.doc.name = n}], torn)
    /\ UNCHANGED <<publication, stored, bin, trigger, born, purged, triggered, faults>>

-----------------------------------------------------------------------------
(* FunctionService.create, updateOne *)

Fresh == {i \in Ids \ (born \cup Locked) : ~Has(published, i)}
NewDoc(r) == [name |-> Name(r), code |-> request[r].code, compiled |-> request[r].code]

InsertOne(r) ==
    /\ At(r, "insert") /\ Kind(r) = "create"
    /\ \E i \in Fresh :
         /\ stored' = [stored EXCEPT ![i] = NewDoc(r)]
         /\ born' = born \cup {i}
    /\ Goto(r, "reread")
    /\ UNCHANGED <<publication, bin, trigger, purged, triggered, faults>>

\* The write waits for a transaction that has changed the function.
Write(r) ==
    /\ At(r, "write")
    /\ IF Named(stored, {Name(r)}) = {}
         THEN stored' = stored
         ELSE \E i \in Named(stored, {Name(r)}) \ Locked :
                stored' = [stored EXCEPT ![i].code = request[r].code, ![i].compiled = request[r].code]
    /\ Goto(r, "reread")
    /\ UNCHANGED <<publication, bin, trigger, born, purged, triggered, faults>>

\* findOne, and a history record, which fails without a function.
Reread(r) ==
    /\ At(r, "reread")
    /\ IF Named(stored, {Name(r)}) = {}
         THEN Failed(r)
         ELSE \E i \in Named(stored, {Name(r)}) :
                Tear([request EXCEPT ![r].fns = [j \in {i} |-> stored[i]], ![r].at = "publish"], torn)
    /\ UNCHANGED <<publication, stored, bin, trigger, born, purged, triggered, faults>>

-----------------------------------------------------------------------------
(* The transactions *)

\* Template: insertMany, and the search, in the same transaction.
InsertItems(r) ==
    /\ At(r, "insert") /\ Kind(r) = "use"
    /\ \E i \in Fresh :
         Tear([request EXCEPT ![r].fns = [j \in {i} |-> NewDoc(r)], ![r].at = "publish"], torn)
    /\ UNCHANGED <<publication, stored, bin, trigger, born, purged, triggered, faults>>

\* Rename: findOneAndUpdate.  What runs is compiled from the code the controller has read.
Move(r) ==
    /\ At(r, "move")
    /\ IF Named(stored, {Name(r)}) = {}
         THEN Failed(r)
         ELSE \E i \in Named(stored, {Name(r)}) :
                LET moved == [name |-> request[r].to, code |-> stored[i].code,
                              compiled |-> request[r].func.code] IN
                  IF i \in Locked THEN Failed(r)
                  ELSE Tear([request EXCEPT ![r].fns = [j \in {i} |-> moved], ![r].at = "publish",
                                            ![r].called = Name(r) \in trigger], torn)
    /\ UNCHANGED <<publication, stored, bin, trigger, born, purged, triggered, faults>>

\* Rename: the triggers are read outside the transaction, and those it sees replaced in it.
Retarget(r) ==
    /\ At(r, "triggers")
    /\ Tear([request EXCEPT ![r].at = "commit",
                            ![r].found = Name(r) \in trigger], torn)
    /\ UNCHANGED <<publication, stored, bin, trigger, born, purged, triggered, faults>>

\* Remove: findOneAndDelete, the history and the insert into the recycle bin.
Take(r) ==
    /\ At(r, "take")
    /\ IF Named(stored, {Name(r)}) = {}
         THEN Failed(r)
         ELSE \E i \in Named(stored, {Name(r)}) :
                IF i \in Locked THEN Failed(r)
                ELSE Tear([request EXCEPT ![r].fns = [j \in {i} |-> stored[i]], ![r].at = "publish"], torn)
    /\ UNCHANGED <<publication, stored, bin, trigger, born, purged, triggered, faults>>

\* Restore: the find is outside the transaction.
ReadBin(r) ==
    /\ At(r, "bin")
    /\ LET items == {b \in bin : b.id \in request[r].ids} IN
         IF items = {} THEN End(r)
         ELSE Tear([request EXCEPT ![r].items = items, ![r].at = "return"], torn)
    /\ UNCHANGED <<publication, stored, bin, trigger, born, purged, triggered, faults>>

\* Restore: insertMany of what was found, deleteMany of what is in the bin by now.
Return(r) ==
    /\ At(r, "return")
    /\ LET items == request[r].items
           now == {b \in bin : b.id \in request[r].ids} IN
         IF \E b \in items \cup now : b.id \in Locked \/ (b \in items /\ Has(stored, b.id))
           THEN Failed(r)
           ELSE Tear([request EXCEPT ![r].fns = AsFunction(items), ![r].items = now,
                                     ![r].at = "publish"], torn)
    /\ UNCHANGED <<publication, stored, bin, trigger, born, purged, triggered, faults>>

-----------------------------------------------------------------------------
(* Publication and commit *)

\* What has one of the names goes, fns comes; an insert that fails undoes the transaction.
PublishThen(r, names, fns, Done) ==
    /\ IF DuplicateKey(names, fns)
         THEN Failed(r) /\ UNCHANGED publication
         ELSE Done /\ PublishAs(names, fns)
    /\ UNCHANGED <<stored, bin, trigger, born, purged, triggered, faults>>

PublishOne(r) ==
    /\ At(r, "publish") /\ Kind(r) \in {"create", "update"}
    /\ PublishThen(r, {Name(r)}, Fns(r), Succeeded(r))

PublishRenamed(r) ==
    /\ At(r, "publish") /\ Kind(r) = "rename"
    /\ PublishThen(r, {Name(r)}, Fns(r), Goto(r, "triggers"))

PublishMany(r) ==
    /\ At(r, "publish") /\ Kind(r) = "restore"
    /\ PublishThen(r, {Fns(r)[i].name : i \in DOMAIN Fns(r)}, Fns(r), Goto(r, "commit"))

PublishItems(r) ==
    /\ At(r, "publish") /\ Kind(r) = "use"
    /\ PublishThen(r, {}, AsFunction(Items(Fns(r), DOMAIN Fns(r)) \cup request[r].items), Goto(r, "commit"))

\* Mutant: what is removed stays published.
RemoveOnly(r) ==
    /\ At(r, "publish") /\ Kind(r) = "remove"
    /\ Goto(r, "commit")
    /\ UNCHANGED <<publication, stored, bin, trigger, born, purged, triggered, faults>>

UnpublishRemoved(r) ==
    /\ At(r, "publish") /\ Kind(r) = "remove"
    /\ Unpublish(Name(r))
    /\ Goto(r, "commit")
    /\ UNCHANGED <<stored, bin, trigger, born, purged, triggered, faults>>

Committed(r) == [i \in Ids |-> IF i \notin DOMAIN Fns(r) THEN stored[i]
                               ELSE IF Kind(r) = "remove" THEN None ELSE Fns(r)[i]]

\* Mutant: what is restored stays in the recycle bin.
CommitKeepsBin(r) ==
    /\ At(r, "commit")
    /\ stored' = Committed(r)
    /\ bin' = CASE Kind(r) = "remove" -> bin \cup Items(Fns(r), DOMAIN Fns(r))
                [] OTHER -> bin
    /\ trigger' = IF Kind(r) = "rename" /\ request[r].found
                    THEN (trigger \ (IF request[r].called THEN {Name(r)} ELSE {}))
                           \cup {request[r].to}
                    ELSE trigger
    /\ born' = born \cup DOMAIN Fns(r)
    /\ purged' = IF Kind(r) = "restore"
                   THEN purged \cup ({b.id : b \in request[r].items} \ DOMAIN Fns(r)) ELSE purged
    /\ Succeeded(r)
    /\ UNCHANGED <<publication, triggered, faults>>

Commit(r) ==
    /\ At(r, "commit")
    /\ stored' = Committed(r)
    /\ bin' = CASE Kind(r) = "remove" -> bin \cup Items(Fns(r), DOMAIN Fns(r))
                [] Kind(r) = "restore" -> bin \ request[r].items
                [] OTHER -> bin
    /\ trigger' = IF Kind(r) = "rename" /\ request[r].found
                    THEN (trigger \ (IF request[r].called THEN {Name(r)} ELSE {}))
                           \cup {request[r].to}
                    ELSE trigger
    /\ born' = born \cup DOMAIN Fns(r)
    /\ purged' = IF Kind(r) = "restore"
                   THEN purged \cup ({b.id : b \in request[r].items} \ DOMAIN Fns(r)) ELSE purged
    /\ Succeeded(r)
    /\ UNCHANGED <<publication, triggered, faults>>

\* Any command may fail, and the server may stop: a transaction is aborted, what was done
\* outside of it stays.
Fail(r) ==
    /\ Live(r)
    /\ faults' = faults + 1
    /\ Failed(r)
    /\ UNCHANGED <<publication, stored, bin, trigger, born, purged, triggered>>

-----------------------------------------------------------------------------
(* The recycle bin and the triggers *)

\* emptyRecycleBin, deleteFromRecycleBin; they wait for a transaction that restores.
Purge(ids) ==
    /\ \E b \in bin : b.id \in ids
    /\ ids \cap Locked = {}
    /\ bin' = {b \in bin : b.id \notin ids}
    /\ purged' = purged \cup {b.id : b \in {c \in bin : c.id \in ids}}
    /\ UNCHANGED <<publication, stored, trigger, request, born, triggered, torn, faults>>

CreateTrigger(n) ==
    /\ n \notin trigger
    /\ trigger' = trigger \cup {n} /\ triggered' = TRUE
    /\ UNCHANGED <<publication, stored, bin, request, born, purged, torn, faults>>

RequestStep(r) ==
    \/ Find(r) \/ Room(r) \/ CheckNew(r) \/ CheckNewName(r) \/ CheckItems(r)
    \/ InsertOne(r) \/ InsertItems(r) \/ Write(r) \/ Reread(r)
    \/ Move(r) \/ Retarget(r) \/ Take(r) \/ ReadBin(r) \/ Return(r)
    \/ PublishOne(r) \/ PublishRenamed(r) \/ PublishMany(r) \/ PublishItems(r)
    \/ UnpublishRemoved(r) \/ Commit(r)
=============================================================================
