--------------------------- MODULE FunctionCache ----------------------------
(***************************************************************************)
(* What a runtime keeps of the published functions: their documents, by    *)
(* name, and the modules compiled from them.  It opens a change stream,    *)
(* queries all functions, and from then on follows the stream; the         *)
(* document of an insert is read again, asynchronously.                    *)
(***************************************************************************)
EXTENDS PublishedFunctions

CONSTANTS
    Library,    \* a name that other functions import
    Importers,  \* those that do
    Reads       \* reads of inserted documents that may be under way

ASSUME ImportAssumption == Library \in Names /\ Importers \subseteq Names \ {Library}

VARIABLES
    cache,      \* FunctionCache: [Names -> Entry or None]
    snapshot,   \* what initialize() has found
    read,       \* [Reads -> [id, got, doc]]; id is None of one that is free
    module,     \* FunctionModule: what the compiled module of a name is made of; {} if none
    overtaken   \* an event was handled, or lost, while an older read of its function was on
                \* its way

runtime == <<cache, snapshot, read, module, overtaken>>

Entry == [id : Ids, doc : Doc]
NoRead == [id |-> None, got |-> FALSE, doc |-> None]
Uncompiled == [n \in Names |-> {}]

ASSUME EntryAssumption == None \notin Entry

CacheInit ==
    /\ phase = "down" /\ stream = "closed" /\ events = <<>> /\ missed = {}
    /\ clashed = FALSE
    /\ cache = [n \in Names |-> None]
    /\ snapshot = [i \in Ids |-> None]
    /\ read = [k \in Reads |-> NoRead]
    /\ module = Uncompiled
    /\ overtaken = FALSE

-----------------------------------------------------------------------------
(* The stream and the first query *)

\* A process starts: the collection is about to be watched and queried.
Start ==
    /\ phase = "down"
    /\ phase' = "loading"
    /\ UNCHANGED <<published, clashed, stream, events, missed, runtime>>

\* The cursor of watch(), when first asked for and after each interval.
OpenStream ==
    /\ phase # "down" /\ stream = "closed"
    /\ stream' = "open"
    /\ UNCHANGED <<published, clashed, phase, events, missed, runtime>>

CloseStream ==
    /\ stream = "open"
    /\ stream' = "closed" /\ events' = <<>>
    /\ missed' = IF Listens THEN missed \cup {events[k].id : k \in 1..Len(events)} ELSE missed
    /\ UNCHANGED <<published, clashed, phase, runtime>>

Query ==
    /\ phase = "loading"
    /\ phase' = "found"
    /\ snapshot' = published
    /\ missed' = {} /\ clashed' = Clash(published)
    /\ UNCHANGED <<published, stream, events, cache, read, module, overtaken>>

\* Mutant: the listener is registered, the found functions are not stored.
RegisterOnly ==
    /\ phase = "found"
    /\ phase' = "ready"
    /\ snapshot' = [i \in Ids |-> None]
    /\ UNCHANGED <<published, clashed, stream, events, missed, cache, read, module, overtaken>>

\* The found functions are stored and the listener registered.
Register ==
    /\ phase = "found"
    /\ phase' = "ready"
    /\ \E last \in [Names -> Ids \cup {None}] :
         /\ \A n \in Names : IF Named(snapshot, {n}) = {} THEN last[n] = None
                                                          ELSE last[n] \in Named(snapshot, {n})
         /\ cache' = [n \in Names |-> IF last[n] = None THEN None
                                      ELSE [id |-> last[n], doc |-> snapshot[last[n]]]]
    /\ snapshot' = [i \in Ids |-> None]
    /\ UNCHANGED <<published, clashed, stream, events, missed, read, module, overtaken>>

-----------------------------------------------------------------------------
(* streamChange *)

\* Without a listener the event is dropped.
Drop ==
    /\ events # <<>> /\ phase \in {"loading", "found"}
    /\ events' = Tail(events)
    /\ missed' = IF Listens THEN missed \cup {Head(events).id} ELSE missed
    /\ UNCHANGED <<published, clashed, phase, stream, runtime>>

Handled(type) == events # <<>> /\ phase = "ready" /\ Head(events).type = type /\ events' = Tail(events)
Overtakes(i) == \E k \in Reads : read[k].id = i /\ read[k].got

\* Mutant: only the module of the function itself is forgotten.
HandleDeleteOwn ==
    /\ Handled("delete")
    /\ LET i == Head(events).id
           of == {n \in Names : cache[n] # None /\ cache[n].id = i} IN
         /\ cache' = [n \in Names |-> IF n \in of THEN None ELSE cache[n]]
         /\ module' = [n \in Names |-> IF n \in of THEN {} ELSE module[n]]
         /\ missed' = missed \ {i}
         /\ overtaken' = (overtaken \/ Overtakes(i))
    /\ UNCHANGED <<published, clashed, phase, stream, snapshot, read>>

HandleDelete ==
    /\ Handled("delete")
    /\ LET i == Head(events).id IN
         /\ cache' = [n \in Names |-> IF cache[n] # None /\ cache[n].id = i THEN None ELSE cache[n]]
         /\ module' = Uncompiled
         /\ missed' = missed \ {i}
         /\ overtaken' = (overtaken \/ Overtakes(i))
    /\ UNCHANGED <<published, clashed, phase, stream, snapshot, read>>

HandleInsert ==
    /\ Handled("insert")
    /\ \E k \in Reads :
         /\ read[k] = NoRead
         /\ read' = [read EXCEPT ![k] = [id |-> Head(events).id, got |-> FALSE, doc |-> None]]
    /\ UNCHANGED <<published, clashed, phase, stream, missed, cache, snapshot, module, overtaken>>

FindById(k) ==
    /\ read[k] # NoRead /\ ~read[k].got
    /\ read' = [read EXCEPT ![k].got = TRUE, ![k].doc = published[read[k].id]]
    /\ UNCHANGED <<publication, cache, snapshot, module, overtaken>>

\* An event of this function was lost, and another has its name.
Supplants(k) ==
    /\ read[k].doc # None /\ read[k].id \in missed
    /\ LET old == cache[read[k].doc.name] IN old # None /\ old.id # read[k].id

\* A function that is gone again gives an exception, which is logged.
Store(k) ==
    /\ read[k].got
    /\ cache' = IF read[k].doc = None THEN cache
                ELSE [cache EXCEPT ![read[k].doc.name] = [id |-> read[k].id, doc |-> read[k].doc]]
    /\ read' = [read EXCEPT ![k] = NoRead]
    /\ overtaken' = (overtaken \/ Supplants(k))
    /\ UNCHANGED <<publication, snapshot, module>>

-----------------------------------------------------------------------------
(* FunctionModule.get *)

Compiled(n) == module[n] # {}
Imports(n) == IF n \in Importers THEN {Library} ELSE {}

\* An invocation compiles what it needs and finds; a missing import gives an exception.
Invoke(n) ==
    /\ ~Compiled(n) /\ cache[n] # None
    /\ \A m \in Imports(n) : Compiled(m) \/ cache[m] # None
    /\ LET imported == [m \in Imports(n) |-> IF Compiled(m) THEN module[m] ELSE {cache[m]}] IN
         module' = [m \in Names |->
             CASE m = n -> {cache[n]} \cup UNION {imported[k] : k \in Imports(n)}
               [] m \in Imports(n) -> imported[m]
               [] OTHER -> module[m]]
    /\ UNCHANGED <<publication, cache, snapshot, read, overtaken>>

\* The process ends, with its connections.
Stop ==
    /\ phase # "down"
    /\ phase' = "down" /\ stream' = "closed" /\ events' = <<>> /\ missed' = {}
    /\ cache' = [n \in Names |-> None]
    /\ snapshot' = [i \in Ids |-> None]
    /\ read' = [k \in Reads |-> NoRead]
    /\ module' = Uncompiled
    /\ overtaken' = FALSE /\ clashed' = FALSE
    /\ UNCHANGED published

CacheStep ==
    \/ Query \/ Register \/ Drop \/ HandleDelete \/ HandleInsert
    \/ \E k \in Reads : FindById(k) \/ Store(k)
    \/ \E n \in Names : Invoke(n)

-----------------------------------------------------------------------------
(* Properties *)

CacheTypeOK ==
    /\ published \in [Ids -> Docs]
    /\ phase \in {"down", "loading", "found", "ready"}
    /\ stream \in {"open", "closed"}
    /\ events \in Seq([type : {"delete", "insert"}, id : Ids])
    /\ missed \subseteq Ids
    /\ cache \in [Names -> Entry \cup {None}]
    /\ \A n \in Names : cache[n] # None => cache[n].doc.name = n
    /\ snapshot \in [Ids -> Docs]
    /\ read \in [Reads -> [id : Ids \cup {None}, got : BOOLEAN, doc : Docs]]
    /\ module \in [Names -> SUBSET Entry]
    /\ overtaken \in BOOLEAN /\ clashed \in BOOLEAN

Settled ==
    /\ phase = "ready" /\ stream = "open" /\ events = <<>>
    /\ \A k \in Reads : read[k] = NoRead

\* A runtime that has nothing left to handle knows the published functions, unless an
\* event was lost, while it started or its stream was closed, a read was overtaken, or two
\* functions had one name.  A function of which an event was lost is right again after its
\* next publication.
CacheAgrees ==
    Settled /\ ~overtaken /\ ~clashed =>
        \A i \in Ids \ missed :
            /\ Has(published, i) => cache[published[i].name] = [id |-> i, doc |-> published[i]]
            /\ \A n \in Names : cache[n] # None /\ cache[n].id = i =>
                 published[i] = cache[n].doc

\* Nor does it run a module that was compiled from anything older, be it for an import.
ModulesAreCurrent ==
    Settled /\ ~overtaken /\ ~clashed =>
        \A n \in Names : \A e \in module[n] : e.id \in missed \/ cache[e.doc.name] = e
=============================================================================
