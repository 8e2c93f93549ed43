------------------------- MODULE PublishedFunctions -------------------------
(***************************************************************************)
(* The collection of an application's database in which the control plane  *)
(* publishes the functions and which the runtime watches.  A publication   *)
(* is one transaction; its changes reach the runtime in order, through a   *)
(* change stream that may close and is opened again.                       *)
(***************************************************************************)
EXTENDS Integers, FiniteSets, Sequences, SequencesExt

CONSTANTS
    Ids,      \* identifiers of functions; the two databases use the same
    Names,
    Codes,
    None

VARIABLES
    published,  \* [Ids -> Doc or None]
    phase,      \* of the runtime: "down", "loading", "found" or "ready"
    stream,     \* its change stream: "open" or "closed"
    events,     \* changes the stream has not delivered
    missed,     \* ids of which the runtime did not see a change
    clashed     \* two published functions have had one name since the runtime first asked

publication == <<published, phase, stream, events, missed, clashed>>

Doc == [name : Names, code : Codes, compiled : Codes]
Docs == Doc \cup {None}
Has(coll, i) == coll[i] # None
Named(coll, names) == {i \in Ids : Has(coll, i) /\ coll[i].name \in names}

Clash(coll) == \E i, j \in Ids : i # j /\ Has(coll, i) /\ Has(coll, j) /\ coll[i].name = coll[j].name

\* What happened before the runtime's first query needs no event.
Listens == phase \in {"found", "ready"}

EventsOf(removed, inserted) ==
    SetToSeq({[type |-> "delete", id |-> i] : i \in removed})
        \o SetToSeq({[type |-> "insert", id |-> i] : i \in inserted})

Changed(removed, inserted) ==
    /\ events' = IF stream = "open" THEN events \o EventsOf(removed, inserted) ELSE events
    /\ missed' = IF stream # "open" /\ Listens THEN missed \cup removed \cup inserted
                                               ELSE missed
    /\ clashed' = (clashed \/ (Listens /\ Clash(published')))
    /\ UNCHANGED <<phase, stream>>

\* publish, publishMany and publishFunctionTemplateItems: what has one of the names goes,
\* fns : [ids -> Doc] comes.
Replaced(names, fns) ==
    [i \in Ids |-> IF i \in DOMAIN fns THEN fns[i]
                   ELSE IF i \in Named(published, names) THEN None ELSE published[i]]

\* insert of an _id that is there under another name
DuplicateKey(names, fns) == \E i \in DOMAIN fns : Has(published, i) /\ i \notin Named(published, names)

PublishAs(names, fns) ==
    /\ published' = Replaced(names, fns)
    /\ Changed(Named(published, names), DOMAIN fns)

\* unpublish: deleteOne
Unpublish(name) ==
    IF Named(published, {name}) = {}
      THEN UNCHANGED publication
      ELSE \E i \in Named(published, {name}) :
             /\ published' = [published EXCEPT ![i] = None]
             /\ Changed({i}, {})
=============================================================================
