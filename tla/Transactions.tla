---------------------------- MODULE Transactions ----------------------------
(***************************************************************************)
(* What the multi-document transactions of the system database promise:    *)
(* a transaction reads one snapshot, taken by its first operation, its     *)
(* writes appear together when it commits, and it is aborted when a        *)
(* document it writes has changed since its snapshot.                      *)
(***************************************************************************)
EXTENDS Naturals

CONSTANTS Handlers  \* who may have a transaction open

VARIABLES
    writes,  \* writes[h]: the documents the open transaction of h will write
    stale    \* the handlers whose transaction can no longer commit

txnVars == <<writes, stale>>

TxnInit == writes = [h \in Handlers |-> {}] /\ stale = {}

Overtaken(docs) == {h \in Handlers : writes[h] \cap docs # {}}

TxnBegin(h, docs) ==
    /\ writes' = [writes EXCEPT ![h] = docs]
    /\ stale' = stale \ {h}

TxnCommit(h) ==
    /\ h \notin stale
    /\ writes' = [writes EXCEPT ![h] = {}]
    /\ stale' = (stale \cup Overtaken(writes[h])) \ {h}

TxnEnd(h) ==
    /\ writes' = [writes EXCEPT ![h] = {}]
    /\ stale' = stale \ {h}

\* A write outside any transaction, or inside one that begins and commits in this step.
TxnWrite(docs) ==
    /\ stale' = stale \cup Overtaken(docs)
    /\ UNCHANGED writes
=============================================================================
