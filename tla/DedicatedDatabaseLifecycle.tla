--------------------- MODULE DedicatedDatabaseLifecycle ---------------------
(***************************************************************************)
(* What the DedicatedDatabase document of an application promises to its   *)
(* users: the moves of state and phase its own task can make, without the  *)
(* lock, the handlers and the cluster behind them.                         *)
(***************************************************************************)
CONSTANT HasDedicatedDatabase  \* does the bundle ask for a dedicated database?

ASSUME DedicatedAssumption == HasDedicatedDatabase \in BOOLEAN

DdbStates == {"Running", "Stopped", "Restarting", "Deleted"}
\* "None" says that there is no document.
DdbPhases == {"None", "Starting", "Started", "Stopping", "Stopped",
              "Deleting", "Deleted"}

VARIABLE ddb  \* [state, phase]

DdbExists == ddb.phase # "None"
NoDdb == [state |-> "Deleted", phase |-> "None"]

\* DedicatedDatabaseService.create, inside the transaction that creates the application.
DdbInit == ddb = IF HasDedicatedDatabase
                   THEN [state |-> "Running", phase |-> "Starting"]
                   ELSE NoDdb

DdbMove(states, from, phase) ==
    /\ ddb.state \in states
    /\ ddb.phase \in from
    /\ ddb' = [ddb EXCEPT !.phase = phase]

\* The five handlers of the states, and the ends of Stopping and Deleting.
DdbStop    == DdbMove({"Stopped", "Restarting"}, {"Started"}, "Stopping")
DdbStart   == DdbMove({"Running", "Restarting"}, {"Stopped"}, "Starting")
DdbDelete  == DdbMove({"Deleted"}, {"Started", "Stopped"}, "Deleting")
DdbStopped == DdbMove(DdbStates, {"Stopping"}, "Stopped")
DdbDeleted == DdbMove(DdbStates, {"Deleting"}, "Deleted")

\* Starting ends with the state the handler read, which may be out of date
\* by now, or after five minutes with state Stopped.
DdbStarted ==
    /\ ddb.phase = "Starting"
    /\ \E s \in {"Running", "Stopped"} :
         ddb' = [state |-> s, phase |-> "Started"]
DdbTimeout ==
    /\ ddb.phase = "Starting"
    /\ ddb' = [state |-> "Stopped", phase |-> "Stopping"]

DdbPurge ==
    /\ ddb = [state |-> "Deleted", phase |-> "Deleted"]
    /\ ddb' = NoDdb

DdbTask == \/ DdbStop \/ DdbStart \/ DdbDelete \/ DdbStopped
           \/ DdbDeleted \/ DdbStarted \/ DdbTimeout \/ DdbPurge

\* DedicatedDatabaseService.updateState and remove.
DdbUpdateState(state) == ddb' = IF DdbExists THEN [ddb EXCEPT !.state = state] ELSE ddb
DdbRemove == ddb' = IF DdbExists THEN [state |-> "Deleted", phase |-> "Deleting"] ELSE ddb

DdbNext == \/ DdbTask
           \/ \E s \in DdbStates \ {"Deleted"} : DdbUpdateState(s)
           \/ DdbRemove
DdbSpec == DdbInit /\ [][DdbNext]_ddb
=============================================================================
