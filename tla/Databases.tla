------------------------------ MODULE Databases ------------------------------
(***************************************************************************)
(* A task manager whose database can be exchanged: the operator edits      *)
(* state.sqlite_path in the configuration file and either restarts the     *)
(* process or reloads the configuration, which replaces the manager by one *)
(* with the other database (ai_bridge/server.py, _reload_config).  store,  *)
(* of module TaskManager, is the table of the database in service.         *)
(*                                                                         *)
(* A reload to another database awaits nothing that suspends (stop() has   *)
(* no coroutine to wait for), so no request comes between its steps; the   *)
(* process may still be killed between two commits of the new manager's    *)
(* mark_recovering.                                                        *)
(***************************************************************************)
EXTENDS TaskManager

CONSTANTS
  Database, \* the database files
  First     \* the one the configuration names at first

ASSUME DatabaseAssumption == First \in Database

VARIABLES
  path,  \* config file: state.sqlite_path
  db,    \* the database in service, or last in service
  shelf  \* the tables of the other databases

dbVars == <<vars, path, db, shelf>>

NoRows == [t \in Task |-> NoRow]

DbInit ==
  /\ Init
  /\ path = First /\ db = First
  /\ shelf = [d \in Database |-> NoRows]

-----------------------------------------------------------------------------
\* external: the operator edits the configuration file.
EditPath(d) ==
  /\ path' = d
  /\ UNCHANGED <<vars, db, shelf>>

Exchange ==
  /\ db' = path
  /\ store' = shelf[path]
  /\ shelf' = [shelf EXCEPT ![db] = store, ![path] = NoRows]
  /\ UNCHANGED path

\* create_app reads the path when the process starts.
BootElsewhere == path # db /\ Launch /\ Exchange

\* Slip: only coroutines whose POST is out count as active.
HasPostedTasks == \E t \in Task : bg[t] = "posted"

\* With an active task the reload is refused (409) and nothing changes.
HasActiveTasks == Live # {}

ReloadPossible == phase = "up" /\ path # db /\ ~HasActiveTasks

\* Slip: the new manager takes over before it has been started.
ReloadWithoutStart ==
  /\ ReloadPossible
  /\ Exchange
  /\ lost' = {}
  /\ UNCHANGED <<phase, bg, held, cancelled, finished, boots, posts, answers>>

(* Stop the old manager, open the other database and start a manager on it, *)
(* which marks and schedules what it finds there (MarkRecovering and       *)
(* FinishStart follow).  The metrics outlive the exchange.                 *)
ReloadState ==
  /\ ReloadPossible
  /\ Exchange
  /\ phase' = "starting"
  /\ lost' = {}
  /\ UNCHANGED <<bg, held, cancelled, finished, boots, posts, answers>>

(* sqlite raises while the new manager opens its database or marks its     *)
(* rows.  The old manager, although stopped, stays in service.             *)
ReloadStateFails ==
  /\ StoreFails /\ ReloadPossible
  /\ \E marked \in SUBSET {t \in Task :
                     shelf[path][t].state \in Recoverable \ QUEUED_STATES} :
       shelf' = [shelf EXCEPT ![path] = [t \in Task |->
                   IF t \in marked
                     THEN [shelf[path][t] EXCEPT !.state = RECOVERING,
                                                 !.dispatch = 0]
                     ELSE shelf[path][t]]]
  /\ UNCHANGED <<vars, path, db>>

(* A step of module TaskManager: a restart takes the database that the     *)
(* file names, and a new task draws an id that no database knows.          *)
ManagerStep ==
  /\ Next
  /\ boots' # boots => path = db
  /\ \A t \in Task, d \in Database :
       shelf[d][t].state # Absent => store'[t].state = Absent
  /\ UNCHANGED <<path, db, shelf>>

DbNext ==
  \/ ManagerStep
  \/ \E d \in Database \ {path} : EditPath(d)
  \/ BootElsewhere \/ ReloadState \/ ReloadStateFails

DbSpec == DbInit /\ [][DbNext]_dbVars

-----------------------------------------------------------------------------
(* Properties.                                                             *)

\* The rows of all databases together: every task has one row at most.
RowAnywhere(t) ==
  LET homes == {d \in Database : shelf[d][t].state # Absent}
  IN IF homes = {} THEN store[t] ELSE shelf[CHOOSE d \in homes : TRUE][t]

Whole == INSTANCE TaskManager WITH store <- [t \in Task |-> RowAnywhere(t)]

(* Over all databases together the bridge still keeps the contract of      *)
(* DurableTask: an exchange, also one that fails half way, ends no task,   *)
(* forgets none, and asks no worker again for a task that may not be       *)
(* replayed, however often the operator goes back and forth                *)
(* (_reload_config, has_active_tasks, mark_recovering).                    *)
KeepsContract == Whole!ImplementsContract

(* A reload never leaves behind a task that the bridge was to work on:     *)
(* what stays unfinished in the old database waits for an operator or lost *)
(* its coroutine before (the 409 of _reload_config).                       *)
NothingStranded ==
  [][phase = "up" /\ db' # db =>
       \A t \in Task \ Legacy : Unsettled(t) => Deferred(t) \/ t \in lost]_dbVars

=============================================================================
