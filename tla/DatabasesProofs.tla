--------------------------- MODULE DatabasesProofs ---------------------------
(***************************************************************************)
(* The contract over all databases together, and that a reload strands no  *)
(* task, for any number of databases, tasks and exchanges.  The steps of   *)
(* the manager are those of TaskManagerProofs; what is added is the tables *)
(* out of service.                                                         *)
(***************************************************************************)
EXTENDS Databases, TaskManagerProofs

\* A row as far as the contract and recovery look at it.
RowReplayable(row) ==
  Policy = "always" \/ (Policy = "idempotent" /\ Truthy(row.key))

RowLife(row) == IF row.state = Absent THEN "absent"
                ELSE IF row.state \in TERMINAL_STATES THEN row.state
                ELSE "open"

Homeless(t) == \A d \in Database : shelf[d][t].state = Absent

(* What a row keeps while its database is out of service.  An exchange     *)
(* happens without coroutines, so this is all that the manager needs to    *)
(* find when the table comes back.                                         *)
Shelved(t, row) ==
  /\ row \in Row /\ row.state # RETRYING
  /\ row.state = Absent => row.key = None
  /\ row.state # Absent =>
       /\ t \notin Legacy => row.wd
       /\ row.state = PENDING => posts[t] = 0 \/ RowReplayable(row)
       /\ ~RowReplayable(row) => posts[t] <= 1

ShelfInv ==
  /\ path \in Database /\ db \in Database
  /\ shelf \in [Database -> [Task -> Row]]
  /\ \A d \in Database, t \in Task : Shelved(t, shelf[d][t])

\* A task has one row at most, and the database in service is on no shelf.
HomeInv ==
  \A d \in Database, t \in Task :
    /\ d = db => shelf[d][t].state = Absent
    /\ shelf[d][t].state # Absent =>
         /\ store[t].state = Absent
         /\ \A e \in Database : e # d => shelf[e][t].state = Absent

\* The invariants of the manager; OnceOf for the rows that are here.
ServiceInv ==
  /\ HandleInv /\ DirectoryKnown /\ CareInv
  /\ \A t \in Task : store[t].state = Absent => store[t].key = None
  /\ \A t \in Task : Homeless(t) => OnceOf(t)

DbInv == ShelfInv /\ HomeInv /\ ServiceInv

LEMMA EmptyRow == NoRow \in Row /\ NoRow.state = Absent /\ NoRow.key = None
BY RowTypes DEF NoRow

LEMMA DbInvInit == DbInit => DbInv
<1>. SUFFICES ASSUME DbInit PROVE DbInv
  OBVIOUS
<1>1. /\ Init /\ path \in Database /\ db \in Database
      /\ shelf = [d \in Database |-> [t \in Task |-> NoRow]]
  BY DatabaseAssumption DEF DbInit, NoRows
<1>2. ShelfInv
  BY <1>1, EmptyRow DEF ShelfInv, Shelved, Absent, RETRYING
<1>3. HomeInv
  BY <1>1, EmptyRow DEF HomeInv
<1>4. HandleInv /\ DirectoryKnown /\ CareInv
  BY <1>1, TypeInit, HandleInit, DirectoryInit, CareInit DEF HandleInv
<1>5. ASSUME NEW t \in Task, store[t].state = Absent PROVE store[t].key = None
  <2>1. store[t] \in {NoRow} \cup LegacyRows
    BY <1>1 DEF Init
  <2>2. \A row \in LegacyRows : row.state # Absent
    BY LegacyShape
  <2>. QED
    BY <1>5, <2>1, <2>2, EmptyRow
<1>. QED
  BY <1>1, <1>2, <1>3, <1>4, <1>5, OnceInit DEF DbInv, ServiceInv

-----------------------------------------------------------------------------
(* A step of the manager leaves the shelves alone and works on rows that   *)
(* are here.                                                               *)

LEMMA RowsStay ==
  ASSUME HandleInv, [Next]_vars, NEW t \in Task
  PROVE  /\ store[t].state # Absent => store'[t].state # Absent
         /\ store'[t].state = Absent => store'[t].key = store[t].key
         /\ posts'[t] # posts[t] => store[t].state # Absent
<1>1. Effect(t)
  BY Effects
<1>2. CASE Created(t)
  BY <1>2 DEF Created, NewRow, NoRow, PENDING, Absent
<1>3. CASE Posted(t)
  BY <1>3 DEF Posted, HandleInv, HandlesMatchRows, RUNNING, Absent
<1>. QED
  BY <1>1, <1>2, <1>3
     DEF Effect, Kept, Scheduled, Recovered, Dispatched, Ended, SameKey

LEMMA ManagerStepKeeps == DbInv /\ ManagerStep => DbInv'
<1>. SUFFICES ASSUME DbInv, ManagerStep PROVE DbInv'
  OBVIOUS
<1>. USE DEF DbInv
<1>1. /\ Next /\ UNCHANGED <<path, db, shelf>>
      /\ \A t \in Task, d \in Database :
           shelf[d][t].state # Absent => store'[t].state = Absent
  BY DEF ManagerStep
<1>2. HandleInv /\ DirectoryKnown /\ CareInv
  BY DEF ServiceInv
<1>3. HandleInv'
  BY <1>1, <1>2, TypeStep, HandleStep DEF HandleInv
<1>4. DirectoryKnown' /\ CareInv'
  BY <1>1, <1>2, DirectoryStep, CareStep
<1>5. HomeInv'
  BY <1>1 DEF HomeInv
<1>6. ASSUME NEW t \in Task, NEW d \in Database, shelf[d][t].state # Absent
      PROVE  posts'[t] = posts[t]
  BY <1>1, <1>2, <1>6, RowsStay DEF HomeInv
<1>7. ShelfInv'
  BY <1>1, <1>6 DEF ShelfInv, Shelved, RowReplayable
<1>8. \A t \in Task : store'[t].state = Absent => store'[t].key = None
  BY <1>1, <1>2, RowsStay DEF ServiceInv
<1>9. \A t \in Task : Homeless(t)' => OnceOf(t)'
  <2>. SUFFICES ASSUME NEW t \in Task, Homeless(t)' PROVE OnceOf(t)'
    OBVIOUS
  <2>1. OnceOf(t)
    BY <1>1 DEF Homeless, ServiceInv
  <2>. QED
    BY <1>1, <1>2, <2>1, OnceStep
<1>. QED
  BY <1>3, <1>4, <1>5, <1>7, <1>8, <1>9 DEF ServiceInv

-----------------------------------------------------------------------------
(* An exchange.                                                            *)

\* Where the rows go; nothing else changes than phase, boots, lost, finished.
LEMMA Exchanged ==
  ASSUME DbInv, path # db, Exchange
  PROVE  /\ \A t \in Task : store'[t] = shelf[path][t]
         /\ \A t \in Task : shelf'[path][t] = NoRow /\ shelf'[db][t] = store[t]
         /\ \A d \in Database : d \notin {path, db} => shelf'[d] = shelf[d]
         /\ store' \in [Task -> Row] /\ shelf' \in [Database -> [Task -> Row]]
         /\ db' = path /\ path' = path
<1>1. /\ path \in Database /\ db \in Database
      /\ shelf \in [Database -> [Task -> Row]] /\ store \in [Task -> Row]
  BY DEF DbInv, ShelfInv, ServiceInv, HandleInv, TypeInv, TypeOK
<1>2. NoRows \in [Task -> Row] /\ \A t \in Task : NoRows[t] = NoRow
  BY EmptyRow DEF NoRows
<1>. QED
  BY <1>1, <1>2 DEF Exchange

LEMMA ExchangeKeeps ==
  ASSUME DbInv, path # db, Exchange, Live = {}, phase' = "starting",
         lost' = {}, boots' \in Nat, finished' \in [Task -> Nat],
         UNCHANGED <<bg, held, cancelled, posts, answers>>
  PROVE  DbInv'
<1>. USE DEF DbInv
<1>1. HandleInv /\ TypeOK /\ ShelfInv /\ HomeInv /\ ServiceInv
  BY DEF ServiceInv, HandleInv, TypeInv
<1>2. cancelled = {} /\ \A t \in Task : bg[t] = "none"
  BY <1>1 DEF TypeOK, Live
<1>3. path \in Database /\ db \in Database
  BY <1>1 DEF ShelfInv
<1>4. TypeInv'
  BY <1>1, <1>2, Exchanged DEF TypeInv, TypeOK, NoHandlesWhileDown, Live
<1>5. HandlesMatchRows'
  BY <1>2, <1>1, <1>3, Exchanged
     DEF HandlesMatchRows, NoHandlesWhileDown, Live, Runs, ShelfInv, Shelved
<1>6. DirectoryKnown' /\ CareInv'
  BY <1>1, <1>3, Exchanged DEF DirectoryKnown, CareInv, ShelfInv, Shelved
<1>7. \A t \in Task : store'[t].state = Absent => store'[t].key = None
  BY <1>1, <1>3, Exchanged DEF ShelfInv, Shelved
<1>8. HomeInv'
  <2>1. NoRow.state = Absent
    BY EmptyRow
  <2>2. \A d \in Database, t \in Task : d = path => shelf'[d][t].state = Absent
    BY <2>1, Exchanged
  <2>3. ASSUME NEW d \in Database, NEW t \in Task, shelf'[d][t].state # Absent
        PROVE  /\ store'[t].state = Absent
               /\ \A e \in Database : e # d => shelf'[e][t].state = Absent
    <3>1. d # path
      BY <2>2, <2>3
    <3>2. CASE d = db
      <4>1. store[t].state # Absent
        BY <2>3, <3>2, Exchanged
      <4>2. \A e \in Database : shelf[e][t].state = Absent
        BY <1>1, <4>1 DEF HomeInv
      <4>. QED
        BY <1>3, <2>2, <3>2, <4>2, Exchanged
    <3>3. CASE d # db
      <4>1. shelf[d][t].state # Absent
        BY <2>3, <3>1, <3>3, Exchanged
      <4>2. /\ store[t].state = Absent
            /\ \A e \in Database : e # d => shelf[e][t].state = Absent
        BY <1>1, <4>1 DEF HomeInv
      <4>3. store'[t].state = Absent
        BY <1>3, <3>1, <4>2, Exchanged
      <4>4. ASSUME NEW e \in Database, e # d PROVE shelf'[e][t].state = Absent
        BY <2>2, <4>2, <4>4, Exchanged
      <4>. QED
        BY <4>3, <4>4
    <3>. QED
      BY <3>2, <3>3
  <2>4. db' = path
    BY Exchanged
  <2>. QED
    BY <2>2, <2>3, <2>4 DEF HomeInv
<1>9. ASSUME NEW t \in Task, Homeless(t)' PROVE OnceOf(t)'
  <2>1. store[t].state = Absent
    BY <1>3, <1>9, Exchanged DEF Homeless
  <2>2. \A d \in Database : d # path => shelf[d][t].state = Absent
    BY <1>1, <1>3, <1>9, Exchanged DEF Homeless, HomeInv
  <2>3. CASE shelf[path][t].state = Absent
    <3>1. OnceOf(t)
      BY <1>1, <2>2, <2>3 DEF Homeless, ServiceInv
    <3>2. posts[t] = 0
      BY <2>1, <3>1 DEF OnceOf
    <3>. QED
      BY <1>2, <3>2, Exchanged DEF OnceOf
  <2>4. CASE shelf[path][t].state # Absent
    <3>1. Shelved(t, store'[t])
      BY <1>1, <1>3, Exchanged DEF ShelfInv
    <3>2. store'[t].state # Absent /\ bg'[t] = "none" /\ posts'[t] = posts[t]
      BY <1>2, <2>4, Exchanged
    <3>. QED
      BY <3>1, <3>2 DEF Shelved, OnceOf, Replayable, RowReplayable
  <2>. QED
    BY <2>3, <2>4
<1>10. ShelfInv'
  <2>1. ASSUME NEW t \in Task PROVE Shelved(t, store[t])
    <3>1. /\ store[t] \in Row /\ store[t].state # RETRYING
          /\ store[t].state = Absent => store[t].key = None
          /\ t \notin Legacy /\ store[t].state # Absent => store[t].wd
      BY <1>1 DEF TypeOK, HandleInv, HandlesMatchRows, ServiceInv,
         DirectoryKnown
    <3>2. store[t].state # Absent => OnceOf(t)
      BY <1>1 DEF HomeInv, Homeless, ServiceInv
    <3>. QED
      BY <3>1, <3>2 DEF Shelved, OnceOf, Replayable, RowReplayable
  <2>2. \A t \in Task : Shelved(t, NoRow)
    BY EmptyRow DEF Shelved, Absent, RETRYING
  <2>3. \A t \in Task, row \in Row : Shelved(t, row)' <=> Shelved(t, row)
    BY DEF Shelved, RowReplayable
  <2>4. ASSUME NEW d \in Database, NEW t \in Task PROVE Shelved(t, shelf'[d][t])
    BY <1>1, <2>1, <2>2, <1>3, Exchanged DEF ShelfInv
  <2>. QED
    BY <1>3, <2>3, <2>4, Exchanged DEF ShelfInv, Shelved
<1>. QED
  BY <1>4, <1>5, <1>6, <1>7, <1>8, <1>9, <1>10 DEF ServiceInv, HandleInv

\* Rows that the failing start of a new manager has marked already.
LEMMA FailedReloadRows ==
  ASSUME DbInv, ReloadStateFails
  PROVE  /\ UNCHANGED <<vars, path, db>>
         /\ shelf' \in [Database -> [Task -> Row]]
         /\ \A d \in Database, t \in Task :
              \/ shelf'[d][t] = shelf[d][t]
              \/ /\ d = path /\ shelf[d][t].state = RUNNING
                 /\ shelf'[d][t] = [shelf[d][t] EXCEPT !.state = RECOVERING,
                                                       !.dispatch = 0]
<1>1. /\ path \in Database /\ shelf \in [Database -> [Task -> Row]]
      /\ \A d \in Database, t \in Task : shelf[d][t].state # RETRYING
  BY DEF DbInv, ShelfInv, Shelved
<1>2. UNCHANGED <<vars, path, db>>
  BY DEF ReloadStateFails
<1>3. PICK marked \in SUBSET {t \in Task :
                     shelf[path][t].state \in Recoverable \ QUEUED_STATES} :
        shelf' = [shelf EXCEPT ![path] = [t \in Task |->
                    IF t \in marked
                      THEN [shelf[path][t] EXCEPT !.state = RECOVERING,
                                                  !.dispatch = 0]
                      ELSE shelf[path][t]]]
  BY DEF ReloadStateFails
<1>4. \A t \in marked : shelf[path][t].state = RUNNING
  BY <1>1, <1>3 DEF Recoverable, QUEUED_STATES
<1>5. ASSUME NEW t \in Task
      PROVE  [shelf[path][t] EXCEPT !.state = RECOVERING, !.dispatch = 0] \in Row
  <2>1. shelf[path][t] \in Row /\ RECOVERING \in TaskStates
    BY <1>1, StateTypes
  <2>. QED
    BY <2>1 DEF Row
<1>6. [t \in Task |-> IF t \in marked
                        THEN [shelf[path][t] EXCEPT !.state = RECOVERING,
                                                    !.dispatch = 0]
                        ELSE shelf[path][t]] \in [Task -> Row]
  BY <1>1, <1>5
<1>. QED
  BY <1>1, <1>2, <1>3, <1>4, <1>6

LEMMA FailedReloadKeeps == DbInv /\ ReloadStateFails => DbInv'
<1>. SUFFICES ASSUME DbInv, ReloadStateFails PROVE DbInv'
  OBVIOUS
<1>1. /\ UNCHANGED <<vars, path, db>> /\ path \in Database
      /\ ShelfInv /\ HomeInv /\ ServiceInv
  BY FailedReloadRows DEF DbInv, ShelfInv
<1>2. ASSUME NEW d \in Database, NEW t \in Task
      PROVE  /\ Shelved(t, shelf'[d][t])
             /\ shelf'[d][t].state = Absent <=> shelf[d][t].state = Absent
  <2>1. Shelved(t, shelf[d][t]) /\ shelf[d][t] \in Row
    BY <1>1 DEF ShelfInv
  <2>2. CASE shelf'[d][t] = shelf[d][t]
    BY <2>1, <2>2
  <2>3. CASE /\ shelf[d][t].state = RUNNING
             /\ shelf'[d][t] = [shelf[d][t] EXCEPT !.state = RECOVERING,
                                                   !.dispatch = 0]
    <3>1. /\ shelf'[d][t].state = RECOVERING
          /\ shelf'[d][t].key = shelf[d][t].key
          /\ shelf'[d][t].wd = shelf[d][t].wd
      BY <2>1, <2>3 DEF Row
    <3>2. shelf'[d][t] \in Row
      <4>1. [shelf[d][t] EXCEPT !.state = RECOVERING, !.dispatch = 0] \in Row
        BY <2>1, StateTypes, RowEdits
      <4>. QED
        BY <2>3, <4>1
    <3>. QED
      BY <2>1, <2>3, <3>1, <3>2
         DEF Shelved, RowReplayable, RECOVERING, RETRYING, PENDING, RUNNING,
             Absent
  <2>. QED
    BY <2>2, <2>3, FailedReloadRows
<1>3. ShelfInv'
  BY <1>1, <1>2, FailedReloadRows DEF ShelfInv, Shelved, RowReplayable, vars
<1>4. HomeInv'
  BY <1>1, <1>2 DEF HomeInv, vars
<1>5. \A t \in Task : Homeless(t)' => Homeless(t)
  BY <1>2 DEF Homeless
<1>6. (HandleInv /\ DirectoryKnown /\ CareInv)'
  BY <1>1 DEF ServiceInv, HandleInv, TypeInv, TypeOK, NoHandlesWhileDown,
     HandlesMatchRows, DirectoryKnown, CareInv, Cared, Live, Settled, Runs,
     Deferred, Replayable, vars
<1>7. \A t \in Task : OnceOf(t)' <=> OnceOf(t)
  BY <1>1 DEF OnceOf, Replayable, vars
<1>. QED
  BY <1>1, <1>3, <1>4, <1>5, <1>6, <1>7 DEF DbInv, ServiceInv, vars

LEMMA DbInvariant == DbSpec => []DbInv
<1>1. DbInv /\ [DbNext]_dbVars => DbInv'
  <2>. SUFFICES ASSUME DbInv, [DbNext]_dbVars PROVE DbInv'
    OBVIOUS
  <2>0. TypeOK /\ NoHandlesWhileDown
    BY DEF DbInv, ServiceInv, HandleInv, TypeInv
  <2>1. CASE ManagerStep
    BY <2>1, ManagerStepKeeps
  <2>2. ASSUME UNCHANGED <<vars, db, shelf>>, path' \in Database
        PROVE  DbInv'
    <3>1. (HandleInv /\ DirectoryKnown /\ CareInv)'
      BY <2>2 DEF DbInv, ServiceInv, HandleInv, TypeInv, TypeOK,
         NoHandlesWhileDown, HandlesMatchRows, DirectoryKnown, CareInv, Cared,
         Live, Settled, Runs, Deferred, Replayable, vars
    <3>2. \A t \in Task : /\ OnceOf(t)' <=> OnceOf(t)
                          /\ Homeless(t)' <=> Homeless(t)
      BY <2>2 DEF OnceOf, Replayable, Homeless, vars
    <3>3. ShelfInv' /\ HomeInv'
      BY <2>2 DEF DbInv, ShelfInv, Shelved, RowReplayable, HomeInv, vars
    <3>. QED
      BY <2>2, <3>1, <3>2, <3>3 DEF DbInv, ServiceInv, vars
  <2>3. CASE BootElsewhere
    <3>1. Live = {}
      BY <2>0, <2>3 DEF BootElsewhere, Launch, NoHandlesWhileDown
    <3>2. finished' \in [Task -> Nat] /\ boots' \in Nat
      BY <2>0, <2>3 DEF BootElsewhere, Launch, TypeOK
    <3>. QED
      BY <2>3, <3>1, <3>2, ExchangeKeeps DEF BootElsewhere, Launch
  <2>4. CASE ReloadState
    BY <2>0, <2>4, ExchangeKeeps
       DEF ReloadState, ReloadPossible, HasActiveTasks, TypeOK
  <2>5. CASE ReloadStateFails
    BY <2>5, FailedReloadKeeps
  <2>6. ASSUME NEW d \in Database, EditPath(d) PROVE DbInv'
    BY <2>2, <2>6 DEF EditPath
  <2>7. CASE UNCHANGED dbVars
    BY <2>2, <2>7 DEF dbVars, DbInv, ShelfInv
  <2>. QED
    BY <2>1, <2>3, <2>4, <2>5, <2>6, <2>7 DEF DbNext
<1>. QED
  BY <1>1, DbInvInit, PTL DEF DbSpec

(* Whichever database is in service, an open task of it has a coroutine,   *)
(* was deferred by policy or met an sqlite error.                          *)
THEOREM NoTaskOrphanedHere == DbSpec => []NoOrphan
<1>1. DbInv => NoOrphan
  BY CareMeansNoOrphan DEF DbInv, ServiceInv, HandleInv, TypeInv
<1>. QED
  BY <1>1, DbInvariant, PTL

(* A reload to another database leaves behind no task that the bridge was  *)
(* to work on.                                                             *)
THEOREM ReloadsStrandNothing == DbSpec => NothingStranded
<1>1. DbInv /\ [DbNext]_dbVars =>
        [phase = "up" /\ db' # db =>
           \A t \in Task \ Legacy :
             Unsettled(t) => Deferred(t) \/ t \in lost]_dbVars
  <2>. SUFFICES ASSUME DbInv, [DbNext]_dbVars, phase = "up", db' # db
                PROVE  \A t \in Task \ Legacy :
                         Unsettled(t) => Deferred(t) \/ t \in lost
    OBVIOUS
  <2>1. ReloadState
    BY DEF DbNext, ManagerStep, EditPath, BootElsewhere, Launch,
       ReloadStateFails, dbVars
  <2>2. NoOrphan
    BY CareMeansNoOrphan DEF DbInv, ServiceInv, HandleInv, TypeInv
  <2>. QED
    BY <2>1, <2>2 DEF ReloadState, ReloadPossible, HasActiveTasks, NoOrphan
<1>. QED
  BY <1>1, DbInvariant, PTL DEF DbSpec, NothingStranded

-----------------------------------------------------------------------------
(* The contract.  A row counts for its task wherever it is.                *)

WholeIs ==
  \A t \in Task :
    /\ Whole!Life(t) = RowLife(RowAnywhere(t))
    /\ Whole!Replayable(t) = RowReplayable(RowAnywhere(t))
    /\ Life(t) = RowLife(store[t])
    /\ Replayable(t) = RowReplayable(store[t])

LEMMA WholeOf == WholeIs
<1>. SUFFICES ASSUME NEW t \in Task
              PROVE  /\ Whole!Life(t) = RowLife(RowAnywhere(t))
                     /\ Whole!Replayable(t) = RowReplayable(RowAnywhere(t))
                     /\ Life(t) = RowLife(store[t])
                     /\ Replayable(t) = RowReplayable(store[t])
  BY DEF WholeIs
<1>1. Absent \notin TERMINAL_STATES
  BY DEF Absent, TERMINAL_STATES, COMPLETED, FAILED, CANCELLED, TIMED_OUT
<1>2. Life(t) = RowLife(store[t])
  BY <1>1 DEF Life, Settled, RowLife
<1>3. Whole!TERMINAL_STATES = TERMINAL_STATES /\ Whole!Absent = Absent
  BY DEF Whole!TERMINAL_STATES, TERMINAL_STATES, Whole!COMPLETED, Whole!FAILED,
     Whole!CANCELLED, Whole!TIMED_OUT, COMPLETED, FAILED, CANCELLED, TIMED_OUT,
     Whole!Absent, Absent
<1>4. Whole!Life(t) = RowLife(RowAnywhere(t))
  <2>1. Whole!Settled(t) <=> RowAnywhere(t).state \in TERMINAL_STATES
    BY <1>3 DEF Whole!Settled
  <2>. QED
    BY <1>1, <1>3, <2>1 DEF Whole!Life, RowLife
<1>5. Whole!Replayable(t) = RowReplayable(RowAnywhere(t))
  BY DEF Whole!Replayable, Whole!Truthy, Truthy, RowReplayable
<1>. QED
  BY <1>2, <1>4, <1>5 DEF Replayable, RowReplayable

\* With at most one home per task, its row is the one found there.
RowsAtHome ==
  HomeInv => \A t \in Task :
    /\ Homeless(t) => RowAnywhere(t) = store[t]
    /\ \A d \in Database :
         shelf[d][t].state # Absent => RowAnywhere(t) = shelf[d][t]

LEMMA RowAtHome == RowsAtHome
<1>. SUFFICES ASSUME HomeInv, NEW t \in Task
              PROVE  /\ Homeless(t) => RowAnywhere(t) = store[t]
                     /\ \A d \in Database :
                          shelf[d][t].state # Absent =>
                            RowAnywhere(t) = shelf[d][t]
  BY DEF RowsAtHome
<1>1. Homeless(t) => RowAnywhere(t) = store[t]
  BY DEF Homeless, RowAnywhere
<1>2. ASSUME NEW d \in Database, shelf[d][t].state # Absent
      PROVE  RowAnywhere(t) = shelf[d][t]
  <2>1. {e \in Database : shelf[e][t].state # Absent} = {d}
    BY <1>2 DEF HomeInv
  <2>. QED
    BY <2>1 DEF RowAnywhere
<1>. QED
  BY <1>1, <1>2

\* Nothing changes for the contract while rows keep their life and key.
Unmoved(t) ==
  /\ RowLife(RowAnywhere(t))' = RowLife(RowAnywhere(t))
  /\ RowReplayable(RowAnywhere(t))' = RowReplayable(RowAnywhere(t))

LEMMA UnmovedStep ==
  ASSUME WholeIs, WholeIs', \A t \in Task : Unmoved(t), UNCHANGED posts
  PROVE  UNCHANGED Whole!Contract!vars
<1>1. [t \in Task |-> Whole!Life(t)]' = [t \in Task |-> Whole!Life(t)]
  BY DEF WholeIs, Unmoved
<1>2. [t \in Task |-> Whole!Replayable(t)]'
        = [t \in Task |-> Whole!Replayable(t)]
  BY DEF WholeIs, Unmoved
<1>. QED
  BY <1>1, <1>2 DEF Whole!Contract!vars

(* A step of the manager is the same step of the contract over all         *)
(* databases: it concerns a task that has its row here or none yet.        *)
LEMMA ManagerStepLifts ==
  ASSUME DbInv, DbInv', WholeIs, WholeIs', RowsAtHome, RowsAtHome', ManagerStep
  PROVE  Whole!Contract!Next \/ UNCHANGED Whole!Contract!vars
<1>1. Contract!Next \/ UNCHANGED Contract!vars
  <2>1. ContractInv /\ TypeOK'
    <3>1. \A t \in Live : Homeless(t)
      BY DEF DbInv, ServiceInv, HandleInv, HandlesMatchRows, HomeInv, Homeless,
         Live
    <3>. QED
      BY <3>1 DEF DbInv, ServiceInv, ContractInv, HandleInv, TypeInv, Live
  <2>2. Next
    BY DEF ManagerStep
  <2>. QED
    BY <2>1, <2>2, ContractStep
<1>2. ASSUME NEW u \in Task, Homeless(u)
      PROVE  /\ Whole!Life(u) = Life(u) /\ Whole!Life(u)' = Life(u)'
             /\ Whole!Replayable(u) = Replayable(u)
             /\ Whole!Replayable(u)' = Replayable(u)'
  <2>1. Homeless(u)'
    BY <1>2 DEF Homeless, ManagerStep
  <2>2. RowAnywhere(u) = store[u] /\ RowAnywhere(u)' = store'[u]
    BY <1>2, <2>1 DEF RowsAtHome, DbInv
  <2>. QED
    BY <2>2 DEF WholeIs, RowLife, RowReplayable
<1>3. ASSUME NEW u \in Task, ~Homeless(u)
      PROVE  /\ Whole!Life(u)' = Whole!Life(u)
             /\ Whole!Replayable(u)' = Whole!Replayable(u)
             /\ Life(u) = "absent" /\ Life(u)' = "absent"
  <2>1. PICK d \in Database : shelf[d][u].state # Absent
    BY <1>3 DEF Homeless
  <2>2. shelf' = shelf /\ store'[u].state = Absent /\ store[u].state = Absent
    BY <2>1 DEF ManagerStep, DbInv, HomeInv
  <2>3. RowAnywhere(u) = shelf[d][u] /\ RowAnywhere(u)' = shelf[d][u]
    BY <2>1, <2>2 DEF RowsAtHome, DbInv
  <2>. QED
    BY <2>2, <2>3 DEF WholeIs, RowLife, RowReplayable
<1>4. ASSUME NEW t \in Task, Contract!Accept(t) PROVE Whole!Contract!Accept(t)
  <2>1. /\ Life(t) = "absent" /\ Life(t)' = "open" /\ UNCHANGED posts
        /\ \A u \in Task : u # t => /\ Life(u)' = Life(u)
                                    /\ Replayable(u)' = Replayable(u)
    BY <1>4 DEF Contract!Accept
  <2>2. Homeless(t)
    BY <1>3, <2>1
  <2>3. [u \in Task |-> Whole!Life(u)]'
          = [[u \in Task |-> Whole!Life(u)] EXCEPT ![t] = "open"]
    BY <1>2, <1>3, <2>1, <2>2
  <2>4. [u \in Task |-> Whole!Replayable(u)]'
          = [[u \in Task |-> Whole!Replayable(u)] EXCEPT
               ![t] = Whole!Replayable(t)']
    BY <1>2, <1>3, <2>1, <2>2
  <2>5. Whole!Replayable(t)' \in BOOLEAN
    BY DEF Whole!Replayable
  <2>6. [u \in Task |-> Whole!Life(u)][t] = "absent"
    BY <1>2, <2>1, <2>2
  <2>. QED
    BY <2>1, <2>3, <2>4, <2>5, <2>6 DEF Whole!Contract!Accept
<1>5. ASSUME NEW t \in Task, Contract!Ask(t) PROVE Whole!Contract!Ask(t)
  <2>1. /\ Life(t) = "open" /\ (posts[t] = 0 \/ Replayable(t))
        /\ posts' = [posts EXCEPT ![t] = @ + 1]
        /\ \A u \in Task : /\ Life(u)' = Life(u)
                           /\ Replayable(u)' = Replayable(u)
    BY <1>5 DEF Contract!Ask
  <2>2. Homeless(t)
    BY <1>3, <2>1
  <2>3. /\ [u \in Task |-> Whole!Life(u)]' = [u \in Task |-> Whole!Life(u)]
        /\ [u \in Task |-> Whole!Replayable(u)]'
             = [u \in Task |-> Whole!Replayable(u)]
    BY <1>2, <1>3, <2>1
  <2>4. Whole!Life(t) = "open" /\ (posts[t] = 0 \/ Whole!Replayable(t))
    BY <1>2, <2>1, <2>2
  <2>. QED
    BY <2>1, <2>3, <2>4 DEF Whole!Contract!Ask
<1>6. ASSUME NEW t \in Task, NEW end \in TERMINAL_STATES,
             Contract!Finish(t, end)
      PROVE  Whole!Contract!Finish(t, end)
  <2>1. /\ Life(t) = "open" /\ (end = COMPLETED => posts[t] > 0)
        /\ UNCHANGED posts /\ Life(t)' = end
        /\ \A u \in Task : /\ u # t => Life(u)' = Life(u)
                           /\ Replayable(u)' = Replayable(u)
    BY <1>6 DEF Contract!Finish, Contract!COMPLETED, COMPLETED
  <2>2. Homeless(t)
    BY <1>3, <2>1
  <2>3. [u \in Task |-> Whole!Life(u)]'
          = [[u \in Task |-> Whole!Life(u)] EXCEPT ![t] = end]
    BY <1>2, <1>3, <2>1, <2>2
  <2>4. [u \in Task |-> Whole!Replayable(u)]'
          = [u \in Task |-> Whole!Replayable(u)]
    BY <1>2, <1>3, <2>1
  <2>5. [u \in Task |-> Whole!Life(u)][t] = "open"
    BY <1>2, <2>1, <2>2
  <2>. QED
    BY <2>1, <2>3, <2>4, <2>5
       DEF Whole!Contract!Finish, Whole!Contract!COMPLETED, COMPLETED
<1>7. ASSUME UNCHANGED Contract!vars PROVE UNCHANGED Whole!Contract!vars
  <2>1. UNCHANGED posts /\ \A u \in Task : /\ Life(u)' = Life(u)
                                           /\ Replayable(u)' = Replayable(u)
    BY <1>7 DEF Contract!vars
  <2>2. [u \in Task |-> Whole!Life(u)]' = [u \in Task |-> Whole!Life(u)]
    BY <1>2, <1>3, <2>1
  <2>3. [u \in Task |-> Whole!Replayable(u)]'
          = [u \in Task |-> Whole!Replayable(u)]
    BY <1>2, <1>3, <2>1
  <2>. QED
    BY <2>1, <2>2, <2>3 DEF Whole!Contract!vars
<1>8. Whole!Contract!TERMINAL_STATES = TERMINAL_STATES
  BY DEF Whole!Contract!TERMINAL_STATES, TERMINAL_STATES,
     Whole!Contract!COMPLETED, Whole!Contract!FAILED, Whole!Contract!CANCELLED,
     Whole!Contract!TIMED_OUT, COMPLETED, FAILED, CANCELLED, TIMED_OUT
<1>. QED
  BY <1>1, <1>4, <1>5, <1>6, <1>7, <1>8, ContractStates
     DEF Contract!Next, Whole!Contract!Next

\* An exchange moves rows, and moves nothing for the contract.
LEMMA ExchangeUnmoved ==
  ASSUME DbInv, DbInv', RowsAtHome, RowsAtHome', path # db, Exchange
  PROVE  \A t \in Task : Unmoved(t)
<1>1. ShelfInv /\ HomeInv /\ HomeInv' /\ path \in Database /\ db \in Database
  BY DEF DbInv, ShelfInv
<1>. SUFFICES ASSUME NEW t \in Task PROVE Unmoved(t)
  OBVIOUS
<1>2. CASE \E d \in Database \ {path} : shelf[d][t].state # Absent
  <2>1. PICK d \in Database \ {path} : shelf[d][t].state # Absent
    BY <1>2
  <2>2. d # db /\ shelf'[d][t] = shelf[d][t]
    BY <1>1, <2>1, Exchanged DEF HomeInv
  <2>3. RowAnywhere(t) = shelf[d][t] /\ RowAnywhere(t)' = shelf[d][t]
    BY <1>1, <2>1, <2>2 DEF RowsAtHome
  <2>. QED
    BY <2>3 DEF Unmoved, RowLife, RowReplayable
<1>3. CASE store[t].state # Absent
  <2>1. Homeless(t)
    BY <1>1, <1>3 DEF HomeInv, Homeless
  <2>2. RowAnywhere(t) = store[t] /\ RowAnywhere(t)' = store[t]
    BY <1>1, <1>3, <2>1, Exchanged DEF RowsAtHome
  <2>. QED
    BY <2>2 DEF Unmoved, RowLife, RowReplayable
<1>4. CASE /\ \A d \in Database \ {path} : shelf[d][t].state = Absent
           /\ store[t].state = Absent
  <2>1. Homeless(t)'
    BY <1>1, <1>4, Exchanged, EmptyRow DEF Homeless
  <2>2. RowAnywhere(t)' = shelf[path][t]
    BY <1>1, <2>1, Exchanged DEF RowsAtHome
  <2>3. CASE shelf[path][t].state # Absent
    <3>1. RowAnywhere(t) = shelf[path][t]
      BY <1>1, <2>3 DEF RowsAtHome
    <3>. QED
      BY <2>2, <3>1 DEF Unmoved, RowLife, RowReplayable
  <2>4. CASE shelf[path][t].state = Absent
    <3>1. Homeless(t)
      BY <1>4, <2>4 DEF Homeless
    <3>2. RowAnywhere(t) = store[t]
      BY <1>1, <3>1 DEF RowsAtHome
    <3>3. store[t].key = None /\ shelf[path][t].key = None
      BY <1>1, <1>4, <2>4 DEF DbInv, ServiceInv, ShelfInv, Shelved
    <3>. QED
      BY <1>4, <2>2, <2>4, <3>2, <3>3 DEF Unmoved, RowLife, RowReplayable
  <2>. QED
    BY <2>3, <2>4
<1>. QED
  BY <1>2, <1>3, <1>4

LEMMA FailedReloadUnmoved ==
  ASSUME DbInv, DbInv', RowsAtHome, RowsAtHome', ReloadStateFails
  PROVE  \A t \in Task : Unmoved(t)
<1>1. HomeInv /\ HomeInv' /\ store' = store /\ ShelfInv
  BY FailedReloadRows DEF DbInv, vars
<1>. SUFFICES ASSUME NEW t \in Task PROVE Unmoved(t)
  OBVIOUS
<1>2. ASSUME NEW d \in Database
      PROVE  /\ RowLife(shelf'[d][t]) = RowLife(shelf[d][t])
             /\ RowReplayable(shelf'[d][t]) = RowReplayable(shelf[d][t])
             /\ shelf'[d][t].state = Absent <=> shelf[d][t].state = Absent
  <2>1. CASE shelf'[d][t] = shelf[d][t]
    BY <2>1
  <2>2. CASE /\ shelf[d][t].state = RUNNING
             /\ shelf'[d][t] = [shelf[d][t] EXCEPT !.state = RECOVERING,
                                                   !.dispatch = 0]
    <3>1. shelf'[d][t].state = RECOVERING /\ shelf'[d][t].key = shelf[d][t].key
      BY <1>1, <2>2 DEF ShelfInv, Row
    <3>. QED
      BY <2>2, <3>1 DEF RowLife, RowReplayable, Absent, TERMINAL_STATES,
         RUNNING, RECOVERING, COMPLETED, FAILED, CANCELLED, TIMED_OUT
  <2>. QED
    BY <2>1, <2>2, FailedReloadRows
<1>3. CASE Homeless(t)
  <2>1. Homeless(t)'
    BY <1>2, <1>3 DEF Homeless
  <2>. QED
    BY <1>1, <1>3, <2>1 DEF RowsAtHome, Unmoved, RowLife, RowReplayable
<1>4. CASE ~Homeless(t)
  <2>1. PICK d \in Database : shelf[d][t].state # Absent
    BY <1>4 DEF Homeless
  <2>2. RowAnywhere(t) = shelf[d][t] /\ RowAnywhere(t)' = shelf'[d][t]
    BY <1>1, <1>2, <2>1 DEF RowsAtHome
  <2>. QED
    BY <1>2, <2>2 DEF Unmoved, RowLife, RowReplayable
<1>. QED
  BY <1>3, <1>4

(* Over all databases together the bridge keeps the contract of a durable  *)
(* task, however often its database is exchanged and whatever fails.       *)
THEOREM ExchangesKeepContract == DbSpec => KeepsContract
<1>1. DbInit => Whole!Contract!Init
  <2>. SUFFICES ASSUME DbInit PROVE Whole!Contract!Init
    OBVIOUS
  <2>1. /\ WholeIs /\ \A t \in Task : RowAnywhere(t) = store[t]
    <3>1. \A t \in Task : Homeless(t)
      BY EmptyRow DEF DbInit, NoRows, Homeless
    <3>. QED
      BY <3>1, WholeOf, RowAtHome, DbInvInit DEF RowsAtHome, DbInv
  <2>2. \A t \in Task : Whole!Life(t) = Life(t)
    BY <2>1 DEF WholeIs
  <2>3. Contract!Init
    BY ContractInit DEF DbInit
  <2>4. /\ \A t \in Task : Life(t) \in {"absent", "open"}
        /\ \A t \in Task : Life(t) = "absent" => posts[t] = 0
        /\ posts \in [Task -> {0, 1}]
    BY <2>3 DEF Contract!Init
  <2>5. \A t \in Task : Whole!Replayable(t) \in BOOLEAN
    BY DEF Whole!Replayable
  <2>. QED
    BY <2>2, <2>4, <2>5 DEF Whole!Contract!Init
<1>2. /\ DbInv /\ DbInv' /\ WholeIs /\ WholeIs' /\ RowsAtHome /\ RowsAtHome'
      /\ [DbNext]_dbVars
      => [Whole!Contract!Next]_(Whole!Contract!vars)
  <2>. SUFFICES ASSUME DbInv, DbInv', WholeIs, WholeIs', RowsAtHome,
                       RowsAtHome', [DbNext]_dbVars
                PROVE  Whole!Contract!Next \/ UNCHANGED Whole!Contract!vars
    OBVIOUS
  <2>1. CASE ManagerStep
    BY <2>1, ManagerStepLifts
  <2>2. ASSUME path # db, Exchange, UNCHANGED posts
        PROVE  UNCHANGED Whole!Contract!vars
    BY <2>2, ExchangeUnmoved, UnmovedStep
  <2>3. CASE ReloadStateFails
    BY <2>3, FailedReloadUnmoved, FailedReloadRows, UnmovedStep DEF vars
  <2>4. ASSUME UNCHANGED <<store, posts, shelf>>
        PROVE  UNCHANGED Whole!Contract!vars
    BY <2>4, UnmovedStep DEF Unmoved, RowLife, RowReplayable, RowAnywhere
  <2>. QED
    BY <2>1, <2>2, <2>3, <2>4
       DEF DbNext, EditPath, BootElsewhere, Launch, ReloadState, ReloadPossible,
           dbVars, vars
<1>. QED
  BY <1>1, <1>2, DbInvariant, WholeOf, RowAtHome, PTL
     DEF DbSpec, KeepsContract, Whole!ImplementsContract, Whole!Contract!Spec

=============================================================================
