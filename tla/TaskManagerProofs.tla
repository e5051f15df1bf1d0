-------------------------- MODULE TaskManagerProofs --------------------------
(***************************************************************************)
(* What TaskManager guarantees for any number of tasks, workers, keys and  *)
(* restarts, any recovery policy and any limits.                           *)
(***************************************************************************)
EXTENDS TaskManager, FiniteSetTheorems, TLAPS

(* The facts about rows that the steps need.                               *)
LEMMA RowTypes ==
  /\ NoRow \in Row
  /\ \A w \in Worker, k \in ClientKey : NewRow(w, k) \in Row
BY KeyAssumption DEF NoRow, NewRow, Row, RowKeys, Absent, TaskStates,
   TERMINAL_STATES, ACTIVE_STATES, QUEUED_STATES, PENDING, RUNNING, COMPLETED,
   FAILED, CANCELLED, TIMED_OUT, RECOVERING, RETRYING

LEMMA LegacyShape ==
  ASSUME NEW row \in LegacyRows
  PROVE  /\ row \in Row
         /\ row.state \in {PENDING, RUNNING} /\ row.state # Absent
         /\ row.attempts = 0 /\ row.dispatch = 0 /\ row.result = 0
<1>1. PICK s \in {PENDING, RUNNING}, w \in Worker, k \in RowKeys :
        row = LegacyRow(s, w, k)
  BY DEF LegacyRows
<1>2. row = [state |-> s, worker |-> w, key |-> k, wd |-> FALSE,
             attempts |-> 0, dispatch |-> 0, result |-> 0]
  BY <1>1 DEF LegacyRow, NoRow
<1>3. s \in TaskStates
  BY DEF TaskStates, TERMINAL_STATES, ACTIVE_STATES, QUEUED_STATES
<1>. QED
  BY <1>2, <1>3 DEF Row, PENDING, RUNNING, Absent

LEMMA StateTypes ==
  TERMINAL_STATES \cup {PENDING, RUNNING, RECOVERING} \subseteq TaskStates
BY DEF TaskStates, TERMINAL_STATES, ACTIVE_STATES, QUEUED_STATES

LEMMA RowEdits ==
  ASSUME NEW r \in Row, NEW s \in TaskStates, NEW n \in Nat, NEW m \in Nat
  PROVE  /\ [r EXCEPT !.wd = TRUE] \in Row
         /\ [r EXCEPT !.state = s] \in Row
         /\ [r EXCEPT !.attempts = n, !.dispatch = m] \in Row
         /\ [r EXCEPT !.state = s, !.dispatch = n] \in Row
         /\ [r EXCEPT !.wd = TRUE, !.state = s] \in Row
BY DEF Row

LEMMA DirectoryEdit ==
  ASSUME NEW r \in Row PROVE [r EXCEPT !.wd = TRUE] \in Row
BY DEF Row

LEMMA NextAttemptType ==
  ASSUME NEW r \in Row PROVE NextAttempt(r) \in Row
<1>1. r.attempts + 1 \in Nat
  BY DEF Row
<1>. QED
  BY <1>1, RowEdits DEF NextAttempt, Row

(* Finishing a row keeps the table and the metric well typed.              *)
LEMMA SettleType ==
  ASSUME NEW t \in Task, NEW to \in TERMINAL_STATES, NEW a \in Nat,
         store \in [Task -> Row], finished \in [Task -> Nat],
         Settle(t, to, a)
  PROVE  store' \in [Task -> Row] /\ finished' \in [Task -> Nat]
BY DEF Settle, Row, TaskStates

\* A new process has no handle left, so none is left cancelled either.
TypeInv == TypeOK /\ NoHandlesWhileDown

LEMMA TypeInit == Init => TypeInv
<1>. SUFFICES ASSUME Init PROVE TypeInv
  OBVIOUS
<1>1. store \in [Task -> Row]
  BY RowTypes, LegacyShape DEF Init
<1>2. posts \in [Task -> Nat] /\ held \in [Task -> Row]
  BY RowTypes DEF Init
<1>. QED
  BY <1>1, <1>2 DEF Init, TypeInv, TypeOK, NoHandlesWhileDown, Pcs, Live

LEMMA TypeStep == TypeInv /\ [Next]_vars => TypeInv'
<1>. SUFFICES ASSUME TypeInv, [Next]_vars PROVE TypeInv'
  OBVIOUS
<1>. USE DEF TypeInv, TypeOK, NoHandlesWhileDown, Live
<1>1. CASE Boot
  BY <1>1 DEF Boot, Launch
<1>2. ASSUME NEW t \in Task, MarkRecovering(t) PROVE TypeInv'
  <2>1. [store[t] EXCEPT !.state = RECOVERING, !.dispatch = 0] \in Row
    BY StateTypes, RowEdits
  <2>. QED
    BY <1>2, <2>1 DEF MarkRecovering
<1>3. CASE FinishStart
  BY <1>3 DEF FinishStart, Pcs
<1>4. CASE StopBegin
  BY <1>4 DEF StopBegin
<1>5. CASE StopEnd
  BY <1>5 DEF StopEnd
<1>6. ASSUME NEW t \in Task, NEW w \in Worker, NEW k \in ClientKey,
             Submit(t, w, k)
      PROVE  TypeInv'
  <2>1. NewRow(w, k) \in Row
    BY RowTypes
  <2>2. answers' \in [Key \cup {EmptyKey} -> SUBSET (Task \cup {Raised})]
    BY <1>6 DEF Submit, Answer
  <2>. QED
    BY <1>6, <2>1, <2>2 DEF Submit, Pcs
<1>7. ASSUME NEW w \in Worker, NEW k \in ClientKey, SubmitAgain(w, k)
      PROVE  TypeInv'
  BY <1>7 DEF SubmitAgain, Answer, TasksOfKey
<1>8. ASSUME NEW w \in Worker, SubmitRaises(w) PROVE TypeInv'
  BY <1>8 DEF SubmitRaises, Answer
<1>9. ASSUME NEW t \in Task, Cancel(t) PROVE TypeInv'
  <2>1. store' \in [Task -> Row] /\ finished' \in [Task -> Nat]
    BY <1>9, SettleType DEF Cancel, TERMINAL_STATES
  <2>. QED
    BY <1>9, <2>1 DEF Cancel, HandleToCancel
<1>10. ASSUME NEW t \in Task, CoroutineStep(t) PROVE TypeInv'
  <2>1. CASE Begin(t)
    BY <2>1, RowTypes DEF Begin, Drop, Pcs, Runs
  <2>2. CASE Dispatch(t)
    <3>1. Working(t) \in Row
      BY DEF Working
    <3>2. [NextAttempt(Working(t)) EXCEPT !.wd = TRUE, !.state = RUNNING] \in Row
      BY <3>1, NextAttemptType, StateTypes, RowEdits
    <3>. QED
      BY <2>2, <3>2 DEF Dispatch, Ready, Runs, Pcs
  <2>3. ASSUME NEW to \in {FAILED, TIMED_OUT},
               DispatchFails(t, to) \/ CallFails(t, to)
        PROVE  TypeInv'
    <3>1. store' \in [Task -> Row] /\ finished' \in [Task -> Nat]
      BY <2>3, SettleType DEF DispatchFails, CallFails, TERMINAL_STATES
    <3>2. t \notin cancelled
      BY <2>3 DEF DispatchFails, CallFails, Ready, Runs
    <3>. QED
      BY <2>3, <3>1, <3>2, RowTypes DEF DispatchFails, CallFails, Drop, Pcs
  <2>4. CASE Post(t)
    BY <2>4 DEF Post, Runs, Pcs
  <2>5. CASE Complete(t)
    <3>1. AnsweredAttempt(t) \in Nat
      BY DEF AnsweredAttempt, Row
    <3>2. store' \in [Task -> Row] /\ finished' \in [Task -> Nat]
      BY <2>5, <3>1, SettleType DEF Complete, TERMINAL_STATES
    <3>. QED
      BY <2>5, <3>2, RowTypes DEF Complete, Drop, Pcs, Runs
  <2>6. CASE CancelDelivered(t)
    <3>1. store' \in [Task -> Row] /\ finished' \in [Task -> Nat]
      BY <2>6, SettleType DEF CancelDelivered, TERMINAL_STATES
    <3>. QED
      BY <2>6, <3>1, RowTypes DEF CancelDelivered, Drop, Pcs
  <2>. QED
    BY <1>10, <2>1, <2>2, <2>3, <2>4, <2>5, <2>6 DEF CoroutineStep
<1>11. CASE Crash
  BY <1>11, RowTypes DEF Crash, Die, Pcs
<1>12. ASSUME NEW t \in Task, CrashBetweenWrites(t) PROVE TypeInv'
  <2>1. Working(t) \in Row
    BY DEF Working
  <2>2. [Working(t) EXCEPT !.wd = TRUE] \in Row
    BY <2>1 DEF Row
  <2>. QED
    BY <1>12, <2>2, RowTypes DEF CrashBetweenWrites, Die, Pcs
<1>13. CASE UNCHANGED vars
  BY <1>13 DEF vars
<1>14. ASSUME NEW t \in Task, Lose(t) PROVE TypeInv'
  BY <1>14, RowTypes DEF Lose, Drop, Pcs
<1>15. ASSUME NEW t \in Task, DispatchNotSaved(t) PROVE TypeInv'
  <2>1. Working(t) \in Row
    BY DEF Working
  <2>2. PICK row \in {Working(t), [Working(t) EXCEPT !.wd = TRUE]} :
          \/ store' = [store EXCEPT ![t] = row] /\ UNCHANGED finished
          \/ /\ store' = [store EXCEPT ![t] = [row EXCEPT !.state = FAILED]]
             /\ finished' = [finished EXCEPT ![t] = @ + 1]
    BY <1>15 DEF DispatchNotSaved
  <2>3. store' \in [Task -> Row] /\ finished' \in [Task -> Nat]
    <3>1. row \in Row
      BY <2>1, <2>2, DirectoryEdit
    <3>2. [row EXCEPT !.state = FAILED] \in Row
      BY <3>1, RowEdits, StateTypes DEF TERMINAL_STATES
    <3>. QED
      BY <2>2, <3>1, <3>2
  <2>4. t \notin cancelled
    BY <1>15 DEF DispatchNotSaved, Ready, Runs
  <2>. QED
    BY <1>15, <2>3, <2>4, RowTypes DEF DispatchNotSaved, Drop, Pcs
<1>16. ASSUME NEW t \in Task, CancelNotSaved(t) PROVE TypeInv'
  BY <1>16 DEF CancelNotSaved, HandleToCancel
<1>. QED
  BY <1>1, <1>2, <1>3, <1>4, <1>5, <1>6, <1>7, <1>8, <1>9, <1>10, <1>11,
     <1>12, <1>13, <1>14, <1>15, <1>16 DEF Next, Lifecycle, Request

LEMMA TypeInvariant == Spec => []TypeInv
BY TypeInit, TypeStep, PTL DEF Spec

(* The state is well typed, and only handles that exist are cancelled.     *)
THEOREM TypeCorrect == Spec => []TypeOK
<1>1. TypeInv => TypeOK
  BY DEF TypeInv
<1>. QED
  BY <1>1, TypeInvariant, PTL

-----------------------------------------------------------------------------
(* Rows and coroutines.  A step of one task leaves the rows and coroutines *)
(* of the others alone, so each action is looked at for one task u.        *)

HandleInv == TypeInv /\ HandlesMatchRows

\* Wherever a coroutine is, it stands for an unfinished row.
LEMMA RunsUnsettled ==
  ASSUME HandleInv, NEW t \in Task, t \in Live, t \notin cancelled
  PROVE  Unsettled(t) /\ ~Settled(t) /\ store[t].state # Absent
<1>1. bg[t] \in {"created", "sleeping", "calling", "posted"}
  BY DEF HandleInv, TypeInv, TypeOK, Live, Pcs
<1>2. store[t].state \in {PENDING, RECOVERING, RUNNING}
  BY <1>1 DEF HandleInv, HandlesMatchRows, Runs, QUEUED_STATES
<1>. QED
  BY <1>2 DEF Unsettled, Settled, Absent, ACTIVE_STATES, QUEUED_STATES,
     TERMINAL_STATES, PENDING, RUNNING, COMPLETED, FAILED, CANCELLED,
     TIMED_OUT, RECOVERING, RETRYING

\* The row of another task, or a row that is over, stays as it is.
LEMMA SettleFrame ==
  ASSUME TypeOK, NEW t \in Task, NEW to, NEW a, Settle(t, to, a)
  PROVE  /\ \A u \in Task : u # t => store'[u] = store[u]
         /\ Settled(t) => store'[t] = store[t]
         /\ store'[t].state \in {store[t].state, to}
         /\ store'[t].key = store[t].key
         /\ store'[t].state # store[t].state => CanTransition(store[t].state, to)
         /\ ~Settled(t) /\ CanTransition(store[t].state, to)
              => store'[t].state = to
BY DEF Settle, TypeOK, Row

\* The row a coroutine dispatches is the row in the table.
LEMMA WorkingIsRow ==
  ASSUME HandleInv, NEW t \in Task, Ready(t)
  PROVE  /\ Working(t) = store[t]
         /\ store[t].state \in QUEUED_STATES
         /\ bg[t] \in {"created", "sleeping"}
BY DEF Ready, Working, HandleInv, HandlesMatchRows, Runs, QUEUED_STATES

\* What is left of a row whose dispatch could not be saved.
LEMMA NotSavedFrame ==
  ASSUME HandleInv, NEW t \in Task, DispatchNotSaved(t)
  PROVE  /\ \A u \in Task : u # t => store'[u] = store[u] /\ bg'[u] = bg[u]
         /\ store'[t].key = store[t].key
         /\ store[t].wd => store'[t].wd
         /\ store[t].state \in QUEUED_STATES
         /\ \/ store'[t].state = store[t].state
            \/ store'[t].state = FAILED /\ CanTransition(store[t].state, FAILED)
         /\ bg'[t] = "none" /\ t \notin cancelled
<1>1. TypeOK
  BY DEF HandleInv, TypeInv
<1>2. /\ Working(t) = store[t] /\ store[t].state \in QUEUED_STATES
      /\ t \notin cancelled
  BY WorkingIsRow DEF DispatchNotSaved, Ready, Runs
<1>3. PICK row \in {store[t], [store[t] EXCEPT !.wd = TRUE]} :
        \/ store' = [store EXCEPT ![t] = row]
        \/ /\ CanTransition(row.state, FAILED)
           /\ store' = [store EXCEPT ![t] = [row EXCEPT !.state = FAILED]]
  BY <1>2 DEF DispatchNotSaved
<1>4. /\ row.state = store[t].state /\ row.key = store[t].key
      /\ store[t].wd => row.wd
      /\ row \in Row
  <2>1. store[t] \in Row
    BY <1>1 DEF TypeOK
  <2>. QED
    BY <1>3, <2>1 DEF Row
<1>5. /\ [row EXCEPT !.state = FAILED].state = FAILED
      /\ [row EXCEPT !.state = FAILED].key = row.key
      /\ [row EXCEPT !.state = FAILED].wd = row.wd
  BY <1>4 DEF Row
<1>6. /\ bg' = [bg EXCEPT ![t] = "none"]
      /\ bg \in [Task -> Pcs] /\ store \in [Task -> Row]
  BY <1>1 DEF DispatchNotSaved, Drop, TypeOK
<1>. QED
  BY <1>2, <1>3, <1>4, <1>5, <1>6

\* The table a first start finds.
LEMMA InitRows ==
  ASSUME Init, NEW t \in Task
  PROVE  store[t].state \in {Absent, PENDING, RUNNING}
<1>1. store[t] \in {NoRow} \cup LegacyRows
  BY DEF Init
<1>2. NoRow.state = Absent
  BY DEF NoRow
<1>3. \A row \in LegacyRows : row.state \in {PENDING, RUNNING}
  BY LegacyShape
<1>. QED
  BY <1>1, <1>2, <1>3

LEMMA HandleInit == Init => HandlesMatchRows
<1>. USE DEF HandlesMatchRows, NoHandlesWhileDown, Live, Runs
<1>. SUFFICES ASSUME Init PROVE HandlesMatchRows
  OBVIOUS
<1>1. \A t \in Task : store[t].state # RETRYING
  BY InitRows DEF Absent, PENDING, RUNNING, RETRYING
<1>. QED
  BY <1>1 DEF Init

LEMMA HandleStep ==
  TypeInv /\ TypeInv' /\ HandlesMatchRows /\ [Next]_vars => HandlesMatchRows'
<1>. USE DEF HandlesMatchRows, NoHandlesWhileDown, Live, Runs
<1>. SUFFICES ASSUME TypeInv, TypeInv', HandlesMatchRows, [Next]_vars
              PROVE  HandlesMatchRows'
  OBVIOUS
<1>0. HandleInv
  BY DEF HandleInv
<1>. USE DEF TypeInv
<1>1. CASE Boot
  BY <1>1 DEF Boot, Launch
<1>2. ASSUME NEW t \in Task, MarkRecovering(t) PROVE HandlesMatchRows'
  BY <1>2 DEF MarkRecovering, TypeOK, Row, RECOVERING, RETRYING
<1>3. CASE FinishStart
  BY <1>3 DEF FinishStart, Resumed, TypeOK, QUEUED_STATES, Absent, PENDING,
     RECOVERING
<1>4. CASE StopBegin
  BY <1>4 DEF StopBegin
<1>5. CASE StopEnd
  BY <1>5 DEF StopEnd
<1>6. ASSUME NEW t \in Task, NEW w \in Worker, NEW k \in ClientKey,
             Submit(t, w, k)
      PROVE  HandlesMatchRows'
  <2>1. /\ store' = [store EXCEPT ![t] = NewRow(w, k)]
        /\ bg' = [bg EXCEPT ![t] = "created"]
        /\ phase = "up" /\ phase' = "up" /\ store[t].state = Absent
        /\ UNCHANGED <<held, cancelled>>
    BY <1>6 DEF Submit
  <2>2. NewRow(w, k).state = PENDING
    BY DEF NewRow, NoRow
  <2>3. t \notin cancelled /\ UNCHANGED lost
    BY <1>6, <2>1 DEF TypeOK, Submit
  <2>. QED
    BY <2>1, <2>2, <2>3
       DEF TypeOK, Settled, QUEUED_STATES, PENDING, RETRYING, Absent
<1>7. ASSUME NEW w \in Worker, NEW k \in ClientKey, SubmitAgain(w, k)
      PROVE  HandlesMatchRows'
  BY <1>7 DEF SubmitAgain, Settled
<1>8. ASSUME NEW w \in Worker, SubmitRaises(w) PROVE HandlesMatchRows'
  BY <1>8 DEF SubmitRaises, Settled
<1>9. ASSUME NEW t \in Task, Cancel(t) PROVE HandlesMatchRows'
  <2>1. /\ Settle(t, CANCELLED, 0) /\ phase = "up"
        /\ cancelled' = cancelled \cup HandleToCancel(t)
        /\ Unsettled(t) /\ UNCHANGED <<phase, bg, held>>
    BY <1>9 DEF Cancel
  <2>2. /\ ~Settled(t) /\ CanTransition(store[t].state, CANCELLED)
    BY <2>1 DEF Unsettled, Settled, CanTransition, ALLOWED_TRANSITIONS,
       TERMINAL_STATES, ACTIVE_STATES, QUEUED_STATES, PENDING, RUNNING,
       COMPLETED, FAILED, CANCELLED, TIMED_OUT, RECOVERING, RETRYING
  <2>3. store'[t].state = CANCELLED
    BY <2>1, <2>2, SettleFrame
  <2>4. \A u \in Task : u # t => store'[u] = store[u]
    BY <2>1, SettleFrame
  <2>5. \A u \in cancelled' : Settled(u)' \/ u \in lost'
    BY <1>9, <2>1, <2>3, <2>4
       DEF Cancel, Settled, TERMINAL_STATES, HandleToCancel, TypeOK
  <2>. QED
    BY <2>1, <2>3, <2>4, <2>5 DEF HandleToCancel, CANCELLED, RETRYING, Absent
<1>10. ASSUME NEW t \in Task, CoroutineStep(t) PROVE HandlesMatchRows'
  <2>1. CASE Begin(t)
    <3>1. ~Settled(t) /\ store[t].state = RECOVERING
      BY <2>1, <1>0, RunsUnsettled DEF Begin, Sleeps
    <3>. QED
      BY <2>1, <3>1 DEF Begin, TypeOK, Settled
  <2>2. CASE Dispatch(t)
    <3>1. store'[t].state = RUNNING /\ held'[t] = store'[t]
      <4>1. NextAttempt(Working(t)) \in Row
        <5>1. Working(t) \in Row
          BY DEF Working, TypeOK
        <5>. QED
          BY <5>1, NextAttemptType
      <4>. DEFINE row == [NextAttempt(Working(t)) EXCEPT !.wd = TRUE,
                                                         !.state = RUNNING]
      <4>2. row.state = RUNNING
        BY <4>1 DEF Row
      <4>3. store'[t] = row /\ held'[t] = row
        BY <2>2 DEF Dispatch, TypeOK
      <4>. QED
        BY <4>2, <4>3
    <3>2. \A u \in Task : u # t => store'[u] = store[u] /\ held'[u] = held[u]
      BY <2>2 DEF Dispatch, TypeOK
    <3>3. t \notin cancelled /\ bg' = [bg EXCEPT ![t] = "calling"]
      BY <2>2 DEF Dispatch, Ready
    <3>4. bg[t] # "none"
      BY <2>2 DEF Dispatch, Ready
    <3>. QED
      BY <2>2, <3>1, <3>2, <3>3, <3>4
         DEF Dispatch, TypeOK, Settled, RUNNING, RETRYING, Absent
  <2>3. ASSUME NEW to \in {FAILED, TIMED_OUT},
               DispatchFails(t, to) \/ CallFails(t, to)
        PROVE  HandlesMatchRows'
    <3>1. Settle(t, to, 0) /\ Drop(t) /\ UNCHANGED <<phase, cancelled>>
      BY <2>3 DEF DispatchFails, CallFails
    <3>2. t \notin cancelled /\ bg[t] # "none"
      BY <2>3 DEF DispatchFails, CallFails, Ready
    <3>3. UNCHANGED lost
      BY <2>3 DEF DispatchFails, CallFails
    <3>. QED
      BY <3>1, <3>2, <3>3, SettleFrame
         DEF Drop, TypeOK, Settled, FAILED, TIMED_OUT, RETRYING, Absent
  <2>4. CASE Post(t)
    BY <2>4 DEF Post, TypeOK, Settled
  <2>5. CASE Complete(t)
    <3>1. /\ Settle(t, COMPLETED, AnsweredAttempt(t)) /\ Drop(t)
          /\ UNCHANGED <<phase, cancelled>>
      BY <2>5 DEF Complete
    <3>2. t \notin cancelled /\ bg[t] # "none"
      BY <2>5 DEF Complete
    <3>3. UNCHANGED lost
      BY <2>5 DEF Complete
    <3>. QED
      BY <3>1, <3>2, <3>3, SettleFrame
         DEF Drop, TypeOK, Settled, COMPLETED, RETRYING, Absent
  <2>6. CASE CancelDelivered(t)
    <3>1. /\ Drop(t) /\ cancelled' = cancelled \ {t} /\ UNCHANGED phase
          /\ bg[t] # "none"
      BY <2>6 DEF CancelDelivered, TypeOK
    <3>2. \/ UNCHANGED store
          \/ Settle(t, CANCELLED, 0)
      BY <2>6 DEF CancelDelivered
    <3>3. /\ \A u \in Task : u # t => store'[u] = store[u]
          /\ store'[t].state # RETRYING /\ UNCHANGED lost
      BY <2>6, <3>2, SettleFrame DEF CancelDelivered, CANCELLED, RETRYING
    <3>. QED
      BY <3>1, <3>3 DEF Drop, TypeOK, Settled
  <2>. QED
    BY <1>10, <2>1, <2>2, <2>3, <2>4, <2>5, <2>6 DEF CoroutineStep
<1>11. CASE Crash
  BY <1>11 DEF Crash, Die
<1>12. ASSUME NEW t \in Task, CrashBetweenWrites(t) PROVE HandlesMatchRows'
  <2>1. Working(t).state # RETRYING
    BY <1>12 DEF CrashBetweenWrites, Ready, Working
  <2>2. \A u \in Task : store'[u].state # RETRYING
    BY <1>12, <2>1 DEF CrashBetweenWrites, TypeOK, Row, Working
  <2>. QED
    BY <1>12, <2>2 DEF CrashBetweenWrites, Die
<1>13. CASE UNCHANGED vars
  BY <1>13 DEF vars, Settled
<1>14. ASSUME NEW t \in Task, Lose(t) PROVE HandlesMatchRows'
  BY <1>14 DEF Lose, Drop, TypeOK, Settled
<1>15. ASSUME NEW t \in Task, DispatchNotSaved(t) PROVE HandlesMatchRows'
  <2>1. /\ UNCHANGED <<phase, cancelled>> /\ lost \subseteq lost'
        /\ \A u \in Task : u # t => held'[u] = held[u]
    BY <1>15 DEF DispatchNotSaved, Drop, TypeOK
  <2>2. store'[t].state # RETRYING
    BY <1>15, <1>0, NotSavedFrame DEF QUEUED_STATES, PENDING, RECOVERING,
       FAILED, RETRYING
  <2>. QED
    BY <1>15, <1>0, <2>1, <2>2, NotSavedFrame DEF TypeOK, Settled
<1>16. ASSUME NEW t \in Task, CancelNotSaved(t) PROVE HandlesMatchRows'
  BY <1>16 DEF CancelNotSaved, HandleToCancel, Settled
<1>. QED
  BY <1>1, <1>2, <1>3, <1>4, <1>5, <1>6, <1>7, <1>8, <1>9, <1>10, <1>11,
     <1>12, <1>13, <1>14, <1>15, <1>16 DEF Next, Lifecycle, Request

(* Coroutines and rows agree; what the comment of HandlesMatchRows says    *)
(* holds for every interleaving of handlers, crashes and restarts.         *)
THEOREM HandlesCorrect == Spec => []HandlesMatchRows
BY TypeInvariant, HandleInit, HandleStep, PTL DEF Spec

LEMMA HandleInvariant == Spec => []HandleInv
<1>1. TypeInv /\ HandlesMatchRows => HandleInv
  BY DEF HandleInv
<1>. QED
  BY <1>1, TypeInvariant, HandlesCorrect, PTL

-----------------------------------------------------------------------------
(* What one step may do to task u.  All that follows about single rows     *)
(* comes from this list.                                                   *)

\* What every step but a new submission keeps.
SameKey(u) == /\ store'[u].key = store[u].key
              /\ store'[u].state = Absent <=> store[u].state = Absent
              /\ store[u].wd => store'[u].wd

Same(u, field) == store'[u][field] = store[u][field]

\* The coroutine of u comes no nearer to its worker.
NoNearer(u) ==
  \/ bg'[u] \in {bg[u], "none"}
  \/ bg[u] = "created" /\ bg'[u] = "sleeping"

SameCount(u) == phase' = phase => finished'[u] = finished[u]

Kept(u) ==
  /\ store'[u] = store[u] \/ store[u].state \in QUEUED_STATES
  /\ Same(u, "state") /\ Same(u, "attempts") /\ Same(u, "dispatch")
  /\ Same(u, "result")
  /\ SameKey(u) /\ NoNearer(u) /\ SameCount(u) /\ posts'[u] = posts[u]

\* The start schedules the row.
Scheduled(u) ==
  /\ u \in Resumed /\ bg'[u] = "created"
  /\ store'[u] = store[u] /\ SameCount(u) /\ posts'[u] = posts[u]

Created(u) ==
  /\ store[u].state = Absent
  /\ \E w \in Worker, k \in ClientKey :
       Submit(u, w, k) /\ store'[u] = NewRow(w, k)
  /\ bg'[u] = "created" /\ SameCount(u) /\ posts'[u] = posts[u]

Recovered(u) ==
  /\ store[u].state = RUNNING /\ store'[u].state = RECOVERING
  /\ Same(u, "attempts") /\ Same(u, "result")
  /\ SameKey(u) /\ NoNearer(u) /\ SameCount(u) /\ posts'[u] = posts[u]

Dispatched(u) ==
  /\ store[u].state \in QUEUED_STATES /\ store'[u].state = RUNNING
  /\ store'[u].attempts = store[u].attempts + 1
  /\ store'[u].dispatch = store[u].attempts + 1
  /\ Same(u, "result")
  /\ bg[u] \in {"created", "sleeping"} /\ bg'[u] = "calling"
  /\ SameKey(u) /\ SameCount(u) /\ posts'[u] = posts[u]

Posted(u) ==
  /\ store'[u] = store[u] /\ Runs(u, "calling") /\ bg'[u] = "posted"
  /\ posts'[u] = posts[u] + 1 /\ SameCount(u)

(* An answer is filed under the attempt the coroutine counted, which is    *)
(* the one on record; any other end leaves result_json alone.              *)
Ended(u) ==
  /\ ~Settled(u) /\ store'[u].state \in TERMINAL_STATES
  /\ CanTransition(store[u].state, store'[u].state)
  /\ Same(u, "attempts") /\ Same(u, "dispatch")
  /\ \/ store'[u].state # COMPLETED /\ Same(u, "result")
     \/ /\ store'[u].state = COMPLETED
        /\ store[u].state = RUNNING /\ bg[u] = "posted"
        /\ store'[u].result = IF store[u].attempts = 0 THEN store[u].result
                                                       ELSE store[u].attempts
  /\ SameKey(u) /\ NoNearer(u) /\ posts'[u] = posts[u]
  /\ finished'[u] = finished[u] + 1

Effect(u) == \/ Kept(u) \/ Scheduled(u) \/ Created(u) \/ Recovered(u)
             \/ Dispatched(u) \/ Posted(u) \/ Ended(u)

\* A row left as it is, with its counters.
LEMMA KeptRow ==
  ASSUME NEW u \in Task, store'[u] = store[u], NoNearer(u), SameCount(u),
         posts'[u] = posts[u]
  PROVE  Effect(u)
BY DEF Effect, Kept, SameKey, Same

\* Finishing a row: it ends, or the refused transition changes nothing.
LEMMA SettleEffect ==
  ASSUME TypeOK, NEW t \in Task, NEW to \in TERMINAL_STATES, NEW a \in Nat,
         Settle(t, to, a), UNCHANGED posts, \A u \in Task : NoNearer(u),
         \/ to # COMPLETED /\ a = 0
         \/ /\ to = COMPLETED /\ store[t].state = RUNNING /\ bg[t] = "posted"
            /\ a = store[t].attempts
  PROVE  \A u \in Task : Effect(u)
<1>1. CASE ~Settled(t) /\ CanTransition(store[t].state, to)
  <2>1. /\ store' = [store EXCEPT ![t].state = to,
                                  ![t].result = IF a = 0 THEN @ ELSE a]
        /\ finished' = [finished EXCEPT ![t] = @ + 1]
    BY <1>1 DEF Settle
  <2>2. ASSUME NEW u \in Task, u # t PROVE Effect(u)
    BY <2>1, <2>2, KeptRow DEF TypeOK, SameCount
  <2>3. Ended(t)
    <3>1. /\ store'[t].state = to
          /\ store'[t].attempts = store[t].attempts
          /\ store'[t].dispatch = store[t].dispatch
          /\ store'[t].key = store[t].key /\ store'[t].wd = store[t].wd
          /\ store'[t].result = IF a = 0 THEN store[t].result ELSE a
          /\ finished'[t] = finished[t] + 1
      BY <2>1 DEF TypeOK, Row
    <3>2. store[t].state # Absent /\ to # Absent
      BY <1>1 DEF CanTransition, ALLOWED_TRANSITIONS, TERMINAL_STATES, Absent,
         PENDING, RUNNING, COMPLETED, FAILED, CANCELLED, TIMED_OUT, RECOVERING,
         RETRYING
    <3>. QED
      BY <1>1, <3>1, <3>2 DEF Ended, SameKey, Same
  <2>. QED
    BY <2>2, <2>3 DEF Effect
<1>2. CASE ~(~Settled(t) /\ CanTransition(store[t].state, to))
  BY <1>2, KeptRow DEF Settle, SameCount
<1>. QED
  BY <1>1, <1>2

(* Every handler, seen from one task.                                      *)
LEMMA Effects ==
  ASSUME HandleInv, [Next]_vars
  PROVE  \A u \in Task : Effect(u)
<1>0. TypeOK /\ HandlesMatchRows
  BY DEF HandleInv, TypeInv
<1>1. ASSUME UNCHANGED <<store, posts>>,
             \A u \in Task : NoNearer(u) /\ SameCount(u)
      PROVE  \A u \in Task : Effect(u)
  BY <1>1, KeptRow
<1>2. ASSUME NEW t \in Task, MarkRecovering(t) PROVE \A u \in Task : Effect(u)
  <2>1. store[t].state = RUNNING
    BY <1>2, <1>0 DEF MarkRecovering, Recoverable, QUEUED_STATES,
       HandlesMatchRows
  <2>2. Recovered(t)
    BY <1>2, <1>0, <2>1 DEF MarkRecovering, Recovered, TypeOK, Row, SameKey,
       Same, NoNearer, SameCount, Absent, RUNNING, RECOVERING
  <2>3. ASSUME NEW u \in Task, u # t PROVE Effect(u)
    BY <1>2, <1>0, <2>3, KeptRow DEF MarkRecovering, TypeOK, NoNearer, SameCount
  <2>. QED
    BY <2>2, <2>3 DEF Effect
<1>3. ASSUME NEW t \in Task, NEW w \in Worker, NEW k \in ClientKey,
             Submit(t, w, k)
      PROVE  \A u \in Task : Effect(u)
  <2>1. Created(t)
    BY <1>3, <1>0 DEF Submit, Created, TypeOK, SameCount
  <2>2. ASSUME NEW u \in Task, u # t PROVE Effect(u)
    BY <1>3, <1>0, <2>2, KeptRow DEF Submit, TypeOK, NoNearer, SameCount
  <2>. QED
    BY <2>1, <2>2 DEF Effect
<1>4. ASSUME NEW t \in Task, Drop(t) PROVE \A u \in Task : NoNearer(u)
  BY <1>4, <1>0 DEF Drop, TypeOK, NoNearer
<1>5. ASSUME NEW t \in Task, Cancel(t) PROVE \A u \in Task : Effect(u)
  BY <1>5, <1>0, SettleEffect
     DEF Cancel, NoNearer, TERMINAL_STATES, CANCELLED, COMPLETED
<1>6. ASSUME NEW t \in Task, CoroutineStep(t) PROVE \A u \in Task : Effect(u)
  <2>1. CASE Begin(t)
    <3>1. \A u \in Task : NoNearer(u)
      <4>1. CASE Drop(t)
        BY <1>4, <4>1
      <4>2. CASE bg' = [bg EXCEPT ![t] = "sleeping"]
        BY <2>1, <1>0, <4>2 DEF Begin, Runs, TypeOK, NoNearer
      <4>. QED
        BY <2>1, <4>1, <4>2 DEF Begin
    <3>. QED
      BY <1>1, <2>1, <3>1 DEF Begin, SameCount
  <2>2. CASE Dispatch(t)
    <3>1. Working(t) = store[t] /\ store[t].state \in QUEUED_STATES
      BY <2>2, WorkingIsRow DEF Dispatch
    <3>2. Dispatched(t)
      BY <2>2, <1>0, <3>1, WorkingIsRow
         DEF Dispatch, Dispatched, NextAttempt, TypeOK, Row, Same, SameKey,
             SameCount, QUEUED_STATES, Absent, PENDING, RECOVERING, RUNNING
    <3>3. ASSUME NEW u \in Task, u # t PROVE Effect(u)
      BY <2>2, <1>0, <3>3, KeptRow DEF Dispatch, TypeOK, NoNearer, SameCount
    <3>. QED
      BY <3>2, <3>3 DEF Effect
  <2>3. ASSUME NEW to \in {FAILED, TIMED_OUT},
               DispatchFails(t, to) \/ CallFails(t, to)
        PROVE  \A u \in Task : Effect(u)
    BY <2>3, <1>0, <1>4, SettleEffect DEF DispatchFails, CallFails,
       TERMINAL_STATES, FAILED, TIMED_OUT, COMPLETED
  <2>4. CASE Post(t)
    <3>1. Posted(t)
      BY <2>4, <1>0 DEF Post, Posted, Runs, TypeOK, SameCount
    <3>2. ASSUME NEW u \in Task, u # t PROVE Effect(u)
      BY <2>4, <1>0, <3>2, KeptRow DEF Post, TypeOK, NoNearer, SameCount
    <3>. QED
      BY <3>1, <3>2 DEF Effect
  <2>5. CASE Complete(t)
    <3>1. store[t].state = RUNNING /\ held[t] = store[t] /\ bg[t] = "posted"
      BY <2>5, <1>0 DEF Complete, HandlesMatchRows, Runs
    <3>2. AnsweredAttempt(t) = store[t].attempts /\ AnsweredAttempt(t) \in Nat
      BY <3>1, <1>0 DEF AnsweredAttempt, TypeOK, Row
    <3>. QED
      BY <2>5, <1>0, <1>4, <3>1, <3>2, SettleEffect DEF Complete,
         TERMINAL_STATES
  <2>6. CASE CancelDelivered(t)
    <3>1. CASE Settle(t, CANCELLED, 0)
      BY <2>6, <3>1, <1>0, <1>4, SettleEffect DEF CancelDelivered,
         TERMINAL_STATES, CANCELLED, COMPLETED
    <3>2. CASE UNCHANGED <<store, finished>>
      BY <2>6, <3>2, <1>1, <1>4 DEF CancelDelivered, SameCount
    <3>. QED
      BY <2>6, <3>1, <3>2 DEF CancelDelivered
  <2>. QED
    BY <1>6, <2>1, <2>2, <2>3, <2>4, <2>5, <2>6 DEF CoroutineStep
<1>7. ASSUME NEW t \in Task, CrashBetweenWrites(t)
      PROVE  \A u \in Task : Effect(u)
  <2>1. Working(t) = store[t]
    BY <1>7, WorkingIsRow DEF CrashBetweenWrites
  <2>2. \A u \in Task : NoNearer(u) /\ SameCount(u) /\ posts'[u] = posts[u]
    BY <1>7 DEF CrashBetweenWrites, Die, NoNearer, SameCount
  <2>3. Kept(t)
    <3>1. /\ store[t] \in Row /\ store[t].state \in QUEUED_STATES
          /\ store'[t] = [store[t] EXCEPT !.wd = TRUE]
      BY <1>7, <1>0, <2>1, WorkingIsRow DEF CrashBetweenWrites, TypeOK
    <3>. QED
      BY <2>2, <3>1 DEF Kept, Same, SameKey, Row
  <2>4. ASSUME NEW u \in Task, u # t PROVE Effect(u)
    BY <1>7, <1>0, <2>2, <2>4, KeptRow DEF CrashBetweenWrites, TypeOK
  <2>. QED
    BY <2>3, <2>4 DEF Effect
<1>8. ASSUME NEW t \in Task, DispatchNotSaved(t)
      PROVE  \A u \in Task : Effect(u)
  <2>1. /\ Working(t) = store[t] /\ store[t].state \in QUEUED_STATES
        /\ Drop(t) /\ UNCHANGED <<posts, phase>>
    BY <1>8, WorkingIsRow DEF DispatchNotSaved
  <2>2. \A u \in Task : NoNearer(u)
    BY <1>4, <2>1
  <2>3. PICK row \in {store[t], [store[t] EXCEPT !.wd = TRUE]} :
          \/ store' = [store EXCEPT ![t] = row] /\ UNCHANGED finished
          \/ /\ store' = [store EXCEPT ![t] = [row EXCEPT !.state = FAILED]]
             /\ CanTransition(row.state, FAILED)
             /\ finished' = [finished EXCEPT ![t] = @ + 1]
    BY <1>8, <2>1 DEF DispatchNotSaved
  <2>4. /\ row \in Row /\ row.state = store[t].state /\ row.key = store[t].key
        /\ row.attempts = store[t].attempts /\ row.dispatch = store[t].dispatch
        /\ row.result = store[t].result /\ (store[t].wd => row.wd)
    <3>1. store[t] \in Row
      BY <1>0 DEF TypeOK
    <3>. QED
      BY <2>3, <3>1 DEF Row
  <2>5. ASSUME NEW u \in Task, u # t PROVE Effect(u)
    BY <1>0, <2>1, <2>2, <2>3, <2>5, KeptRow DEF TypeOK, SameCount
  <2>6. CASE store' = [store EXCEPT ![t] = row] /\ UNCHANGED finished
    BY <1>0, <2>1, <2>2, <2>4, <2>5, <2>6
       DEF Effect, Kept, Same, SameKey, SameCount, TypeOK
  <2>7. CASE /\ store' = [store EXCEPT ![t] = [row EXCEPT !.state = FAILED]]
             /\ CanTransition(row.state, FAILED)
             /\ finished' = [finished EXCEPT ![t] = @ + 1]
    <3>1. /\ store'[t].state = FAILED /\ store'[t].key = store[t].key
          /\ store[t].wd => store'[t].wd
          /\ store'[t].attempts = store[t].attempts
          /\ store'[t].dispatch = store[t].dispatch
          /\ store'[t].result = store[t].result
          /\ finished'[t] = finished[t] + 1
      BY <1>0, <2>4, <2>7 DEF TypeOK, Row
    <3>2. Ended(t)
      BY <2>1, <2>2, <2>4, <2>7, <3>1
         DEF Ended, Same, SameKey, Settled, TERMINAL_STATES, QUEUED_STATES,
             Absent, PENDING, COMPLETED, FAILED, CANCELLED, TIMED_OUT, RECOVERING
    <3>. QED
      BY <2>5, <3>2 DEF Effect
  <2>. QED
    BY <2>3, <2>6, <2>7
<1>9. ASSUME NEW t \in Task, Lose(t) PROVE \A u \in Task : Effect(u)
  BY <1>9, <1>1, <1>4 DEF Lose, SameCount
<1>10. CASE \/ Boot \/ StopBegin \/ StopEnd \/ Crash
            \/ \E t \in Task : CancelNotSaved(t)
            \/ UNCHANGED vars
            \/ \E w \in Worker, k \in ClientKey : SubmitAgain(w, k)
            \/ \E w \in Worker : SubmitRaises(w)
  BY <1>1, <1>10 DEF Boot, Launch, StopBegin, StopEnd, Crash, Die,
     CancelNotSaved, SubmitAgain, SubmitRaises, vars, NoNearer, SameCount
<1>11. CASE FinishStart
  <2>. SUFFICES ASSUME NEW u \in Task PROVE Effect(u)
    OBVIOUS
  <2>1. /\ UNCHANGED <<store, posts, finished>>
        /\ bg'[u] = IF u \in Resumed THEN "created" ELSE "none"
    BY <1>11 DEF FinishStart
  <2>2. CASE u \in Resumed
    BY <2>1, <2>2 DEF Effect, Scheduled, SameCount
  <2>3. CASE u \notin Resumed
    BY <2>1, <2>3, KeptRow DEF NoNearer, SameCount
  <2>. QED
    BY <2>2, <2>3
<1>. QED
  BY <1>2, <1>3, <1>5, <1>6, <1>7, <1>8, <1>9, <1>10, <1>11
     DEF Next, Lifecycle, Request

-----------------------------------------------------------------------------
(* At most once.  A row that is still to be dispatched was not dispatched  *)
(* before, or it may be replayed.                                          *)

OnceOf(u) ==
  /\ store[u].state = Absent => posts[u] = 0
  /\ bg[u] = "posted" => posts[u] > 0
  /\ store[u].state = PENDING \/ bg[u] \in {"created", "sleeping", "calling"}
     => posts[u] = 0 \/ Replayable(u)
  /\ ~Replayable(u) => posts[u] <= 1

LEMMA OnceInit == ASSUME Init, NEW u \in Task PROVE OnceOf(u)
<1>1. /\ store[u].state \in {Absent, PENDING} => posts[u] = 0
      /\ posts[u] <= 1 /\ bg[u] = "none"
  BY DEF Init, Absent, PENDING, RUNNING
<1>. QED
  BY <1>1 DEF OnceOf

LEMMA OnceStep ==
  ASSUME HandleInv, [Next]_vars, NEW u \in Task, OnceOf(u)
  PROVE  OnceOf(u)'
<1>1. Effect(u) /\ posts[u] \in Nat
  BY Effects DEF HandleInv, TypeInv, TypeOK
<1>. USE DEF OnceOf
<1>2. ASSUME SameKey(u), NoNearer(u), posts'[u] = posts[u],
             store'[u].state = PENDING => store[u].state = PENDING
      PROVE  OnceOf(u)'
  BY <1>2 DEF SameKey, NoNearer, Replayable
<1>3. CASE Kept(u)
  BY <1>2, <1>3 DEF Kept, Same
<1>4. CASE Scheduled(u)
  <2>1. store[u].state = PENDING \/ Replayable(u)
    BY <1>4 DEF Scheduled, Resumed, RecoveryAllowsReplay, Replayable, PENDING,
       RECOVERING
  <2>. QED
    BY <1>4, <2>1 DEF Scheduled, Replayable
<1>5. CASE Created(u)
  BY <1>5 DEF Created
<1>6. CASE Recovered(u)
  BY <1>2, <1>6 DEF Recovered, PENDING, RECOVERING
<1>7. CASE Dispatched(u)
  <2>1. store'[u].state # PENDING
    BY <1>7 DEF Dispatched, PENDING, RUNNING
  <2>. QED
    BY <1>7, <2>1 DEF Dispatched, SameKey, Replayable
<1>8. CASE Posted(u)
  <2>1. store[u].state = RUNNING
    BY <1>8 DEF Posted, HandleInv, HandlesMatchRows
  <2>2. posts[u] = 0 \/ Replayable(u)
    BY <1>8 DEF Posted, Runs
  <2>. QED
    BY <1>1, <1>8, <2>1, <2>2
       DEF Posted, Replayable, RUNNING, PENDING, Absent
<1>9. CASE Ended(u)
  BY <1>2, <1>9 DEF Ended, TERMINAL_STATES, PENDING, COMPLETED, FAILED,
     CANCELLED, TIMED_OUT
<1>. QED
  BY <1>1, <1>3, <1>4, <1>5, <1>6, <1>7, <1>8, <1>9 DEF Effect

OnceInv == \A u \in Task : OnceOf(u)

LEMMA OnceInvariant == Spec => []OnceInv
<1>1. Init => OnceInv
  BY OnceInit DEF OnceInv
<1>2. HandleInv /\ OnceInv /\ [Next]_vars => OnceInv'
  BY OnceStep DEF OnceInv
<1>. QED
  BY <1>1, <1>2, HandleInvariant, PTL DEF Spec

(* The worker receives a task at most once unless the policy lets it be    *)
(* replayed: for every policy, any number of crashes, and any interleaving *)
(* of requests, coroutines and recoveries.                                 *)
THEOREM WorkedAtMostOnce == Spec => []AtMostOnce
<1>1. OnceInv => AtMostOnce
  BY DEF OnceInv, OnceOf, AtMostOnce
<1>. QED
  BY <1>1, OnceInvariant, PTL

(* A task that is still to be dispatched and may not be replayed has not   *)
(* been dispatched before: what WorkedAtMostOnce rests on.                 *)
THEOREM PendingIsUndispatched == Spec => []UndispatchedIfPending
<1>1. OnceInv => UndispatchedIfPending
  BY DEF OnceInv, OnceOf, UndispatchedIfPending
<1>. QED
  BY <1>1, OnceInvariant, PTL

-----------------------------------------------------------------------------
(* What no step does to a row.                                             *)

LEMMA RowSteps ==
  ASSUME HandleInv, [Next]_vars, NEW u \in Task
  PROVE  /\ Settled(u) => store'[u] = store[u]
         /\ Follows(store[u].state, store'[u].state)
<1>1. Effect(u)
  BY Effects
<1>2. CASE store'[u] = store[u]
  BY <1>2 DEF Follows
<1>3. CASE Kept(u) /\ store'[u] # store[u]
  BY <1>3 DEF Kept, Same, Follows, QUEUED_STATES, Settled, TERMINAL_STATES,
     PENDING, RECOVERING, COMPLETED, FAILED, CANCELLED, TIMED_OUT
<1>4. CASE Created(u)
  BY <1>4 DEF Created, NewRow, NoRow, Follows, Settled, TERMINAL_STATES, Absent,
     COMPLETED, FAILED, CANCELLED, TIMED_OUT
<1>5. CASE Recovered(u) \/ Dispatched(u)
  <2>1. <<store[u].state, store'[u].state>> \in
          {<<RUNNING, RECOVERING>>, <<PENDING, RUNNING>>,
           <<RECOVERING, RUNNING>>}
    BY <1>5 DEF Recovered, Dispatched, QUEUED_STATES
  <2>. QED
    BY <2>1 DEF Follows, Settled, TERMINAL_STATES, CanTransition,
       ALLOWED_TRANSITIONS, PENDING, RUNNING, COMPLETED, FAILED, CANCELLED,
       TIMED_OUT, RECOVERING
<1>6. CASE Ended(u)
  BY <1>6 DEF Ended, Follows
<1>. QED
  BY <1>1, <1>2, <1>3, <1>4, <1>5, <1>6 DEF Effect, Scheduled, Posted

(* A terminal row is never written again, by whichever handler.            *)
THEOREM TerminalRowsAreFinal == Spec => TerminalIsFinal
<1>1. HandleInv /\ [Next]_vars =>
        [\A t \in Task : Settled(t) => store'[t] = store[t]]_vars
  BY RowSteps
<1>. QED
  BY <1>1, HandleInvariant, PTL DEF Spec, TerminalIsFinal

(* States only ever change along the transition table, also where the code *)
(* writes a row without transition().                                      *)
THEOREM TransitionsFollowTable == Spec => FollowsStateMachine
<1>1. HandleInv /\ [Next]_vars =>
        [\A t \in Task : Follows(store[t].state, store'[t].state)]_vars
  BY RowSteps
<1>. QED
  BY <1>1, HandleInvariant, PTL DEF Spec, FollowsStateMachine

(* No POST leaves for a task that was cancelled, failed or is being        *)
(* recovered, and the dispatch id it carries is the one on record.         *)
THEOREM PostsOnlyForRunning == Spec => PostsOnlyRunning
<1>1. HandleInv /\ [Next]_vars =>
        [\A t \in Task : posts'[t] # posts[t] =>
            /\ store[t].state = RUNNING
            /\ store[t].dispatch = held[t].dispatch]_vars
  <2>. SUFFICES ASSUME HandleInv, [Next]_vars, NEW t \in Task,
                       posts'[t] # posts[t]
                PROVE  store[t].state = RUNNING /\ held[t] = store[t]
    OBVIOUS
  <2>1. Runs(t, "calling")
    BY Effects DEF Effect, Kept, Scheduled, Created, Recovered, Dispatched,
       Posted, Ended
  <2>. QED
    BY <2>1 DEF HandleInv, HandlesMatchRows
<1>. QED
  BY <1>1, HandleInvariant, PTL DEF Spec, PostsOnlyRunning

-----------------------------------------------------------------------------
(* Attempts and answers.  A Running row names its last attempt, a row that *)
(* is not Completed holds no answer, and a coroutine that is about to post *)
(* has counted one attempt more than it has posted.                        *)

RecordInv ==
  \A t \in Task :
    /\ t \notin Legacy =>
         /\ posts[t] <= store[t].attempts
         /\ bg[t] = "calling" => posts[t] < store[t].attempts
    /\ store[t].state = RUNNING => store[t].dispatch = store[t].attempts
    /\ IF store[t].state = COMPLETED
         THEN posts[t] > 0 /\ store[t].result = store[t].dispatch
         ELSE store[t].result = 0

LEMMA RecordInit == Init => RecordInv
<1>. SUFFICES ASSUME Init, NEW t \in Task
              PROVE  /\ t \notin Legacy => posts[t] = 0
                     /\ store[t].state \in {Absent, PENDING, RUNNING}
                     /\ store[t].attempts = 0 /\ store[t].dispatch = 0
                     /\ store[t].result = 0 /\ bg[t] = "none"
  BY DEF RecordInv, Absent, PENDING, RUNNING, COMPLETED
<1>1. t \notin Legacy => posts[t] = 0
  BY DEF Init, NoRow, Absent, RUNNING
<1>2. store[t].attempts = 0 /\ store[t].dispatch = 0 /\ store[t].result = 0
  <2>1. store[t] \in {NoRow} \cup LegacyRows
    BY DEF Init
  <2>2. NoRow.attempts = 0 /\ NoRow.dispatch = 0 /\ NoRow.result = 0
    BY DEF NoRow
  <2>3. ASSUME NEW row \in LegacyRows
        PROVE  row.attempts = 0 /\ row.dispatch = 0 /\ row.result = 0
    BY LegacyShape
  <2>. QED
    BY <2>1, <2>2, <2>3
<1>. QED
  BY <1>1, <1>2, InitRows DEF Init

LEMMA RecordInvariant == Spec => []RecordInv
<1>1. HandleInv /\ TypeOK' /\ OnceInv /\ RecordInv /\ [Next]_vars => RecordInv'
  <2>. SUFFICES ASSUME HandleInv, TypeOK', OnceInv, RecordInv, [Next]_vars,
                       NEW t \in Task
                PROVE  /\ t \notin Legacy =>
                            /\ posts'[t] <= store'[t].attempts
                            /\ bg'[t] = "calling" =>
                                 posts'[t] < store'[t].attempts
                       /\ store'[t].state = RUNNING =>
                            store'[t].dispatch = store'[t].attempts
                       /\ IF store'[t].state = COMPLETED
                            THEN /\ posts'[t] > 0
                                 /\ store'[t].result = store'[t].dispatch
                            ELSE store'[t].result = 0
    BY DEF RecordInv
  <2>0. /\ Effect(t)
        /\ posts[t] \in Nat /\ store[t].attempts \in Nat
    BY Effects DEF HandleInv, TypeInv, TypeOK, Row
  <2>. USE DEF RecordInv, Same
  <2>1. CASE Kept(t)
    <3>1. /\ store'[t].state = store[t].state
          /\ store'[t].attempts = store[t].attempts
          /\ store'[t].dispatch = store[t].dispatch
          /\ store'[t].result = store[t].result
      BY <2>1 DEF Kept, Same
    <3>. QED
      BY <2>0, <2>1, <3>1 DEF Kept, NoNearer
  <2>2. CASE Created(t)
    <3>1. /\ store'[t].state = PENDING /\ store'[t].attempts = 0
          /\ store'[t].result = 0
      BY <2>2 DEF Created, NewRow, NoRow
    <3>2. posts'[t] = 0
      BY <2>2 DEF Created, OnceInv, OnceOf
    <3>. QED
      BY <2>2, <3>1, <3>2 DEF Created, PENDING, RUNNING, COMPLETED
  <2>3. CASE Recovered(t)
    BY <2>0, <2>3 DEF Recovered, NoNearer, RUNNING, RECOVERING, COMPLETED
  <2>4. CASE Dispatched(t)
    BY <2>0, <2>4
       DEF Dispatched, QUEUED_STATES, PENDING, RECOVERING, RUNNING, COMPLETED
  <2>5. CASE Posted(t)
    BY <2>0, <2>5 DEF Posted, Runs
  <2>6. CASE Ended(t)
    <3>1. store[t].state # COMPLETED /\ store[t].result = 0
      BY <2>6 DEF Ended, Settled, TERMINAL_STATES
    <3>2. store'[t].state # RUNNING
      BY <2>6 DEF Ended, TERMINAL_STATES, RUNNING, COMPLETED, FAILED, CANCELLED,
         TIMED_OUT
    <3>3. CASE store'[t].state # COMPLETED /\ store'[t].result = store[t].result
      BY <2>0, <2>6, <3>1, <3>2, <3>3 DEF Ended, NoNearer
    <3>4. CASE /\ store[t].state = RUNNING /\ bg[t] = "posted"
               /\ store'[t].state = COMPLETED
      <4>1. store'[t].result = store'[t].dispatch
        BY <2>6, <3>1, <3>4 DEF Ended
      <4>2. posts'[t] > 0
        BY <2>6, <3>4 DEF Ended, OnceInv, OnceOf
      <4>. QED
        BY <2>0, <2>6, <3>2, <3>4, <4>1, <4>2 DEF Ended, NoNearer
    <3>. QED
      BY <2>6, <3>3, <3>4 DEF Ended
  <2>7. CASE Scheduled(t)
    BY <2>0, <2>7 DEF Scheduled
  <2>. QED
    BY <2>0, <2>1, <2>2, <2>3, <2>4, <2>5, <2>6, <2>7 DEF Effect
<1>. QED
  BY <1>1, RecordInit, HandleInvariant, OnceInvariant, TypeCorrect, PTL DEF Spec

(* Every POST of a task was counted in its row before it left, however the *)
(* process ended in between.                                               *)
THEOREM AttemptsAreOnRecord == Spec => []AttemptsCoverPosts
<1>1. RecordInv => AttemptsCoverPosts
  BY DEF RecordInv, AttemptsCoverPosts
<1>. QED
  BY <1>1, RecordInvariant, PTL

(* While a POST is out its row carries the dispatch id the worker was      *)
(* given, and a Completed row holds the answer to its last dispatch.       *)
THEOREM DispatchesAreOnRecord == Spec => []DispatchOnRecord
<1>1. HandleInv /\ RecordInv => DispatchOnRecord
  BY DEF RecordInv, DispatchOnRecord, HandleInv, HandlesMatchRows
<1>. QED
  BY <1>1, RecordInvariant, HandleInvariant, PTL

(* Whatever races to finish a task, its process counts it exactly once.    *)
THEOREM TasksCountedOnce == Spec => FinishedOnce
<1>1. HandleInv /\ [Next]_vars =>
        [phase' = phase => \A t \in Task :
           finished'[t] = finished[t] + (IF Settled(t)' /\ ~Settled(t)
                                           THEN 1 ELSE 0)]_vars
  <2>. SUFFICES ASSUME HandleInv, [Next]_vars, phase' = phase, NEW t \in Task
                PROVE  finished'[t] = finished[t] +
                         (IF Settled(t)' /\ ~Settled(t) THEN 1 ELSE 0)
    OBVIOUS
  <2>1. Effect(t) /\ finished[t] \in Nat
    BY Effects DEF HandleInv, TypeInv, TypeOK
  <2>2. CASE Ended(t)
    BY <2>2 DEF Ended, Settled
  <2>3. CASE ~Ended(t)
    <3>1. finished'[t] = finished[t]
      BY <2>1, <2>3
         DEF Effect, Kept, Scheduled, Created, Recovered, Dispatched, Posted,
             SameCount
    <3>2. \/ store'[t].state = store[t].state
          \/ store'[t].state \in {PENDING, RECOVERING, RUNNING}
      <4>1. Created(t) => store'[t].state = PENDING
        BY DEF Created, NewRow, NoRow
      <4>. QED
        BY <2>1, <2>3, <4>1
           DEF Effect, Kept, Same, Scheduled, Recovered, Dispatched, Posted
    <3>3. ~(Settled(t)' /\ ~Settled(t))
      BY <3>2 DEF Settled, TERMINAL_STATES, PENDING, RUNNING, RECOVERING,
         COMPLETED, FAILED, CANCELLED, TIMED_OUT
    <3>. QED
      BY <2>1, <3>1, <3>3
  <2>. QED
    BY <2>2, <2>3
<1>. QED
  BY <1>1, HandleInvariant, PTL DEF Spec, FinishedOnce

-----------------------------------------------------------------------------
(* Idempotency keys.  Rows are never deleted and keep their key, so what a *)
(* key was answered with stays the one row of that key.                    *)

KeyInv ==
  \A k \in Key : /\ answers[k] \subseteq TasksOfKey(k)
                 /\ \A t, u \in TasksOfKey(k) : t = u

LEMMA SameRowsOfKey ==
  ASSUME \A u \in Task : SameKey(u)
  PROVE  \A k \in Key : TasksOfKey(k)' = TasksOfKey(k)
BY DEF SameKey, TasksOfKey

LEMMA EffectKeepsKey ==
  ASSUME NEW u \in Task, Effect(u), ~Created(u) PROVE SameKey(u)
BY DEF Effect, Kept, Scheduled, Recovered, Dispatched, Posted, Ended, SameKey

LEMMA KeyInvariant == Spec => []KeyInv
<1>1. Init => KeyInv
  <2>. SUFFICES ASSUME Init, NEW k \in Key
                PROVE  answers[k] = {} /\ \A t, u \in TasksOfKey(k) : t = u
    BY DEF KeyInv
  <2>1. k # None
    BY KeyAssumption
  <2>2. \A t \in TasksOfKey(k) : t \in Legacy /\ store[t].key = k
    BY DEF Init, TasksOfKey, NoRow
  <2>. QED
    BY <2>1, <2>2 DEF Init
<1>2. HandleInv /\ KeyInv /\ [Next]_vars => KeyInv'
  <2>. SUFFICES ASSUME HandleInv, KeyInv, [Next]_vars PROVE KeyInv'
    OBVIOUS
  <2>0. TypeOK /\ \A u \in Task : Effect(u)
    BY Effects DEF HandleInv, TypeInv
  <2>1. ASSUME NEW t \in Task, NEW w \in Worker, NEW k \in ClientKey,
               Submit(t, w, k)
        PROVE  KeyInv'
    <3>1. /\ store[t].state = Absent /\ store'[t] = NewRow(w, k)
          /\ \A u \in Task : u # t => store'[u] = store[u]
          /\ k # None => TasksOfKey(k) = {}
          /\ Answer(k, t)
      BY <2>1, <2>0 DEF Submit, TypeOK
    <3>2. NewRow(w, k).key = k /\ NewRow(w, k).state # Absent
      BY DEF NewRow, NoRow, PENDING, Absent
    <3>. SUFFICES ASSUME NEW j \in Key
                  PROVE  /\ answers'[j] \subseteq TasksOfKey(j)'
                         /\ \A v, u \in TasksOfKey(j)' : v = u
      BY DEF KeyInv
    <3>3. TasksOfKey(j)' = IF j = k THEN {t} ELSE TasksOfKey(j)
      BY <3>1, <3>2, KeyAssumption DEF TasksOfKey
    <3>4. /\ answers'[j] \subseteq answers[j] \cup {t}
          /\ j # k => answers'[j] = answers[j]
      BY <3>1, <2>0 DEF Answer, TypeOK
    <3>5. j = k => answers[j] = {}
      BY <3>1, KeyAssumption DEF KeyInv
    <3>. QED
      BY <3>3, <3>4, <3>5 DEF KeyInv
  <2>2. CASE \A t \in Task, w \in Worker, k \in ClientKey : ~Submit(t, w, k)
    <3>1. \A u \in Task : SameKey(u)
      BY <2>0, <2>2, EffectKeepsKey DEF Created
    <3>2. \A k \in Key : answers'[k] \subseteq TasksOfKey(k)
      <4>1. CASE UNCHANGED answers
        BY <4>1 DEF KeyInv
      <4>2. ASSUME NEW w \in Worker, NEW k \in ClientKey, SubmitAgain(w, k)
            PROVE  \A j \in Key : answers'[j] \subseteq TasksOfKey(j)
        <5>1. PICK t \in TasksOfKey(k) : Answer(k, t)
          BY <4>2 DEF SubmitAgain
        <5>2. answers \in [Key \cup {EmptyKey} -> SUBSET (Task \cup {Raised})]
          BY <2>0 DEF TypeOK
        <5>3. \/ answers' = [answers EXCEPT ![k] = answers[k] \cup {t}]
              \/ answers' = answers
          BY <5>1 DEF Answer
        <5>. SUFFICES ASSUME NEW j \in Key
                      PROVE  answers'[j] \subseteq TasksOfKey(j)
          OBVIOUS
        <5>4. answers[j] \subseteq TasksOfKey(j)
          BY DEF KeyInv
        <5>5. CASE j = k
          <6>1. answers'[k] \in {answers[k], answers[k] \cup {t}}
            BY <5>2, <5>3, <5>5
          <6>. QED
            BY <5>1, <5>4, <5>5, <6>1
        <5>6. CASE j # k
          BY <5>2, <5>3, <5>4, <5>6
        <5>. QED
          BY <5>5, <5>6
      <4>3. ASSUME NEW w \in Worker, SubmitRaises(w)
            PROVE  \A j \in Key : answers'[j] \subseteq TasksOfKey(j)
        <5>1. \A j \in Key : answers'[j] = answers[j]
          BY <4>3, <2>0, KeyAssumption DEF SubmitRaises, Answer, TypeOK
        <5>. QED
          BY <5>1 DEF KeyInv
      <4>. QED
        BY <2>2, <4>1, <4>2, <4>3
           DEF Next, Lifecycle, Request, CoroutineStep, Boot, Launch,
               MarkRecovering, FinishStart, StopBegin, StopEnd, Cancel, Begin,
               Dispatch, DispatchFails, CallFails, Post, Complete,
               CancelDelivered, Crash, CrashBetweenWrites, Die, Lose,
               DispatchNotSaved, CancelNotSaved, vars
    <3>3. \A k \in Key : TasksOfKey(k)' = TasksOfKey(k)
      BY <3>1, SameRowsOfKey
    <3>. QED
      BY <3>2, <3>3 DEF KeyInv
  <2>. QED
    BY <2>1, <2>2
<1>. QED
  BY <1>1, <1>2, HandleInvariant, PTL DEF Spec

(* One key names one task for good: submissions with the same key are all  *)
(* answered with it, across lost answers, ends and restarts.               *)
THEOREM KeysNameOneTask == Spec => []OneTaskPerKey
<1>1. KeyInv => OneTaskPerKey
  <2>. SUFFICES ASSUME KeyInv, NEW k \in Key
                PROVE  Cardinality(answers[k]) <= 1
    BY DEF OneTaskPerKey, KeyInv
  <2>1. CASE answers[k] = {}
    BY <2>1, FS_EmptySet
  <2>2. ASSUME NEW t \in answers[k] PROVE Cardinality(answers[k]) <= 1
    <3>1. answers[k] = {t}
      BY <2>2 DEF KeyInv
    <3>. QED
      BY <3>1, FS_Singleton
  <2>. QED
    BY <2>1, <2>2
<1>. QED
  BY <1>1, KeyInvariant, PTL

-----------------------------------------------------------------------------
(* No orphan.  Rows that this version wrote name their directory, so it    *)
(* need not be resolved when they are dispatched; a call that fails finds  *)
(* its row Running, from where it may always be finished.                  *)

DirectoryKnown ==
  \A t \in Task \ Legacy : store[t].state # Absent => store[t].wd

LEMMA DirectoryInit == Init => DirectoryKnown
<1>. SUFFICES ASSUME Init, NEW t \in Task \ Legacy
              PROVE  store[t].state = Absent
  BY DEF DirectoryKnown
<1>1. store[t] = NoRow
  BY DEF Init
<1>. QED
  BY <1>1 DEF NoRow

LEMMA DirectoryStep ==
  HandleInv /\ DirectoryKnown /\ [Next]_vars => DirectoryKnown'
<1>. SUFFICES ASSUME HandleInv, DirectoryKnown, [Next]_vars,
                     NEW t \in Task \ Legacy
              PROVE  store'[t].state # Absent => store'[t].wd
  BY DEF DirectoryKnown
<1>1. CASE Created(t)
  BY <1>1 DEF Created, NewRow, NoRow
<1>2. CASE ~Created(t)
  BY <1>2, Effects DEF Effect, Kept, Scheduled, Recovered, Dispatched, Posted,
     Ended, SameKey, DirectoryKnown
<1>. QED
  BY <1>1, <1>2

LEMMA DirectoryAlwaysKnown == Spec => []DirectoryKnown
BY DirectoryInit, DirectoryStep, HandleInvariant, PTL DEF Spec

\* Task t is over, or something will finish it, or it was left on purpose.
Cared(t) == t \in Live \/ Settled(t) \/ Deferred(t)
              \/ store[t].state = Absent \/ t \in lost
CareInv == phase = "up" => \A t \in Task \ Legacy : Cared(t)

LEMMA CareInit == Init => CareInv
BY DEF Init, CareInv

LEMMA CareStep ==
  HandleInv /\ DirectoryKnown /\ CareInv /\ [Next]_vars => CareInv'
<1>. USE DEF Cared
<1>. SUFFICES ASSUME HandleInv, DirectoryKnown, CareInv, [Next]_vars,
                     phase' = "up", NEW u \in Task \ Legacy
              PROVE  Cared(u)'
  BY DEF CareInv
<1>0. TypeOK /\ HandlesMatchRows
  BY DEF HandleInv, TypeInv
<1>1. ASSUME store'[u] = store[u], phase = "up", lost \subseteq lost',
             bg[u] # "none" => bg'[u] # "none"
      PROVE  Cared(u)'
  BY <1>1 DEF CareInv, Live, Settled, Deferred, Replayable
<1>2. CASE FinishStart
  <2>1. /\ store[u].state \notin Recoverable \ QUEUED_STATES
        /\ UNCHANGED store
        /\ bg'[u] = IF u \in Resumed THEN "created" ELSE "none"
    BY <1>2 DEF FinishStart, Rows
  <2>2. store[u].state \in TaskStates \cup {Absent}
    BY <1>0 DEF TypeOK, Row
  <2>3. \/ Settled(u) \/ store[u].state \in {PENDING, RECOVERING, Absent}
    BY <2>1, <2>2 DEF TaskStates, Settled, Recoverable, ACTIVE_STATES,
       QUEUED_STATES, PENDING, RUNNING, RETRYING, RECOVERING
  <2>4. store[u].state = RECOVERING => u \in Resumed \/ Deferred(u)
    BY DEF Resumed, Deferred, RecoveryAllowsReplay, Replayable
  <2>. QED
    BY <2>1, <2>3, <2>4 DEF Resumed, Live, Settled, Deferred, Replayable
<1>3. ASSUME NEW t \in Task, NEW w \in Worker, NEW k \in ClientKey,
             Submit(t, w, k)
      PROVE  Cared(u)'
  <2>1. CASE u = t
    BY <1>3, <1>0, <2>1 DEF Submit, Live, TypeOK
  <2>2. CASE u # t
    BY <1>1, <1>3, <1>0, <2>2 DEF Submit, TypeOK
  <2>. QED
    BY <2>1, <2>2
<1>4. ASSUME NEW t \in Task,
             NEW to \in {FAILED, TIMED_OUT, COMPLETED, CANCELLED}, NEW a,
             Settle(t, to, a), phase = "up",
             Settled(t) \/ CanTransition(store[t].state, to), UNCHANGED lost,
             \A v \in Task : v # t => bg'[v] = bg[v]
      PROVE  Cared(u)'
  <2>1. CASE u = t
    BY <1>4, <1>0, <2>1, SettleFrame DEF Settled, TERMINAL_STATES
  <2>2. CASE u # t
    BY <1>1, <1>4, <1>0, <2>2, SettleFrame
  <2>. QED
    BY <2>1, <2>2
<1>5. \A t \in Task : Drop(t) => \A v \in Task : v # t => bg'[v] = bg[v]
  BY <1>0 DEF Drop, TypeOK
<1>6. \A to \in {FAILED, TIMED_OUT, COMPLETED, CANCELLED} :
        CanTransition(RUNNING, to)
  BY DEF CanTransition, ALLOWED_TRANSITIONS, PENDING, RUNNING, COMPLETED,
     FAILED, CANCELLED, TIMED_OUT, RECOVERING, RETRYING
<1>7. ASSUME NEW t \in Task, Cancel(t) PROVE Cared(u)'
  <2>1. CanTransition(store[t].state, CANCELLED)
    BY <1>7 DEF Cancel, Unsettled, CanTransition, ALLOWED_TRANSITIONS,
       ACTIVE_STATES, QUEUED_STATES, PENDING, RUNNING, COMPLETED, FAILED,
       CANCELLED, TIMED_OUT, RECOVERING, RETRYING
  <2>. QED
    BY <1>7, <1>4, <2>1 DEF Cancel
<1>8. ASSUME NEW t \in Task, CoroutineStep(t) PROVE Cared(u)'
  <2>1. CASE Begin(t)
    <3>1. bg[t] = "created" /\ t \notin cancelled /\ UNCHANGED <<store, phase>>
      BY <2>1 DEF Begin, Runs
    <3>2. ~Settled(t)
      BY <3>1, RunsUnsettled DEF Live
    <3>. QED
      BY <1>1, <2>1, <1>0, <3>1, <3>2 DEF Begin, TypeOK
  <2>2. CASE Dispatch(t)
    <3>1. CASE u = t
      BY <2>2, <1>0, <3>1 DEF Dispatch, Live, TypeOK
    <3>2. CASE u # t
      BY <1>1, <2>2, <1>0, <3>2 DEF Dispatch, TypeOK
    <3>. QED
      BY <3>1, <3>2
  <2>3. ASSUME NEW to \in {FAILED, TIMED_OUT}, DispatchFails(t, to)
        PROVE  Cared(u)'
    <3>1. Working(t) = store[t] /\ store[t].state # Absent
      BY <2>3, WorkingIsRow DEF DispatchFails, QUEUED_STATES, Absent, PENDING,
         RECOVERING
    <3>2. u # t
      BY <2>3, <3>1 DEF DispatchFails, DirectoryKnown
    <3>3. store'[u] = store[u] /\ bg'[u] = bg[u]
      BY <2>3, <3>2, <1>0, <1>5, SettleFrame DEF DispatchFails
    <3>. QED
      BY <1>1, <2>3, <3>3 DEF DispatchFails
  <2>4. ASSUME NEW to \in {FAILED, TIMED_OUT}, CallFails(t, to)
        PROVE  Cared(u)'
    <3>1. store[t].state = RUNNING
      BY <2>4, <1>0 DEF CallFails, HandlesMatchRows
    <3>. QED
      BY <2>4, <3>1, <1>4, <1>5, <1>6 DEF CallFails
  <2>5. CASE Post(t)
    BY <1>1, <2>5, <1>0 DEF Post, TypeOK
  <2>6. CASE Complete(t)
    <3>1. store[t].state = RUNNING
      BY <2>6, <1>0 DEF Complete, HandlesMatchRows
    <3>. QED
      BY <2>6, <3>1, <1>4, <1>5, <1>6 DEF Complete
  <2>7. CASE CancelDelivered(t)
    <3>1. phase = "up" /\ (Settled(t) \/ t \in lost) /\ UNCHANGED lost
      BY <2>7, <1>0 DEF CancelDelivered, HandlesMatchRows
    <3>2. \/ UNCHANGED store
          \/ Settle(t, CANCELLED, 0)
      BY <2>7 DEF CancelDelivered
    <3>3. CASE u = t
      BY <3>1, <3>2, <3>3, <1>0, SettleFrame DEF Settled
    <3>4. CASE u # t
      <4>1. store'[u] = store[u]
        BY <3>2, <3>4, <1>0, SettleFrame
      <4>. QED
        BY <1>1, <2>7, <3>1, <3>4, <4>1, <1>5 DEF CancelDelivered
    <3>. QED
      BY <3>3, <3>4
  <2>. QED
    BY <1>8, <2>1, <2>2, <2>3, <2>4, <2>5, <2>6, <2>7 DEF CoroutineStep
<1>9. ASSUME NEW t \in Task, Lose(t) PROVE Cared(u)'
  <2>1. CASE u = t
    BY <1>9, <2>1 DEF Lose
  <2>2. CASE u # t
    BY <1>1, <1>5, <1>9, <2>2 DEF Lose
  <2>. QED
    BY <2>1, <2>2
<1>10. ASSUME NEW t \in Task, DispatchNotSaved(t) PROVE Cared(u)'
  <2>1. lost' = lost \cup {t} /\ UNCHANGED phase
    BY <1>10 DEF DispatchNotSaved
  <2>2. CASE u = t
    BY <2>1, <2>2
  <2>3. CASE u # t
    BY <1>1, <1>10, <2>1, <2>3, NotSavedFrame
  <2>. QED
    BY <2>2, <2>3
<1>. QED
  BY <1>1, <1>2, <1>3, <1>7, <1>8, <1>9, <1>10
     DEF Next, Lifecycle, Request, Boot, Launch, MarkRecovering, StopBegin,
         StopEnd,
         SubmitAgain, SubmitRaises, CancelNotSaved, Crash, CrashBetweenWrites,
         Die, vars

LEMMA CareMeansNoOrphan == TypeOK /\ CareInv => NoOrphan
BY DEF NoOrphan, CareInv, Cared, Unsettled, Settled, TERMINAL_STATES,
   ACTIVE_STATES, QUEUED_STATES, Absent, PENDING, RUNNING, COMPLETED, FAILED,
   CANCELLED, TIMED_OUT, RECOVERING, RETRYING

(* While the bridge serves, every unfinished task has a coroutine or was   *)
(* deferred by the recovery policy.                                        *)
THEOREM NoTaskOrphaned == Spec => []NoOrphan
BY CareInit, CareStep, CareMeansNoOrphan, HandleInvariant, DirectoryAlwaysKnown,
   TypeCorrect, PTL DEF Spec

-----------------------------------------------------------------------------
(* Limits.  Admission is asked once, for a new task; a start schedules     *)
(* whatever it finds.  What keeps a start within the limit is that every   *)
(* row it schedules had a coroutine before, so the coroutines are counted  *)
(* together with the rows that would get one from a start.                 *)

InProgress == {t \in Task : Unsettled(t) /\ ~Deferred(t)}
Unfinished == Rows(ACTIVE_STATES \cup QUEUED_STATES)

BacklogInv ==
  /\ Cardinality(Live \cup InProgress) <= GlobalActive
  /\ Cardinality(Unfinished) <= GlobalPending + GlobalActive - 1

LEMMA UnfinishedRows == \A t \in Task : t \in Unfinished <=> Unsettled(t)
BY DEF Unfinished, Rows, Unsettled

LEMMA SmallerSet ==
  ASSUME NEW S \in SUBSET Task, NEW T \in SUBSET S
  PROVE  /\ IsFiniteSet(S) /\ Cardinality(S) \in Nat
         /\ Cardinality(T) \in Nat /\ Cardinality(T) <= Cardinality(S)
BY TaskAssumption, FS_Subset, FS_CardinalityType

LEMMA OneMore ==
  ASSUME NEW S \in SUBSET Task, NEW t \in Task
  PROVE  Cardinality(S \cup {t}) <= Cardinality(S) + 1
BY TaskAssumption, FS_Subset, FS_AddElement, FS_CardinalityType

\* Without sqlite errors no coroutine is ever lost.
LEMMA NothingLost ==
  ASSUME ~StoreFails PROVE Spec => [](lost = {})
<1>1. Init => lost = {}
  BY DEF Init
<1>2. lost = {} /\ [Next]_vars => (lost = {})'
  BY DEF Next, Lifecycle, Request, CoroutineStep, Boot, Launch, MarkRecovering,
     FinishStart, StopBegin, StopEnd, Submit, SubmitAgain, SubmitRaises, Cancel,
     Begin, Dispatch, DispatchFails, CallFails, Post, Complete, CancelDelivered,
     Lose, DispatchNotSaved, CancelNotSaved, Crash, CrashBetweenWrites, Die, vars
<1>. QED
  BY <1>1, <1>2, PTL DEF Spec

\* A step that accepts no task adds none to either side.
LEMMA NoNewWork ==
  ASSUME NEW u \in Task, Effect(u), ~Created(u), TypeOK
  PROVE  /\ u \in Unfinished' => u \in Unfinished
         /\ u \in (Live \cup InProgress)' => u \in Live \cup InProgress
<1>. USE UnfinishedRows DEF Live, InProgress, Unsettled, Deferred, Replayable
<1>1. CASE Kept(u)
  <2>1. /\ store'[u].state = store[u].state /\ store'[u].key = store[u].key
        /\ bg'[u] # "none" => bg[u] # "none"
    BY <1>1 DEF Kept, Same, SameKey, NoNearer
  <2>. QED
    BY <2>1 DEF Unfinished, Rows
<1>2. CASE Scheduled(u)
  <2>1. store'[u] = store[u] /\ u \in Resumed
    BY <1>2 DEF Scheduled
  <2>2. u \in InProgress
    BY <2>1 DEF Resumed, RecoveryAllowsReplay, QUEUED_STATES, PENDING, RECOVERING
  <2>. QED
    BY <2>1, <2>2 DEF Unfinished, Rows
<1>3. CASE Recovered(u)
  BY <1>3 DEF Recovered, Unfinished, Rows, ACTIVE_STATES, RUNNING, RECOVERING
<1>4. CASE Dispatched(u)
  BY <1>4 DEF Dispatched, Unfinished, Rows
<1>5. CASE Posted(u)
  BY <1>5 DEF Posted, Runs, Unfinished, Rows
<1>6. CASE Ended(u)
  <2>1. store'[u].state \notin ACTIVE_STATES \cup QUEUED_STATES
    BY <1>6 DEF Ended, TERMINAL_STATES, ACTIVE_STATES, QUEUED_STATES, PENDING,
       RUNNING, COMPLETED, FAILED, CANCELLED, TIMED_OUT, RECOVERING, RETRYING
  <2>2. bg'[u] # "none" => bg[u] # "none"
    BY <1>6 DEF Ended, NoNearer
  <2>. QED
    BY <2>1, <2>2 DEF Unfinished, Rows
<1>. QED
  BY <1>1, <1>2, <1>3, <1>4, <1>5, <1>6 DEF Effect

LEMMA BacklogStep ==
  ASSUME Legacy = {}, lost = {}, HandleInv, NoOrphan, BacklogInv, [Next]_vars
  PROVE  BacklogInv'
<1>0. TypeOK /\ \A u \in Task : Effect(u)
  BY Effects DEF HandleInv, TypeInv
<1>1. /\ Live \cup InProgress \in SUBSET Task
      /\ Unfinished \in SUBSET Task /\ Rows(QUEUED_STATES) \in SUBSET Task
      /\ Live \in SUBSET Task /\ InProgress' \in SUBSET Task
      /\ Unfinished' \in SUBSET Task /\ Live' \in SUBSET Task
  BY DEF Live, InProgress, Unfinished, Rows
<1>2. GlobalPending \in Nat /\ GlobalActive \in Nat
  BY LimitAssumption
<1>3. ASSUME NEW t \in Task, NEW w \in Worker, NEW k \in ClientKey,
             Submit(t, w, k)
      PROVE  BacklogInv'
  <2>1. /\ phase = "up" /\ Cardinality(Rows(QUEUED_STATES)) < GlobalPending
        /\ Cardinality(Live) < GlobalActive
    BY <1>3 DEF Submit, Admits
  <2>2. \A u \in Task : u # t => store'[u] = store[u] /\ bg'[u] = bg[u]
    BY <1>3, <1>0 DEF Submit, TypeOK
  <2>3. InProgress \subseteq Live
    BY <2>1 DEF NoOrphan, InProgress
  <2>4. Unfinished \subseteq Rows(QUEUED_STATES) \cup Live
    <3>1. \A u \in Task : store[u].state \in ACTIVE_STATES => u \in InProgress
      BY DEF InProgress, Unsettled, Deferred, ACTIVE_STATES, RUNNING, RETRYING,
         RECOVERING
    <3>. QED
      BY <2>3, <3>1 DEF Unfinished, Rows
  <2>5. Cardinality(Live \cup {t}) <= GlobalActive
    BY <1>1, <1>2, <2>1, OneMore, SmallerSet
  <2>6. (Live \cup InProgress)' \subseteq Live \cup {t}
    BY <2>2, <2>3
       DEF Live, InProgress, Unsettled, Deferred, Replayable
  <2>7. Cardinality((Live \cup InProgress)') <= GlobalActive
    BY <1>1, <1>2, <2>5, <2>6, SmallerSet
  <2>8. Unfinished' \subseteq Unfinished \cup {t}
    BY <2>2 DEF Unfinished, Rows
  <2>9. Cardinality(Rows(QUEUED_STATES) \cup Live)
          <= Cardinality(Rows(QUEUED_STATES)) + Cardinality(Live)
    <3>. DEFINE queued == Rows(QUEUED_STATES)
    <3>1. IsFiniteSet(queued) /\ IsFiniteSet(Live)
      BY <1>1, SmallerSet
    <3>2. /\ Cardinality(queued \cup Live) =
               Cardinality(queued) + Cardinality(Live)
                 - Cardinality(queued \cap Live)
          /\ Cardinality(queued) \in Nat /\ Cardinality(Live) \in Nat
          /\ Cardinality(queued \cap Live) \in Nat
      <4>1. queued \cap Live \in SUBSET Live
        OBVIOUS
      <4>2. Cardinality(queued \cap Live) \in Nat
        BY <1>1, <4>1, SmallerSet
      <4>. HIDE DEF queued
      <4>. QED
        BY <3>1, <4>2, FS_Union, FS_CardinalityType
    <3>. QED
      BY <3>2
  <2>10. Cardinality(Unfinished) <= GlobalPending + GlobalActive - 2
    BY <1>1, <1>2, <2>1, <2>4, <2>9, SmallerSet
  <2>11. Cardinality(Unfinished') <= Cardinality(Unfinished) + 1
    <3>1. /\ Unfinished \cup {t} \in SUBSET Task
          /\ Cardinality(Unfinished \cup {t}) <= Cardinality(Unfinished) + 1
      BY <1>1, OneMore
    <3>2. /\ Cardinality(Unfinished') <= Cardinality(Unfinished \cup {t})
          /\ Cardinality(Unfinished') \in Nat /\ Cardinality(Unfinished) \in Nat
          /\ Cardinality(Unfinished \cup {t}) \in Nat
      BY <1>1, <2>8, <3>1, SmallerSet
    <3>. QED
      BY <3>1, <3>2
  <2>12. Cardinality(Unfinished) \in Nat /\ Cardinality(Unfinished') \in Nat
    BY <1>1, SmallerSet
  <2>. QED
    BY <1>2, <2>7, <2>10, <2>11, <2>12 DEF BacklogInv
<1>4. CASE \A t \in Task, w \in Worker, k \in ClientKey : ~Submit(t, w, k)
  <2>1. \A u \in Task : ~Created(u)
    BY <1>4 DEF Created
  <2>2. /\ Unfinished' \subseteq Unfinished
        /\ (Live \cup InProgress)' \subseteq Live \cup InProgress
    BY <1>0, <1>1, <2>1, NoNewWork
  <2>3. /\ Cardinality(Unfinished') <= Cardinality(Unfinished)
        /\ Cardinality(Unfinished) \in Nat /\ Cardinality(Unfinished') \in Nat
    BY <1>1, <2>2, SmallerSet
  <2>4. /\ Cardinality((Live \cup InProgress)')
             <= Cardinality(Live \cup InProgress)
        /\ Cardinality(Live \cup InProgress) \in Nat
        /\ Cardinality((Live \cup InProgress)') \in Nat
    BY <1>1, <2>2, SmallerSet
  <2>. QED
    BY <1>2, <2>3, <2>4 DEF BacklogInv
<1>. QED
  BY <1>3, <1>4

(* On a bridge that starts with its own, empty table and whose sqlite does *)
(* not fail, no sequence of submissions, crashes and recoveries leaves     *)
(* more coroutines than global_active_tasks, although start() schedules    *)
(* without asking for admission, nor more unfinished rows than admission   *)
(* could have let in (_enforce_async_limits, start).                       *)
THEOREM BacklogStaysBounded ==
  ASSUME Legacy = {}, ~StoreFails PROVE Spec => []BacklogBounded
<1>1. Init => BacklogInv
  <2>. SUFFICES ASSUME Init PROVE BacklogInv
    OBVIOUS
  <2>1. \A t \in Task : store[t].state = Absent /\ bg[t] = "none"
    BY DEF Init, NoRow
  <2>2. Unfinished = {} /\ Live \cup InProgress = {}
    BY <2>1 DEF Unfinished, Rows, Live, InProgress, Unsettled, ACTIVE_STATES,
       QUEUED_STATES, Absent, PENDING, RUNNING, RECOVERING, RETRYING
  <2>3. Cardinality(Unfinished) = 0 /\ Cardinality(Live \cup InProgress) = 0
    BY <2>2, FS_EmptySet
  <2>4. GlobalPending \in Nat /\ GlobalActive \in Nat /\ GlobalActive >= 1
    BY LimitAssumption
  <2>. QED
    BY <2>3, <2>4 DEF BacklogInv
<1>2. lost = {} /\ HandleInv /\ NoOrphan /\ BacklogInv /\ [Next]_vars
        => BacklogInv'
  BY BacklogStep
<1>3. BacklogInv => BacklogBounded
  <2>1. /\ Live \cup InProgress \in SUBSET Task
        /\ Live \in SUBSET (Live \cup InProgress)
    BY DEF Live, InProgress
  <2>2. /\ Cardinality(Live) <= Cardinality(Live \cup InProgress)
        /\ Cardinality(Live) \in Nat /\ Cardinality(Live \cup InProgress) \in Nat
    BY <2>1, SmallerSet
  <2>. QED
    BY <2>2, LimitAssumption DEF BacklogInv, BacklogBounded, Unfinished
<1>. QED
  BY <1>1, <1>2, <1>3, NothingLost, HandleInvariant, NoTaskOrphaned, PTL
     DEF Spec

-----------------------------------------------------------------------------
(* The contract.  Every step of the manager accepts one task, asks the     *)
(* worker for one, finishes one, or leaves the contract's state alone.     *)

ContractInv == HandleInv /\ \A t \in Live : OnceOf(t)

\* Nothing the contract tells apart changes for task u.
Still(u) == /\ Life(u)' = Life(u)
            /\ posts'[u] = posts[u]
            /\ Replayable(u)' <=> Replayable(u)

LEMMA StillStep ==
  ASSUME TypeOK, TypeOK', \A u \in Task : Still(u)
  PROVE  UNCHANGED Contract!vars
<1>1. posts' = posts
  BY DEF Still, TypeOK
<1>2. [t \in Task |-> Life(t)]' = [t \in Task |-> Life(t)]
  BY DEF Still
<1>3. [t \in Task |-> Replayable(t)]' = [t \in Task |-> Replayable(t)]
  BY DEF Still, Replayable
<1>. QED
  BY <1>1, <1>2, <1>3 DEF Contract!vars

\* Rows that keep their key and stay unfinished look the same.
LEMMA OpenRows ==
  ASSUME NEW u \in Task, posts'[u] = posts[u], store'[u].key = store[u].key,
         \/ store'[u].state = store[u].state
         \/ Unsettled(u) /\ Unsettled(u)'
  PROVE  Still(u)
BY DEF Still, Life, Replayable, Unsettled, Settled, Absent, TERMINAL_STATES,
   ACTIVE_STATES, QUEUED_STATES, PENDING, RUNNING, COMPLETED, FAILED, CANCELLED,
   TIMED_OUT, RECOVERING, RETRYING

LEMMA ContractStates == Contract!TERMINAL_STATES = TERMINAL_STATES
BY DEF Contract!TERMINAL_STATES, TERMINAL_STATES, Contract!COMPLETED,
   Contract!FAILED, Contract!CANCELLED, Contract!TIMED_OUT, COMPLETED, FAILED,
   CANCELLED, TIMED_OUT

LEMMA SettleContract ==
  ASSUME TypeOK, TypeOK', NEW t \in Task, NEW to \in TERMINAL_STATES, NEW a,
         Settle(t, to, a), UNCHANGED posts, to = COMPLETED => posts[t] > 0
  PROVE  Contract!Next \/ UNCHANGED Contract!vars
<1>1. CASE UNCHANGED store
  BY <1>1, StillStep, OpenRows
<1>2. CASE ~UNCHANGED store
  <2>1. /\ ~Settled(t) /\ CanTransition(store[t].state, to)
        /\ store'[t].state = to
        /\ \A u \in Task : u # t => store'[u] = store[u]
        /\ \A u \in Task : store'[u].key = store[u].key
    BY <1>2, SettleFrame DEF Settle
  <2>2. store[t].state # Absent
    BY <2>1 DEF CanTransition, ALLOWED_TRANSITIONS, Absent, PENDING, RUNNING,
       RECOVERING, RETRYING
  <2>3. Life(t) = "open" /\ Life(t)' = to
    BY <2>1, <2>2 DEF Life, Settled, Absent, TERMINAL_STATES, COMPLETED, FAILED,
       CANCELLED, TIMED_OUT
  <2>4. \A u \in Task : u # t => Life(u)' = Life(u)
    BY <2>1 DEF Life, Settled
  <2>5. [u \in Task |-> Life(u)]' = [[u \in Task |-> Life(u)] EXCEPT ![t] = to]
    BY <2>3, <2>4
  <2>6. [u \in Task |-> Replayable(u)]' = [u \in Task |-> Replayable(u)]
    BY <2>1 DEF Replayable
  <2>7. Contract!Finish(t, to)
    BY <2>3, <2>5, <2>6 DEF Contract!Finish, Contract!COMPLETED, COMPLETED
  <2>. QED
    BY <2>7, ContractStates DEF Contract!Next
<1>. QED
  BY <1>1, <1>2

LEMMA ContractInit == Init => Contract!Init
<1>. SUFFICES ASSUME Init PROVE Contract!Init
  OBVIOUS
<1>1. \A t \in Task : Life(t) \in {"absent", "open"}
  BY InitRows DEF Life, Settled, Absent, TERMINAL_STATES, PENDING, RUNNING,
     COMPLETED, FAILED, CANCELLED, TIMED_OUT
<1>2. \A t \in Task : Life(t) = "absent" => posts[t] = 0
  BY InitRows DEF Init, Life, Settled, Absent, TERMINAL_STATES, PENDING,
     RUNNING, COMPLETED, FAILED, CANCELLED, TIMED_OUT
<1>3. posts \in [Task -> {0, 1}]
  BY DEF Init
<1>4. \A t \in Task : Replayable(t) \in BOOLEAN
  BY DEF Replayable
<1>. QED
  BY <1>1, <1>2, <1>3, <1>4 DEF Contract!Init

LEMMA ContractStep ==
  ContractInv /\ TypeOK' /\ [Next]_vars => [Contract!Next]_(Contract!vars)
<1>. SUFFICES ASSUME ContractInv, TypeOK', [Next]_vars
              PROVE  Contract!Next \/ UNCHANGED Contract!vars
  OBVIOUS
<1>0. HandleInv /\ TypeOK /\ HandlesMatchRows
  BY DEF ContractInv, HandleInv, TypeInv
<1>1. ASSUME UNCHANGED <<store, posts>>
      PROVE  UNCHANGED Contract!vars
  BY <1>1, <1>0, StillStep, OpenRows
<1>2. ASSUME NEW t \in Task, MarkRecovering(t)
      PROVE  UNCHANGED Contract!vars
  <2>1. \A u \in Task : /\ store'[u].key = store[u].key
                        /\ u # t => store'[u] = store[u]
    BY <1>2, <1>0 DEF MarkRecovering, TypeOK, Row
  <2>2. Unsettled(t) /\ Unsettled(t)'
    BY <1>2, <1>0 DEF MarkRecovering, TypeOK, Row, Recoverable, Unsettled,
       ACTIVE_STATES, QUEUED_STATES
  <2>. QED
    BY <1>2, <2>1, <2>2, <1>0, StillStep, OpenRows DEF MarkRecovering
<1>3. ASSUME NEW t \in Task, NEW w \in Worker, NEW k \in ClientKey,
             Submit(t, w, k)
      PROVE  Contract!Next
  <2>1. /\ store[t].state = Absent /\ store'[t] = NewRow(w, k)
        /\ UNCHANGED posts
        /\ \A u \in Task : u # t => store'[u] = store[u]
    BY <1>3, <1>0 DEF Submit, TypeOK
  <2>2. NewRow(w, k).state = PENDING
    BY DEF NewRow, NoRow
  <2>3. Life(t) = "absent" /\ Life(t)' = "open"
    BY <2>1, <2>2 DEF Life, Settled, Absent, TERMINAL_STATES, PENDING,
       COMPLETED, FAILED, CANCELLED, TIMED_OUT
  <2>4. [u \in Task |-> Life(u)]'
          = [[u \in Task |-> Life(u)] EXCEPT ![t] = "open"]
    BY <2>1, <2>3 DEF Life, Settled
  <2>5. [u \in Task |-> Replayable(u)]'
          = [[u \in Task |-> Replayable(u)] EXCEPT ![t] = Replayable(t)']
    BY <2>1 DEF Replayable
  <2>6. Replayable(t)' \in BOOLEAN
    BY DEF Replayable
  <2>7. Contract!Accept(t)
    BY <2>1, <2>3, <2>4, <2>5, <2>6 DEF Contract!Accept
  <2>. QED
    BY <2>7 DEF Contract!Next
<1>4. ASSUME NEW t \in Task, NEW to \in TERMINAL_STATES, NEW a,
             Settle(t, to, a), UNCHANGED posts, to = COMPLETED => posts[t] > 0
      PROVE  Contract!Next \/ UNCHANGED Contract!vars
  BY <1>4, <1>0, SettleContract
<1>5. ASSUME NEW t \in Task, Dispatch(t) PROVE UNCHANGED Contract!vars
  <2>1. store[t].state \in QUEUED_STATES /\ Working(t) = store[t]
    BY <1>5, <1>0, WorkingIsRow DEF Dispatch
  <2>2. store'[t].state = RUNNING /\ store'[t].key = store[t].key
    BY <1>5, <1>0, <2>1 DEF Dispatch, TypeOK, Row, NextAttempt
  <2>3. \A u \in Task : u # t => store'[u] = store[u]
    BY <1>5, <1>0 DEF Dispatch, TypeOK
  <2>. QED
    BY <1>5, <2>1, <2>2, <2>3, <1>0, StillStep, OpenRows
       DEF Dispatch, Unsettled, ACTIVE_STATES
<1>6. ASSUME NEW t \in Task, Post(t) PROVE Contract!Next
  <2>1. /\ bg[t] = "calling" /\ t \notin cancelled /\ UNCHANGED store
        /\ posts' = [posts EXCEPT ![t] = @ + 1]
    BY <1>6 DEF Post, Runs
  <2>2. Life(t) = "open"
    BY <2>1, <1>0, RunsUnsettled DEF Live, Life
  <2>3. posts[t] = 0 \/ Replayable(t)
    BY <2>1 DEF ContractInv, OnceOf, Live
  <2>4. /\ [u \in Task |-> Life(u)]' = [u \in Task |-> Life(u)]
        /\ [u \in Task |-> Replayable(u)]' = [u \in Task |-> Replayable(u)]
    BY <2>1 DEF Life, Settled, Replayable
  <2>5. Contract!Ask(t)
    BY <2>1, <2>2, <2>3, <2>4 DEF Contract!Ask
  <2>. QED
    BY <2>5 DEF Contract!Next
<1>7. ASSUME NEW t \in Task, Complete(t)
      PROVE  Contract!Next \/ UNCHANGED Contract!vars
  <2>1. posts[t] > 0
    BY <1>7 DEF Complete, Runs, ContractInv, OnceOf, Live
  <2>. QED
    BY <1>4, <1>7, <2>1 DEF Complete, TERMINAL_STATES
<1>8. ASSUME NEW t \in Task, CrashBetweenWrites(t)
      PROVE  UNCHANGED Contract!vars
  <2>1. Working(t) = store[t]
    BY <1>8, <1>0, WorkingIsRow DEF CrashBetweenWrites
  <2>2. \A u \in Task : /\ store'[u].key = store[u].key
                        /\ store'[u].state = store[u].state
    BY <1>8, <1>0, <2>1 DEF CrashBetweenWrites, TypeOK, Row
  <2>. QED
    BY <1>8, <2>2, <1>0, StillStep, OpenRows DEF CrashBetweenWrites, Die
<1>9. ASSUME NEW t \in Task, CoroutineStep(t)
      PROVE  Contract!Next \/ UNCHANGED Contract!vars
  <2>1. ASSUME NEW to \in {FAILED, TIMED_OUT},
               DispatchFails(t, to) \/ CallFails(t, to)
        PROVE  Contract!Next \/ UNCHANGED Contract!vars
    BY <1>4, <2>1 DEF DispatchFails, CallFails, TERMINAL_STATES, FAILED,
       TIMED_OUT, COMPLETED
  <2>2. CASE CancelDelivered(t)
    BY <1>1, <1>4, <2>2
       DEF CancelDelivered, TERMINAL_STATES, CANCELLED, COMPLETED
  <2>3. CASE Begin(t)
    BY <1>1, <2>3 DEF Begin
  <2>. QED
    BY <1>5, <1>6, <1>7, <1>9, <2>1, <2>2, <2>3 DEF CoroutineStep
<1>10. ASSUME NEW t \in Task, Cancel(t)
       PROVE  Contract!Next \/ UNCHANGED Contract!vars
  BY <1>4, <1>10 DEF Cancel, TERMINAL_STATES, CANCELLED, COMPLETED
<1>11. ASSUME NEW t \in Task, DispatchNotSaved(t)
       PROVE  Contract!Next \/ UNCHANGED Contract!vars
  <2>1. /\ UNCHANGED posts /\ Unsettled(t)
        /\ \A u \in Task : store'[u].key = store[u].key
    BY <1>11, <1>0, NotSavedFrame DEF DispatchNotSaved, Unsettled
  <2>2. CASE store'[t].state = store[t].state
    BY <1>11, <1>0, <2>1, <2>2, StillStep, OpenRows, NotSavedFrame
  <2>3. CASE store'[t].state = FAILED
    <3>1. Life(t) = "open" /\ Life(t)' = FAILED
      BY <2>1, <2>3 DEF Life, Unsettled, Settled, Absent, TERMINAL_STATES,
         ACTIVE_STATES, QUEUED_STATES, PENDING, RUNNING, COMPLETED, FAILED,
         CANCELLED, TIMED_OUT, RECOVERING, RETRYING
    <3>2. \A u \in Task : u # t => Life(u)' = Life(u)
      BY <1>11, <1>0, NotSavedFrame DEF Life, Settled
    <3>3. [u \in Task |-> Life(u)]'
            = [[u \in Task |-> Life(u)] EXCEPT ![t] = FAILED]
      BY <3>1, <3>2
    <3>4. [u \in Task |-> Replayable(u)]' = [u \in Task |-> Replayable(u)]
      BY <2>1 DEF Replayable
    <3>5. Contract!Finish(t, FAILED)
      BY <2>1, <3>1, <3>3, <3>4
         DEF Contract!Finish, Contract!COMPLETED, FAILED
    <3>. QED
      BY <3>5, ContractStates DEF Contract!Next, TERMINAL_STATES
  <2>. QED
    BY <1>11, <1>0, <2>2, <2>3, NotSavedFrame
<1>. QED
  BY <1>1, <1>2, <1>3, <1>8, <1>9, <1>10, <1>11
     DEF Next, Lifecycle, Request, Boot, Launch, FinishStart, StopBegin,
         StopEnd,
         SubmitAgain, SubmitRaises, Lose, CancelNotSaved, Crash, Die, vars

(* The manager implements the contract, crashes and restarts included.     *)
THEOREM ManagerKeepsContract == Spec => ImplementsContract
<1>1. OnceInv => \A t \in Live : OnceOf(t)
  BY DEF OnceInv, Live
<1>. QED
  BY <1>1, ContractInit, ContractStep, HandleInvariant, OnceInvariant,
     TypeCorrect, PTL DEF Spec, ContractInv, ImplementsContract, Contract!Spec

=============================================================================
