----------------------------- MODULE TaskManager -----------------------------
(***************************************************************************)
(* The asynchronous half of the bridge: the durable task store             *)
(* (ai_bridge/store.py) and the task manager that runs one coroutine per   *)
(* accepted task (ai_bridge/manager.py), across crashes and restarts.      *)
(*                                                                         *)
(* The bridge is one asyncio event loop and its database calls never       *)
(* suspend, so whatever runs between two awaits that really suspend is one *)
(* atomic step here.  A coroutine suspends while it sleeps before a        *)
(* recovery, while it waits for its worker's semaphore or connection       *)
(* ("calling") and while the worker works on its POST ("posted").  What    *)
(* the worker registry does in between is in module WorkerRegistry; here   *)
(* a call is answered, fails or times out, as it likes.                    *)
(***************************************************************************)
EXTENDS TaskState, Integers, FiniteSets

CONSTANTS
  Task,          \* task ids; an id names a row once a submission drew it
  Worker,        \* configured workers
  Key,           \* idempotency keys that are truthy in Python
  EmptyKey,      \* the key "": not NULL for sqlite, but falsy for Python
  None,          \* NULL: no key, no worker, no limit
  ClientKey,     \* the keys that clients submit with (None: without a key)
  Policy,        \* recovery.policy
  DelayRecovery, \* whether recovery.delay_seconds > 0
  Legacy,        \* rows written before the columns of store.py:49-55 existed
  GlobalPending, \* limits.global_pending_tasks
  WorkerPending, \* limits.per_worker_pending_tasks
  GlobalActive,  \* limits.global_active_tasks
  WorkerActive,  \* limits.per_worker_active_tasks, None when not set
  StoreFails,    \* whether sqlite may raise when a row is read or written
  MaxBoots       \* bound: how often the process is started

ASSUME TaskAssumption == IsFiniteSet(Task) /\ Legacy \subseteq Task
ASSUME KeyAssumption ==
  /\ None \notin Key \cup Worker \cup {EmptyKey}
  /\ EmptyKey \notin Key
  /\ ClientKey \subseteq Key \cup {EmptyKey, None}
ASSUME PolicyAssumption ==
  Policy \in {"manual", "idempotent", "always"} /\ {DelayRecovery, StoreFails} \subseteq BOOLEAN
ASSUME LimitAssumption ==
  /\ {GlobalPending, WorkerPending} \subseteq Nat /\ GlobalActive \in Nat \ {0}
  /\ WorkerActive \in (Nat \ {0}) \cup {None}
  /\ MaxBoots \in Nat

VARIABLES
  store,     \* table tasks: the only state that outlives the process
  phase,     \* "down", "starting" (lifespan startup), "up", "stopping"
  bg,        \* manager._background: where each task's coroutine is
  held,      \* the coroutine's local copy of its row
  cancelled, \* handles with a cancellation requested, not yet delivered
  finished,  \* tasks_completed metric, per task, of this process
  lost,      \* tasks of this process whose coroutine met an sqlite error
  boots,     \* number of process starts so far
  posts,     \* external: POSTs each task's worker has received
  answers    \* external: task ids (or Raised) clients got for each key

vars == <<store, phase, bg, held, cancelled, finished, lost, boots, posts,
          answers>>

-----------------------------------------------------------------------------
Absent == "absent"
Raised == "raised"
Pcs == {"none", "created", "sleeping", "calling", "posted"}
RowKeys == Key \cup {EmptyKey, None}

(* A row.  wd: working_directory is not NULL.  dispatch: the attempt whose *)
(* uuid is in dispatch_attempt_id, 0 for NULL.  result: the attempt whose  *)
(* answer is in result_json, 0 for NULL.                                   *)
Row == [state: TaskStates \cup {Absent}, worker: Worker \cup {None},
        key: RowKeys, wd: BOOLEAN, attempts: Nat, dispatch: Nat, result: Nat]

NoRow == [state |-> Absent, worker |-> None, key |-> None, wd |-> FALSE,
          attempts |-> 0, dispatch |-> 0, result |-> 0]

\* The record call() builds, and a legacy row: keys are older than directories.
NewRow(w, k) == [NoRow EXCEPT !.state = PENDING, !.worker = w, !.key = k,
                              !.wd = TRUE]
LegacyRow(s, w, k) == [NoRow EXCEPT !.state = s, !.worker = w, !.key = k]
LegacyRows ==
  {LegacyRow(s, w, k) : s \in {PENDING, RUNNING}, w \in Worker, k \in RowKeys}

Truthy(k) == k \in Key
Rows(S) == {t \in Task : store[t].state \in S}
RowsOf(S, w) == {t \in Rows(S) : store[t].worker = w}
Live == {t \in Task : bg[t] # "none"}          \* active_count()
Settled(t) == store[t].state \in TERMINAL_STATES
Unsettled(t) == store[t].state \in ACTIVE_STATES \cup QUEUED_STATES

(* A legacy Running row was dispatched once by the version that wrote it;  *)
(* the column of the keys was UNIQUE then too.                             *)
Init ==
  /\ store \in [Task -> {NoRow} \cup LegacyRows]
  /\ \A t \in Task : store[t] = NoRow <=> t \notin Legacy
  /\ \A t, u \in Legacy :
       store[t].key = store[u].key => t = u \/ store[t].key = None
  /\ posts = [t \in Task |-> IF store[t].state = RUNNING THEN 1 ELSE 0]
  /\ phase = "down"
  /\ bg = [t \in Task |-> "none"]
  /\ held = [t \in Task |-> NoRow]
  /\ cancelled = {}
  /\ finished = [t \in Task |-> 0]
  /\ lost = {}
  /\ boots = 0
  /\ answers = [k \in Key \cup {EmptyKey} |-> {}]

-----------------------------------------------------------------------------
(* Rows that change.                                                       *)

\* Slip: the attempt is counted when the answer comes, not before the POST.
NextAttemptNotCounted(row) == [row EXCEPT !.dispatch = row.attempts + 1]

NextAttempt(row) == [row EXCEPT !.attempts = @ + 1,
                                !.dispatch = row.attempts + 1]

\* Slip: the reloaded row is not looked at before it is finished.
SettleBlindly(t, to, answer) ==
  /\ store' = [store EXCEPT ![t].state = to,
                            ![t].result = IF answer = 0 THEN @ ELSE answer]
  /\ finished' = [finished EXCEPT ![t] = @ + 1]

(* Reload the row and finish it: unless it is terminal already or the      *)
(* transition is refused, write the new state and count it.                *)
Settle(t, to, answer) ==
  IF ~Settled(t) /\ CanTransition(store[t].state, to)
    THEN /\ store' = [store EXCEPT
                        ![t].state = to,
                        ![t].result = IF answer = 0 THEN @ ELSE answer]
         /\ finished' = [finished EXCEPT ![t] = @ + 1]
    ELSE UNCHANGED <<store, finished>>

\* The coroutine of t returned or raised; its done callback removes it.
Drop(t) == /\ bg' = [bg EXCEPT ![t] = "none"]
           /\ held' = [held EXCEPT ![t] = NoRow]

-----------------------------------------------------------------------------
(* Start up and recovery.                                                  *)

Launch ==
  /\ phase = "down" /\ boots < MaxBoots
  /\ phase' = "starting"
  /\ boots' = boots + 1
  /\ finished' = [t \in Task |-> 0]
  /\ lost' = {}
  /\ UNCHANGED <<bg, held, cancelled, posts, answers>>

Boot == Launch /\ UNCHANGED store

\* Slip: failed tasks are taken for recoverable too.
RecoverableFailed == {PENDING, RUNNING, RETRYING, RECOVERING, FAILED}

Recoverable == {PENDING, RUNNING, RETRYING, RECOVERING}

(* mark_recovering rewrites its rows one commit at a time.  Pending rows   *)
(* stay as they are, and so does a row that is Recovering already.         *)
MarkRecovering(t) ==
  /\ phase = "starting"
  /\ store[t].state \in Recoverable \ QUEUED_STATES
  /\ store' = [store EXCEPT ![t].state = RECOVERING, ![t].dispatch = 0]
  /\ UNCHANGED <<phase, bg, held, cancelled, finished, lost, boots, posts, answers>>

\* Slip: a key is required only for rows without an earlier attempt.
AllowsReplayAfterOne(row) ==
  Policy = "always" \/ Truthy(row.key) \/ row.attempts = 1

RecoveryAllowsReplay(row) ==
  \/ Policy = "always"
  \/ Policy = "idempotent" /\ Truthy(row.key)
  \/ Policy = "manual" /\ row.state = PENDING

\* Slip: only interrupted rows are scheduled, not those that never ran.
ResumedInterrupted == {t \in Task : /\ store[t].state = RECOVERING
                                    /\ RecoveryAllowsReplay(store[t])}

\* The rows start() schedules; the others are deferred to an operator.
Resumed == {t \in Task : \/ store[t].state = PENDING
                         \/ /\ store[t].state = RECOVERING
                            /\ RecoveryAllowsReplay(store[t])}

FinishStart ==
  /\ phase = "starting"
  /\ Rows(Recoverable \ QUEUED_STATES) = {}
  /\ phase' = "up"
  /\ bg' = [t \in Task |-> IF t \in Resumed THEN "created" ELSE "none"]
  /\ UNCHANGED <<store, held, cancelled, finished, lost, boots, posts, answers>>

-----------------------------------------------------------------------------
(* Requests.                                                               *)

\* Slip: handles that were only created do not count as active.
AdmitsIgnoringCreated(w) ==
  /\ Cardinality(Rows(QUEUED_STATES)) < GlobalPending
  /\ Cardinality({t \in Live : bg[t] = "posted"}) < GlobalActive

(* _enforce_async_limits.  Otherwise SaturationError: nothing changes.     *)
Admits(w) ==
  /\ Cardinality(Rows(QUEUED_STATES)) < GlobalPending
  /\ Cardinality(RowsOf(QUEUED_STATES, w)) < WorkerPending
  /\ Cardinality(Live) < GlobalActive
  /\ WorkerActive # None => Cardinality(RowsOf(ACTIVE_STATES, w)) < WorkerActive

\* Slip: only a task that is still alive answers for its key.
LiveTasksOfKey(k) == {t \in Task : Unsettled(t) /\ store[t].key = k}

TasksOfKey(k) == {t \in Task : store[t].key = k /\ store[t].state # Absent}

\* The client may never see the answer (it left, or the process dies now).
Answer(k, a) ==
  \/ k # None /\ answers' = [answers EXCEPT ![k] = @ \cup {a}]
  \/ UNCHANGED answers

(* call(mode="async") with a key that is new to create_or_get: insert the  *)
(* row and create its coroutine.                                           *)
Submit(t, w, k) ==
  /\ phase = "up" /\ Admits(w)
  /\ store[t].state = Absent
  /\ k # None => TasksOfKey(k) = {}
  /\ store' = [store EXCEPT ![t] = NewRow(w, k)]
  /\ bg' = [bg EXCEPT ![t] = "created"]
  /\ Answer(k, t)
  /\ UNCHANGED <<phase, held, cancelled, finished, lost, boots, posts>>

(* The same with a key that has a row: the row found answers.              *)
SubmitAgain(w, k) ==
  /\ phase = "up" /\ Admits(w)
  /\ Truthy(k)
  /\ \E t \in TasksOfKey(k) : Answer(k, t)
  /\ UNCHANGED <<store, phase, bg, held, cancelled, finished, lost, boots, posts>>

(* create_or_get inserts a row with key "" without looking for another;    *)
(* the UNIQUE column refuses the second one and call() raises.             *)
SubmitRaises(w) ==
  /\ phase = "up" /\ Admits(w)
  /\ EmptyKey \in ClientKey
  /\ TasksOfKey(EmptyKey) # {}
  /\ Answer(EmptyKey, Raised)
  /\ UNCHANGED <<store, phase, bg, held, cancelled, finished, lost, boots, posts>>

\* Slip: only a coroutine whose POST is out is cancelled.
HandleToCancelPosted(t) == {t} \cap {u \in Task : bg[u] = "posted"}

\* Slip: a cancellation is noted although there is no handle to take it.
HandleToCancelAny(t) == {t}

HandleToCancel(t) == {t} \cap Live

(* cancel() of a task that is not terminal: the row is written at once and *)
(* the coroutine learns of it later.                                       *)
Cancel(t) ==
  /\ phase = "up"
  /\ Unsettled(t)
  /\ cancelled' = cancelled \cup HandleToCancel(t)
  /\ Settle(t, CANCELLED, 0)
  /\ UNCHANGED <<phase, bg, held, lost, boots, posts, answers>>

-----------------------------------------------------------------------------
(* _run_task.  A handle with a cancellation pending takes no other step.   *)

Runs(t, pc) == bg[t] = pc /\ t \notin cancelled

\* The copy of the row that the coroutine works with when it dispatches.
Working(t) == IF bg[t] = "created" THEN store[t] ELSE held[t]

(* The coroutine is about to dispatch: it just read a row that needs no    *)
(* delay, or it wakes up with the copy it read before the delay.           *)
Sleeps(t) == DelayRecovery /\ store[t].state = RECOVERING
Ready(t) ==
  \/ Runs(t, "created") /\ ~Settled(t) /\ ~Sleeps(t)
  \/ Runs(t, "sleeping")

\* The first step of the coroutine when there is nothing to dispatch yet.
Begin(t) ==
  /\ Runs(t, "created")
  /\ Settled(t) \/ Sleeps(t)
  /\ IF Settled(t) THEN Drop(t)
                   ELSE /\ bg' = [bg EXCEPT ![t] = "sleeping"]
                        /\ held' = [held EXCEPT ![t] = store[t]]
  /\ UNCHANGED <<store, phase, cancelled, finished, lost, boots, posts, answers>>

(* Resolve the directory if the row has none, count a new attempt, write   *)
(* the row as Running, and only then call the worker.                      *)
Dispatch(t) ==
  /\ Ready(t)
  /\ LET row == [NextAttempt(Working(t)) EXCEPT !.wd = TRUE, !.state = RUNNING]
     IN /\ store' = [store EXCEPT ![t] = row]
        /\ held' = [held EXCEPT ![t] = row]
  /\ bg' = [bg EXCEPT ![t] = "calling"]
  /\ UNCHANGED <<phase, cancelled, finished, lost, boots, posts, answers>>

(* A row without a directory whose prompt or worker no longer resolves.    *)
(* The exception handler asks for Failed, or for TimedOut when the message *)
(* (which quotes a path) holds the word, and a refused transition is       *)
(* swallowed: Pending may become neither, Recovering only Failed.          *)
DispatchFails(t, to) ==
  /\ Ready(t)
  /\ ~Working(t).wd
  /\ Settle(t, to, 0)
  /\ Drop(t)
  /\ UNCHANGED <<phase, cancelled, lost, boots, posts, answers>>

(* The POST reaches the worker.                                            *)
Post(t) ==
  /\ Runs(t, "calling")
  /\ bg' = [bg EXCEPT ![t] = "posted"]
  /\ posts' = [posts EXCEPT ![t] = @ + 1]
  /\ UNCHANGED <<store, phase, held, cancelled, finished, lost, boots, answers>>

\* Slip: the answer is filed under the attempt that the row started with.
AnsweredBefore(t) == held[t].attempts - 1

AnsweredAttempt(t) == held[t].attempts

(* The answer is filed.  A refused transition would go to the exception   *)
(* handler; none is refused, since the row is Running (HandlesMatchRows).  *)
Complete(t) ==
  /\ Runs(t, "posted")
  /\ Settle(t, COMPLETED, AnsweredAttempt(t))
  /\ Drop(t)
  /\ UNCHANGED <<phase, cancelled, lost, boots, posts, answers>>

(* The call raised: the circuit is open, the worker is not configured, no  *)
(* connection, an error status, a malformed answer, or a timeout.          *)
CallFails(t, to) ==
  /\ Runs(t, "calling") \/ Runs(t, "posted")
  /\ Settle(t, to, 0)
  /\ Drop(t)
  /\ UNCHANGED <<phase, cancelled, lost, boots, posts, answers>>

(* CancelledError arrives.  A coroutine that never started is dropped      *)
(* before its handler exists; any other marks its row Cancelled.           *)
CancelDelivered(t) ==
  /\ t \in cancelled
  /\ IF bg[t] = "created" THEN UNCHANGED <<store, finished>>
                          ELSE Settle(t, CANCELLED, 0)
  /\ Drop(t)
  /\ cancelled' = cancelled \ {t}
  /\ UNCHANGED <<phase, lost, boots, posts, answers>>

-----------------------------------------------------------------------------
(* sqlite raises (disk full, locked for 30 seconds, I/O error).  An error  *)
(* in a submission changes nothing, one during the start ends the process  *)
(* like Crash, and one while an answer is filed ends as CallFails if the   *)
(* handler can write.                                                      *)

(* The first read of the coroutine, or the handler of whatever happened to *)
(* it, raises: the row stays as it is and loses its coroutine.             *)
Lose(t) ==
  /\ StoreFails
  /\ bg[t] # "none" /\ (t \in cancelled => bg[t] # "created")
  /\ Drop(t)
  /\ cancelled' = cancelled \ {t}
  /\ lost' = lost \cup {t}
  /\ UNCHANGED <<store, phase, finished, boots, posts, answers>>

(* The row cannot be written as Running, perhaps after its directory was   *)
(* saved.  The handler asks for Failed, which only a Recovering row may    *)
(* become, and its own write may raise as well.                            *)
DispatchNotSaved(t) ==
  /\ StoreFails /\ Ready(t)
  /\ \E row \in {Working(t), [Working(t) EXCEPT !.wd = TRUE]} :
       \/ /\ store' = [store EXCEPT ![t] = row]
          /\ UNCHANGED finished
       \/ /\ CanTransition(row.state, FAILED)
          /\ store' = [store EXCEPT ![t] = [row EXCEPT !.state = FAILED]]
          /\ finished' = [finished EXCEPT ![t] = @ + 1]
  /\ Drop(t)
  /\ lost' = lost \cup {t}
  /\ UNCHANGED <<phase, cancelled, boots, posts, answers>>

(* cancel() has cancelled the coroutine and cannot write the row.          *)
CancelNotSaved(t) ==
  /\ StoreFails /\ phase = "up"
  /\ Unsettled(t)
  /\ cancelled' = cancelled \cup HandleToCancel(t)
  /\ lost' = lost \cup HandleToCancel(t)
  /\ UNCHANGED <<store, phase, bg, held, finished, boots, posts, answers>>

-----------------------------------------------------------------------------
(* The end of the process.                                                 *)

\* stop(), on a shutdown signal: no request is served any more.
StopBegin ==
  /\ phase = "up" /\ boots < MaxBoots
  /\ phase' = "stopping"
  /\ cancelled' = Live
  /\ UNCHANGED <<store, bg, held, finished, lost, boots, posts, answers>>

StopEnd ==
  /\ phase = "stopping"
  /\ Live = {}
  /\ phase' = "down"
  /\ UNCHANGED <<store, bg, held, cancelled, finished, lost, boots, posts, answers>>

Die ==
  /\ phase # "down" /\ boots < MaxBoots
  /\ phase' = "down"
  /\ bg' = [t \in Task |-> "none"]
  /\ held' = [t \in Task |-> NoRow]
  /\ cancelled' = {}
  /\ UNCHANGED <<finished, lost, boots, posts, answers>>

\* external: the process is killed between two commits.
Crash == Die /\ UNCHANGED store

\* Killed after the directory was saved and before the row became Running.
CrashBetweenWrites(t) ==
  /\ Ready(t)
  /\ ~Working(t).wd
  /\ store' = [store EXCEPT ![t] = [Working(t) EXCEPT !.wd = TRUE]]
  /\ Die

-----------------------------------------------------------------------------
CoroutineStep(t) ==
  \/ Begin(t) \/ Dispatch(t)
  \/ \E to \in {FAILED, TIMED_OUT} : DispatchFails(t, to) \/ CallFails(t, to)
  \/ Post(t) \/ Complete(t) \/ CancelDelivered(t)

Request ==
  \/ \E t \in Task, w \in Worker, k \in ClientKey : Submit(t, w, k)
  \/ \E w \in Worker, k \in ClientKey : SubmitAgain(w, k)
  \/ \E w \in Worker : SubmitRaises(w)
  \/ \E t \in Task : Cancel(t)

Lifecycle ==
  \/ Boot \/ (\E t \in Task : MarkRecovering(t)) \/ FinishStart
  \/ StopBegin \/ StopEnd

Next ==
  \/ Lifecycle
  \/ Request
  \/ \E t \in Task : CoroutineStep(t)
  \/ \E t \in Task : Lose(t) \/ DispatchNotSaved(t) \/ CancelNotSaved(t)
  \/ Crash
  \/ \E t \in Task : CrashBetweenWrites(t)

Spec == Init /\ [][Next]_vars

(* The event loop runs every callback that is ready, start up goes on, a   *)
(* supervisor restarts the process (docker-compose: unless-stopped), and   *)
(* a call ends: every permit of a worker is handed on in turn              *)
(* (WorkerRegistry) and a POST is answered or meets its timeout.           *)
Fairness ==
  /\ WF_vars(Boot) /\ WF_vars(FinishStart) /\ WF_vars(StopEnd)
  /\ \A t \in Task : /\ WF_vars(MarkRecovering(t))
                     /\ WF_vars(CoroutineStep(t))

FairSpec == Spec /\ Fairness

-----------------------------------------------------------------------------
(* Properties.                                                             *)

(* Type of the state; only handles that exist have a cancellation pending  *)
(* (the "if bg" of cancel, the done callback of _schedule).                *)
TypeOK ==
  /\ store \in [Task -> Row]
  /\ phase \in {"down", "starting", "up", "stopping"}
  /\ bg \in [Task -> Pcs]
  /\ held \in [Task -> Row]
  /\ cancelled \subseteq Live
  /\ finished \in [Task -> Nat]
  /\ lost \subseteq Task
  /\ boots \in Nat
  /\ posts \in [Task -> Nat]
  /\ answers \in [Key \cup {EmptyKey} -> SUBSET (Task \cup {Raised})]

\* What recovery may dispatch again after a dispatch that was interrupted.
Replayable(t) ==
  Policy = "always" \/ (Policy = "idempotent" /\ Truthy(store[t].key))

(* However often the bridge crashes, stops and recovers, the worker        *)
(* receives a task at most once unless the recovery policy lets that task  *)
(* be replayed (start, mark_recovering, _recovery_allows_replay).          *)
AtMostOnce == \A t \in Task : ~Replayable(t) => posts[t] <= 1

NoHandlesWhileDown == phase \in {"down", "starting"} => Live = {}

(* Every coroutine has a row, and if nobody cancelled it the row is where  *)
(* the coroutine expects it: not terminal, Recovering and unchanged since  *)
(* it was read while the coroutine sleeps, Running once it has dispatched. *)
(* There are no coroutines while the process is down or starting, and      *)
(* nothing but a stop or an sqlite error cancels one whose row is not      *)
(* terminal.                                                               *)
HandlesMatchRows ==
  /\ NoHandlesWhileDown
  /\ phase = "up" => \A t \in cancelled : Settled(t) \/ t \in lost
  /\ \A t \in Task :
       /\ t \in Live => store[t].state # Absent
       /\ Runs(t, "created") => store[t].state \in QUEUED_STATES
       /\ Runs(t, "sleeping") => store[t].state = RECOVERING /\ held[t] = store[t]
       /\ Runs(t, "calling") \/ Runs(t, "posted") =>
            store[t].state = RUNNING /\ held[t] = store[t]
       /\ store[t].state # RETRYING

(* What AtMostOnce rests on: a task that may not be replayed and is still  *)
(* to be dispatched has not been dispatched before.                        *)
UndispatchedIfPending ==
  \A t \in Task :
    /\ store[t].state = Absent => posts[t] = 0
    /\ bg[t] = "posted" => posts[t] > 0
    /\ \/ store[t].state = PENDING
       \/ bg[t] \in {"created", "sleeping", "calling"}
       => posts[t] = 0 \/ Replayable(t)

(* Every POST a worker receives was counted, and its dispatch id saved,    *)
(* before it left: a crash cannot lose the trace of an attempt (next_attempt *)
(* and upsert before workers.call).                                        *)
AttemptsCoverPosts ==
  \A t \in Task \ Legacy : posts[t] <= store[t].attempts

(* While a POST is out and nobody cancelled it, the row says Running and   *)
(* carries exactly the dispatch id that the worker was given; a Completed  *)
(* row holds the answer to the last dispatch.                              *)
DispatchOnRecord ==
  \A t \in Task :
    /\ Runs(t, "posted") => /\ store[t].state = RUNNING
                            /\ store[t].dispatch = held[t].dispatch
                            /\ store[t].dispatch = store[t].attempts
    /\ store[t].state = COMPLETED => /\ posts[t] > 0
                                     /\ store[t].result = store[t].dispatch
    /\ store[t].result # 0 => store[t].state = COMPLETED

(* All answers to submissions with one key name one task, also when the    *)
(* first answer was lost, the task is over, or the process was restarted   *)
(* in between (create_or_get).                                             *)
OneTaskPerKey ==
  \A k \in Key : /\ Cardinality(answers[k]) <= 1
                 /\ \A t, u \in TasksOfKey(k) : t = u

(* A deferred row waits for an operator: Recovering and not replayable.    *)
Deferred(t) == store[t].state = RECOVERING /\ ~Replayable(t)

(* While the bridge serves requests, a task that is not over has a         *)
(* coroutine that will finish it, was deferred on purpose, or met an       *)
(* sqlite error since the last start: recovery finds every other.  (A      *)
(* legacy row whose directory no longer resolves may be left Pending.)     *)
NoOrphan ==
  phase = "up" =>
    \A t \in Task \ Legacy :
      Unsettled(t) => t \in Live \/ Deferred(t) \/ t \in lost

(* Neither crashes nor recovery, which schedules without asking for        *)
(* admission, ever leave more coroutines than global_active_tasks, nor     *)
(* more unfinished rows than admission could ever have let in.  (With      *)
(* sqlite errors they can: a Running row that lost its coroutine counts    *)
(* for neither limit and is scheduled again by the next start.)            *)
BacklogBounded ==
  /\ Cardinality(Live) <= GlobalActive
  /\ Cardinality(Rows(ACTIVE_STATES \cup QUEUED_STATES))
       <= GlobalPending + GlobalActive - 1

(* No step of any handler changes a row that is terminal, whatever call,   *)
(* cancellation or recovery was under way for it.                          *)
TerminalIsFinal ==
  [][\A t \in Task : Settled(t) => store'[t] = store[t]]_vars

(* Two writes of one handler collapse into one step of the table.          *)
Follows(from, to) ==
  \/ to = from
  \/ from = Absent /\ to = PENDING
  \/ CanTransition(from, to)

(* Whichever handlers race for a row, its state only ever changes along    *)
(* the transition table, also where the code writes it without transition(). *)
FollowsStateMachine ==
  [][\A t \in Task : Follows(store[t].state, store'[t].state)]_vars

(* A POST leaves only for a row that still says Running: a task cancelled  *)
(* while its call waited for the worker never reaches the worker.          *)
PostsOnlyRunning ==
  [][\A t \in Task : posts'[t] # posts[t] =>
        /\ store[t].state = RUNNING
        /\ store[t].dispatch = held[t].dispatch]_vars

(* Every task a process finishes is counted by it exactly once, although   *)
(* a cancel, the coroutine it cancels and a late answer all may count it.  *)
FinishedOnce ==
  [][phase' = phase => \A t \in Task :
       finished'[t] = finished[t] + (IF Settled(t)' /\ ~Settled(t)
                                       THEN 1 ELSE 0)]_vars

(* When the coroutine of a task ends by itself while the bridge serves     *)
(* requests, it leaves a terminal row: every failure is persisted          *)
(* (manager.py:200), unless sqlite refuses to.                             *)
FailuresPersisted ==
  [][\A t \in Task : /\ phase = "up" /\ phase' = "up"
                     /\ bg[t] # "none" /\ bg'[t] = "none"
                     => Settled(t)' \/ t \in lost']_vars

(* Every accepted task is eventually over, or deferred to an operator.     *)
Settles ==
  \A t \in Task : Unsettled(t) ~> (Settled(t) \/ Deferred(t))

(* The manager implements the contract of module DurableTask: the          *)
(* contract's state is a function of the rows and of the POSTs received.   *)
Life(t) == CASE store[t].state = Absent -> "absent"
             [] Settled(t)              -> store[t].state
             [] OTHER                   -> "open"

Contract == INSTANCE DurableTask WITH
              life   <- [t \in Task |-> Life(t)],
              asked  <- posts,
              replay <- [t \in Task |-> Replayable(t)]

(* Every step of the manager, crashes included, is a step of the contract  *)
(* or invisible to it.                                                     *)
ImplementsContract == Contract!Spec

(* "Running -> Recovering (on restart)" (ai_bridge/README.md:414): what is *)
(* Running when a restart begins is not given up but recovered afterwards. *)
RunningSurvivesRestart ==
  [][phase = "stopping" =>
       \A t \in Task : store[t].state = RUNNING => store'[t].state = RUNNING]_vars

(* "per_worker_active_tasks", refused with "worker active task limit       *)
(* reached" (manager.py:238): no worker has more Running tasks than that.  *)
WorkerActiveBounded ==
  WorkerActive # None =>
    \A w \in Worker : Cardinality(RowsOf(ACTIVE_STATES, w)) <= WorkerActive

=============================================================================
