---------------------------- MODULE WorkerRegistry ----------------------------
(***************************************************************************)
(* Calls on their way to the workers: the gate for synchronous calls of    *)
(* each manager (TaskManager.call, ai_bridge/manager.py), the semaphore,   *)
(* the counter of active calls and the circuit breaker of each worker      *)
(* (WorkerRegistry.call, ai_bridge/workers.py).                            *)
(*                                                                         *)
(* A running bridge has one manager with one registry.  Module Reload puts *)
(* the managers and registries of several configurations side by side.     *)
(*                                                                         *)
(* A call suspends at the gate, at its worker's semaphore and while its    *)
(* POST is out; everything in between is one step.  Time appears only as   *)
(* the step that ends a circuit's cooldown.                                *)
(***************************************************************************)
EXTENDS AsyncSemaphore

CONSTANTS
  Call,             \* calls that may be under way together
  SyncCall,         \* those made by a synchronous request
  Worker,
  MaxConcurrent,    \* max_concurrent_tasks of each worker
  Manager,
  Under,            \* the manager that calls a worker
  SyncActive,       \* limits.sync_active_tasks of each manager
  WorkerActive,     \* limits.per_worker_active_tasks, None when not set
  None,
  FailureThreshold, \* circuit_breaker.failure_threshold
  Malformed         \* workers whose answer may be a JSON that is no object

ASSUME CallAssumption == IsFiniteSet(Call) /\ SyncCall \subseteq Call
ASSUME CapacityAssumption ==
  /\ MaxConcurrent \in [Worker -> Nat \ {0}]
  /\ Under \in [Worker -> Manager]
  /\ SyncActive \in [Manager -> Nat \ {0}]
  /\ FailureThreshold \in Nat \ {0}
  /\ WorkerActive \in (Nat \ {0}) \cup {None}
  /\ Malformed \subseteq Worker

VARIABLES
  at,       \* where each call is
  to,       \* the worker it is for, None when there is no call
  gates,    \* manager._sync_limit of each manager
  sems,     \* registry._semaphores
  active,   \* registry._active
  failures, \* CircuitState.failures, counted up to the threshold
  open,     \* workers whose CircuitState.down_until lies ahead
  streak    \* external: failures in a row that callers of a worker have seen

vars == <<at, to, gates, sems, active, failures, open, streak>>

Places == {"idle", "gate", "queued", "posted"}
Posted(w) == {c \in Call : at[c] = "posted" /\ to[c] = w}
Queued(w) == {c \in Call : at[c] = "queued" /\ to[c] = w}
\* Synchronous calls that hold a permit of the gate of m.
Inside(m) ==
  {c \in SyncCall : at[c] \in {"queued", "posted"} /\ Under[to[c]] = m}

Init ==
  /\ at = [c \in Call |-> "idle"]
  /\ to = [c \in Call |-> None]
  /\ gates = [m \in Manager |-> NewSemaphore(SyncActive[m])]
  /\ sems = [w \in Worker |-> NewSemaphore(MaxConcurrent[w])]
  /\ active = [w \in Worker |-> 0]
  /\ failures = [w \in Worker |-> 0]
  /\ open = {}
  /\ streak = [w \in Worker |-> 0]

-----------------------------------------------------------------------------
(* The circuit.  Reaching the threshold is all that later tests tell apart,*)
(* so both counters stop there.                                            *)

UpTo(n) == IF n < FailureThreshold THEN n + 1 ELSE n

AssertAvailable(w) == w \notin open

RecordSuccess(w) ==
  /\ failures' = [failures EXCEPT ![w] = 0]
  /\ open' = open \ {w}

\* Slip: the circuit opens one failure too late.
RecordFailureLate(w) ==
  /\ failures' = [failures EXCEPT ![w] = UpTo(@)]
  /\ open' = IF failures[w] >= FailureThreshold THEN open \cup {w} ELSE open

RecordFailure(w) ==
  /\ failures' = [failures EXCEPT ![w] = UpTo(@)]
  /\ open' = IF failures'[w] >= FailureThreshold THEN open \cup {w} ELSE open

(* A malformed answer (a 200 whose JSON is no object) is recorded as a     *)
(* success before _normalize_response raises, and then as a failure.       *)
RecordMalformed(w) ==
  /\ failures' = [failures EXCEPT ![w] = 1]
  /\ open' = IF FailureThreshold = 1 THEN open \cup {w} ELSE open \ {w}

\* How a POST to w may end, when nobody cancels it.
Outcomes(w) ==
  {"ok", "error"} \cup (IF w \in Malformed THEN {"malformed"} ELSE {})

Record(w, outcome) ==
  CASE outcome = "ok"        -> RecordSuccess(w)
    [] outcome = "error"     -> RecordFailure(w)
    [] outcome = "malformed" -> RecordMalformed(w)

\* down_until passes; the failures stay, so one more opens the circuit again.
CoolDown(w) ==
  /\ w \in open
  /\ open' = open \ {w}
  /\ UNCHANGED <<at, to, gates, sems, active, failures, streak>>

-----------------------------------------------------------------------------
(* Moves of one call.                                                      *)

\* The gate that synchronous calls to w pass.
Gate(w) == gates[Under[w]]
SetGate(w, g) == gates' = [gates EXCEPT ![Under[w]] = g]

\* Slip: the permit of the gate is never given back.
LeaveGateKept(c, w, g) == SetGate(w, g)

\* Slip: calls that never passed the gate leave it too.
LeaveGateAlways(c, w, g) == SetGate(w, Release(g))

\* Leave "async with self._sync_limit", entered with the gate in state g.
LeaveGate(c, w, g) == SetGate(w, IF c \in SyncCall THEN Release(g) ELSE g)

MoveTo(c, place, w) == /\ at' = [at EXCEPT ![c] = place]
                       /\ to' = [to EXCEPT ![c] = w]

(* registry.call up to its first suspension, with the gate in state g: the *)
(* circuit is asked now, before the wait for the semaphore.                *)
Enter(c, w, g) ==
  \/ /\ ~AssertAvailable(w)
     /\ MoveTo(c, "idle", None)
     /\ LeaveGate(c, w, g)
     /\ UNCHANGED <<sems, active>>
  \/ /\ AssertAvailable(w) /\ Locked(sems[w])
     /\ MoveTo(c, "queued", w)
     /\ sems' = [sems EXCEPT ![w] = Enqueue(@, c)]
     /\ SetGate(w, g)
     /\ UNCHANGED active
  \/ /\ AssertAvailable(w) /\ ~Locked(sems[w])
     /\ MoveTo(c, "posted", w)
     /\ sems' = [sems EXCEPT ![w] = Take(@)]
     /\ active' = [active EXCEPT ![w] = @ + 1]
     /\ SetGate(w, g)

(* A coroutine of the task manager calls the worker of its task.           *)
AsyncCall(c, w) ==
  /\ c \notin SyncCall /\ at[c] = "idle"
  /\ Enter(c, w, Gate(w))
  /\ UNCHANGED <<failures, open, streak>>

(* A synchronous request: _enforce_sync_limits, then the gate.             *)
SyncRequest(c, w) ==
  /\ c \in SyncCall /\ at[c] = "idle"
  /\ WorkerActive # None => active[w] < WorkerActive
  /\ IF Locked(Gate(w))
       THEN /\ MoveTo(c, "gate", w)
            /\ SetGate(w, Enqueue(Gate(w), c))
            /\ UNCHANGED <<sems, active>>
       ELSE Enter(c, w, Take(Gate(w)))
  /\ UNCHANGED <<failures, open, streak>>

PassGate(c) ==
  /\ at[c] = "gate" /\ c \in Gate(to[c]).granted
  /\ Enter(c, to[c], Resume(Gate(to[c]), c))
  /\ UNCHANGED <<failures, open, streak>>

(* The semaphore is acquired: the POST leaves.  The circuit is not asked   *)
(* again.                                                                  *)
Dequeue(c) ==
  /\ at[c] = "queued" /\ c \in sems[to[c]].granted
  /\ at' = [at EXCEPT ![c] = "posted"]
  /\ sems' = [sems EXCEPT ![to[c]] = Resume(@, c)]
  /\ active' = [active EXCEPT ![to[c]] = @ + 1]
  /\ UNCHANGED <<to, gates, failures, open, streak>>

\* Slip: a call that waits takes the place over, so the counter stays.
ExitHandedOver(c) ==
  /\ sems' = [sems EXCEPT ![to[c]] = Release(@)]
  /\ active' = [active EXCEPT
                  ![to[c]] = IF sems[to[c]].waiters = <<>> THEN @ - 1 ELSE @]
  /\ LeaveGate(c, to[c], Gate(to[c]))
  /\ MoveTo(c, "idle", None)

\* The "finally", the semaphore's and the gate's exit of a call that posted.
Exit(c) ==
  /\ sems' = [sems EXCEPT ![to[c]] = Release(@)]
  /\ active' = [active EXCEPT ![to[c]] = @ - 1]
  /\ LeaveGate(c, to[c], Gate(to[c]))
  /\ MoveTo(c, "idle", None)

Return(c, outcome) ==
  /\ at[c] = "posted" /\ outcome \in Outcomes(to[c])
  /\ Record(to[c], outcome)
  /\ streak' = [streak EXCEPT ![to[c]] = IF outcome = "ok" THEN 0 ELSE UpTo(@)]
  /\ Exit(c)

\* Slip: a waiter that is cancelled with a permit in hand drops it.
AbandonLosing(sem, c) == [GiveUp(sem, c) EXCEPT !.value = sem.value]

\* Slip: the permit goes back, but nobody is woken to take it.
AbandonSilently(sem, c) == GiveUp(sem, c)

AbandonQueue(sem, c) == Abandon(sem, c)

(* CancelledError in the coroutine of an asynchronous call: neither a      *)
(* success nor a failure of the worker.                                    *)
CancelQueued(c) ==
  /\ c \notin SyncCall /\ at[c] = "queued"
  /\ sems' = [sems EXCEPT ![to[c]] = AbandonQueue(@, c)]
  /\ MoveTo(c, "idle", None)
  /\ UNCHANGED <<gates, active, failures, open, streak>>

CancelPosted(c) ==
  /\ c \notin SyncCall /\ at[c] = "posted"
  /\ Exit(c)
  /\ UNCHANGED <<failures, open, streak>>

-----------------------------------------------------------------------------
Step(c) ==
  \/ PassGate(c) \/ Dequeue(c)
  \/ \E o \in {"ok", "error", "malformed"} : Return(c, o)

Next ==
  \/ \E c \in Call, w \in Worker : AsyncCall(c, w) \/ SyncRequest(c, w)
  \/ \E c \in Call : Step(c) \/ CancelQueued(c) \/ CancelPosted(c)
  \/ \E w \in Worker : CoolDown(w)

Spec == Init /\ [][Next]_vars

(* The event loop runs a coroutine whose future is done, and a POST ends   *)
(* by an answer or by httpx's timeout.                                     *)
Fairness == \A c \in Call : WF_vars(Step(c))

FairSpec == Spec /\ Fairness

-----------------------------------------------------------------------------
(* Properties.                                                             *)

SemaphoreType(n) ==
  [value : 0 .. n, waiters : Seq(Call), granted : SUBSET Call]

(* Type of the state; a semaphore's value never leaves 0 .. its capacity.  *)
TypeOK ==
  /\ at \in [Call -> Places]
  /\ to \in [Call -> Worker \cup {None}]
  /\ DOMAIN gates = Manager
  /\ \A m \in Manager : gates[m] \in SemaphoreType(SyncActive[m])
  /\ DOMAIN sems = Worker
  /\ \A w \in Worker : sems[w] \in SemaphoreType(MaxConcurrent[w])
  /\ active \in [Worker -> Int]
  /\ failures \in [Worker -> 0 .. FailureThreshold]
  /\ open \subseteq Worker
  /\ streak \in [Worker -> 0 .. FailureThreshold]

(* The counter that admission of synchronous calls reads is the number of  *)
(* POSTs that are out, and never more than max_concurrent_tasks.           *)
ActiveExact ==
  \A w \in Worker : /\ active[w] = Cardinality(Posted(w))
                    /\ active[w] <= MaxConcurrent[w]

(* No permit is lost or made on any way out of a call: an answer, an open  *)
(* circuit, an error, a cancellation before, at or after the hand-over.    *)
PermitsConserved ==
  /\ \A m \in Manager :
       gates[m].value + Cardinality(gates[m].granted \cup Inside(m))
         = SyncActive[m]
  /\ \A w \in Worker :
       sems[w].value + Cardinality(sems[w].granted \cup Posted(w))
         = MaxConcurrent[w]

(* A permit never lies idle next to a call that waits for it, unless the   *)
(* coroutine that will wake that call is about to run.                     *)
NoLostWakeup ==
  \A sem \in {gates[m] : m \in Manager} \cup {sems[w] : w \in Worker} :
    sem.value > 0 /\ sem.waiters # <<>> => sem.granted # {}

(* No failure of the worker (an error or a malformed answer) that finds or *)
(* makes the streak long enough leaves the circuit closed.                 *)
OpensOnStreak(w) ==
  streak'[w] = FailureThreshold /\ w \notin open' =>
    \A c \in Call, o \in {"error", "malformed"} : to[c] = w => ~Return(c, o)

(* The circuit of a worker whose answers are well formed opens on every    *)
(* streak of failures, in whatever order overlapping calls return, also    *)
(* when calls are cancelled in between and right after a cooldown.         *)
StreakOpens == [][\A w \in Worker \ Malformed : OpensOnStreak(w)]_vars

(* "Consecutive worker failures before the worker circuit opens"           *)
(* (ai_bridge/README.md:115): a call that raises because the answer is     *)
(* malformed is a failure like any other.                                  *)
MalformedOpens == [][\A w \in Malformed : OpensOnStreak(w)]_vars

(* A call that waits at the gate or at a semaphore gets its turn, although *)
(* synchronous and asynchronous calls to all workers hold and hand on the  *)
(* permits that it needs.                                                  *)
CallsEnd == \A c \in Call : at[c] # "idle" ~> at[c] = "idle"

=============================================================================
