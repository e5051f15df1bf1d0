-------------------------------- MODULE Reload --------------------------------
(***************************************************************************)
(* Configuration reloads under running calls (_reload_config,              *)
(* ai_bridge/server.py).  Each reload builds a new WorkerRegistry with     *)
(* semaphores, counters and circuits of its own.  With the same database   *)
(* the manager and its gate for synchronous calls stay and the manager     *)
(* gets the registry; with another database a new manager, with a gate of  *)
(* its own, takes over, and the old one keeps the registry it has.  Calls  *)
(* that have entered a registry stay in it, and a call that waits at a     *)
(* gate reads self.workers of its manager after its wait.                  *)
(*                                                                         *)
(* Registries are numbered, and a manager has the number of the registry   *)
(* it was made with.  All of them together are one instance of module      *)
(* WorkerRegistry whose workers are triples of a manager, a registry and a *)
(* worker id.  What the reload does to the tables is in module Databases.  *)
(***************************************************************************)
EXTENDS Integers, Sequences, FiniteSets

CONSTANTS
  Call, SyncCall, None, WorkerActive, FailureThreshold,
  Service,       \* worker ids
  Configured,    \* the worker ids that the configuration of a registry has
  MaxConcurrent, \* max_concurrent_tasks by registry and worker id
  SyncActive,    \* limits.sync_active_tasks a manager was made with
  MaxReloads     \* bound: number of reloads

Registry == 0 .. MaxReloads
Manager == Registry
Slot == {slot \in Manager \X Registry \X Service : slot[1] <= slot[2]}

ASSUME ReloadAssumption ==
  /\ IsFiniteSet(Call) /\ SyncCall \subseteq Call
  /\ SyncActive \in [Manager -> Nat \ {0}]
  /\ FailureThreshold \in Nat \ {0}
  /\ WorkerActive \in (Nat \ {0}) \cup {None}
  /\ MaxReloads \in Nat
  /\ Configured \in [Registry -> SUBSET Service]
  /\ MaxConcurrent \in [Registry \X Service -> Nat \ {0}]

VARIABLES at, to, gates, sems, active, failures, open, streak,
          manager, \* app.state.manager
          workers  \* manager.workers of each manager

Under == [slot \in Slot |-> slot[1]]
Capacity == [slot \in Slot |-> MaxConcurrent[slot[2], slot[3]]]

Calls == INSTANCE WorkerRegistry WITH
           Worker <- Slot, MaxConcurrent <- Capacity, Malformed <- {}

configuration == <<manager, workers>>
vars == <<at, to, gates, sems, active, failures, open, streak, configuration>>

current == workers[manager] \* app.state.workers
Has(slot) == slot[3] \in Configured[slot[2]]

Init ==
  /\ Calls!Init
  /\ manager = 0
  /\ workers = [m \in Manager |-> m]

-----------------------------------------------------------------------------
\* Slip: the wait at the gate ends in the registry that was there before it.
RetargetNobody(c) == to[c]

\* Where a call is bound for after the manager in service got a new registry.
Retarget(c) ==
  IF at[c] = "gate" /\ to[c][1] = manager
    THEN <<manager, current + 1, to[c][3]>> ELSE to[c]

(* The same database: the manager in service gets the new registry, without*)
(* a suspension (update_workers; nobody suspends while holding its lock).  *)
ReloadConfig ==
  /\ current < MaxReloads
  /\ workers' = [workers EXCEPT ![manager] = current + 1]
  /\ to' = [c \in Call |-> Retarget(c)]
  /\ UNCHANGED <<at, gates, sems, active, failures, open, streak, manager>>

\* Coroutines of tasks; a synchronous call is none.
HasActiveTasks == \E c \in Call \ SyncCall : at[c] # "idle"

(* Another database: refused (409) with an active task; else a new manager *)
(* with the new registry takes over.  The old one gets no update_workers.  *)
(* stop() finds nothing to wait for, so this is one step; a new manager    *)
(* that cannot start changes nothing here.                                 *)
ReloadState ==
  /\ current < MaxReloads
  /\ ~HasActiveTasks
  /\ manager' = current + 1
  /\ UNCHANGED <<at, to, gates, sems, active, failures, open, streak, workers>>

\* A new call; one to a worker that is not configured raises at once.
Start(c, w) ==
  LET slot == <<manager, current, w>> IN
  /\ Has(slot)
  /\ Calls!AsyncCall(c, slot) \/ Calls!SyncRequest(c, slot)
  /\ UNCHANGED configuration

\* Slip: the call is given up before the gate is entered with its permit.
RefuseKeeping(c) ==
  Calls!SetGate(to[c],
                [Calls!Resume(Calls!Gate(to[c]), c) EXCEPT !.granted = @ \ {c}])

\* get() raises KeyError inside "async with self._sync_limit".
Refuse(c) ==
  Calls!SetGate(to[c], Calls!Release(Calls!Resume(Calls!Gate(to[c]), c)))

(* The worker was removed while the call waited at the gate.               *)
PassGateInVain(c) ==
  /\ at[c] = "gate" /\ c \in Calls!Gate(to[c]).granted
  /\ ~Has(to[c])
  /\ Refuse(c)
  /\ Calls!MoveTo(c, "idle", None)
  /\ UNCHANGED <<sems, active, failures, open, streak, configuration>>

Step(c) ==
  \/ PassGateInVain(c)
  \/ /\ at[c] = "gate" => Has(to[c])
     /\ Calls!Step(c)
     /\ UNCHANGED configuration

Next ==
  \/ ReloadConfig \/ ReloadState
  \/ \E c \in Call, w \in Service : Start(c, w)
  \/ \E c \in Call : \/ Step(c)
                     \/ /\ Calls!CancelQueued(c) \/ Calls!CancelPosted(c)
                        /\ UNCHANGED configuration
  \/ \E slot \in Slot : Calls!CoolDown(slot) /\ UNCHANGED configuration

Spec == Init /\ [][Next]_vars

\* As in WorkerRegistry: coroutines that are ready run, POSTs end.
FairSpec == Spec /\ \A c \in Call : WF_vars(Step(c))

-----------------------------------------------------------------------------
(* Properties.                                                             *)

(* Every permit of every gate and registry, replaced or not, is accounted  *)
(* for while calls of several configurations are under way.                *)
PermitsSurviveReload == Calls!PermitsConserved /\ Calls!ActiveExact

\* c comes into a registry, or from one into another.
Enters(c) ==
  LET Inside == {"queued", "posted"}
  IN at'[c] \in Inside /\ ~(at[c] \in Inside /\ to'[c] = to[c])

(* "Worker changes are swapped into the active manager"                    *)
(* (ai_bridge/README.md:371).  A call never enters a registry that its     *)
(* manager has given up, also when it waited at the gate since before the  *)
(* swap; and it enters under the manager in service, unless it waited at   *)
(* the gate of one that was replaced, which sends it to the registry that  *)
(* was replaced with it (TaskManager.call, _reload_config).                *)
EntersCurrent ==
  [][\A c \in Call : Enters(c) =>
       LET m == to'[c][1]
       IN to'[c][2] = workers'[m] /\ (m = manager' \/ at[c] = "gate")]_vars

(* A call gets its turn or its refusal although the configuration changes  *)
(* and its worker is removed while it waits.                               *)
CallsEnd == \A c \in Call : at[c] # "idle" ~> at[c] = "idle"

=============================================================================
