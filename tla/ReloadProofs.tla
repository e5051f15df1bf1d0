----------------------------- MODULE ReloadProofs -----------------------------
(***************************************************************************)
(* Permits through reloads, for any number of calls, workers and reloads.  *)
(* Kept is the instance of WorkerRegistry that Reload calls Calls, with    *)
(* the lemmas about it; the first lemmas here say that what one does the   *)
(* other does.                                                             *)
(***************************************************************************)
EXTENDS Reload, TLAPS

Kept == INSTANCE WorkerRegistryProofs WITH
          Worker <- Slot, MaxConcurrent <- Capacity, Malformed <- {}

LEMMA Assumed == Kept!CallAssumption /\ Kept!CapacityAssumption
<1>1. \A S : Kept!IsFiniteSet(S) <=> IsFiniteSet(S)
  BY DEF Kept!IsFiniteSet, IsFiniteSet
<1>2. /\ Under \in [Slot -> Manager]
      /\ Capacity \in [Slot -> Nat \ {0}]
  BY ReloadAssumption DEF Under, Capacity, Slot
<1>. QED
  BY <1>1, <1>2, ReloadAssumption DEF Kept!CallAssumption, Kept!CapacityAssumption

LEMMA SameCardinality == \A S : Kept!Cardinality(S) = Calls!Cardinality(S)
BY DEF Kept!Cardinality, Calls!Cardinality

LEMMA SameSemaphores ==
  /\ \A n : Calls!NewSemaphore(n) = Kept!NewSemaphore(n)
  /\ \A sem : Calls!Locked(sem) <=> Kept!Locked(sem)
  /\ \A sem : Calls!Take(sem) = Kept!Take(sem)
  /\ \A sem : Calls!Release(sem) = Kept!Release(sem)
  /\ \A sem, c : Calls!Enqueue(sem, c) = Kept!Enqueue(sem, c)
  /\ \A sem, c : Calls!Resume(sem, c) = Kept!Resume(sem, c)
  /\ \A sem, c : Calls!Abandon(sem, c) = Kept!Abandon(sem, c)
BY DEF Calls!NewSemaphore, Kept!NewSemaphore, Calls!Locked, Kept!Locked,
       Calls!Take, Kept!Take, Calls!Release, Kept!Release, Calls!Enqueue,
       Kept!Enqueue, Calls!Resume, Kept!Resume, Calls!Abandon, Kept!Abandon,
       Calls!GiveUp, Kept!GiveUp, Calls!Without, Kept!Without, Calls!WakeAll,
       Kept!WakeAll, Calls!Wake, Kept!Wake

LEMMA SameGates ==
  /\ \A w : Calls!Gate(w) = Kept!Gate(w)
  /\ \A w, g : Calls!SetGate(w, g) <=> Kept!SetGate(w, g)
  /\ \A c, w, g : Calls!LeaveGate(c, w, g) <=> Kept!LeaveGate(c, w, g)
BY SameSemaphores
   DEF Calls!Gate, Kept!Gate, Calls!SetGate, Kept!SetGate, Calls!LeaveGate,
       Kept!LeaveGate

LEMMA SameMoves ==
  /\ \A c, p, v : Calls!MoveTo(c, p, v) <=> Kept!MoveTo(c, p, v)
  /\ \A c, w, g : Calls!Enter(c, w, g) <=> Kept!Enter(c, w, g)
  /\ \A c : Calls!Exit(c) <=> Kept!Exit(c)
BY SameSemaphores, SameGates
   DEF Calls!MoveTo, Kept!MoveTo, Calls!Enter, Kept!Enter, Calls!Exit,
       Kept!Exit, Calls!AssertAvailable, Kept!AssertAvailable

LEMMA SameSteps ==
  /\ \A c, w : Calls!AsyncCall(c, w) => Kept!AsyncCall(c, w)
  /\ \A c, w : Calls!SyncRequest(c, w) => Kept!SyncRequest(c, w)
  /\ \A c : Calls!PassGate(c) => Kept!PassGate(c)
  /\ \A c : Calls!Dequeue(c) => Kept!Dequeue(c)
  /\ \A c, o : Calls!Return(c, o) => at[c] = "posted" /\ Kept!Exit(c)
  /\ \A c : Calls!CancelQueued(c) => Kept!CancelQueued(c)
  /\ \A c : Calls!CancelPosted(c) => at[c] = "posted" /\ Kept!Exit(c)
BY SameSemaphores, SameGates, SameMoves
   DEF Calls!AsyncCall, Kept!AsyncCall, Calls!SyncRequest, Kept!SyncRequest,
       Calls!PassGate, Kept!PassGate, Calls!Dequeue, Kept!Dequeue,
       Calls!Return, Calls!CancelQueued, Kept!CancelQueued,
       Calls!AbandonQueue, Kept!AbandonQueue, Calls!CancelPosted

-----------------------------------------------------------------------------
(* Permits.                                                                *)

\* A call that waits at a gate is bound for the registry its manager has.
GateInv == \A c \in Call : at[c] = "gate" => to[c][2] = workers[to[c][1]]

ManagerInv ==
  /\ manager \in Manager
  /\ workers \in [Manager -> Registry]
  /\ \A m \in Manager : m <= workers[m]

ReloadInv == Kept!PermitInv /\ ManagerInv /\ GateInv

\* How a step of a call may move it.
MayMove(c, place, v) ==
  /\ Calls!MoveTo(c, place, v)
  /\ place = "gate" => v[2] = workers[v[1]]
  /\ place \in {"queued", "posted"} =>
       \/ v[2] = workers[v[1]] /\ (v[1] = manager \/ at[c] = "gate")
       \/ at[c] = "queued" /\ v = to[c]

LEMMA Slots ==
  ASSUME ReloadInv, NEW c \in Call, at[c] # "idle"
  PROVE  to[c] \in Slot /\ (at[c] = "gate" => to[c][2] = workers[to[c][1]])
BY DEF ReloadInv, Kept!PermitInv, Kept!CallInv, GateInv

LEMMA EnterMoves ==
  ASSUME NEW c \in Call, NEW w, NEW g, w[2] = workers[w[1]],
         w[1] = manager \/ at[c] = "gate", Calls!Enter(c, w, g)
  PROVE  \E place \in {"idle", "queued", "posted"} : \E v : MayMove(c, place, v)
<1>1. CASE Calls!MoveTo(c, "idle", None)
  BY <1>1 DEF MayMove
<1>2. CASE Calls!MoveTo(c, "queued", w)
  BY <1>2 DEF MayMove
<1>3. CASE Calls!MoveTo(c, "posted", w)
  BY <1>3 DEF MayMove
<1>. QED
  BY <1>1, <1>2, <1>3 DEF Calls!Enter

LEMMA InVainKeeps ==
  ASSUME ReloadInv, NEW c \in Call, PassGateInVain(c)
  PROVE  Kept!PermitInv'
<1>0. at[c] = "gate" /\ to[c] \in Slot
  BY Slots DEF PassGateInVain
<1>1. PICK m \in Manager : Under[to[c]] = m
  BY <1>0 DEF Under, Slot
<1>. DEFINE held == Kept!Resume(gates[m], c)
<1>2. /\ c \in gates[m].granted
      /\ gates' = [gates EXCEPT ![m] = Kept!Release(held)]
      /\ Kept!MoveTo(c, "idle", None) /\ UNCHANGED <<sems, active>>
  BY <1>1, SameSemaphores, SameMoves
     DEF PassGateInVain, Refuse, Calls!Gate, Calls!SetGate
<1>3. /\ \A n \in Manager : c \notin Kept!Inside(n)
      /\ \A n \in Manager \ {m} : c \notin Kept!AtGate(n)
      /\ \A w \in Slot : c \notin Kept!Queued(w) /\ c \notin Kept!Posted(w)
  BY <1>0, <1>1 DEF Kept!AtGate, Kept!Inside, Kept!Queued, Kept!Posted
<1>4. Kept!Lands(c, "idle", None)
  BY <1>2, Kept!Moved, Assumed DEF Kept!Places, ReloadInv, Kept!PermitInv
<1>5. Kept!CallInv'
  BY <1>4 DEF Kept!Lands, Kept!CallInv, ReloadInv, Kept!PermitInv
<1>6. /\ Kept!AtGate(m)' = Kept!AtGate(m) \ {c}
      /\ \A n \in Manager : Kept!Inside(n)' = Kept!Inside(n)
      /\ \A n \in Manager \ {m} : Kept!AtGate(n)' = Kept!AtGate(n)
  BY <1>1, <1>3, <1>4 DEF Kept!Lands, Kept!AtGateOf, Kept!InsideOf
<1>7. \A w \in Slot : /\ Kept!Queued(w)' = Kept!Queued(w)
                      /\ Kept!Posted(w)' = Kept!Posted(w)
  BY <1>3, <1>4 DEF Kept!Lands
<1>8. Kept!GateInv'
  <2>1. Kept!Sound(gates[m], SyncActive[m], Kept!AtGate(m), Kept!Inside(m))
    BY <1>1 DEF ReloadInv, Kept!PermitInv, Kept!GateInv
  <2>2. Kept!Sound(held, SyncActive[m], Kept!AtGate(m) \ {c},
                   Kept!Inside(m) \cup {c})
    BY <1>2, <2>1, Kept!ResumeIsSound, Assumed
  <2>3. Kept!Sound(Kept!Release(held), SyncActive[m], Kept!AtGate(m) \ {c},
                   (Kept!Inside(m) \cup {c}) \ {c})
    BY <2>2, Kept!ReleaseIsSound, Assumed
  <2>4. (Kept!Inside(m) \cup {c}) \ {c} = Kept!Inside(m)
    BY <1>1, <1>3
  <2>5. Kept!Sound(Kept!Release(held), SyncActive[m], Kept!AtGate(m)',
                   Kept!Inside(m)')
    BY <1>1, <1>6, <2>3, <2>4
  <2>. QED
    BY <1>1, <1>2, <1>6, <2>5, Kept!OneGate, Assumed
       DEF ReloadInv, Kept!PermitInv
<1>9. Kept!SemsInv' /\ Kept!ActiveInv'
  BY <1>2, <1>7, Kept!SameWorkers, Assumed DEF ReloadInv, Kept!PermitInv
<1>. QED
  BY <1>5, <1>8, <1>9 DEF Kept!PermitInv

LEMMA ReloadConfigKeeps ==
  ASSUME ReloadInv, ReloadConfig
  PROVE  ReloadInv'
<1>1. /\ manager \in Manager /\ manager' = manager
      /\ current \in Registry /\ manager <= current
      /\ current + 1 \in Registry /\ manager <= current + 1
      /\ workers' = [workers EXCEPT ![manager] = current + 1]
      /\ to' = [c \in Call |-> Retarget(c)]
      /\ UNCHANGED <<at, gates, sems, active>>
  BY ReloadAssumption
     DEF ReloadConfig, ReloadInv, ManagerInv, Registry, Manager, current
<1>2. \A c \in Call : to'[c] = IF at[c] = "gate" /\ to[c][1] = manager
                                 THEN <<manager, current + 1, to[c][3]>> ELSE to[c]
  BY <1>1 DEF Retarget
<1>3. /\ to \in [Call -> Slot \cup {None}]
      /\ \A c \in Call : at[c] # "idle" => to[c] \in Slot
  BY DEF ReloadInv, Kept!PermitInv, Kept!CallInv
<1>4. ASSUME NEW c \in Call, at[c] = "gate"
      PROVE  /\ to'[c] \in Slot /\ to'[c][1] = to[c][1]
             /\ to'[c][2] = workers'[to'[c][1]]
  <2>1. to[c] \in Slot /\ to[c][2] = workers[to[c][1]] /\ to[c][1] \in Manager
    BY <1>4, Slots DEF Slot
  <2>2. CASE to[c][1] = manager
    <3>1. to'[c] = <<manager, current + 1, to[c][3]>> /\ to[c][3] \in Service
      BY <1>2, <1>4, <2>1, <2>2 DEF Slot
    <3>2. workers'[manager] = current + 1
      BY <1>1 DEF ReloadInv, ManagerInv
    <3>. QED
      BY <1>1, <2>2, <3>1, <3>2 DEF Slot
  <2>3. CASE to[c][1] # manager
    <3>1. to'[c] = to[c]
      BY <1>2, <1>4, <2>3
    <3>2. workers'[to[c][1]] = workers[to[c][1]]
      BY <1>1, <2>1, <2>3 DEF ReloadInv, ManagerInv
    <3>. QED
      BY <2>1, <3>1, <3>2
  <2>. QED
    BY <2>2, <2>3
<1>5. to' \in [Call -> Slot \cup {None}]
  <2>1. \A c \in Call : to'[c] \in Slot \cup {None}
    BY <1>2, <1>3, <1>4
  <2>. QED
    BY <1>1, <2>1
<1>6. \A c \in Call : at[c] # "gate" => to'[c] = to[c]
  BY <1>2
<1>7. Kept!CallInv'
  BY <1>1, <1>3, <1>4, <1>5, <1>6 DEF Kept!CallInv, ReloadInv, Kept!PermitInv
<1>8. \A c \in Call : at[c] = "gate" => Under[to'[c]] = Under[to[c]]
  BY <1>3, <1>4 DEF Under
<1>9. /\ \A m \in Manager : /\ Kept!AtGate(m)' = Kept!AtGate(m)
                            /\ Kept!Inside(m)' = Kept!Inside(m)
      /\ \A w \in Slot : /\ Kept!Queued(w)' = Kept!Queued(w)
                         /\ Kept!Posted(w)' = Kept!Posted(w)
  <2>1. \A m \in Manager : Kept!AtGate(m)' = Kept!AtGate(m)
    BY <1>1, <1>8 DEF Kept!AtGate
  <2>2. \A m \in Manager : Kept!Inside(m)' = Kept!Inside(m)
    BY <1>1, <1>6, ReloadAssumption DEF Kept!Inside
  <2>3. \A w \in Slot : /\ Kept!Queued(w)' = Kept!Queued(w)
                        /\ Kept!Posted(w)' = Kept!Posted(w)
    BY <1>1, <1>6 DEF Kept!Queued, Kept!Posted
  <2>. QED
    BY <2>1, <2>2, <2>3
<1>10. Kept!GateInv' /\ Kept!SemsInv' /\ Kept!ActiveInv'
  BY <1>1, <1>9, Kept!SameGates, Kept!SameWorkers, Assumed
     DEF ReloadInv, Kept!PermitInv
<1>11. ManagerInv'
  BY <1>1 DEF ReloadInv, ManagerInv
<1>12. GateInv'
  BY <1>1, <1>4 DEF GateInv
<1>. QED
  BY <1>7, <1>10, <1>11, <1>12 DEF ReloadInv, Kept!PermitInv

LEMMA PermitsUntouched ==
  ASSUME Kept!PermitInv, UNCHANGED <<at, to, gates, sems, active>>
  PROVE  Kept!PermitInv'
BY DEF Kept!PermitInv, Kept!CallInv, Kept!GateInv, Kept!SemsInv, Kept!ActiveInv,
       Kept!AtGate, Kept!Inside, Kept!Queued, Kept!Posted

LEMMA ReloadStateKeeps ==
  ASSUME ReloadInv, ReloadState
  PROVE  ReloadInv'
<1>1. /\ UNCHANGED <<at, to, gates, sems, active, workers>>
      /\ manager' \in Manager
  BY ReloadAssumption
     DEF ReloadState, ReloadInv, ManagerInv, Registry, Manager, current
<1>2. Kept!PermitInv'
  BY <1>1, PermitsUntouched DEF ReloadInv
<1>. QED
  BY <1>1, <1>2 DEF ReloadInv, ManagerInv, GateInv

LEMMA StartKeeps ==
  ASSUME ReloadInv, NEW c \in Call, NEW w \in Service, Start(c, w)
  PROVE  /\ Kept!PermitInv' /\ UNCHANGED configuration
         /\ \E place, v : MayMove(c, place, v)
<1>. DEFINE slot == <<manager, current, w>>
<1>1. slot \in Slot /\ slot[1] = manager /\ slot[2] = workers[slot[1]]
  BY DEF Slot, ReloadInv, ManagerInv, current
<1>2. CASE Calls!AsyncCall(c, slot)
  <2>1. Kept!PermitInv'
    BY <1>1, <1>2, SameSteps, Kept!AsyncCallKeeps, Assumed DEF ReloadInv
  <2>2. \E place, v : MayMove(c, place, v)
    <3>1. Calls!Enter(c, slot, Calls!Gate(slot))
      BY <1>2 DEF Calls!AsyncCall
    <3>. QED
      BY <1>1, <3>1, EnterMoves
  <2>. QED
    BY <2>1, <2>2 DEF Start
<1>3. CASE Calls!SyncRequest(c, slot)
  <2>1. Kept!PermitInv'
    BY <1>1, <1>3, SameSteps, Kept!SyncRequestKeeps, Assumed DEF ReloadInv
  <2>2. \E place, v : MayMove(c, place, v)
    <3>1. CASE Calls!Enter(c, slot, Calls!Take(Calls!Gate(slot)))
      BY <1>1, <3>1, EnterMoves
    <3>2. CASE Calls!MoveTo(c, "gate", slot)
      BY <1>1, <3>2 DEF MayMove
    <3>. QED
      BY <1>3, <3>1, <3>2 DEF Calls!SyncRequest
  <2>. QED
    BY <2>1, <2>2 DEF Start
<1>. QED
  BY <1>2, <1>3 DEF Start

LEMMA StepKeeps ==
  ASSUME ReloadInv, NEW c \in Call,
         \/ PassGateInVain(c)
         \/ Calls!Step(c) /\ UNCHANGED configuration
         \/ Calls!CancelQueued(c) /\ UNCHANGED configuration
         \/ Calls!CancelPosted(c) /\ UNCHANGED configuration
  PROVE  /\ Kept!PermitInv' /\ UNCHANGED configuration
         /\ \E place, v : MayMove(c, place, v)
<1>1. CASE PassGateInVain(c)
  <2>1. Calls!MoveTo(c, "idle", None) /\ UNCHANGED configuration
    BY <1>1 DEF PassGateInVain
  <2>2. MayMove(c, "idle", None)
    BY <2>1 DEF MayMove
  <2>. QED
    BY <1>1, <2>1, <2>2, InVainKeeps
<1>2. CASE Calls!PassGate(c) /\ UNCHANGED configuration
  <2>1. Kept!PermitInv'
    BY <1>2, SameSteps, Kept!PassGateKeeps, Assumed DEF ReloadInv
  <2>2. /\ at[c] = "gate"
        /\ Calls!Enter(c, to[c], Calls!Resume(Calls!Gate(to[c]), c))
    BY <1>2 DEF Calls!PassGate
  <2>3. to[c][2] = workers[to[c][1]]
    BY <2>2, Slots
  <2>. QED
    BY <1>2, <2>1, <2>2, <2>3, EnterMoves
<1>3. CASE Calls!Dequeue(c) /\ UNCHANGED configuration
  <2>1. Kept!PermitInv'
    BY <1>3, SameSteps, Kept!DequeueKeeps, Assumed DEF ReloadInv
  <2>2. at[c] = "queued" /\ Calls!MoveTo(c, "posted", to[c])
    BY <1>3 DEF Calls!Dequeue, Calls!MoveTo, ReloadInv, Kept!PermitInv,
                Kept!CallInv
  <2>3. MayMove(c, "posted", to[c])
    BY <2>2 DEF MayMove
  <2>. QED
    BY <1>3, <2>1, <2>3
<1>4. ASSUME at[c] = "posted", Kept!Exit(c), UNCHANGED configuration
      PROVE  /\ Kept!PermitInv' /\ UNCHANGED configuration
             /\ \E place, v : MayMove(c, place, v)
  <2>1. Kept!PermitInv'
    BY <1>4, Kept!ExitKeeps, Assumed DEF ReloadInv
  <2>2. Calls!MoveTo(c, "idle", None)
    BY <1>4, SameMoves DEF Kept!Exit
  <2>3. MayMove(c, "idle", None)
    BY <2>2 DEF MayMove
  <2>. QED
    BY <1>4, <2>1, <2>3
<1>5. CASE Calls!CancelQueued(c) /\ UNCHANGED configuration
  <2>1. Kept!PermitInv'
    BY <1>5, SameSteps, Kept!CancelQueuedKeeps, Assumed DEF ReloadInv
  <2>2. MayMove(c, "idle", None)
    BY <1>5 DEF Calls!CancelQueued, MayMove
  <2>. QED
    BY <1>5, <2>1, <2>2
<1>6. CASE Calls!CancelPosted(c) /\ UNCHANGED configuration
  BY <1>4, <1>6, SameSteps
<1>7. ASSUME NEW o, Calls!Return(c, o), UNCHANGED configuration
      PROVE  /\ Kept!PermitInv' /\ UNCHANGED configuration
             /\ \E place, v : MayMove(c, place, v)
  BY <1>4, <1>7, SameSteps
<1>. QED
  BY <1>1, <1>2, <1>3, <1>5, <1>6, <1>7 DEF Calls!Step

\* Every step is a reload, moves one call, or moves none.
LEMMA Steps ==
  ASSUME ReloadInv, [Next]_vars
  PROVE  \/ ReloadConfig
         \/ ReloadState
         \/ /\ Kept!PermitInv' /\ UNCHANGED configuration
            /\ \/ UNCHANGED <<at, to>>
               \/ \E c \in Call : \E place, v : MayMove(c, place, v)
<1>1. CASE ReloadConfig \/ ReloadState
  BY <1>1
<1>2. ASSUME NEW c \in Call, NEW w \in Service, Start(c, w)
      PROVE  /\ Kept!PermitInv' /\ UNCHANGED configuration
             /\ \E place, v : MayMove(c, place, v)
  BY <1>2, StartKeeps
<1>3. ASSUME NEW c \in Call,
             \/ Step(c)
             \/ /\ Calls!CancelQueued(c) \/ Calls!CancelPosted(c)
                /\ UNCHANGED configuration
      PROVE  /\ Kept!PermitInv' /\ UNCHANGED configuration
             /\ \E place, v : MayMove(c, place, v)
  BY <1>3, StepKeeps DEF Step
<1>4. CASE UNCHANGED <<at, to, gates, sems, active, configuration>>
  BY <1>4, PermitsUntouched DEF ReloadInv
<1>5. ASSUME NEW slot \in Slot, Calls!CoolDown(slot), UNCHANGED configuration
      PROVE  UNCHANGED <<at, to, gates, sems, active, configuration>>
  BY <1>5 DEF Calls!CoolDown
<1>. QED
  BY <1>1, <1>2, <1>3, <1>4, <1>5 DEF Next, vars

\* Where the calls are after a step that may move one.
LEMMA AfterMove ==
  ASSUME ReloadInv, NEW c \in Call, NEW place, NEW v, MayMove(c, place, v)
  PROVE  /\ \A d \in Call : at'[d] = IF d = c THEN place ELSE at[d]
         /\ \A d \in Call : to'[d] = IF d = c THEN v ELSE to[d]
BY DEF MayMove, Calls!MoveTo, ReloadInv, Kept!PermitInv, Kept!CallInv

LEMMA ReloadInit == Init => ReloadInv
<1>. SUFFICES ASSUME Init PROVE ReloadInv
  OBVIOUS
<1>1. Kept!Init
  BY SameSemaphores DEF Init, Calls!Init, Kept!Init
<1>2. Kept!PermitInv
  BY <1>1, Kept!PermitInit, Assumed
<1>3. ManagerInv
  BY ReloadAssumption DEF Init, ManagerInv, Manager, Registry
<1>4. GateInv
  BY DEF Init, Calls!Init, GateInv
<1>. QED
  BY <1>2, <1>3, <1>4 DEF ReloadInv

LEMMA ReloadInvariant == Spec => []ReloadInv
<1>1. ASSUME ReloadInv, [Next]_vars PROVE ReloadInv'
  <2>1. CASE ReloadConfig \/ ReloadState
    BY <1>1, <2>1, ReloadConfigKeeps, ReloadStateKeeps
  <2>2. CASE Kept!PermitInv' /\ UNCHANGED <<configuration, at, to>>
    BY <1>1, <2>2 DEF ReloadInv, ManagerInv, GateInv, configuration
  <2>3. ASSUME Kept!PermitInv', UNCHANGED configuration,
               NEW c \in Call, NEW place, NEW v, MayMove(c, place, v)
        PROVE  ReloadInv'
    <3>1. GateInv'
      BY <1>1, <2>3, AfterMove DEF GateInv, ReloadInv, MayMove, configuration
    <3>. QED
      BY <1>1, <2>3, <3>1 DEF ReloadInv, ManagerInv, configuration
  <2>. QED
    BY <1>1, <2>1, <2>2, <2>3, Steps
<1>. QED
  BY <1>1, ReloadInit, PTL DEF Spec

(* Every permit of all gates and registries, replaced or not, is accounted *)
(* for, however many reloads of either kind calls live through.            *)
THEOREM PermitsOutliveReloads == Spec => []PermitsSurviveReload
<1>1. Kept!PermitInv => Calls!PermitsConserved
  <2>1. Kept!PermitInv => Kept!PermitsConserved
    BY Kept!PermitsFollow, Assumed
  <2>. QED
    BY <2>1, SameCardinality
       DEF Calls!PermitsConserved, Kept!PermitsConserved, Calls!Inside,
           Kept!Inside, Calls!Posted, Kept!Posted
<1>2. Kept!PermitInv => Calls!ActiveExact
  <2>1. Kept!PermitInv => Kept!ActiveExact
    BY Kept!ActiveFollows, Assumed
  <2>. QED
    BY <2>1, SameCardinality
       DEF Calls!ActiveExact, Kept!ActiveExact, Calls!Posted, Kept!Posted
<1>3. ReloadInv => PermitsSurviveReload
  BY <1>1, <1>2 DEF ReloadInv, PermitsSurviveReload
<1>. QED
  BY <1>3, ReloadInvariant, PTL

(* A call enters the registry that its manager has, and a replaced manager *)
(* is entered only by a call that waited at its gate, whichever reloads,   *)
(* cancellations and other calls come between.                             *)
THEOREM CallsEnterCurrent == Spec => EntersCurrent
<1>1. ASSUME ReloadInv, [Next]_vars, NEW d \in Call, Enters(d)
      PROVE  /\ to'[d][2] = workers'[to'[d][1]]
             /\ to'[d][1] = manager' \/ at[d] = "gate"
  <2>1. ~(ReloadConfig \/ ReloadState \/ UNCHANGED <<at, to>>)
    <3>1. ReloadConfig \/ ReloadState \/ UNCHANGED <<at, to>> =>
            at' = at /\ (at[d] \in {"queued", "posted"} => to'[d] = to[d])
      BY DEF ReloadConfig, Retarget, ReloadState
    <3>. QED
      BY <1>1, <3>1 DEF Enters
  <2>2. PICK c \in Call : UNCHANGED configuration /\ \E place, v : MayMove(c, place, v)
    BY <1>1, <2>1, Steps
  <2>3. PICK place, v : MayMove(c, place, v)
    BY <2>2
  <2>. QED
    BY <1>1, <2>2, <2>3, AfterMove DEF MayMove, Enters, configuration
<1>2. ReloadInv /\ [Next]_vars =>
        [\A c \in Call : Enters(c) =>
           LET m == to'[c][1]
           IN to'[c][2] = workers'[m] /\ (m = manager' \/ at[c] = "gate")]_vars
  BY <1>1
<1>. QED
  BY <1>2, ReloadInvariant, PTL DEF Spec, EntersCurrent

=============================================================================
