------------------------- MODULE WorkerRegistryProofs -------------------------
(***************************************************************************)
(* The circuit breaker and the permits, for any number of calls and        *)
(* workers, any capacity and threshold, and any order in which overlapping *)
(* calls return.                                                           *)
(***************************************************************************)
EXTENDS WorkerRegistry, AsyncSemaphoreProofs

-----------------------------------------------------------------------------
(* The circuit.                                                            *)

\* For a worker whose answers are well formed the circuit counts the streak.
CountsStreak ==
  /\ failures \in [Worker -> 0 .. FailureThreshold]
  /\ streak \in [Worker -> 0 .. FailureThreshold]
  /\ \A w \in Worker \ Malformed : failures[w] = streak[w]

LEMMA UpToRange ==
  ASSUME NEW n \in 0 .. FailureThreshold
  PROVE  UpTo(n) \in 0 .. FailureThreshold
BY CapacityAssumption DEF UpTo

LEMMA CountingInvariant == Spec => []CountsStreak
<1>1. Init => CountsStreak
  BY CapacityAssumption DEF Init, CountsStreak
<1>2. CountsStreak /\ [Next]_vars => CountsStreak'
  <2>. SUFFICES ASSUME CountsStreak, [Next]_vars PROVE CountsStreak'
    OBVIOUS
  <2>1. CASE UNCHANGED <<failures, streak>>
    BY <2>1 DEF CountsStreak
  <2>2. ASSUME NEW c \in Call, NEW o \in {"ok", "error", "malformed"},
               Return(c, o)
        PROVE  CountsStreak'
    <3>1. /\ streak' = [streak EXCEPT ![to[c]] =
                          IF o = "ok" THEN 0 ELSE UpTo(streak[to[c]])]
          /\ o = "malformed" => to[c] \in Malformed
      BY <2>2 DEF Return, Outcomes
    <3>2. CASE o = "ok"
      <4>1. failures' = [failures EXCEPT ![to[c]] = 0]
        BY <2>2, <3>2 DEF Return, Record, RecordSuccess
      <4>2. streak' = [streak EXCEPT ![to[c]] = 0]
        BY <3>1, <3>2
      <4>3. 0 \in 0 .. FailureThreshold
        BY CapacityAssumption
      <4>. QED
        BY <4>1, <4>2, <4>3 DEF CountsStreak
    <3>3. CASE o = "error"
      <4>1. failures' = [failures EXCEPT ![to[c]] = UpTo(failures[to[c]])]
        BY <2>2, <3>3 DEF Return, Record, RecordFailure
      <4>. QED
        BY <3>1, <3>3, <4>1, UpToRange DEF CountsStreak
    <3>4. CASE o = "malformed"
      <4>1. failures' = [failures EXCEPT ![to[c]] = 1]
        BY <2>2, <3>4 DEF Return, Record, RecordMalformed
      <4>. QED
        BY <3>1, <3>4, <4>1, UpToRange, CapacityAssumption DEF CountsStreak
    <3>. QED
      BY <3>2, <3>3, <3>4
  <2>. QED
    BY <2>1, <2>2
       DEF Next, Step, AsyncCall, SyncRequest, PassGate, Dequeue, CancelQueued,
           CancelPosted, CoolDown, vars
<1>. QED
  BY <1>1, <1>2, PTL DEF Spec

(* No failure that makes or finds the streak long enough leaves the        *)
(* circuit of a worker with well formed answers closed, in whatever order  *)
(* calls return, and whichever are cancelled or follow a cooldown.         *)
THEOREM CircuitOpensOnStreak == Spec => StreakOpens
<1>1. CountsStreak /\ [Next]_vars =>
        [\A w \in Worker \ Malformed : OpensOnStreak(w)]_vars
  <2>. SUFFICES ASSUME CountsStreak, NEW w \in Worker \ Malformed, NEW c \in Call,
                       NEW o \in {"error", "malformed"},
                       streak'[w] = FailureThreshold, to[c] = w, Return(c, o)
                PROVE  w \in open'
    BY DEF OpensOnStreak
  <2>1. o = "error"
    BY DEF Return, Outcomes
  <2>2. /\ failures' = [failures EXCEPT ![w] = UpTo(failures[w])]
        /\ streak' = [streak EXCEPT ![w] = UpTo(streak[w])]
        /\ failures'[w] >= FailureThreshold => w \in open'
    BY <2>1 DEF Return, Record, RecordFailure
  <2>3. failures'[w] = streak'[w]
    BY <2>2 DEF CountsStreak
  <2>. QED
    BY <2>2, <2>3, CapacityAssumption
<1>. QED
  BY <1>1, CountingInvariant, PTL DEF Spec, StreakOpens

-----------------------------------------------------------------------------
(* Permits.  Each semaphore is sound for the calls that wait for it and    *)
(* those that hold its permit, as their places tell.                       *)

AtGate(m) == {c \in Call : at[c] = "gate" /\ Under[to[c]] = m}

CallInv ==
  /\ at \in [Call -> Places] /\ to \in [Call -> Worker \cup {None}]
  /\ \A c \in Call : at[c] # "idle" => to[c] \in Worker
  /\ \A c \in Call : at[c] = "gate" => c \in SyncCall

SemsInv ==
  /\ sems = [w \in Worker |-> sems[w]]
  /\ \A w \in Worker : Sound(sems[w], MaxConcurrent[w], Queued(w), Posted(w))

ActiveInv ==
  /\ active \in [Worker -> Nat]
  /\ \A w \in Worker : active[w] = Cardinality(Posted(w))

GateInv ==
  /\ gates = [m \in Manager |-> gates[m]]
  /\ \A m \in Manager : Sound(gates[m], SyncActive[m], AtGate(m), Inside(m))

PermitInv == CallInv /\ GateInv /\ SemsInv /\ ActiveInv

LEMMA PermitInit == Init => PermitInv
<1>. SUFFICES ASSUME Init PROVE PermitInv
  OBVIOUS
<1>1. /\ at = [c \in Call |-> "idle"] /\ to = [c \in Call |-> None]
      /\ \A m : AtGate(m) = {} /\ Inside(m) = {}
      /\ \A w : Queued(w) = {} /\ Posted(w) = {}
  BY CallAssumption DEF Init, AtGate, Inside, Queued, Posted
<1>2. CallInv
  BY <1>1 DEF CallInv, Places
<1>3. GateInv
  <2>. SUFFICES ASSUME NEW m \in Manager
                PROVE  Sound(gates[m], SyncActive[m], {}, {})
    BY <1>1 DEF GateInv, Init
  <2>1. gates[m] = NewSemaphore(SyncActive[m]) /\ SyncActive[m] \in Nat
    BY CapacityAssumption DEF Init
  <2>. QED
    BY <2>1, NewIsSound
<1>4. SemsInv
  <2>. SUFFICES ASSUME NEW w \in Worker
                PROVE  Sound(sems[w], MaxConcurrent[w], {}, {})
    BY <1>1 DEF SemsInv, Init
  <2>1. sems[w] = NewSemaphore(MaxConcurrent[w]) /\ MaxConcurrent[w] \in Nat
    BY CapacityAssumption DEF Init
  <2>. QED
    BY <2>1, NewIsSound
<1>5. ActiveInv
  BY <1>1, FS_EmptySet DEF ActiveInv, Init
<1>. QED
  BY <1>2, <1>3, <1>4, <1>5 DEF PermitInv

\* The calls at the gate of m and behind it after a move of c.
AtGateOf(m, c, place, v) ==
  /\ AtGate(m)' = IF place = "gate" /\ Under[v] = m
                    THEN AtGate(m) \cup {c} ELSE AtGate(m) \ {c}
  /\ c \in AtGate(m) \/ (place = "gate" /\ Under[v] = m) \/ AtGate(m)' = AtGate(m)

InsideOf(m, c, place, v) ==
  LET enters == place \in {"queued", "posted"} /\ c \in SyncCall /\ Under[v] = m
  IN /\ Inside(m)' = IF enters THEN Inside(m) \cup {c} ELSE Inside(m) \ {c}
     /\ (c \in Inside(m) <=> enters) => Inside(m)' = Inside(m)

\* The sets after a move of one call.
Lands(c, place, v) ==
  /\ at' \in [Call -> Places] /\ to' \in [Call -> Worker \cup {None}]
  /\ \A d \in Call : at'[d] # "idle" => to'[d] \in Worker
  /\ \A d \in Call : at'[d] = "gate" => at[d] = "gate" \/ (d = c /\ place = "gate")
  /\ \A m \in Manager : AtGateOf(m, c, place, v) /\ InsideOf(m, c, place, v)
  /\ \A w \in Worker :
       /\ Queued(w)' = IF place = "queued" /\ v = w
                         THEN Queued(w) \cup {c} ELSE Queued(w) \ {c}
       /\ Posted(w)' = IF place = "posted" /\ v = w
                         THEN Posted(w) \cup {c} ELSE Posted(w) \ {c}
       /\ c \in Queued(w) \/ (place = "queued" /\ v = w) \/ Queued(w)' = Queued(w)
       /\ c \in Posted(w) \/ (place = "posted" /\ v = w) \/ Posted(w)' = Posted(w)

LEMMA Moved ==
  ASSUME CallInv, NEW c \in Call, NEW place \in Places,
         NEW v \in Worker \cup {None}, place # "idle" => v \in Worker,
         MoveTo(c, place, v)
  PROVE  Lands(c, place, v)
<1>1. /\ at' = [at EXCEPT ![c] = place] /\ to' = [to EXCEPT ![c] = v]
      /\ at \in [Call -> Places] /\ to \in [Call -> Worker \cup {None}]
      /\ \A d \in Call : at'[d] = IF d = c THEN place ELSE at[d]
      /\ \A d \in Call : to'[d] = IF d = c THEN v ELSE to[d]
  BY DEF MoveTo, CallInv
<1>2. at' \in [Call -> Places] /\ to' \in [Call -> Worker \cup {None}]
  BY <1>1
<1>3. /\ \A d \in Call : at'[d] # "idle" => to'[d] \in Worker
      /\ \A d \in Call : at'[d] = "gate" => at[d] = "gate" \/ (d = c /\ place = "gate")
  BY <1>1 DEF CallInv
<1>4. ASSUME NEW m PROVE AtGateOf(m, c, place, v)
  <2>1. AtGate(m)' = IF place = "gate" /\ Under[v] = m
                       THEN AtGate(m) \cup {c} ELSE AtGate(m) \ {c}
    BY <1>1 DEF AtGate
  <2>. QED
    BY <2>1 DEF AtGateOf
<1>5. ASSUME NEW m PROVE InsideOf(m, c, place, v)
  <2>. DEFINE enters == /\ place \in {"queued", "posted"} /\ c \in SyncCall
                        /\ Under[v] = m
  <2>1. Inside(m)' = IF enters THEN Inside(m) \cup {c} ELSE Inside(m) \ {c}
    BY <1>1, CallAssumption DEF Inside
  <2>. HIDE DEF enters
  <2>2. (c \in Inside(m) <=> enters) => Inside(m)' = Inside(m)
    BY <2>1
  <2>. QED
    BY <2>1, <2>2 DEF InsideOf, enters
<1>6. ASSUME NEW w
      PROVE  Queued(w)' = IF place = "queued" /\ v = w
                            THEN Queued(w) \cup {c} ELSE Queued(w) \ {c}
  BY <1>1 DEF Queued
<1>7. ASSUME NEW w
      PROVE  Posted(w)' = IF place = "posted" /\ v = w
                            THEN Posted(w) \cup {c} ELSE Posted(w) \ {c}
  BY <1>1 DEF Posted
<1>8. ASSUME NEW w
      PROVE  /\ c \in Queued(w) \/ (place = "queued" /\ v = w)
                \/ Queued(w)' = Queued(w)
             /\ c \in Posted(w) \/ (place = "posted" /\ v = w)
                \/ Posted(w)' = Posted(w)
  BY <1>6, <1>7
<1>. QED
  BY <1>2, <1>3, <1>4, <1>5, <1>6, <1>7, <1>8 DEF Lands

LEMMA PostedFinite ==
  \A w \in Worker : IsFiniteSet(Posted(w)) /\ Cardinality(Posted(w)) \in Nat
BY CallAssumption, FS_Subset, FS_CardinalityType DEF Posted

\* A step that changes the semaphore of v and the counter of its posted calls.
LEMMA OneWorker ==
  ASSUME SemsInv, ActiveInv, NEW v \in Worker, NEW sem, NEW n \in Nat,
         sems' = [sems EXCEPT ![v] = sem], active' = [active EXCEPT ![v] = n],
         Sound(sem, MaxConcurrent[v], Queued(v)', Posted(v)'),
         n = Cardinality(Posted(v)'),
         \A w \in Worker \ {v} :
           Queued(w)' = Queued(w) /\ Posted(w)' = Posted(w)
  PROVE  SemsInv' /\ ActiveInv'
<1>1. \A w \in Worker : sems'[w] = IF w = v THEN sem ELSE sems[w]
  BY DEF SemsInv
<1>2. ASSUME NEW w \in Worker
      PROVE  Sound(sems'[w], MaxConcurrent[w], Queued(w)', Posted(w)')
  BY <1>1 DEF SemsInv
<1>3. sems' = [w \in Worker |-> sems'[w]]
  BY DEF SemsInv
<1>4. active' \in [Worker -> Nat]
  BY DEF ActiveInv
<1>5. \A w \in Worker : active'[w] = Cardinality(Posted(w)')
  BY DEF ActiveInv
<1>. QED
  BY <1>2, <1>3, <1>4, <1>5 DEF SemsInv, ActiveInv

LEMMA SameWorkers ==
  ASSUME SemsInv, ActiveInv, UNCHANGED <<sems, active>>,
         \A w \in Worker : Queued(w)' = Queued(w) /\ Posted(w)' = Posted(w)
  PROVE  SemsInv' /\ ActiveInv'
BY DEF SemsInv, ActiveInv

\* A step that changes the gate of m only.
LEMMA OneGate ==
  ASSUME GateInv, NEW m \in Manager, NEW g,
         gates' = [gates EXCEPT ![m] = g],
         Sound(g, SyncActive[m], AtGate(m)', Inside(m)'),
         \A n \in Manager \ {m} :
           AtGate(n)' = AtGate(n) /\ Inside(n)' = Inside(n)
  PROVE  GateInv'
<1>1. \A n \in Manager : gates'[n] = IF n = m THEN g ELSE gates[n]
  BY DEF GateInv
<1>2. ASSUME NEW n \in Manager
      PROVE  Sound(gates'[n], SyncActive[n], AtGate(n)', Inside(n)')
  BY <1>1 DEF GateInv
<1>3. gates' = [n \in Manager |-> gates'[n]]
  BY DEF GateInv
<1>. QED
  BY <1>2, <1>3 DEF GateInv

LEMMA SameGates ==
  ASSUME GateInv, gates' = gates,
         \A m \in Manager : AtGate(m)' = AtGate(m) /\ Inside(m)' = Inside(m)
  PROVE  GateInv'
BY DEF GateInv

LEMMA CallAdded ==
  ASSUME NEW w \in Worker, NEW c, c \notin Posted(w)
  PROVE  Cardinality(Posted(w) \cup {c}) = Cardinality(Posted(w)) + 1
BY PostedFinite, FS_AddElement

LEMMA CallRemoved ==
  ASSUME NEW w \in Worker, NEW c \in Posted(w)
  PROVE  /\ Cardinality(Posted(w) \ {c}) = Cardinality(Posted(w)) - 1
         /\ Cardinality(Posted(w) \ {c}) \in Nat
<1>1. Cardinality(Posted(w) \ {c}) = Cardinality(Posted(w)) - 1
  BY PostedFinite, FS_RemoveElement
<1>2. IsFiniteSet(Posted(w) \ {c})
  BY PostedFinite, FS_RemoveElement
<1>. QED
  BY <1>1, <1>2, FS_CardinalityType

-----------------------------------------------------------------------------
(* A call enters a registry, with the gate it has passed, or need not.     *)

\* A call passes a gate with g, the state of the gate after its wait.
LEMMA EnterKeeps ==
  ASSUME PermitInv, NEW c \in Call, NEW w \in Worker, NEW g,
         at[c] = "idle" \/ (at[c] = "gate" /\ Under[to[c]] = Under[w]),
         NEW m, m = Under[w],
         NEW held, held = IF c \in SyncCall THEN Inside(m) \cup {c} ELSE Inside(m),
         Sound(g, SyncActive[m], AtGate(m) \ {c}, held),
         Enter(c, w, g)
  PROVE  PermitInv'
<1>1. /\ c \notin Queued(w) /\ c \notin Posted(w)
      /\ \A v \in Worker : c \notin Queued(v) /\ c \notin Posted(v)
      /\ \A n \in Manager : c \notin Inside(n)
      /\ \A n \in Manager \ {m} : c \notin AtGate(n)
  BY DEF AtGate, Inside, Queued, Posted
<1>2. m \in Manager
  BY CapacityAssumption
<1>. USE DEF PermitInv
<1>3. CASE ~AssertAvailable(w)
  <2>1. /\ MoveTo(c, "idle", None) /\ UNCHANGED <<sems, active>>
        /\ gates' = [gates EXCEPT ![m] = IF c \in SyncCall THEN Release(g) ELSE g]
    BY <1>3 DEF Enter, LeaveGate, SetGate
  <2>2. Lands(c, "idle", None)
    BY <2>1, Moved DEF Places
  <2>3. CallInv'
    BY <2>2 DEF CallInv, Lands
  <2>4. /\ AtGate(m)' = AtGate(m) \ {c} /\ Inside(m)' = Inside(m)
        /\ \A n \in Manager \ {m} : AtGate(n)' = AtGate(n) /\ Inside(n)' = Inside(n)
    BY <1>1, <1>2, <2>2 DEF Lands, AtGateOf, InsideOf
  <2>5. GateInv'
    <3>1. CASE c \in SyncCall
      <4>1. Sound(Release(g), SyncActive[m], AtGate(m) \ {c}, (Inside(m) \cup {c}) \ {c})
        BY <3>1, ReleaseIsSound
      <4>2. (Inside(m) \cup {c}) \ {c} = Inside(m)
        BY <1>1, <1>2
      <4>3. gates' = [gates EXCEPT ![m] = Release(g)]
        BY <2>1, <3>1
      <4>. QED
        BY <1>2, <2>4, <4>1, <4>2, <4>3, OneGate
    <3>2. CASE c \notin SyncCall
      BY <1>2, <2>1, <2>4, <3>2, OneGate
    <3>. QED
      BY <3>1, <3>2
  <2>6. \A v \in Worker : Queued(v)' = Queued(v) /\ Posted(v)' = Posted(v)
    BY <1>1, <2>2 DEF Lands
  <2>. QED
    BY <2>1, <2>3, <2>5, <2>6, SameWorkers
<1>4. ASSUME gates' = [gates EXCEPT ![m] = g],
             NEW place \in {"queued", "posted"}, Lands(c, place, w)
      PROVE  CallInv' /\ GateInv'
  <2>1. CallInv'
    BY <1>4 DEF CallInv, Lands
  <2>2. AtGate(m)' = AtGate(m) \ {c}
    BY <1>2, <1>4 DEF Lands, AtGateOf, InsideOf
  <2>3. Inside(m)' = held
    BY <1>1, <1>2, <1>4 DEF Lands, AtGateOf, InsideOf
  <2>4. \A n \in Manager \ {m} : AtGate(n)' = AtGate(n) /\ Inside(n)' = Inside(n)
    BY <1>1, <1>4 DEF Lands, AtGateOf, InsideOf
  <2>. QED
    BY <1>2, <1>4, <2>1, <2>2, <2>3, <2>4, OneGate
<1>5. CASE AssertAvailable(w) /\ Locked(sems[w])
  <2>1. /\ MoveTo(c, "queued", w) /\ gates' = [gates EXCEPT ![m] = g]
        /\ active' = active
        /\ sems' = [sems EXCEPT ![w] = Enqueue(sems[w], c)]
    BY <1>5 DEF Enter, SetGate
  <2>2. Lands(c, "queued", w)
    BY <2>1, Moved DEF Places
  <2>3. /\ Queued(w)' = Queued(w) \cup {c} /\ Posted(w)' = Posted(w)
        /\ \A v \in Worker \ {w} :
             Queued(v)' = Queued(v) /\ Posted(v)' = Posted(v)
    BY <1>1, <2>2 DEF Lands
  <2>4. Sound(Enqueue(sems[w], c), MaxConcurrent[w], Queued(w)', Posted(w)')
    BY <1>1, <1>5, <2>3, EnqueueIsSound DEF SemsInv
  <2>5. active' = [active EXCEPT ![w] = active[w]]
        /\ active[w] \in Nat /\ active[w] = Cardinality(Posted(w)')
    BY <2>1, <2>3 DEF ActiveInv
  <2>. QED
    BY <1>4, <2>1, <2>2, <2>3, <2>4, <2>5, OneWorker
<1>6. CASE AssertAvailable(w) /\ ~Locked(sems[w])
  <2>1. /\ MoveTo(c, "posted", w) /\ gates' = [gates EXCEPT ![m] = g]
        /\ sems' = [sems EXCEPT ![w] = Take(sems[w])]
        /\ active' = [active EXCEPT ![w] = active[w] + 1]
    BY <1>6 DEF Enter, SetGate
  <2>2. Lands(c, "posted", w)
    BY <2>1, Moved DEF Places
  <2>3. /\ Queued(w)' = Queued(w) /\ Posted(w)' = Posted(w) \cup {c}
        /\ \A v \in Worker \ {w} :
             Queued(v)' = Queued(v) /\ Posted(v)' = Posted(v)
    BY <1>1, <2>2 DEF Lands
  <2>4. Sound(Take(sems[w]), MaxConcurrent[w], Queued(w)', Posted(w)')
    BY <1>1, <1>6, <2>3, TakeIsSound DEF SemsInv
  <2>5. active[w] + 1 \in Nat /\ active[w] + 1 = Cardinality(Posted(w)')
    BY <1>1, <2>3, CallAdded DEF ActiveInv
  <2>. QED
    BY <1>4, <2>1, <2>2, <2>3, <2>4, <2>5, OneWorker
<1>. QED
  BY <1>3, <1>5, <1>6 DEF Enter

-----------------------------------------------------------------------------
(* The steps of a call.                                                    *)

LEMMA AsyncCallKeeps ==
  ASSUME PermitInv, NEW c \in Call, NEW w \in Worker, AsyncCall(c, w)
  PROVE  PermitInv'
<1>. DEFINE m == Under[w]
<1>1. c \notin SyncCall /\ at[c] = "idle" /\ Enter(c, w, gates[m])
  BY DEF AsyncCall, Gate
<1>2. AtGate(m) \ {c} = AtGate(m) /\ m \in Manager
  BY <1>1, CapacityAssumption DEF AtGate
<1>3. /\ Sound(gates[m], SyncActive[m], AtGate(m) \ {c}, Inside(m))
      /\ Inside(m) = IF c \in SyncCall THEN Inside(m) \cup {c} ELSE Inside(m)
  BY <1>1, <1>2 DEF PermitInv, GateInv
<1>. QED
  BY <1>1, <1>3, EnterKeeps

LEMMA SyncRequestKeeps ==
  ASSUME PermitInv, NEW c \in Call, NEW w \in Worker, SyncRequest(c, w)
  PROVE  PermitInv'
<1>. DEFINE m == Under[w]
<1>1. c \in SyncCall /\ at[c] = "idle" /\ m \in Manager
  BY CapacityAssumption DEF SyncRequest
<1>2. /\ \A n : c \notin AtGate(n) /\ c \notin Inside(n)
      /\ AtGate(m) \ {c} = AtGate(m)
      /\ \A v \in Worker : c \notin Queued(v) /\ c \notin Posted(v)
  BY <1>1 DEF AtGate, Inside, Queued, Posted
<1>3. CASE Locked(gates[m])
  <2>1. /\ MoveTo(c, "gate", w)
        /\ gates' = [gates EXCEPT ![m] = Enqueue(gates[m], c)]
        /\ UNCHANGED <<sems, active>>
    BY <1>3 DEF SyncRequest, Gate, SetGate
  <2>2. Lands(c, "gate", w)
    BY <2>1, Moved DEF Places, PermitInv
  <2>3. CallInv'
    BY <1>1, <2>2 DEF CallInv, PermitInv, Lands
  <2>4. /\ AtGate(m)' = AtGate(m) \cup {c} /\ Inside(m)' = Inside(m)
        /\ \A n \in Manager \ {m} : AtGate(n)' = AtGate(n) /\ Inside(n)' = Inside(n)
    BY <1>1, <1>2, <2>2 DEF Lands, AtGateOf, InsideOf
  <2>5. Sound(Enqueue(gates[m], c), SyncActive[m], AtGate(m)', Inside(m)')
    BY <1>1, <1>2, <1>3, <2>4, EnqueueIsSound DEF GateInv, PermitInv
  <2>6. \A v \in Worker : Queued(v)' = Queued(v) /\ Posted(v)' = Posted(v)
    BY <1>2, <2>2 DEF Lands
  <2>7. GateInv'
    BY <1>1, <2>1, <2>4, <2>5, OneGate DEF PermitInv
  <2>. QED
    BY <2>1, <2>3, <2>6, <2>7, SameWorkers DEF PermitInv
<1>4. CASE ~Locked(gates[m])
  <2>1. Enter(c, w, Take(gates[m]))
    BY <1>4 DEF SyncRequest, Gate
  <2>2. Sound(Take(gates[m]), SyncActive[m], AtGate(m), Inside(m) \cup {c})
    BY <1>1, <1>2, <1>4, TakeIsSound DEF GateInv, PermitInv
  <2>. QED
    BY <1>1, <1>2, <2>1, <2>2, EnterKeeps
<1>. QED
  BY <1>3, <1>4

LEMMA PassGateKeeps ==
  ASSUME PermitInv, NEW c \in Call, PassGate(c)
  PROVE  PermitInv'
<1>. DEFINE m == Under[to[c]]
<1>1. /\ at[c] = "gate" /\ c \in gates[m].granted
      /\ Enter(c, to[c], Resume(gates[m], c))
  BY DEF PassGate, Gate
<1>2. c \in SyncCall /\ to[c] \in Worker /\ m \in Manager
  BY <1>1, CapacityAssumption DEF PermitInv, CallInv
<1>3. Sound(Resume(gates[m], c), SyncActive[m], AtGate(m) \ {c}, Inside(m) \cup {c})
  BY <1>1, <1>2, ResumeIsSound DEF PermitInv, GateInv
<1>. QED
  BY <1>1, <1>2, <1>3, EnterKeeps

LEMMA DequeueKeeps ==
  ASSUME PermitInv, NEW c \in Call, Dequeue(c)
  PROVE  PermitInv'
<1>0. PICK w \in Worker : w = to[c]
  BY DEF Dequeue, PermitInv, CallInv
<1>1. /\ at[c] = "queued" /\ c \in sems[w].granted
      /\ at' = [at EXCEPT ![c] = "posted"] /\ to' = to /\ gates' = gates
      /\ sems' = [sems EXCEPT ![w] = Resume(sems[w], c)]
      /\ active' = [active EXCEPT ![w] = active[w] + 1]
  BY <1>0 DEF Dequeue, PermitInv, CallInv
<1>2. MoveTo(c, "posted", w)
  BY <1>0, <1>1 DEF MoveTo, PermitInv, CallInv
<1>3. /\ c \in Queued(w)
      /\ \A v \in Worker : c \notin Posted(v)
      /\ \A v \in Worker \ {w} : c \notin Queued(v)
      /\ \A n : /\ c \notin AtGate(n)
                /\ c \in Inside(n) <=> c \in SyncCall /\ Under[w] = n
  BY <1>0, <1>1 DEF AtGate, Inside, Queued, Posted
<1>4. Lands(c, "posted", w)
  BY <1>2, Moved DEF Places, PermitInv
<1>5. /\ Queued(w)' = Queued(w) \ {c} /\ Posted(w)' = Posted(w) \cup {c}
      /\ \A v \in Worker \ {w} : Queued(v)' = Queued(v) /\ Posted(v)' = Posted(v)
  BY <1>3, <1>4 DEF Lands
<1>6. \A n \in Manager : AtGate(n)' = AtGate(n) /\ Inside(n)' = Inside(n)
  BY <1>3, <1>4 DEF Lands, AtGateOf, InsideOf
<1>7. CallInv' /\ GateInv'
  BY <1>1, <1>4, <1>6, SameGates DEF CallInv, PermitInv, Lands
<1>8. Sound(Resume(sems[w], c), MaxConcurrent[w], Queued(w)', Posted(w)')
  BY <1>1, <1>5, ResumeIsSound DEF SemsInv, PermitInv
<1>9. active[w] + 1 \in Nat /\ active[w] + 1 = Cardinality(Posted(w)')
  BY <1>3, <1>5, CallAdded DEF ActiveInv, PermitInv
<1>. QED
  BY <1>1, <1>5, <1>7, <1>8, <1>9, OneWorker DEF PermitInv

LEMMA ExitKeeps ==
  ASSUME PermitInv, NEW c \in Call, at[c] = "posted", Exit(c)
  PROVE  PermitInv'
<1>0. PICK w \in Worker : w = to[c]
  BY DEF PermitInv, CallInv
<1>. DEFINE m == Under[w]
<1>1. /\ MoveTo(c, "idle", None) /\ m \in Manager
      /\ gates' = [gates EXCEPT ![m] = IF c \in SyncCall THEN Release(gates[m])
                                                         ELSE gates[m]]
      /\ sems' = [sems EXCEPT ![w] = Release(sems[w])]
      /\ active' = [active EXCEPT ![w] = active[w] - 1]
  BY <1>0, CapacityAssumption
     DEF Exit, LeaveGate, SetGate, Gate, PermitInv, CallInv
<1>2. /\ c \in Posted(w)
      /\ \A v \in Worker : c \notin Queued(v)
      /\ \A v \in Worker \ {w} : c \notin Posted(v)
      /\ \A n : /\ c \notin AtGate(n)
                /\ c \in Inside(n) <=> c \in SyncCall /\ m = n
  BY <1>0 DEF AtGate, Inside, Queued, Posted
<1>3. Lands(c, "idle", None)
  BY <1>1, Moved DEF Places, PermitInv
<1>4. /\ Queued(w)' = Queued(w) /\ Posted(w)' = Posted(w) \ {c}
      /\ \A v \in Worker \ {w} : Queued(v)' = Queued(v) /\ Posted(v)' = Posted(v)
  BY <1>2, <1>3 DEF Lands
<1>5. CallInv'
  BY <1>3 DEF CallInv, PermitInv, Lands
<1>6. GateInv'
  <2>1. /\ AtGate(m)' = AtGate(m) /\ Inside(m)' = Inside(m) \ {c}
        /\ \A n \in Manager \ {m} : AtGate(n)' = AtGate(n) /\ Inside(n)' = Inside(n)
    BY <1>1, <1>2, <1>3 DEF Lands, AtGateOf, InsideOf
  <2>2. Sound(gates[m], SyncActive[m], AtGate(m), Inside(m))
    BY <1>1 DEF GateInv, PermitInv
  <2>3. CASE c \in SyncCall
    <3>1. Sound(Release(gates[m]), SyncActive[m], AtGate(m)', Inside(m)')
      BY <1>2, <2>1, <2>2, <2>3, ReleaseIsSound
    <3>2. gates' = [gates EXCEPT ![m] = Release(gates[m])]
      BY <1>1, <2>3
    <3>. QED
      BY <1>1, <2>1, <3>1, <3>2, OneGate DEF PermitInv
  <2>4. CASE c \notin SyncCall
    <3>1. Inside(m)' = Inside(m)
      BY <1>2, <2>1, <2>4
    <3>2. gates' = [gates EXCEPT ![m] = gates[m]]
      BY <1>1, <2>4
    <3>. QED
      BY <1>1, <2>1, <2>2, <3>1, <3>2, OneGate DEF PermitInv
  <2>. QED
    BY <2>3, <2>4
<1>7. Sound(Release(sems[w]), MaxConcurrent[w], Queued(w)', Posted(w)')
  BY <1>2, <1>4, ReleaseIsSound DEF SemsInv, PermitInv
<1>8. active[w] - 1 \in Nat /\ active[w] - 1 = Cardinality(Posted(w)')
  BY <1>2, <1>4, CallRemoved DEF ActiveInv, PermitInv
<1>. QED
  BY <1>1, <1>4, <1>5, <1>6, <1>7, <1>8, OneWorker DEF PermitInv

LEMMA CancelQueuedKeeps ==
  ASSUME PermitInv, NEW c \in Call, CancelQueued(c)
  PROVE  PermitInv'
<1>0. PICK w \in Worker : w = to[c]
  BY DEF CancelQueued, PermitInv, CallInv
<1>1. /\ c \notin SyncCall /\ at[c] = "queued"
      /\ MoveTo(c, "idle", None) /\ gates' = gates /\ active' = active
      /\ sems' = [sems EXCEPT ![w] = Abandon(sems[w], c)]
  BY <1>0 DEF CancelQueued, AbandonQueue, PermitInv, CallInv
<1>2. /\ c \in Queued(w)
      /\ \A v \in Worker : c \notin Posted(v)
      /\ \A v \in Worker \ {w} : c \notin Queued(v)
      /\ \A n : c \notin AtGate(n) /\ c \notin Inside(n)
  BY <1>0, <1>1 DEF AtGate, Inside, Queued, Posted
<1>3. Lands(c, "idle", None)
  BY <1>1, Moved DEF Places, PermitInv
<1>4. /\ Queued(w)' = Queued(w) \ {c} /\ Posted(w)' = Posted(w)
      /\ \A v \in Worker \ {w} : Queued(v)' = Queued(v) /\ Posted(v)' = Posted(v)
  BY <1>2, <1>3 DEF Lands
<1>5. \A n \in Manager : AtGate(n)' = AtGate(n) /\ Inside(n)' = Inside(n)
  BY <1>2, <1>3 DEF Lands, AtGateOf, InsideOf
<1>6. CallInv' /\ GateInv'
  BY <1>1, <1>3, <1>5, SameGates DEF CallInv, PermitInv, Lands
<1>7. Sound(Abandon(sems[w], c), MaxConcurrent[w], Queued(w)', Posted(w)')
  BY <1>2, <1>4, AbandonIsSound DEF SemsInv, PermitInv
<1>8. active' = [active EXCEPT ![w] = active[w]]
      /\ active[w] \in Nat /\ active[w] = Cardinality(Posted(w)')
  BY <1>1, <1>4 DEF ActiveInv, PermitInv
<1>. QED
  BY <1>1, <1>4, <1>6, <1>7, <1>8, OneWorker DEF PermitInv

LEMMA PermitInvariant == Spec => []PermitInv
<1>1. ASSUME PermitInv, [Next]_vars PROVE PermitInv'
  <2>1. CASE UNCHANGED <<at, to, gates, sems, active>>
    BY <1>1, <2>1
       DEF PermitInv, CallInv, GateInv, SemsInv, ActiveInv, AtGate, Inside,
           Queued, Posted
  <2>2. ASSUME NEW c \in Call, NEW w \in Worker, AsyncCall(c, w)
        PROVE  PermitInv'
    BY <1>1, <2>2, AsyncCallKeeps
  <2>3. ASSUME NEW c \in Call, NEW w \in Worker, SyncRequest(c, w)
        PROVE  PermitInv'
    BY <1>1, <2>3, SyncRequestKeeps
  <2>4. ASSUME NEW c \in Call, PassGate(c) PROVE PermitInv'
    BY <1>1, <2>4, PassGateKeeps
  <2>5. ASSUME NEW c \in Call, Dequeue(c) PROVE PermitInv'
    BY <1>1, <2>5, DequeueKeeps
  <2>6. ASSUME NEW c \in Call, NEW o \in {"ok", "error", "malformed"}, Return(c, o)
        PROVE  PermitInv'
    BY <1>1, <2>6, ExitKeeps DEF Return
  <2>7. ASSUME NEW c \in Call, CancelQueued(c) PROVE PermitInv'
    BY <1>1, <2>7, CancelQueuedKeeps
  <2>8. ASSUME NEW c \in Call, CancelPosted(c) PROVE PermitInv'
    BY <1>1, <2>8, ExitKeeps DEF CancelPosted
  <2>. QED
    BY <1>1, <2>1, <2>2, <2>3, <2>4, <2>5, <2>6, <2>7, <2>8
       DEF Next, Step, CoolDown, vars
<1>. QED
  BY <1>1, PermitInit, PTL DEF Spec

LEMMA PermitsFollow == PermitInv => PermitsConserved
BY DEF PermitInv, GateInv, SemsInv, PermitsConserved, Sound, Counted

LEMMA ActiveFollows == PermitInv => ActiveExact
<1>. SUFFICES ASSUME PermitInv, NEW w \in Worker
              PROVE  /\ active[w] = Cardinality(Posted(w))
                     /\ active[w] <= MaxConcurrent[w]
  BY DEF ActiveExact
<1>. DEFINE out == sems[w].granted \cup Posted(w)
<1>1. Counted(sems[w], MaxConcurrent[w], Queued(w), Posted(w))
  BY DEF PermitInv, SemsInv, Sound
<1>2. IsFiniteSet(out) /\ Cardinality(out) \in Nat
  BY <1>1, PermitsOut
<1>3. Cardinality(Posted(w)) <= Cardinality(out)
  BY <1>2, FS_Subset
<1>4. sems[w].value \in Nat /\ sems[w].value + Cardinality(out) = MaxConcurrent[w]
  BY <1>1 DEF Counted
<1>5. active[w] = Cardinality(Posted(w)) /\ Cardinality(Posted(w)) \in Nat
  BY PostedFinite DEF PermitInv, ActiveInv
<1>. HIDE DEF out
<1>. QED
  BY <1>2, <1>3, <1>4, <1>5

(* Every permit of the gate and of each worker is free, granted to a call  *)
(* that has not run yet, or held by one that has, on any way out of a call.*)
THEOREM NoPermitLost == Spec => []PermitsConserved
BY PermitInvariant, PermitsFollow, PTL

(* The counter of active calls is the number of POSTs that are out and     *)
(* never passes max_concurrent_tasks, however calls overlap and end.       *)
THEOREM ActiveIsExact == Spec => []ActiveExact
BY PermitInvariant, ActiveFollows, PTL

(* A permit never lies idle next to a call that waits for it, unless a     *)
(* coroutine that was granted one is about to run.                         *)
THEOREM NoWakeupLost == Spec => []NoLostWakeup
<1>1. PermitInv => NoLostWakeup
  BY DEF PermitInv, GateInv, SemsInv, NoLostWakeup, Sound, Awake
<1>. QED
  BY <1>1, PermitInvariant, PTL

OpenInv == open \subseteq Worker

LEMMA OpenAreWorkers == Spec => []OpenInv
<1>1. PermitInv /\ OpenInv /\ [Next]_vars => OpenInv'
  <2>. SUFFICES ASSUME PermitInv, OpenInv, [Next]_vars PROVE OpenInv'
    OBVIOUS
  <2>1. ASSUME NEW c \in Call, NEW o \in {"ok", "error", "malformed"}, Return(c, o)
        PROVE  open' \subseteq Worker
    <3>1. to[c] \in Worker
      BY <2>1 DEF Return, PermitInv, CallInv
    <3>. QED
      BY <2>1, <3>1
         DEF Return, Record, RecordSuccess, RecordFailure, RecordMalformed, OpenInv
  <2>. QED
    BY <2>1
       DEF Next, Step, AsyncCall, SyncRequest, PassGate, Dequeue, CancelQueued,
           CancelPosted, CoolDown, vars, OpenInv
<1>2. Init => OpenInv
  BY DEF Init, OpenInv
<1>. QED
  BY <1>1, <1>2, PermitInvariant, PTL DEF Spec

LEMMA SoundIsTyped ==
  ASSUME NEW sem, NEW capacity \in Nat, NEW waiting \in SUBSET Call, NEW holding,
         Sound(sem, capacity, waiting, holding)
  PROVE  sem \in SemaphoreType(capacity)
<1>1. /\ sem \in [value : Nat, waiters : Seq(waiting), granted : SUBSET waiting]
      /\ sem.value + Cardinality(sem.granted \cup holding) = capacity
      /\ Cardinality(sem.granted \cup holding) \in Nat
  BY PermitsOut DEF Sound, Counted
<1>2. sem.value \in 0 .. capacity
  BY <1>1
<1>3. sem.waiters \in Seq(Call)
  BY <1>1, SeqMonotonic
<1>4. sem.granted \in SUBSET Call
  BY <1>1
<1>. QED
  BY <1>1, <1>2, <1>3, <1>4 DEF SemaphoreType

(* Types; in particular no semaphore's value leaves 0 .. its capacity.     *)
THEOREM TypeCorrect == Spec => []TypeOK
<1>1. PermitInv /\ CountsStreak /\ OpenInv => TypeOK
  <2>. SUFFICES ASSUME PermitInv, CountsStreak, OpenInv
                PROVE  TypeOK
    OBVIOUS
  <2>1. ASSUME NEW m \in Manager PROVE gates[m] \in SemaphoreType(SyncActive[m])
    <3>1. AtGate(m) \in SUBSET Call /\ SyncActive[m] \in Nat
      BY CapacityAssumption DEF AtGate
    <3>. QED
      BY <3>1, SoundIsTyped DEF PermitInv, GateInv
  <2>2. ASSUME NEW w \in Worker PROVE sems[w] \in SemaphoreType(MaxConcurrent[w])
    <3>1. Queued(w) \in SUBSET Call /\ MaxConcurrent[w] \in Nat
      BY CapacityAssumption DEF Queued
    <3>. QED
      BY <3>1, SoundIsTyped DEF PermitInv, SemsInv
  <2>3. DOMAIN gates = Manager /\ DOMAIN sems = Worker /\ active \in [Worker -> Int]
    BY DEF PermitInv, GateInv, SemsInv, ActiveInv
  <2>. QED
    BY <2>1, <2>2, <2>3 DEF TypeOK, PermitInv, CallInv, CountsStreak, OpenInv
<1>. QED
  BY <1>1, PermitInvariant, CountingInvariant, OpenAreWorkers, PTL

=============================================================================
