-------------------------------- MODULE Health --------------------------------
(***************************************************************************)
(* The cache of health probes behind worker_list, /status and the answer   *)
(* of a reload (WorkerRegistry.list_public, _health_snapshot and           *)
(* _probe_worker, ai_bridge/workers.py).  A lister notes the time, waits   *)
(* for the lock, probes the workers whose entry is too old at the time it  *)
(* noted, all at once, writes their entries and answers from the cache.    *)
(*                                                                         *)
(* A lister suspends while it waits for the lock and while its probes are  *)
(* out.  The lock is an asyncio.Lock; without cancellations it hands       *)
(* itself on like a semaphore with one permit.                             *)
(***************************************************************************)
EXTENDS AsyncSemaphore

CONSTANTS
  Lister,    \* requests that list the workers
  WorkerSeq, \* the workers, in the order of the configuration
  Cache,     \* health_cache_seconds, in ticks of the clock
  None,      \* healthy is None: never probed
  MaxTime    \* bound: where the clock stops

ASSUME HealthAssumption ==
  /\ IsFiniteSet(Lister)
  /\ Cache \in Nat /\ MaxTime \in Nat \ {0}
  /\ None \notin BOOLEAN

Worker == {WorkerSeq[i] : i \in DOMAIN WorkerSeq}

VARIABLES
  clock,  \* external: time.time()
  at,     \* where each lister is
  asked,  \* the time it noted, 0 when there is no request
  lock,   \* registry._health_lock
  stale,  \* the workers the holder of the lock probes
  out,    \* those whose probe has been sent and not answered
  got,    \* what came back, in the order it came
  health, \* registry._health
  up,     \* external: of the workers being probed, those that would answer
  open,   \* of the workers being probed, those whose circuit is open
  seen,   \* external: what was true of a worker since its probing began
  ended   \* external: when each worker's last probe ended, 0 if never

vars == <<clock, at, asked, lock, stale, out, got, health, up, open, seen,
          ended>>

\* What is true of a worker, given those that are up and those that are open.
Facts(w, u, o) == {IF w \in u THEN "up" ELSE "down",
                   IF w \in o THEN "open" ELSE "closed"}

Init ==
  /\ clock = 1
  /\ at = [l \in Lister |-> "idle"]
  /\ asked = [l \in Lister |-> 0]
  /\ lock = NewSemaphore(1)
  /\ stale = {} /\ out = {} /\ got = <<>>
  /\ health = [w \in Worker |-> [healthy |-> None, checked |-> 0]]
  /\ up = {} /\ open = {}
  /\ seen = [w \in Worker |-> {}]
  /\ ended = [w \in Worker |-> 0]

-----------------------------------------------------------------------------
(* Listing.                                                                *)

Answered == {got[i].worker : i \in DOMAIN got}

\* Slip: an entry is only looked at for being there.
NeverProbed(w, now) == health[w].healthy = None

IsStale(w, now) ==
  health[w].healthy = None \/ now - health[w].checked > Cache

\* Slip: listers probe side by side.
NeverBlocked == FALSE

Blocked == Locked(lock)

(* Note the time and ask for the lock.  A lock that is free is taken in    *)
(* the same step; the cache, which only a holder of the lock changes, is   *)
(* looked at in the next (Look).                                           *)
Ask(l) ==
  /\ at[l] = "idle"
  /\ asked' = [asked EXCEPT ![l] = clock]
  /\ IF Blocked THEN /\ at' = [at EXCEPT ![l] = "waiting"]
                     /\ lock' = Enqueue(lock, l)
                ELSE /\ at' = [at EXCEPT ![l] = "holding"]
                     /\ lock' = Take(lock)
  /\ UNCHANGED <<clock, stale, out, got, health, up, open, seen, ended>>

\* The lister answers with what the cache holds now and leaves the lock.
Serve(l, held) ==
  /\ at' = [at EXCEPT ![l] = "idle"]
  /\ asked' = [asked EXCEPT ![l] = 0]
  /\ lock' = Release(held)

(* With the lock: answer from the cache, or start a probe of each stale    *)
(* worker.  Before that it does not matter how the workers do, so that is  *)
(* chosen here.                                                            *)
Look(l) ==
  /\ at[l] = "holding" \/ (at[l] = "waiting" /\ l \in lock.granted)
  /\ LET held == IF at[l] = "holding" THEN lock ELSE Resume(lock, l)
         old  == {w \in Worker : IsStale(w, asked[l])}
     IN IF old = {}
          THEN Serve(l, held) /\ UNCHANGED <<stale, up, open, seen>>
          ELSE /\ at' = [at EXCEPT ![l] = "probing"]
               /\ lock' = held
               /\ stale' = old
               /\ up' \in SUBSET old /\ open' \in SUBSET old
               /\ seen' = [w \in Worker |-> IF w \in old
                                             THEN Facts(w, up', open') ELSE {}]
               /\ UNCHANGED asked
  /\ UNCHANGED <<clock, out, got, health, ended>>

-----------------------------------------------------------------------------
(* The probes.                                                             *)

Result(w, ok) == got' = Append(got, [worker |-> w, ok |-> ok])

(* The circuit is asked first; an open one stands for a failed probe.      *)
SendProbe(w) ==
  /\ w \in stale \ (Answered \cup out)
  /\ IF w \in open THEN Result(w, FALSE) /\ UNCHANGED out
                   ELSE out' = out \cup {w} /\ UNCHANGED got
  /\ UNCHANGED <<clock, at, asked, lock, stale, health, up, open, seen,
                 ended>>

(* One of the probe URLs answered below 500, or none did: an error status, *)
(* no connection, a timeout.                                               *)
ProbeEnds(w) ==
  /\ w \in out
  /\ out' = out \ {w}
  /\ Result(w, w \in up)
  /\ UNCHANGED <<clock, at, asked, lock, stale, health, up, open, seen,
                 ended>>

\* Slip: results are paired with the workers in the order they came in.
ResultByArrival(w) ==
  \E j \in DOMAIN got : /\ SelectSeq(WorkerSeq, LAMBDA v : v \in stale)[j] = w
                       /\ got[j].ok

\* gather returns the results in the order of the workers it was given.
ResultOf(w) == \E j \in DOMAIN got : got[j].worker = w /\ got[j].ok

\* Slip: the entries carry the time that was noted before the wait.
CheckedWhenAsked(l) == asked[l]

CheckedAt(l) == clock

\* Slip: the lock is left without waking the next lister.
ServeSilently(l) ==
  /\ at' = [at EXCEPT ![l] = "idle"]
  /\ asked' = [asked EXCEPT ![l] = 0]
  /\ lock' = [lock EXCEPT !.value = 1]

ServeProbed(l) == Serve(l, lock)

(* All probes are back: write their entries, answer, leave the lock.       *)
Collect(l) ==
  /\ at[l] = "probing" /\ Answered = stale
  /\ health' = [w \in Worker |->
                  IF w \in stale
                    THEN [healthy |-> ResultOf(w), checked |-> CheckedAt(l)]
                    ELSE health[w]]
  /\ ended' = [w \in Worker |-> IF w \in stale THEN clock ELSE ended[w]]
  /\ seen' = [w \in Worker |-> {}]
  /\ ServeProbed(l)
  /\ stale' = {} /\ got' = <<>> /\ up' = {} /\ open' = {}
  /\ UNCHANGED <<clock, out>>

-----------------------------------------------------------------------------
(* The world around.                                                       *)

Tick ==
  /\ clock < MaxTime
  /\ clock' = clock + 1
  /\ UNCHANGED <<at, asked, lock, stale, out, got, health, up, open, seen,
                 ended>>

\* A worker comes or goes; calls (WorkerRegistry) open and close its circuit.
Change(w) ==
  /\ w \in stale
  /\ \/ /\ up' = IF w \in up THEN up \ {w} ELSE up \cup {w}
        /\ UNCHANGED open
     \/ /\ open' = IF w \in open THEN open \ {w} ELSE open \cup {w}
        /\ UNCHANGED up
  /\ seen' = [seen EXCEPT ![w] = @ \cup Facts(w, up', open')]
  /\ UNCHANGED <<clock, at, asked, lock, stale, out, got, health, ended>>

ListerStep(l) == Look(l) \/ Collect(l)

Next ==
  \/ \E l \in Lister : Ask(l) \/ ListerStep(l)
  \/ \E w \in Worker : SendProbe(w) \/ ProbeEnds(w) \/ Change(w)
  \/ Tick

Spec == Init /\ [][Next]_vars

(* The event loop runs what is ready, and httpx ends a probe by a timeout. *)
Fairness ==
  /\ \A l \in Lister : WF_vars(ListerStep(l))
  /\ \A w \in Worker : WF_vars(SendProbe(w)) /\ WF_vars(ProbeEnds(w))

FairSpec == Spec /\ Fairness

-----------------------------------------------------------------------------
(* Properties.                                                             *)

Time == 0 .. MaxTime
AllFacts == {"up", "down", "open", "closed"}

(* Type of the state; results and probes under way belong to the workers   *)
(* being probed, and there are some only while one lister probes.          *)
TypeOK ==
  /\ clock \in Time /\ asked \in [Lister -> Time] /\ ended \in [Worker -> Time]
  /\ at \in [Lister -> {"idle", "waiting", "holding", "probing"}]
  /\ lock.value \in 0 .. 1
  /\ health \in [Worker -> [healthy : BOOLEAN \cup {None}, checked : Time]]
  /\ up \cup open \subseteq stale
  /\ seen \in [Worker -> SUBSET AllFacts]
  /\ out \cap Answered = {} /\ out \cup Answered \subseteq stale
  /\ Cardinality({l \in Lister : at[l] \in {"holding", "probing"}}) <= 1
  /\ stale # {} <=> \E l \in Lister : at[l] = "probing"

Serves(l) == at[l] # "idle" /\ at'[l] = "idle"

(* However long a lister waited for the lock and whoever probed meanwhile, *)
(* every entry it answers with was checked at most health_cache_seconds    *)
(* before the request, and none is missing.                                *)
ServedFresh ==
  [][\A l \in Lister, w \in Worker : Serves(l) =>
        /\ health'[w].healthy # None
        /\ health'[w].checked >= asked[l] - Cache]_vars

(* An entry is about its own worker: "up" only if that worker was up, and  *)
(* its circuit closed, at some moment of the probe behind the entry, and   *)
(* "down" only if it was down or its circuit open.  Probes of several      *)
(* workers overlap and end in any order.                                   *)
Truthful ==
  [][\A l \in Lister, w \in stale : Serves(l) =>
        IF health'[w].healthy THEN {"up", "closed"} \subseteq seen[w]
                              ELSE seen[w] \cap {"down", "open"} # {}]_vars

(* Requests that pile up behind one probe share it: a worker is probed     *)
(* again only when more than health_cache_seconds have passed since its    *)
(* last probe ended.                                                       *)
ProbesShared ==
  [][\A w \in Worker : w \in stale' \ stale =>
        ended[w] = 0 \/ clock - ended[w] > Cache]_vars

(* Every listing ends, also behind others that probe.                      *)
ListsEnd == \A l \in Lister : at[l] # "idle" ~> at[l] = "idle"

=============================================================================
