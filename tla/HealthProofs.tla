----------------------------- MODULE HealthProofs -----------------------------
(***************************************************************************)
(* The cache of health probes, for any number of listers and workers, any  *)
(* cache time and any order in which probes end.                           *)
(***************************************************************************)
EXTENDS Health, AsyncSemaphoreProofs

Waiting == {l \in Lister : at[l] = "waiting"}
Holding == {l \in Lister : at[l] \in {"holding", "probing"}}

ListerInv ==
  /\ clock \in Time /\ clock > 0
  /\ at \in [Lister -> {"idle", "waiting", "holding", "probing"}]
  /\ asked \in [Lister -> Time]
  /\ \A l \in Lister : asked[l] <= clock

LockInv == Sound(lock, 1, Waiting, Holding)

\* Workers are probed while a lister probes, and results are theirs.
ProbeInv ==
  /\ stale \subseteq Worker
  /\ stale # {} <=> \E l \in Lister : at[l] = "probing"
  /\ up \subseteq stale /\ open \subseteq stale
  /\ out \subseteq stale
  /\ got \in Seq([worker : stale, ok : BOOLEAN])
  /\ out \cap Answered = {}

\* What was seen bears out what the probes say.
SeenInv ==
  /\ seen \in [Worker -> SUBSET AllFacts]
  /\ \A w \in stale : Facts(w, up, open) \subseteq seen[w]
  /\ \A w \in out : "closed" \in seen[w]
  /\ \A j \in 1 .. Len(got) :
       IF got[j].ok THEN {"up", "closed"} \subseteq seen[got[j].worker]
                    ELSE seen[got[j].worker] \cap {"down", "open"} # {}

\* An entry carries the time at which the last probe of its worker ended.
EntryInv ==
  /\ health \in [Worker -> [healthy : BOOLEAN \cup {None}, checked : Time]]
  /\ ended \in [Worker -> Time]
  /\ \A w \in Worker : /\ health[w].checked = ended[w] /\ ended[w] <= clock
                       /\ health[w].healthy = None => ended[w] = 0

\* While a lister probes, it need not probe the other workers.
FreshInv ==
  \A l \in Lister : at[l] = "probing" =>
    \A w \in Worker \ stale : ~IsStale(w, asked[l])

HealthInv ==
  ListerInv /\ LockInv /\ ProbeInv /\ SeenInv /\ EntryInv /\ FreshInv

LEMMA HealthInit == Init => HealthInv
<1>. SUFFICES ASSUME Init PROVE HealthInv
  OBVIOUS
<1>1. ListerInv
  BY HealthAssumption DEF Init, ListerInv, Time
<1>2. LockInv
  <2>1. Waiting = {} /\ Holding = {} /\ lock = NewSemaphore(1)
    BY DEF Init, Waiting, Holding
  <2>. QED
    BY <2>1, NewIsSound DEF LockInv
<1>3. ProbeInv
  <2>1. got = <<>> /\ Answered = {} /\ stale = {} /\ up = {} /\ open = {} /\ out = {}
    BY DEF Init, Answered
  <2>2. got \in Seq([worker : stale, ok : BOOLEAN])
    BY <2>1, EmptySeq
  <2>3. \A l \in Lister : at[l] # "probing"
    BY DEF Init
  <2>. QED
    BY <2>1, <2>2, <2>3 DEF ProbeInv
<1>4. SeenInv /\ EntryInv /\ FreshInv
  BY HealthAssumption DEF Init, SeenInv, EntryInv, FreshInv, Time
<1>. QED
  BY <1>1, <1>2, <1>3, <1>4 DEF HealthInv

-----------------------------------------------------------------------------
(* The lock.                                                               *)

\* A lister that has the lock, or was granted it, is the only one.
LEMMA OnlyOne ==
  ASSUME LockInv, NEW k \in Lister, NEW l \in Lister, k # l, k \in Holding
  PROVE  l \notin Holding /\ l \notin lock.granted
<1>. DEFINE has == lock.granted \cup Holding
<1>1. /\ IsFiniteSet(has) /\ Cardinality(has) \in Nat
      /\ lock.value + Cardinality(has) = 1 /\ lock.value \in Nat
  BY PermitsOut DEF LockInv, Sound, Counted
<1>. SUFFICES ASSUME l \in has PROVE FALSE
  OBVIOUS
<1>2. {k, l} \subseteq has /\ Cardinality({k, l}) = 2
  <2>1. Cardinality({k, l}) = 2
    <3>1. /\ IsFiniteSet({k}) /\ Cardinality({k}) = 1
      BY FS_Singleton
    <3>2. Cardinality({k} \cup {l}) = 1 + 1
      BY <3>1, FS_AddElement
    <3>3. {k, l} = {k} \cup {l}
      OBVIOUS
    <3>. QED
      BY <3>2, <3>3
  <2>. QED
    BY <2>1
<1>3. Cardinality({k, l}) <= Cardinality(has)
  BY <1>1, <1>2, FS_Subset
<1>. HIDE DEF has
<1>. QED
  BY <1>1, <1>2, <1>3

\* Nobody probes, or holds the lock, when a lister gets it.
LEMMA GrantedIsAlone ==
  ASSUME LockInv, NEW l \in Lister,
         at[l] = "holding" \/ (at[l] = "waiting" /\ l \in lock.granted)
  PROVE  \A k \in Lister : at[k] # "probing"
<1>. SUFFICES ASSUME NEW k \in Lister, at[k] = "probing" PROVE FALSE
  OBVIOUS
<1>1. k # l /\ k \in Holding /\ (at[l] = "holding" => l \in Holding)
  BY DEF Holding
<1>. QED
  BY <1>1, OnlyOne

LEMMA ProberIsAlone ==
  ASSUME LockInv, NEW l \in Lister, at[l] = "probing", NEW k \in Lister, k # l
  PROVE  at[k] \notin {"holding", "probing"} /\ k \notin lock.granted
<1>1. l \in Holding
  BY DEF Holding
<1>2. k \notin Holding /\ k \notin lock.granted
  BY <1>1, OnlyOne
<1>. QED
  BY <1>2 DEF Holding

-----------------------------------------------------------------------------
(* The steps of a lister.                                                  *)

LEMMA AskKeeps ==
  ASSUME HealthInv, NEW l \in Lister, Ask(l)
  PROVE  HealthInv'
<1>. USE DEF HealthInv
<1>1. /\ at[l] = "idle" /\ asked' = [asked EXCEPT ![l] = clock]
      /\ at' = [at EXCEPT ![l] = IF Blocked THEN "waiting" ELSE "holding"]
      /\ lock' = IF Blocked THEN Enqueue(lock, l) ELSE Take(lock)
      /\ UNCHANGED <<clock, stale, out, got, health, up, open, seen, ended>>
  BY DEF Ask
<1>2. \A k \in Lister : at'[k] = IF k # l THEN at[k]
                                 ELSE IF Blocked THEN "waiting" ELSE "holding"
  BY <1>1 DEF ListerInv
<1>3. ListerInv'
  BY <1>1 DEF ListerInv, Time
<1>4. LockInv'
  <2>1. l \notin Waiting /\ l \notin Holding
    BY <1>1 DEF Waiting, Holding
  <2>2. CASE Blocked
    <3>1. Waiting' = Waiting \cup {l} /\ Holding' = Holding
      BY <1>1, <1>2, <2>2 DEF Waiting, Holding
    <3>. QED
      BY <1>1, <2>1, <2>2, <3>1, EnqueueIsSound DEF LockInv, Blocked
  <2>3. CASE ~Blocked
    <3>1. Waiting' = Waiting /\ Holding' = Holding \cup {l}
      BY <1>1, <1>2, <2>3 DEF Waiting, Holding
    <3>. QED
      BY <1>1, <2>1, <2>3, <3>1, TakeIsSound DEF LockInv, Blocked
  <2>. QED
    BY <2>2, <2>3
<1>5. \A k \in Lister : at'[k] = "probing" <=> at[k] = "probing"
  BY <1>1, <1>2
<1>6. ProbeInv' /\ SeenInv' /\ EntryInv'
  BY <1>1, <1>5 DEF ProbeInv, SeenInv, EntryInv, Answered, Facts
<1>7. FreshInv'
  BY <1>1, <1>5 DEF FreshInv, IsStale, ListerInv
<1>. QED
  BY <1>3, <1>4, <1>6, <1>7

\* What is left when the lister l serves with the lock in state held.
LEMMA ServeMoves ==
  ASSUME ListerInv, NEW l \in Lister, at[l] # "idle", NEW held, NEW waiting,
         NEW holding, l \in holding, Sound(held, 1, waiting, holding),
         waiting = Waiting \ {l}, holding \ {l} = Holding \ {l},
         Serve(l, held), clock' = clock
  PROVE  /\ ListerInv' /\ LockInv'
         /\ \A k \in Lister : at'[k] = IF k = l THEN "idle" ELSE at[k]
<1>1. /\ at' = [at EXCEPT ![l] = "idle"] /\ asked' = [asked EXCEPT ![l] = 0]
      /\ lock' = Release(held)
  BY DEF Serve
<1>2. \A k \in Lister : at'[k] = IF k = l THEN "idle" ELSE at[k]
  BY <1>1 DEF ListerInv
<1>3. ListerInv'
  <2>1. 0 \in Time /\ clock \in Time /\ 0 <= clock
    BY HealthAssumption DEF ListerInv, Time
  <2>2. asked' \in [Lister -> Time] /\ \A k \in Lister : asked'[k] <= clock
    BY <1>1, <2>1 DEF ListerInv
  <2>3. at' \in [Lister -> {"idle", "waiting", "holding", "probing"}]
    BY <1>1 DEF ListerInv
  <2>. QED
    BY <2>2, <2>3 DEF ListerInv
<1>4. Waiting' = waiting /\ Holding' = holding \ {l}
  BY <1>2 DEF Waiting, Holding
<1>5. LockInv'
  BY <1>1, <1>4, ReleaseIsSound DEF LockInv
<1>. QED
  BY <1>2, <1>3, <1>5

\* The lister looks at the cache with the lock in state held.
LEMMA LookHolds ==
  ASSUME HealthInv, NEW l \in Lister, Look(l)
  PROVE  \E held, waiting, holding :
           /\ held = IF at[l] = "holding" THEN lock ELSE Resume(lock, l)
           /\ waiting = Waiting \ {l} /\ holding = Holding \cup {l}
           /\ Sound(held, 1, waiting, holding)
<1>1. CASE at[l] = "holding"
  <2>1. Waiting \ {l} = Waiting /\ Holding \cup {l} = Holding
    BY <1>1 DEF Waiting, Holding
  <2>. QED
    BY <1>1, <2>1 DEF HealthInv, LockInv
<1>2. CASE at[l] # "holding"
  BY <1>2, ResumeIsSound DEF Look, HealthInv, LockInv
<1>. QED
  BY <1>1, <1>2

LEMMA LookServes ==
  ASSUME HealthInv, NEW l \in Lister, Look(l),
         \A w \in Worker : ~IsStale(w, asked[l])
  PROVE  HealthInv'
<1>. USE DEF HealthInv
<1>1. PICK held, waiting, holding :
        /\ held = IF at[l] = "holding" THEN lock ELSE Resume(lock, l)
        /\ waiting = Waiting \ {l} /\ holding = Holding \cup {l}
        /\ Sound(held, 1, waiting, holding)
  BY LookHolds
<1>2. /\ at[l] # "idle" /\ at[l] # "probing" /\ Serve(l, held)
      /\ UNCHANGED <<clock, stale, out, got, health, up, open, seen, ended>>
  BY <1>1 DEF Look
<1>3. /\ ListerInv' /\ LockInv'
      /\ \A k \in Lister : at'[k] = IF k = l THEN "idle" ELSE at[k]
  <2>1. l \in holding /\ holding \ {l} = Holding \ {l}
    BY <1>1
  <2>. QED
    BY <1>1, <1>2, <2>1, ServeMoves
<1>4. \A k \in Lister : at'[k] = "probing" <=> at[k] = "probing"
  BY <1>2, <1>3
<1>5. ProbeInv' /\ SeenInv' /\ EntryInv'
  BY <1>2, <1>4 DEF ProbeInv, SeenInv, EntryInv, Answered, Facts
<1>6. FreshInv'
  <2>1. \A k \in Lister \ {l} : asked'[k] = asked[k]
    BY <1>2 DEF Serve, ListerInv
  <2>. QED
    BY <1>2, <1>3, <2>1 DEF FreshInv, IsStale
<1>. QED
  BY <1>3, <1>5, <1>6

LEMMA LookProbes ==
  ASSUME HealthInv, NEW l \in Lister, Look(l),
         ~ \A w \in Worker : ~IsStale(w, asked[l])
  PROVE  /\ HealthInv'
         /\ stale' = {w \in Worker : IsStale(w, asked[l])}
         /\ \A k \in Lister : at[k] # "idle" => at'[k] # "idle"
<1>. USE DEF HealthInv
<1>1. PICK held, waiting, holding :
        /\ held = IF at[l] = "holding" THEN lock ELSE Resume(lock, l)
        /\ waiting = Waiting \ {l} /\ holding = Holding \cup {l}
        /\ Sound(held, 1, waiting, holding)
  BY LookHolds
<1>2. PICK old : old = {w \in Worker : IsStale(w, asked[l])}
  OBVIOUS
<1>3. /\ old # {} /\ at' = [at EXCEPT ![l] = "probing"] /\ lock' = held
      /\ stale' = old /\ up' \in SUBSET old /\ open' \in SUBSET old
      /\ seen' = [w \in Worker |-> IF w \in old THEN Facts(w, up', open') ELSE {}]
      /\ UNCHANGED <<asked, clock, out, got, health, ended>>
  BY <1>1, <1>2 DEF Look
<1>4. /\ at[l] = "holding" \/ (at[l] = "waiting" /\ l \in lock.granted)
      /\ \A k \in Lister : at'[k] = IF k = l THEN "probing" ELSE at[k]
  BY <1>3 DEF Look, ListerInv
<1>5. stale = {} /\ out = {} /\ Answered = {} /\ got = <<>>
  <2>1. stale = {} /\ out = {}
    BY <1>4, GrantedIsAlone DEF ProbeInv
  <2>2. \A j \in 1 .. Len(got) : got[j].worker \in {}
    BY <2>1, ElementOfSeq DEF ProbeInv
  <2>3. Len(got) \in Nat /\ got \in Seq([worker : stale, ok : BOOLEAN])
    BY LenProperties DEF ProbeInv
  <2>4. Len(got) = 0
    BY <2>2, <2>3
  <2>5. got = <<>>
    BY <2>3, <2>4, EmptySeq
  <2>. QED
    BY <2>1, <2>5 DEF Answered
<1>6. ListerInv'
  BY <1>3, <1>4 DEF ListerInv
<1>7. LockInv'
  <2>1. Waiting' = waiting /\ Holding' = holding
    BY <1>1, <1>4 DEF Waiting, Holding
  <2>. QED
    BY <1>1, <1>3, <2>1 DEF LockInv
<1>8. ProbeInv'
  <2>1. got' = <<>> /\ Answered' = {} /\ out' = {}
    BY <1>3, <1>5 DEF Answered
  <2>2. got' \in Seq([worker : stale', ok : BOOLEAN])
    BY <2>1, EmptySeq
  <2>3. \E k \in Lister : at'[k] = "probing"
    BY <1>4
  <2>. QED
    BY <1>2, <1>3, <2>1, <2>2, <2>3 DEF ProbeInv
<1>9. SeenInv'
  <2>1. \A w : Facts(w, up', open') \subseteq AllFacts
    BY DEF Facts, AllFacts
  <2>2. seen' \in [Worker -> SUBSET AllFacts]
    BY <1>3, <2>1
  <2>3. \A w \in stale' : Facts(w, up', open') \subseteq seen'[w]
    BY <1>2, <1>3
  <2>4. out' = {} /\ Len(got') = 0
    BY <1>3, <1>5
  <2>. QED
    BY <2>2, <2>3, <2>4 DEF SeenInv, Facts
<1>10. EntryInv'
  BY <1>3 DEF EntryInv
<1>11. FreshInv'
  <2>1. \A k \in Lister : at'[k] = "probing" => k = l
    BY <1>4, GrantedIsAlone
  <2>. QED
    BY <1>2, <1>3, <2>1 DEF FreshInv, IsStale
<1>. QED
  BY <1>2, <1>3, <1>4, <1>6, <1>7, <1>8, <1>9, <1>10, <1>11

LEMMA ResultIsTrue ==
  ASSUME HealthInv, NEW w \in stale, Answered = stale
  PROVE  IF ResultOf(w) THEN {"up", "closed"} \subseteq seen[w]
                        ELSE seen[w] \cap {"down", "open"} # {}
<1>1. Len(got) \in Nat /\ DOMAIN got = 1 .. Len(got)
  BY LenProperties DEF HealthInv, ProbeInv
<1>2. CASE ResultOf(w)
  BY <1>1, <1>2 DEF ResultOf, HealthInv, SeenInv
<1>3. CASE ~ResultOf(w)
  <2>1. PICK j \in 1 .. Len(got) : got[j].worker = w
    BY <1>1 DEF Answered
  <2>2. ~got[j].ok
    BY <1>1, <1>3, <2>1 DEF ResultOf
  <2>. QED
    BY <1>3, <2>1, <2>2 DEF HealthInv, SeenInv
<1>. QED
  BY <1>2, <1>3

LEMMA CollectKeeps ==
  ASSUME HealthInv, NEW l \in Lister, Collect(l)
  PROVE  HealthInv'
<1>. USE DEF HealthInv
<1>1. /\ at[l] = "probing" /\ Answered = stale /\ Serve(l, lock)
      /\ health' = [w \in Worker |->
                      IF w \in stale
                        THEN [healthy |-> ResultOf(w), checked |-> clock]
                        ELSE health[w]]
      /\ ended' = [w \in Worker |-> IF w \in stale THEN clock ELSE ended[w]]
      /\ seen' = [w \in Worker |-> {}]
      /\ stale' = {} /\ got' = <<>> /\ up' = {} /\ open' = {}
      /\ UNCHANGED <<clock, out>>
  BY DEF Collect, ServeProbed, CheckedAt
<1>2. /\ ListerInv' /\ LockInv'
      /\ \A k \in Lister : at'[k] = IF k = l THEN "idle" ELSE at[k]
  <2>1. l \in Holding /\ Waiting = Waiting \ {l}
    BY <1>1 DEF Holding, Waiting
  <2>. QED
    BY <1>1, <2>1, ServeMoves DEF LockInv
<1>3. \A k \in Lister : at'[k] # "probing"
  BY <1>1, <1>2, ProberIsAlone
<1>4. out' = {}
  BY <1>1 DEF ProbeInv
<1>5. ProbeInv'
  <2>1. got' \in Seq([worker : stale', ok : BOOLEAN])
    BY <1>1, EmptySeq
  <2>. QED
    BY <1>1, <1>3, <1>4, <2>1 DEF ProbeInv
<1>6. SeenInv'
  <2>1. Len(got') = 0
    BY <1>1
  <2>. QED
    BY <1>1, <1>4, <2>1 DEF SeenInv
<1>7. EntryInv'
  <2>1. \A w \in Worker : ResultOf(w) \in BOOLEAN
    BY DEF ResultOf
  <2>2. health' \in [Worker -> [healthy : BOOLEAN \cup {None}, checked : Time]]
    BY <1>1, <2>1 DEF EntryInv, ListerInv
  <2>3. ended' \in [Worker -> Time]
    BY <1>1 DEF EntryInv, ListerInv
  <2>4. ASSUME NEW w \in Worker
        PROVE  /\ health'[w].checked = ended'[w] /\ ended'[w] <= clock
               /\ health'[w].healthy = None => ended'[w] = 0
    <3>1. CASE w \in stale
      <4>1. ResultOf(w) # None
        BY <2>1, HealthAssumption
      <4>. QED
        BY <1>1, <3>1, <4>1 DEF ListerInv, Time
    <3>2. CASE w \notin stale
      BY <1>1, <3>2 DEF EntryInv
    <3>. QED
      BY <3>1, <3>2
  <2>. QED
    BY <1>1, <2>2, <2>3, <2>4 DEF EntryInv
<1>8. FreshInv'
  BY <1>3 DEF FreshInv
<1>. QED
  BY <1>2, <1>5, <1>6, <1>7, <1>8

-----------------------------------------------------------------------------
(* The steps of the probes and of the world.                               *)

\* A result that is true is added to what came back.
LEMMA ResultKeeps ==
  ASSUME HealthInv, NEW w \in stale, NEW ok \in BOOLEAN, Result(w, ok),
         w \notin out', out' \subseteq out, w \notin Answered,
         IF ok THEN {"up", "closed"} \subseteq seen[w]
               ELSE seen[w] \cap {"down", "open"} # {},
         UNCHANGED <<clock, at, asked, lock, stale, health, up, open, seen,
                     ended>>
  PROVE  HealthInv'
<1>. USE DEF HealthInv
<1>. DEFINE n == Len(got)
<1>1. got \in Seq([worker : stale, ok : BOOLEAN]) /\ n \in Nat
      /\ DOMAIN got = 1 .. n
  BY LenProperties DEF ProbeInv
<1>2. /\ got' \in Seq([worker : stale, ok : BOOLEAN]) /\ Len(got') = n + 1
      /\ \A j \in 1 .. n : got'[j] = got[j]
      /\ got'[n + 1] = [worker |-> w, ok |-> ok]
      /\ DOMAIN got' = 1 .. n + 1
  <2>1. [worker |-> w, ok |-> ok] \in [worker : stale, ok : BOOLEAN]
    OBVIOUS
  <2>2. got' = Append(got, [worker |-> w, ok |-> ok])
    BY DEF Result
  <2>. QED
    BY <1>1, <2>1, <2>2, AppendProperties, LenProperties
<1>3. \A j \in 1 .. n + 1 : j \in 1 .. n \/ j = n + 1
  BY <1>1
<1>4. Answered' \subseteq Answered \cup {w}
  BY <1>1, <1>2, <1>3 DEF Answered
<1>5. ProbeInv'
  BY <1>2, <1>4 DEF ProbeInv
<1>6. SeenInv'
  <2>1. ASSUME NEW j \in 1 .. n + 1
        PROVE  IF got'[j].ok THEN {"up", "closed"} \subseteq seen[got'[j].worker]
                             ELSE seen[got'[j].worker] \cap {"down", "open"} # {}
    <3>1. CASE j \in 1 .. n
      BY <1>2, <3>1 DEF SeenInv
    <3>2. CASE j = n + 1
      <4>1. got'[j].worker = w /\ got'[j].ok = ok
        BY <1>2, <3>2
      <4>. QED
        BY <4>1
    <3>. QED
      BY <1>3, <3>1, <3>2
  <2>2. \A v \in stale : Facts(v, up, open)' = Facts(v, up, open)
    BY DEF Facts
  <2>. QED
    BY <1>2, <2>1, <2>2 DEF SeenInv
<1>7. ListerInv' /\ LockInv' /\ EntryInv' /\ FreshInv'
  BY DEF ListerInv, LockInv, Waiting, Holding, EntryInv, FreshInv, IsStale
<1>. QED
  BY <1>5, <1>6, <1>7

LEMMA SendProbeKeeps ==
  ASSUME HealthInv, NEW w \in Worker, SendProbe(w)
  PROVE  HealthInv'
<1>1. w \in stale /\ w \notin Answered /\ w \notin out
  BY DEF SendProbe
<1>2. Facts(w, up, open) \subseteq seen[w]
  BY <1>1 DEF HealthInv, SeenInv
<1>3. CASE w \in open
  <2>1. Result(w, FALSE) /\ out' = out
    BY <1>3 DEF SendProbe
  <2>2. "open" \in seen[w]
    BY <1>2, <1>3 DEF Facts
  <2>. QED
    BY <1>1, <2>1, <2>2, ResultKeeps DEF SendProbe
<1>4. CASE w \notin open
  <2>1. /\ out' = out \cup {w}
        /\ UNCHANGED <<clock, at, asked, lock, stale, health, up, open, seen,
                       ended, got>>
    BY <1>4 DEF SendProbe
  <2>2. "closed" \in seen[w]
    BY <1>2, <1>4 DEF Facts
  <2>3. ProbeInv' /\ SeenInv'
    BY <1>1, <2>1, <2>2 DEF HealthInv, ProbeInv, SeenInv, Answered, Facts
  <2>4. ListerInv' /\ LockInv' /\ EntryInv' /\ FreshInv'
    BY <2>1 DEF HealthInv, ListerInv, LockInv, Waiting, Holding, EntryInv,
                FreshInv, IsStale
  <2>. QED
    BY <2>3, <2>4 DEF HealthInv
<1>. QED
  BY <1>3, <1>4

LEMMA ProbeEndsKeeps ==
  ASSUME HealthInv, NEW w \in Worker, ProbeEnds(w)
  PROVE  HealthInv'
<1>1. w \in out /\ out' = out \ {w} /\ Result(w, w \in up)
  BY DEF ProbeEnds
<1>2. w \in stale /\ w \notin Answered
  BY <1>1 DEF HealthInv, ProbeInv
<1>3. "closed" \in seen[w] /\ Facts(w, up, open) \subseteq seen[w]
  BY <1>1, <1>2 DEF HealthInv, SeenInv
<1>4. IF w \in up THEN {"up", "closed"} \subseteq seen[w]
                  ELSE seen[w] \cap {"down", "open"} # {}
  BY <1>3 DEF Facts
<1>5. UNCHANGED <<clock, at, asked, lock, stale, health, up, open, seen, ended>>
  BY DEF ProbeEnds
<1>6. CASE w \in up
  <2>1. Result(w, TRUE)
    BY <1>1, <1>6
  <2>. QED
    BY <1>1, <1>2, <1>4, <1>5, <1>6, <2>1, ResultKeeps
<1>7. CASE w \notin up
  <2>1. (w \in up) = FALSE
    BY <1>7
  <2>2. Result(w, FALSE)
    BY <1>1, <2>1
  <2>. QED
    BY <1>1, <1>2, <1>4, <1>5, <1>7, <2>2, ResultKeeps
<1>. QED
  BY <1>6, <1>7

LEMMA TickKeeps ==
  ASSUME HealthInv, Tick
  PROVE  HealthInv'
<1>1. /\ clock < MaxTime /\ clock' = clock + 1
      /\ UNCHANGED <<at, asked, lock, stale, out, got, health, up, open, seen,
                     ended>>
  BY DEF Tick
<1>. USE DEF HealthInv
<1>2. ListerInv'
  BY <1>1, HealthAssumption DEF ListerInv, Time
<1>3. EntryInv'
  BY <1>1, HealthAssumption DEF ListerInv, EntryInv, Time
<1>4. LockInv' /\ ProbeInv' /\ SeenInv' /\ FreshInv'
  BY <1>1 DEF LockInv, Waiting, Holding, ProbeInv, SeenInv, FreshInv, IsStale,
              Answered, Facts
<1>. QED
  BY <1>2, <1>3, <1>4

LEMMA ChangeKeeps ==
  ASSUME HealthInv, NEW w \in Worker, Change(w)
  PROVE  HealthInv'
<1>. USE DEF HealthInv
<1>1. /\ w \in stale
      /\ up' \subseteq stale /\ open' \subseteq stale
      /\ \A v \in stale \ {w} : /\ v \in up' <=> v \in up
                                /\ v \in open' <=> v \in open
      /\ seen' = [seen EXCEPT ![w] = seen[w] \cup Facts(w, up', open')]
      /\ UNCHANGED <<clock, at, asked, lock, stale, out, got, health, ended>>
  BY DEF Change, ProbeInv
<1>2. /\ seen \in [Worker -> SUBSET AllFacts]
      /\ Facts(w, up', open') \subseteq AllFacts
  BY DEF SeenInv, Facts, AllFacts
<1>3. /\ seen' \in [Worker -> SUBSET AllFacts]
      /\ \A v \in Worker : seen[v] \subseteq seen'[v]
      /\ Facts(w, up', open') \subseteq seen'[w]
  BY <1>1, <1>2
<1>4. SeenInv'
  <2>1. \A v \in stale : Facts(v, up', open') \subseteq seen'[v]
    <3>1. \A v \in stale \ {w} : Facts(v, up', open') = Facts(v, up, open)
      BY <1>1 DEF Facts
    <3>. QED
      BY <1>3, <3>1 DEF SeenInv, ProbeInv
  <2>2. \A v \in out : "closed" \in seen'[v]
    BY <1>3 DEF SeenInv, ProbeInv
  <2>3. ASSUME NEW j \in 1 .. Len(got)
        PROVE  IF got[j].ok THEN {"up", "closed"} \subseteq seen'[got[j].worker]
                            ELSE seen'[got[j].worker] \cap {"down", "open"} # {}
    <3>1. got[j].worker \in Worker
      <4>1. got[j] \in [worker : stale, ok : BOOLEAN] /\ stale \subseteq Worker
        BY ElementOfSeq DEF ProbeInv
      <4>. QED
        BY <4>1
    <3>2. seen[got[j].worker] \subseteq seen'[got[j].worker]
      BY <1>3, <3>1
    <3>. QED
      BY <3>2 DEF SeenInv
  <2>. QED
    BY <1>1, <1>3, <2>1, <2>2, <2>3 DEF SeenInv, Facts
<1>5. ProbeInv'
  BY <1>1 DEF ProbeInv, Answered
<1>6. ListerInv' /\ LockInv' /\ EntryInv' /\ FreshInv'
  BY <1>1 DEF ListerInv, LockInv, Waiting, Holding, EntryInv, FreshInv, IsStale
<1>. QED
  BY <1>4, <1>5, <1>6

-----------------------------------------------------------------------------
(* Theorems.                                                               *)

LEMMA HealthInvariant == Spec => []HealthInv
<1>1. ASSUME HealthInv, [Next]_vars PROVE HealthInv'
  <2>1. CASE UNCHANGED vars
    BY <1>1, <2>1
       DEF vars, HealthInv, ListerInv, LockInv, Waiting, Holding, ProbeInv,
           Answered, SeenInv, Facts, EntryInv, FreshInv, IsStale
  <2>2. ASSUME NEW l \in Lister, Ask(l) PROVE HealthInv'
    BY <1>1, <2>2, AskKeeps
  <2>3. ASSUME NEW l \in Lister, Look(l) PROVE HealthInv'
    BY <1>1, <2>3, LookServes, LookProbes
  <2>4. ASSUME NEW l \in Lister, Collect(l) PROVE HealthInv'
    BY <1>1, <2>4, CollectKeeps
  <2>5. ASSUME NEW w \in Worker, SendProbe(w) PROVE HealthInv'
    BY <1>1, <2>5, SendProbeKeeps
  <2>6. ASSUME NEW w \in Worker, ProbeEnds(w) PROVE HealthInv'
    BY <1>1, <2>6, ProbeEndsKeeps
  <2>7. ASSUME NEW w \in Worker, Change(w) PROVE HealthInv'
    BY <1>1, <2>7, ChangeKeeps
  <2>. QED
    BY <1>1, <2>1, <2>2, <2>3, <2>4, <2>5, <2>6, <2>7, TickKeeps
       DEF Next, ListerStep
<1>. QED
  BY <1>1, HealthInit, PTL DEF Spec

\* Only a lister that looks at a fresh cache or collects its probes serves.
LEMMA WhoServes ==
  ASSUME HealthInv, [Next]_vars, NEW l \in Lister, Serves(l)
  PROVE  \/ /\ \A w \in Worker : ~IsStale(w, asked[l])
            /\ health' = health
            /\ stale = {}
         \/ Collect(l)
<1>1. at \in [Lister -> {"idle", "waiting", "holding", "probing"}]
      /\ at[l] # "idle" /\ at'[l] = "idle"
  BY DEF HealthInv, ListerInv, Serves
<1>2. ASSUME NEW k \in Lister, Ask(k) PROVE FALSE
  <2>1. at[k] = "idle" /\ at'[l] = at[l]
    BY <1>1, <1>2 DEF Ask
  <2>. QED
    BY <1>1, <2>1
<1>3. ASSUME NEW k \in Lister, Look(k)
      PROVE  /\ \A w \in Worker : ~IsStale(w, asked[l])
             /\ health' = health
             /\ stale = {}
  <2>1. \A w \in Worker : ~IsStale(w, asked[k])
    BY <1>1, <1>3, LookProbes
  <2>2. k = l
    BY <1>1, <1>3, <2>1 DEF Look, Serve
  <2>3. stale = {}
    <3>1. at[k] = "holding" \/ (at[k] = "waiting" /\ k \in lock.granted)
      BY <1>3 DEF Look
    <3>. QED
      BY <3>1, GrantedIsAlone DEF HealthInv, ProbeInv
  <2>. QED
    BY <1>3, <2>1, <2>2, <2>3 DEF Look
<1>4. ASSUME NEW k \in Lister, Collect(k) PROVE k = l
  BY <1>1, <1>4 DEF Collect, ServeProbed, Serve
<1>5. at' # at
  BY <1>1
<1>. QED
  BY <1>2, <1>3, <1>4, <1>5
     DEF Next, ListerStep, SendProbe, ProbeEnds, Change, Tick, vars

(* Types; at most one lister has the lock, and probes are out only for the *)
(* one that probes.                                                        *)
THEOREM TypeCorrect == Spec => []TypeOK
<1>1. HealthInv => TypeOK
  <2>. SUFFICES ASSUME HealthInv PROVE TypeOK
    OBVIOUS
  <2>. USE DEF HealthInv
  <2>1. /\ IsFiniteSet(lock.granted \cup Holding)
        /\ Cardinality(lock.granted \cup Holding) \in Nat
        /\ lock.value \in Nat
        /\ lock.value + Cardinality(lock.granted \cup Holding) = 1
    BY PermitsOut DEF LockInv, Sound, Counted
  <2>2. lock.value \in 0 .. 1
    BY <2>1
  <2>3. Cardinality({l \in Lister : at[l] \in {"holding", "probing"}}) <= 1
    <3>1. /\ IsFiniteSet(Holding) /\ Cardinality(Holding) \in Nat
          /\ Cardinality(Holding) <= Cardinality(lock.granted \cup Holding)
      BY <2>1, FS_Subset, FS_CardinalityType
    <3>2. Cardinality(Holding) <= 1
      BY <2>1, <3>1
    <3>. QED
      BY <3>2 DEF Holding
  <2>4. Answered \subseteq stale
    <3>1. DOMAIN got = 1 .. Len(got)
      BY LenProperties DEF ProbeInv
    <3>2. ASSUME NEW i \in DOMAIN got PROVE got[i].worker \in stale
      <4>1. got[i] \in [worker : stale, ok : BOOLEAN]
        BY <3>1, ElementOfSeq DEF ProbeInv
      <4>. QED
        BY <4>1
    <3>. QED
      BY <3>2 DEF Answered
  <2>. QED
    BY <2>2, <2>3, <2>4
       DEF TypeOK, ListerInv, ProbeInv, SeenInv, EntryInv
<1>. QED
  BY <1>1, HealthInvariant, PTL

(* Every entry a lister answers with was checked at most                   *)
(* health_cache_seconds before its request, however long it waited and     *)
(* whoever probed meanwhile.                                               *)
THEOREM ListingsAreFresh == Spec => ServedFresh
<1>1. ASSUME HealthInv, [Next]_vars, NEW l \in Lister, NEW w \in Worker, Serves(l)
      PROVE  /\ health'[w].healthy # None
             /\ health'[w].checked >= asked[l] - Cache
  <2>. USE <1>1, HealthAssumption DEF HealthInv
  <2>1. /\ asked[l] \in Nat /\ clock \in Nat /\ asked[l] <= clock
        /\ health[w].checked \in Nat
    BY DEF ListerInv, EntryInv, Time
  <2>2. ~IsStale(w, asked[l]) => /\ health[w].healthy # None
                                 /\ health[w].checked >= asked[l] - Cache
    BY <2>1 DEF IsStale
  <2>3. CASE Collect(l)
    <3>1. /\ at[l] = "probing"
          /\ health'[w] = IF w \in stale
                            THEN [healthy |-> ResultOf(w), checked |-> clock]
                            ELSE health[w]
      BY <2>3 DEF Collect, CheckedAt
    <3>2. CASE w \in stale
      <4>1. ResultOf(w) # None
        BY DEF ResultOf
      <4>2. health'[w].healthy = ResultOf(w) /\ health'[w].checked = clock
        BY <3>1, <3>2
      <4>. QED
        BY <2>1, <4>1, <4>2
    <3>3. CASE w \notin stale
      BY <2>2, <3>1, <3>3 DEF FreshInv
    <3>. QED
      BY <3>2, <3>3
  <2>. QED
    BY <2>2, <2>3, WhoServes
<1>2. HealthInv /\ [Next]_vars =>
        [\A l \in Lister, w \in Worker : Serves(l) =>
           /\ health'[w].healthy # None
           /\ health'[w].checked >= asked[l] - Cache]_vars
  BY <1>1
<1>. QED
  BY <1>2, HealthInvariant, PTL DEF Spec, ServedFresh

(* An entry that was just probed says of its own worker what was true of   *)
(* it at some moment of the probe, in whatever order probes end.           *)
THEOREM EntriesAreTrue == Spec => Truthful
<1>1. ASSUME HealthInv, [Next]_vars, NEW l \in Lister, NEW w \in stale, Serves(l)
      PROVE  IF health'[w].healthy THEN {"up", "closed"} \subseteq seen[w]
                                   ELSE seen[w] \cap {"down", "open"} # {}
  <2>1. Collect(l)
    BY <1>1, WhoServes
  <2>2. w \in Worker
    BY <1>1 DEF HealthInv, ProbeInv
  <2>3. health'[w].healthy = ResultOf(w) /\ Answered = stale
    BY <2>1, <2>2 DEF Collect
  <2>. QED
    BY <1>1, <2>3, ResultIsTrue
<1>2. HealthInv /\ [Next]_vars =>
        [\A l \in Lister, w \in stale : Serves(l) =>
           IF health'[w].healthy THEN {"up", "closed"} \subseteq seen[w]
                                 ELSE seen[w] \cap {"down", "open"} # {}]_vars
  BY <1>1
<1>. QED
  BY <1>2, HealthInvariant, PTL DEF Spec, Truthful

(* A worker is probed again only when more than health_cache_seconds have  *)
(* passed since its last probe ended, however many listers ask.            *)
THEOREM ProbesAreShared == Spec => ProbesShared
<1>1. ASSUME HealthInv, [Next]_vars, NEW w \in Worker, w \in stale' \ stale
      PROVE  ended[w] = 0 \/ clock - ended[w] > Cache
  <2>1. PICK l \in Lister : Look(l) \/ Collect(l)
    BY <1>1 DEF Next, ListerStep, Ask, SendProbe, ProbeEnds, Change, Tick, vars
  <2>2. Look(l)
    BY <1>1, <2>1 DEF Collect
  <2>3. stale' = {v \in Worker : IsStale(v, asked[l])}
    <3>1. CASE \A v \in Worker : ~IsStale(v, asked[l])
      BY <1>1, <2>2, <3>1 DEF Look
    <3>. QED
      BY <1>1, <2>2, <3>1, LookProbes
  <2>4. IsStale(w, asked[l])
    BY <1>1, <2>3
  <2>. QED
    BY <1>1, <2>4, HealthAssumption
       DEF IsStale, HealthInv, ListerInv, EntryInv, Time
<1>2. HealthInv /\ [Next]_vars =>
        [\A w \in Worker : w \in stale' \ stale =>
           ended[w] = 0 \/ clock - ended[w] > Cache]_vars
  BY <1>1
<1>. QED
  BY <1>2, HealthInvariant, PTL DEF Spec, ProbesShared

=============================================================================
