------------------------- MODULE AsyncSemaphoreProofs -------------------------
(***************************************************************************)
(* What the operations of a semaphore keep, for any capacity and any       *)
(* number of waiters.  waiting is the set of coroutines that have called   *)
(* acquire() and not yet run on, holding the set of those that have a      *)
(* permit and have run on.                                                 *)
(***************************************************************************)
EXTENDS AsyncSemaphore, FiniteSetTheorems, SequenceTheorems, TLAPS

(* Every waiter is in the deque once, and every permit is free, granted or *)
(* held.                                                                   *)
Counted(sem, capacity, waiting, holding) ==
  /\ IsFiniteSet(waiting) /\ IsFiniteSet(holding)
  /\ waiting \cap holding = {}
  /\ sem \in [value : Nat, waiters : Seq(waiting), granted : SUBSET waiting]
  /\ \A i, j \in 1 .. Len(sem.waiters) :
       sem.waiters[i] = sem.waiters[j] => i = j
  /\ \A c \in waiting : c \in sem.granted <=>
       \A i \in 1 .. Len(sem.waiters) : sem.waiters[i] # c
  /\ sem.value + Cardinality(sem.granted \cup holding) = capacity

\* A free permit next to a waiter is about to be handed out.
Awake(sem) == sem.value > 0 /\ sem.waiters # <<>> => sem.granted # {}

Sound(sem, capacity, waiting, holding) ==
  Counted(sem, capacity, waiting, holding) /\ Awake(sem)

LEMMA NewIsSound ==
  ASSUME NEW n \in Nat
  PROVE  Sound(NewSemaphore(n), n, {}, {})
<1>1. <<>> \in Seq({}) /\ Len(<<>>) = 0
  BY EmptySeq
<1>2. Cardinality({} \cup {}) = 0 /\ IsFiniteSet({})
  BY FS_EmptySet
<1>. QED
  BY <1>1, <1>2 DEF Sound, Counted, Awake, NewSemaphore

-----------------------------------------------------------------------------
(* Waking.                                                                 *)

LEMMA CountFirst ==
  ASSUME NEW S, IsFiniteSet(S), NEW T, NEW seq \in Seq(T),
         NEW k \in 0 .. Len(seq),
         \A i, j \in 1 .. Len(seq) : seq[i] = seq[j] => i = j,
         \A i \in 1 .. Len(seq) : seq[i] \notin S
  PROVE  Cardinality(S \cup {seq[i] : i \in 1 .. k}) = Cardinality(S) + k
<1>. DEFINE first == {seq[i] : i \in 1 .. k}
            f == [i \in 1 .. k |-> seq[i]]
<1>1. Len(seq) \in Nat /\ 1 .. k \subseteq 1 .. Len(seq)
  BY LenProperties
<1>2. f \in Bijection(1 .. k, first)
  <2>1. f \in [1 .. k -> first] /\ \A x, y \in 1 .. k : f[x] = f[y] => x = y
    BY <1>1
  <2>2. \A t \in first : \E x \in 1 .. k : f[x] = t
    OBVIOUS
  <2>. QED
    BY <2>1, <2>2 DEF Bijection, Injection, Surjection, IsInjective
<1>3. IsFiniteSet(1 .. k) /\ Cardinality(1 .. k) = k
  BY <1>1, FS_Interval
<1>4. IsFiniteSet(first) /\ Cardinality(first) = k
  BY <1>2, <1>3, FS_Bijection DEF ExistsBijection
<1>5. S \cap first = {}
  BY <1>1
<1>6. Cardinality(S \cup first)
        = Cardinality(S) + Cardinality(first) - Cardinality(S \cap first)
  BY <1>4, FS_Union
<1>7. Cardinality(S \cap first) = 0 /\ Cardinality(S) \in Nat
  BY <1>5, FS_EmptySet, FS_CardinalityType
<1>. QED
  BY <1>4, <1>6, <1>7

LEMMA WakeCounts ==
  ASSUME NEW sem, NEW capacity, NEW waiting, NEW holding,
         Counted(sem, capacity, waiting, holding),
         NEW k \in 0 .. Len(sem.waiters), k <= sem.value
  PROVE  /\ Counted(Wake(sem, k), capacity, waiting, holding)
         /\ Wake(sem, k).value = sem.value - k
         /\ Len(Wake(sem, k).waiters) = Len(sem.waiters) - k
         /\ sem.granted \subseteq Wake(sem, k).granted
         /\ k > 0 => Wake(sem, k).granted # {}
<1>. DEFINE w == sem.waiters  n == Len(w)  new == Wake(sem, k)
<1>1. /\ w \in Seq(waiting) /\ n \in Nat /\ sem.value \in Nat
      /\ \A i \in 1 .. n : w[i] \in waiting
  BY ElementOfSeq, LenProperties DEF Counted
<1>2. /\ new.value = sem.value - k
      /\ new.granted = sem.granted \cup {w[i] : i \in 1 .. k}
      /\ new.waiters = SubSeq(w, k + 1, n)
  BY DEF Wake
<1>3. /\ new.waiters \in Seq(waiting)
      /\ Len(new.waiters) = n - k
      /\ \A i \in 1 .. n - k : new.waiters[i] = w[i + k]
  <2>1. \A i \in k + 1 .. n : w[i] \in waiting
    BY <1>1
  <2>2. /\ SubSeq(w, k + 1, n) \in Seq(waiting)
        /\ Len(SubSeq(w, k + 1, n)) = IF k + 1 <= n THEN n - (k + 1) + 1 ELSE 0
        /\ \A i \in 1 .. n - (k + 1) + 1 :
             SubSeq(w, k + 1, n)[i] = w[(k + 1) + i - 1]
    BY <1>1, <2>1, SubSeqProperties
  <2>3. n - (k + 1) + 1 = n - k /\ \A i \in Int : (k + 1) + i - 1 = i + k
    BY <1>1
  <2>. QED
    BY <1>1, <1>2, <2>2, <2>3
<1>4. new \in [value : Nat, waiters : Seq(waiting), granted : SUBSET waiting]
  <2>1. {w[i] : i \in 1 .. k} \subseteq waiting
    BY <1>1
  <2>2. sem.granted \subseteq waiting /\ sem.value - k \in Nat
    BY <1>1 DEF Counted
  <2>. QED
    BY <1>2, <1>3, <2>1, <2>2 DEF Wake
<1>5. \A i, j \in 1 .. n - k : new.waiters[i] = new.waiters[j] => i = j
  BY <1>1, <1>3 DEF Counted
<1>6. ASSUME NEW c \in waiting
      PROVE  c \in new.granted <=> \A i \in 1 .. n - k : new.waiters[i] # c
  <2>1. CASE c \in sem.granted
    BY <1>1, <1>2, <1>3, <2>1 DEF Counted
  <2>2. CASE c \notin sem.granted
    <3>1. PICK p \in 1 .. n : w[p] = c
      BY <2>2 DEF Counted
    <3>2. \A i \in 1 .. n : w[i] = c => i = p
      BY <3>1 DEF Counted
    <3>3. c \in new.granted <=> p <= k
      <4>1. c \in new.granted <=> \E i \in 1 .. k : w[i] = c
        BY <1>2, <2>2
      <4>2. \A i \in 1 .. k : i \in 1 .. n
        BY <1>1
      <4>. QED
        BY <1>1, <3>1, <3>2, <4>1, <4>2
    <3>4. p > k => new.waiters[p - k] = c /\ p - k \in 1 .. n - k
      BY <1>1, <1>3, <3>1
    <3>5. p <= k => \A i \in 1 .. n - k : new.waiters[i] # c
      <4>. SUFFICES ASSUME p <= k, NEW i \in 1 .. n - k, new.waiters[i] = c
                    PROVE  FALSE
        OBVIOUS
      <4>1. i + k \in 1 .. n /\ i + k > p
        BY <1>1, <3>1
      <4>2. w[i + k] = c
        BY <1>3
      <4>. QED
        BY <1>1, <3>1, <3>2, <4>1, <4>2
    <3>. QED
      BY <1>1, <3>3, <3>4, <3>5
  <2>. QED
    BY <2>1, <2>2
<1>7. Cardinality(new.granted \cup holding)
        = Cardinality(sem.granted \cup holding) + k
  <2>. DEFINE S == sem.granted \cup holding
  <2>1. IsFiniteSet(S) /\ Cardinality(S) \in Nat
    BY FS_Subset, FS_Union, FS_CardinalityType DEF Counted
  <2>2. \A i \in 1 .. n : w[i] \notin S
    BY <1>1 DEF Counted
  <2>3. Cardinality(S \cup {w[i] : i \in 1 .. k}) = Cardinality(S) + k
    <3>1. \A i, j \in 1 .. n : w[i] = w[j] => i = j
      BY DEF Counted
    <3>2. w \in Seq(waiting) /\ k \in 0 .. n
      BY <1>1
    <3>. HIDE DEF S, w, n
    <3>. QED
      BY <2>1, <2>2, <3>1, <3>2, CountFirst DEF n
  <2>4. new.granted \cup holding = S \cup {w[i] : i \in 1 .. k}
    BY <1>2
  <2>. QED
    BY <2>3, <2>4
<1>8. Cardinality(sem.granted \cup holding) \in Nat
  BY FS_Subset, FS_Union, FS_CardinalityType DEF Counted
<1>9. Counted(new, capacity, waiting, holding)
  <2>1. new.value + Cardinality(new.granted \cup holding) = capacity
    BY <1>1, <1>2, <1>7, <1>8 DEF Counted
  <2>2. /\ IsFiniteSet(waiting) /\ IsFiniteSet(holding)
        /\ waiting \cap holding = {}
    BY DEF Counted
  <2>. HIDE DEF new
  <2>. QED
    BY <1>3, <1>4, <1>5, <1>6, <2>1, <2>2 DEF Counted
<1>10. k > 0 => w[1] \in new.granted
  BY <1>1, <1>2
<1>. QED
  BY <1>2, <1>3, <1>9, <1>10

LEMMA WakeAllIsSound ==
  ASSUME NEW sem, NEW capacity, NEW waiting, NEW holding,
         Counted(sem, capacity, waiting, holding)
  PROVE  Sound(WakeAll(sem), capacity, waiting, holding)
<1>. DEFINE n == Len(sem.waiters)
            k == IF sem.value < n THEN sem.value ELSE n
<1>1. n \in Nat /\ sem.value \in Nat
  BY LenProperties DEF Counted
<1>2. k \in 0 .. n /\ k <= sem.value
  BY <1>1
<1>3. WakeAll(sem) = Wake(sem, k)
  BY DEF WakeAll
<1>4. /\ Counted(Wake(sem, k), capacity, waiting, holding)
      /\ Wake(sem, k).value = sem.value - k
      /\ Len(Wake(sem, k).waiters) = n - k
  <2>. HIDE DEF k
  <2>. QED
    BY <1>2, WakeCounts
<1>5. Wake(sem, k).value > 0 => Len(Wake(sem, k).waiters) = 0
  BY <1>1, <1>4
<1>6. Len(Wake(sem, k).waiters) = 0 => Wake(sem, k).waiters = <<>>
  BY <1>4, EmptySeq DEF Counted
<1>. QED
  BY <1>3, <1>4, <1>5, <1>6 DEF Sound, Awake

-----------------------------------------------------------------------------
(* The operations.                                                         *)

LEMMA PermitsOut ==
  ASSUME NEW sem, NEW capacity, NEW waiting, NEW holding,
         Counted(sem, capacity, waiting, holding)
  PROVE  /\ IsFiniteSet(sem.granted \cup holding)
         /\ Cardinality(sem.granted \cup holding) \in Nat
         /\ sem.granted \subseteq waiting
BY FS_Subset, FS_Union, FS_CardinalityType DEF Counted

LEMMA TakeIsSound ==
  ASSUME NEW sem, NEW capacity, NEW waiting, NEW holding, NEW c,
         Sound(sem, capacity, waiting, holding), ~Locked(sem),
         c \notin waiting, c \notin holding
  PROVE  Sound(Take(sem), capacity, waiting, holding \cup {c})
<1>1. /\ sem.value \in Nat /\ sem.value # 0 /\ sem.waiters = <<>>
      /\ Take(sem) = [sem EXCEPT !.value = sem.value - 1]
  BY DEF Sound, Counted, Locked, Take
<1>2. Cardinality(sem.granted \cup (holding \cup {c}))
        = Cardinality(sem.granted \cup holding) + 1
  <2>1. c \notin sem.granted \cup holding
    BY PermitsOut DEF Sound
  <2>2. Cardinality((sem.granted \cup holding) \cup {c})
          = Cardinality(sem.granted \cup holding) + 1
    BY <2>1, PermitsOut, FS_AddElement DEF Sound
  <2>3. (sem.granted \cup holding) \cup {c} = sem.granted \cup (holding \cup {c})
    OBVIOUS
  <2>. QED
    BY <2>2, <2>3
<1>3. IsFiniteSet(holding \cup {c})
  BY FS_AddElement DEF Sound, Counted
<1>. QED
  BY <1>1, <1>2, <1>3, PermitsOut DEF Sound, Counted, Awake

LEMMA EnqueueIsSound ==
  ASSUME NEW sem, NEW capacity, NEW waiting, NEW holding, NEW c,
         Sound(sem, capacity, waiting, holding), Locked(sem),
         c \notin waiting, c \notin holding
  PROVE  Sound(Enqueue(sem, c), capacity, waiting \cup {c}, holding)
<1>. DEFINE w == sem.waiters  n == Len(w)  v == Append(w, c)  more == waiting \cup {c}
<1>1. w \in Seq(waiting) /\ n \in Nat /\ \A i \in 1 .. n : w[i] \in waiting
  BY ElementOfSeq, LenProperties DEF Sound, Counted
<1>2. w \in Seq(more)
  BY <1>1, SeqMonotonic
<1>3. /\ v \in Seq(more) /\ Len(v) = n + 1
      /\ \A i \in 1 .. n : v[i] = w[i]
      /\ v[n + 1] = c
  BY <1>2, AppendProperties
<1>4. \A i \in 1 .. n + 1 : i \in 1 .. n \/ i = n + 1
  BY <1>1
<1>5. \A i, j \in 1 .. n + 1 : v[i] = v[j] => i = j
  BY <1>1, <1>3, <1>4 DEF Sound, Counted
<1>6. ASSUME NEW d \in more
      PROVE  d \in sem.granted <=> \A i \in 1 .. n + 1 : v[i] # d
  <2>1. CASE d = c
    <3>1. c \notin sem.granted
      BY PermitsOut DEF Sound
    <3>2. n + 1 \in 1 .. n + 1 /\ v[n + 1] = d
      BY <1>1, <1>3, <2>1
    <3>. QED
      BY <2>1, <3>1, <3>2
  <2>2. CASE d # c
    <3>1. d \in waiting
      BY <2>2
    <3>2. (\A i \in 1 .. n + 1 : v[i] # d) <=> \A i \in 1 .. n : w[i] # d
      BY <1>1, <1>3, <1>4, <2>2
    <3>. QED
      BY <3>1, <3>2 DEF Sound, Counted
  <2>. QED
    BY <2>1, <2>2
<1>7. Enqueue(sem, c) = [sem EXCEPT !.waiters = v]
  BY DEF Enqueue
<1>8. IsFiniteSet(more) /\ more \cap holding = {}
  BY FS_AddElement DEF Sound, Counted
<1>9. Enqueue(sem, c).granted = sem.granted /\ Enqueue(sem, c).value = sem.value
      /\ Enqueue(sem, c).waiters = v
      /\ Enqueue(sem, c) \in [value : Nat, waiters : Seq(more), granted : SUBSET more]
  BY <1>3, <1>7 DEF Sound, Counted
<1>10. Awake(Enqueue(sem, c))
  BY <1>9 DEF Sound, Counted, Awake, Locked
<1>11. sem.value + Cardinality(sem.granted \cup holding) = capacity
       /\ IsFiniteSet(holding)
  BY DEF Sound, Counted
<1>. DEFINE new == Enqueue(sem, c)
<1>. HIDE DEF v, more, new
<1>12. Counted(new, capacity, more, holding)
  BY <1>3, <1>5, <1>6, <1>8, <1>9, <1>11 DEF Counted, new
<1>. QED
  BY <1>10, <1>12 DEF Sound, new, more

LEMMA ReleaseIsSound ==
  ASSUME NEW sem, NEW capacity, NEW waiting, NEW holding, NEW c \in holding,
         Sound(sem, capacity, waiting, holding)
  PROVE  Sound(Release(sem), capacity, waiting, holding \ {c})
<1>. DEFINE freed == [sem EXCEPT !.value = sem.value + 1]
            held == holding \ {c}
<1>1. /\ sem.value \in Nat /\ sem.waiters \in Seq(waiting)
      /\ freed.value = sem.value + 1
      /\ freed.waiters = sem.waiters /\ freed.granted = sem.granted
      /\ freed \in [value : Nat, waiters : Seq(waiting), granted : SUBSET waiting]
  BY DEF Sound, Counted
<1>2. Cardinality(sem.granted \cup held)
        = Cardinality(sem.granted \cup holding) - 1
  <2>1. /\ c \in sem.granted \cup holding
        /\ (sem.granted \cup holding) \ {c} = sem.granted \cup held
    BY DEF Sound, Counted
  <2>2. Cardinality((sem.granted \cup holding) \ {c})
          = Cardinality(sem.granted \cup holding) - 1
    BY <2>1, PermitsOut, FS_RemoveElement DEF Sound
  <2>. QED
    BY <2>1, <2>2
<1>3. Counted(freed, capacity, waiting, held)
  <2>1. IsFiniteSet(held) /\ waiting \cap held = {}
    BY FS_RemoveElement DEF Sound, Counted
  <2>2. freed.value + Cardinality(freed.granted \cup held) = capacity
    <3>1. sem.value + Cardinality(sem.granted \cup holding) = capacity
          /\ Cardinality(sem.granted \cup holding) \in Nat
      BY PermitsOut DEF Sound, Counted
    <3>. QED
      BY <1>1, <1>2, <3>1
  <2>. HIDE DEF freed, held
  <2>. QED
    BY <1>1, <2>1, <2>2 DEF Sound, Counted
<1>4. CASE sem.waiters = <<>>
  <2>1. Release(sem) = freed
    BY <1>4 DEF Release
  <2>. QED
    BY <1>1, <1>3, <1>4, <2>1 DEF Sound, Awake
<1>5. CASE sem.waiters # <<>>
  <2>1. Release(sem) = Wake(freed, 1)
    BY <1>5 DEF Release
  <2>2. 1 \in 0 .. Len(freed.waiters) /\ 1 <= freed.value
    BY <1>1, <1>5, EmptySeq
  <2>3. Counted(Wake(freed, 1), capacity, waiting, held)
        /\ Wake(freed, 1).granted # {}
    <3>. HIDE DEF freed, held
    <3>. QED
      BY <1>3, <2>2, WakeCounts
  <2>. QED
    BY <2>1, <2>3 DEF Sound, Awake
<1>. QED
  BY <1>4, <1>5

LEMMA ResumeIsSound ==
  ASSUME NEW sem, NEW capacity, NEW waiting, NEW holding, NEW c \in sem.granted,
         Sound(sem, capacity, waiting, holding)
  PROVE  Sound(Resume(sem, c), capacity, waiting \ {c}, holding \cup {c})
<1>. DEFINE rest == [sem EXCEPT !.granted = sem.granted \ {c}]
            fewer == waiting \ {c}  held == holding \cup {c}
<1>1. /\ sem.value \in Nat /\ sem.waiters \in Seq(waiting)
      /\ rest.value = sem.value /\ rest.waiters = sem.waiters
      /\ rest.granted = sem.granted \ {c}
  BY DEF Sound, Counted
<1>2. \A i \in 1 .. Len(sem.waiters) : sem.waiters[i] \in fewer
  BY ElementOfSeq DEF Sound, Counted
<1>3. sem.waiters \in Seq(fewer)
  <2>1. SubSeq(sem.waiters, 1, Len(sem.waiters)) \in Seq(fewer)
    BY <1>1, <1>2, LenProperties, SubSeqProperties
  <2>. QED
    BY <1>1, <2>1, SubSeqFull
<1>4. rest \in [value : Nat, waiters : Seq(fewer), granted : SUBSET fewer]
  BY <1>3 DEF Sound, Counted
<1>5. \A d \in fewer : d \in rest.granted <=>
        \A i \in 1 .. Len(sem.waiters) : sem.waiters[i] # d
  BY <1>1 DEF Sound, Counted
<1>6. rest.granted \cup held = sem.granted \cup holding
  BY <1>1
<1>7. IsFiniteSet(fewer) /\ IsFiniteSet(held) /\ fewer \cap held = {}
  BY FS_AddElement, FS_RemoveElement DEF Sound, Counted
<1>8. Counted(rest, capacity, fewer, held)
  <2>. HIDE DEF rest, fewer, held
  <2>. QED
    BY <1>1, <1>4, <1>5, <1>6, <1>7 DEF Sound, Counted
<1>9. Resume(sem, c) = WakeAll(rest)
  BY DEF Resume
<1>. QED
  BY <1>8, <1>9, WakeAllIsSound

\* A deque holds no waiter twice; x is somewhere in it.
OneEach(seq) == \A i, j \in 1 .. Len(seq) : seq[i] = seq[j] => i = j
Within(seq, x) == \E i \in 1 .. Len(seq) : seq[i] = x

\* Without takes one element out and leaves the others, each once.
LEMMA WithoutLeavesOut ==
  ASSUME NEW S, NEW seq \in Seq(S), NEW x, Within(seq, x), OneEach(seq)
  PROVE  /\ Without(seq, x) \in Seq(S \ {x})
         /\ OneEach(Without(seq, x))
         /\ \A d \in S \ {x} : Within(Without(seq, x), d) <=> Within(seq, d)
<1>0. PICK p \in 1 .. Len(seq) : seq[p] = x
  BY DEF Within
<1>. DEFINE n == Len(seq)  T == S \ {x}
            a == SubSeq(seq, 1, p - 1)  b == SubSeq(seq, p + 1, n)
            out == a \o b
<1>1. n \in Nat /\ p \in Int /\ 1 <= p /\ p <= n
  BY LenProperties
<1>2. Without(seq, x) = out
  <2>1. (CHOOSE i \in 1 .. n : seq[i] = x) = p
    BY <1>0 DEF OneEach
  <2>. QED
    BY <2>1 DEF Without
<1>3. \A i \in 1 .. n : i # p => seq[i] \in T
  BY <1>0, ElementOfSeq DEF OneEach
<1>4. /\ a \in Seq(T) /\ Len(a) = p - 1
      /\ \A i \in 1 .. p - 1 : a[i] = seq[i]
  <2>1. \A i \in 1 .. p - 1 : seq[i] \in T
    BY <1>1, <1>3
  <2>2. /\ SubSeq(seq, 1, p - 1) \in Seq(T)
        /\ Len(SubSeq(seq, 1, p - 1)) = IF 1 <= p - 1 THEN p - 1 - 1 + 1 ELSE 0
        /\ \A i \in 1 .. p - 1 - 1 + 1 : SubSeq(seq, 1, p - 1)[i] = seq[1 + i - 1]
    <3>. HIDE DEF T
    <3>. QED
      BY <1>1, <2>1, SubSeqProperties
  <2>3. p - 1 - 1 + 1 = p - 1 /\ \A i \in Int : 1 + i - 1 = i
    BY <1>1
  <2>. QED
    BY <1>1, <2>2, <2>3
<1>5. /\ b \in Seq(T) /\ Len(b) = n - p
      /\ \A i \in 1 .. n - p : b[i] = seq[i + p]
  <2>1. \A i \in p + 1 .. n : seq[i] \in T
    BY <1>1, <1>3
  <2>2. /\ SubSeq(seq, p + 1, n) \in Seq(T)
        /\ Len(SubSeq(seq, p + 1, n)) = IF p + 1 <= n THEN n - (p + 1) + 1 ELSE 0
        /\ \A i \in 1 .. n - (p + 1) + 1 :
             SubSeq(seq, p + 1, n)[i] = seq[(p + 1) + i - 1]
    <3>. HIDE DEF T
    <3>. QED
      BY <1>1, <2>1, SubSeqProperties
  <2>3. /\ n - (p + 1) + 1 = n - p
        /\ (IF p + 1 <= n THEN n - (p + 1) + 1 ELSE 0) = n - p
        /\ \A i \in Int : (p + 1) + i - 1 = i + p
    BY <1>1
  <2>4. ASSUME NEW i \in 1 .. n - p
        PROVE  b[i] = seq[i + p]
    <3>1. i \in 1 .. n - (p + 1) + 1 /\ (p + 1) + i - 1 = i + p
      BY <1>1
    <3>. QED
      BY <2>2, <3>1
  <2>. QED
    BY <2>2, <2>3, <2>4
<1>6. /\ out \in Seq(T) /\ Len(out) = n - 1
      /\ \A i \in 1 .. n - 1 : out[i] = IF i < p THEN seq[i] ELSE seq[i + 1]
  <2>1. /\ out \in Seq(T) /\ Len(out) = (p - 1) + (n - p)
        /\ \A i \in 1 .. (p - 1) + (n - p) :
             out[i] = IF i <= p - 1 THEN a[i] ELSE b[i - (p - 1)]
    <3>. HIDE DEF T, a, b
    <3>1. /\ a \o b \in Seq(T) /\ Len(a \o b) = Len(a) + Len(b)
          /\ \A i \in 1 .. Len(a) + Len(b) :
               (a \o b)[i] = IF i <= Len(a) THEN a[i] ELSE b[i - Len(a)]
      <4>1. a \in Seq(T) /\ b \in Seq(T)
        BY <1>4, <1>5
      <4>. QED
        BY <4>1, ConcatProperties
    <3>2. Len(a) = p - 1 /\ Len(b) = n - p
      BY <1>4, <1>5
    <3>. QED
      BY <3>1, <3>2
  <2>2. (p - 1) + (n - p) = n - 1
    BY <1>1
  <2>3. ASSUME NEW i \in 1 .. n - 1
        PROVE  out[i] = IF i < p THEN seq[i] ELSE seq[i + 1]
    <3>. HIDE DEF out, a, b, T
    <3>1. CASE i < p
      <4>1. i <= p - 1 /\ i \in 1 .. p - 1
        BY <1>1, <3>1
      <4>. QED
        BY <1>4, <2>1, <2>2, <3>1, <4>1
    <3>2. CASE ~(i < p)
      <4>1. ~(i <= p - 1) /\ i - (p - 1) \in 1 .. n - p
            /\ (i - (p - 1)) + p = i + 1
        BY <1>1, <3>2
      <4>. QED
        BY <1>5, <2>1, <2>2, <3>2, <4>1
    <3>. QED
      BY <3>1, <3>2
  <2>. QED
    BY <2>1, <2>2, <2>3
<1>. HIDE DEF out
<1>7. \A i, j \in 1 .. n - 1 : out[i] = out[j] => i = j
  BY <1>1, <1>6 DEF OneEach
<1>8. ASSUME NEW d \in T
      PROVE  (\A i \in 1 .. n - 1 : out[i] # d) <=> \A i \in 1 .. n : seq[i] # d
  <2>1. \A i \in 1 .. n - 1 : out[i] = d => \E j \in 1 .. n : seq[j] = d
    BY <1>1, <1>6
  <2>2. ASSUME NEW j \in 1 .. n, seq[j] = d
        PROVE  \E i \in 1 .. n - 1 : out[i] = d
    <3>1. j # p
      BY <1>0, <2>2
    <3>2. CASE j < p
      <4>1. j \in 1 .. n - 1 /\ out[j] = d
        BY <1>1, <1>6, <2>2, <3>2
      <4>. QED
        BY <4>1
    <3>3. CASE j > p
      <4>1. j - 1 \in 1 .. n - 1 /\ ~(j - 1 < p) /\ (j - 1) + 1 = j
        BY <1>1, <3>3
      <4>2. out[j - 1] = d
        BY <1>6, <2>2, <4>1
      <4>. QED
        BY <4>1, <4>2
    <3>. QED
      BY <1>1, <3>1, <3>2, <3>3
  <2>. QED
    BY <2>1, <2>2
<1>9. \A d \in S \ {x} : Within(out, d) <=> Within(seq, d)
  BY <1>6, <1>8 DEF Within
<1>10. OneEach(out)
  BY <1>6, <1>7 DEF OneEach
<1>. QED
  BY <1>2, <1>6, <1>9, <1>10

LEMMA AbandonIsSound ==
  ASSUME NEW sem, NEW capacity, NEW waiting, NEW holding, NEW c \in waiting,
         Sound(sem, capacity, waiting, holding)
  PROVE  Sound(Abandon(sem, c), capacity, waiting \ {c}, holding)
<1>. DEFINE rest == GiveUp(sem, c)  fewer == waiting \ {c}
            w == sem.waiters  n == Len(w)
<1>0. IsFiniteSet(fewer) /\ fewer \cap holding = {} /\ IsFiniteSet(holding)
  BY FS_RemoveElement DEF Sound, Counted
<1>1. /\ sem.value \in Nat /\ w \in Seq(waiting)
      /\ \A i \in 1 .. n : w[i] \in waiting
      /\ \A i, j \in 1 .. n : w[i] = w[j] => i = j
      /\ sem.value + Cardinality(sem.granted \cup holding) = capacity
  BY ElementOfSeq DEF Sound, Counted
<1>2. CASE c \in sem.granted
  <2>1. /\ rest.value = sem.value + 1 /\ rest.waiters = w
        /\ rest.granted = sem.granted \ {c}
    BY <1>2 DEF Sound, Counted, GiveUp
  <2>2. \A i \in 1 .. n : w[i] \in fewer
    BY <1>1, <1>2 DEF Sound, Counted
  <2>3. w \in Seq(fewer)
    <3>1. SubSeq(w, 1, n) \in Seq(fewer)
      BY <1>1, <2>2, LenProperties, SubSeqProperties
    <3>. QED
      BY <1>1, <3>1, SubSeqFull
  <2>4. rest \in [value : Nat, waiters : Seq(fewer), granted : SUBSET fewer]
    <3>1. rest = [value |-> sem.value + 1, waiters |-> w,
                  granted |-> sem.granted \ {c}]
      BY <1>2 DEF Sound, Counted, GiveUp
    <3>2. sem.granted \ {c} \subseteq fewer /\ sem.value + 1 \in Nat
      <4>1. sem.granted \subseteq waiting
        BY PermitsOut DEF Sound
      <4>. QED
        BY <1>1, <4>1
    <3>. QED
      BY <2>3, <3>1, <3>2
  <2>5. \A d \in fewer : d \in rest.granted <=> \A i \in 1 .. n : w[i] # d
    BY <2>1 DEF Sound, Counted
  <2>6. Cardinality(rest.granted \cup holding)
          = Cardinality(sem.granted \cup holding) - 1
    <3>1. /\ c \in sem.granted \cup holding
          /\ (sem.granted \cup holding) \ {c} = rest.granted \cup holding
      BY <1>2, <2>1 DEF Sound, Counted
    <3>2. Cardinality((sem.granted \cup holding) \ {c})
            = Cardinality(sem.granted \cup holding) - 1
      BY <3>1, PermitsOut, FS_RemoveElement DEF Sound
    <3>. QED
      BY <3>1, <3>2
  <2>7. Cardinality(sem.granted \cup holding) \in Nat
    BY PermitsOut DEF Sound
  <2>8. Counted(rest, capacity, fewer, holding)
    <3>1. rest.value + Cardinality(rest.granted \cup holding) = capacity
      BY <1>1, <2>1, <2>6, <2>7
    <3>. HIDE DEF rest, fewer
    <3>. QED
      BY <1>0, <1>1, <2>1, <2>4, <2>5, <3>1 DEF Counted
  <2>. QED
    BY <2>8, WakeAllIsSound DEF Abandon
<1>3. CASE c \notin sem.granted
  <2>1. PICK p \in 1 .. n : w[p] = c
    BY <1>3 DEF Sound, Counted
  <2>. DEFINE out == Without(w, c)
  <2>2. /\ rest.value = sem.value /\ rest.waiters = out
        /\ rest.granted = sem.granted
    BY <1>3 DEF Sound, Counted, GiveUp
  <2>3. /\ out \in Seq(fewer)
        /\ \A i, j \in 1 .. Len(out) : out[i] = out[j] => i = j
        /\ \A d \in fewer : (\A i \in 1 .. Len(out) : out[i] # d)
                              <=> \A i \in 1 .. n : w[i] # d
    <3>1. w \in Seq(waiting) /\ Within(w, c) /\ OneEach(w)
      BY <1>1, <2>1 DEF Within, OneEach
    <3>2. /\ out \in Seq(fewer) /\ OneEach(out)
          /\ \A d \in fewer : Within(out, d) <=> Within(w, d)
      BY <3>1, WithoutLeavesOut
    <3>. HIDE DEF out, w, fewer
    <3>. QED
      BY <3>2 DEF Within, OneEach
  <2>4. rest \in [value : Nat, waiters : Seq(fewer), granted : SUBSET fewer]
    BY <1>1, <1>3, <2>2, <2>3 DEF Sound, Counted, GiveUp
  <2>5. \A d \in fewer : d \in rest.granted
                           <=> \A i \in 1 .. Len(out) : out[i] # d
    BY <2>2, <2>3 DEF Sound, Counted
  <2>6. Counted(rest, capacity, fewer, holding)
    <3>1. rest.value + Cardinality(rest.granted \cup holding) = capacity
      BY <1>1, <2>2
    <3>. HIDE DEF rest, fewer, out
    <3>. QED
      BY <1>0, <2>2, <2>3, <2>4, <2>5, <3>1 DEF Counted
  <2>. QED
    BY <2>6, WakeAllIsSound DEF Abandon
<1>. QED
  BY <1>2, <1>3

=============================================================================
