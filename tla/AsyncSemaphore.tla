---------------------------- MODULE AsyncSemaphore ----------------------------
(***************************************************************************)
(* asyncio.Semaphore of Python 3.12 and later, as far as the bridge relies *)
(* on it.  Its deque is split in two: the waiters without a permit, in the *)
(* order of their arrival, and those whose future is done although their   *)
(* coroutine has not run yet ("granted"), whose order nobody asks for.  A  *)
(* permit that is released goes straight to the first waiter; a newcomer   *)
(* queues behind all of them, also behind a granted one.                   *)
(***************************************************************************)
EXTENDS Integers, Sequences, FiniteSets

NewSemaphore(n) == [value |-> n, waiters |-> <<>>, granted |-> {}]

Locked(sem) == sem.value = 0 \/ sem.waiters # <<>> \/ sem.granted # {}

\* _wake_up_next, k times.
Wake(sem, k) ==
  [value   |-> sem.value - k,
   waiters |-> SubSeq(sem.waiters, k + 1, Len(sem.waiters)),
   granted |-> sem.granted \cup {sem.waiters[i] : i \in 1 .. k}]

\* As many as there are permits.
WakeAll(sem) ==
  Wake(sem, IF sem.value < Len(sem.waiters) THEN sem.value
                                            ELSE Len(sem.waiters))

\* acquire(), without and with a wait, and release().
Take(sem) == [sem EXCEPT !.value = @ - 1]
Enqueue(sem, c) == [sem EXCEPT !.waiters = Append(@, c)]
Release(sem) ==
  LET freed == [sem EXCEPT !.value = @ + 1]
  IN IF sem.waiters = <<>> THEN freed ELSE Wake(freed, 1)

\* The granted waiter c runs with its permit; those that came later may too.
Resume(sem, c) == WakeAll([sem EXCEPT !.granted = @ \ {c}])

Without(seq, c) ==
  LET i == CHOOSE i \in 1 .. Len(seq) : seq[i] = c
  IN SubSeq(seq, 1, i - 1) \o SubSeq(seq, i + 1, Len(seq))

\* The waiter c leaves the deque; a permit it was granted goes back.
GiveUp(sem, c) ==
  IF c \in sem.granted
    THEN [sem EXCEPT !.granted = @ \ {c}, !.value = @ + 1]
    ELSE [sem EXCEPT !.waiters = Without(@, c)]

\* The waiter c is cancelled: a permit it was granted goes on to the next.
Abandon(sem, c) == WakeAll(GiveUp(sem, c))

=============================================================================
