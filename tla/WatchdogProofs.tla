---------------------------- MODULE WatchdogProofs ----------------------------
(***************************************************************************)
(* Theorems about Watchdog, for every deadline, interval, request timeout  *)
(* and budget of errors.                                                   *)
(***************************************************************************)
EXTENDS Watchdog, TLAPS

LEMMA StatesAreStrings ==
  /\ TERMINAL_STATES = Over
  /\ TERMINAL_STATES \subseteq TaskStates
  /\ TaskStates \cap (Faults \cup {Nothing}) = {}
  /\ RETRYING \notin Over
BY DEF TERMINAL_STATES, ACTIVE_STATES, QUEUED_STATES, TaskStates, Over, Faults, Nothing,
   PENDING, RUNNING, COMPLETED, FAILED, CANCELLED, TIMED_OUT, RECOVERING, RETRYING

\* A row that is over stays as it is.
LEMMA OverIsOver ==
  ASSUME NEW s \in Over, NEW t \in TaskStates, CanTransition(s, t)
  PROVE  FALSE
BY DEF CanTransition, ALLOWED_TRANSITIONS, Over, PENDING, RUNNING, COMPLETED, FAILED,
   CANCELLED, TIMED_OUT, RECOVERING, RETRYING

LEMMA OneMore ==
  ASSUME NEW n \in Nat, NEW k \in Nat
  PROVE  /\ (n + 1) * k = n * k + k
         /\ n * k \in Nat
BY SMT

-----------------------------------------------------------------------------
(* The invariant.                                                          *)

Transient == {"transient", "truncated"}

Kinds ==
  /\ pc \in {"poll", "asking", "reading", "sleeping", "exited"}
  /\ reply \in TaskStates \cup Faults \cup {Nothing}
  /\ verdict \in {Nothing, "result", "deadline", "transient", "refused", "uncaught"}
  /\ code = IF verdict \in {Nothing, "result"} THEN 0 ELSE 1
  /\ pc = "exited" <=> verdict # Nothing
  /\ row \in TaskStates \ {RETRYING}
  /\ now \in Nat /\ sent \in Nat /\ errors \in Nat /\ failing \in Nat
  /\ doneAt \in 0 .. now

(* A request is sent before the deadline only, and what is under way ends  *)
(* in its time; after that nothing but a poll happens.                     *)
Timing ==
  /\ sent <= now
  /\ pc = "asking" => now = sent
  /\ pc \in {"asking", "reading", "sleeping"} =>
       sent < TimeoutSeconds /\ now <= sent + RequestTimeout
  /\ pc = "poll" => \/ now <= TimeoutSeconds
                    \/ sent < TimeoutSeconds /\ now <= sent + RequestTimeout
  /\ pc = "exited" => /\ now <= sent + RequestTimeout
                      /\ now <= TimeoutSeconds + RequestTimeout

(* errors counts the failures in a row, one late while an answer is under  *)
(* way.                                                                    *)
Counting ==
  /\ pc \in {"poll", "asking", "sleeping"} =>
       errors = failing /\ failing <= MaxTransient
  /\ pc = "reading" =>
       /\ errors <= MaxTransient
       /\ failing = IF reply \in Transient THEN errors + 1 ELSE 0
  /\ pc = "exited" => errors <= MaxTransient + 1
  /\ verdict = "transient" => failing = MaxTransient + 1

\* What the bridge answered of a task that is over stays true.
Answered ==
  /\ pc = "reading" /\ reply \in Over => row = reply
  /\ verdict = "result" => row = reply /\ reply \in Over

Safe == Kinds /\ Timing /\ Counting /\ Answered

LEMMA NapBounds ==
  ASSUME now \in Nat
  PROVE  /\ Nap \in 0 .. PollInterval
         /\ now + Nap <= TimeoutSeconds \/ Nap = 0
BY ConfigAssumption DEF Nap

LEMMA SafeInit == Init => Safe
<1> SUFFICES ASSUME Init PROVE Safe
  OBVIOUS
<1> QED
  BY ConfigAssumption, StatesAreStrings
  DEF Init, Safe, Kinds, Timing, Counting, Answered, Nothing

LEMMA SafeStep == Safe /\ [Next]_vars => Safe'
<1> SUFFICES ASSUME Safe, [Next]_vars PROVE Safe'
  OBVIOUS
<1> USE ConfigAssumption, StatesAreStrings
<1>1. CASE Poll
  BY <1>1 DEF Poll, PastDeadline, Exit, Continue, ExitCode, Nothing,
       Safe, Kinds, Timing, Counting, Answered
<1>2. CASE Read
  <2>1. /\ now' \in Nat /\ now <= now' /\ now' <= sent + RequestTimeout
        /\ reply' \in TaskStates \cup Faults
    BY <1>2 DEF Read, Safe, Kinds, Timing
  <2>2. Kinds' /\ Timing'
    BY <1>2, <2>1 DEF Read, Continue, Safe, Kinds, Timing
  <2>3. Counting'
    BY <1>2 DEF Read, Continue, Transient, Safe, Kinds, Counting, Nothing
  <2>4. Answered'
    BY <1>2, <2>1 DEF Read, Continue, Safe, Kinds, Answered, Faults, Over,
       COMPLETED, FAILED, CANCELLED, TIMED_OUT, Nothing
  <2> QED
    BY <2>2, <2>3, <2>4 DEF Safe
<1>3. CASE Deliver
  <2>1. /\ now' \in Nat /\ now <= now' /\ now' <= sent + RequestTimeout
        /\ pc = "reading" /\ verdict = Nothing
        /\ UNCHANGED <<sent, reply, row, doneAt, failing>>
    BY <1>3 DEF Deliver, Safe, Kinds, Timing
  <2>2. CASE reply = "transient"
    <3>1. errors' = errors + 1
      BY <1>3, <2>2 DEF Deliver, Faults, Over, COMPLETED, FAILED, CANCELLED, TIMED_OUT
    <3>2. IF errors' > MaxTransient THEN Exit("transient") ELSE Continue("sleeping")
      BY <1>3, <2>2 DEF Deliver, OverBudget, Faults, Over, COMPLETED, FAILED,
         CANCELLED, TIMED_OUT
    <3> QED
      BY <2>1, <2>2, <3>1, <3>2 DEF Exit, Continue, ExitCode, Nothing, Transient, Over,
         COMPLETED, FAILED, CANCELLED, TIMED_OUT, Safe, Kinds, Timing, Counting, Answered
  <2>3. CASE reply \in {"refused", "truncated"}
    <3>1. errors' = errors /\ \E why \in {"refused", "uncaught"} : Exit(why)
      BY <1>3, <2>3 DEF Deliver, Faults, Over, COMPLETED, FAILED, CANCELLED, TIMED_OUT
    <3> QED
      BY <2>1, <2>3, <3>1 DEF Exit, ExitCode, Nothing, Safe, Kinds, Timing,
         Counting, Answered
  <2>4. CASE reply \in Over
    <3>1. errors' = 0 /\ Exit("result")
      BY <1>3, <2>4 DEF Deliver, ErrorsAfterAnswer, Faults, Over, COMPLETED, FAILED,
         CANCELLED, TIMED_OUT
    <3> QED
      BY <2>1, <2>4, <3>1 DEF Exit, ExitCode, Nothing, Safe, Kinds, Timing,
         Counting, Answered
  <2>5. CASE reply \notin {"transient", "refused", "truncated"} \cup Over
    <3>1. errors' = 0 /\ Continue("sleeping")
      BY <1>3, <2>5 DEF Deliver, ErrorsAfterAnswer
    <3> QED
      BY <2>1, <2>5, <3>1 DEF Continue, Nothing, Transient, Safe, Kinds, Timing,
         Counting, Answered
  <2> QED
    BY <2>2, <2>3, <2>4, <2>5
<1>4. CASE Sleep
  <2>1. Nap \in Nat /\ (now + Nap <= TimeoutSeconds \/ Nap = 0)
    BY NapBounds DEF Safe, Kinds
  <2> QED
    BY <1>4, <2>1 DEF Sleep, Continue, Nothing, Safe, Kinds, Timing, Counting, Answered
<1>5. CASE TaskMoves
  <2>1. /\ row' \in TaskStates \ {RETRYING} /\ row \notin Over
        /\ doneAt' \in {0, now} /\ pc # "exited"
        /\ UNCHANGED <<pc, now, sent, reply, errors, verdict, code, failing>>
    BY <1>5, OverIsOver DEF TaskMoves
  <2> QED
    BY <2>1 DEF Safe, Kinds, Timing, Counting, Answered
<1>6. CASE UNCHANGED vars
  BY <1>6 DEF vars, Safe, Kinds, Timing, Counting, Answered
<1> QED
  BY <1>1, <1>2, <1>3, <1>4, <1>5, <1>6 DEF Next, WatchdogStep

LEMMA SafeAlways == Spec => []Safe
BY SafeInit, SafeStep, PTL DEF Spec

-----------------------------------------------------------------------------
(* The clock and every counter stay in their ranges.                       *)
THEOREM TypeCorrect == Spec => []TypeOK
<1>1. Safe => TypeOK
  BY ConfigAssumption DEF Safe, Kinds, Timing, Counting, TypeOK, Nothing
<1> QED
  BY <1>1, SafeAlways, PTL

(* Exit status 0 is given only with the last word of the task              *)
(* (check_task, main).                                                     *)
THEOREM ResultsAreFinal == Spec => []ResultIsFinal
<1>1. Safe => ResultIsFinal
  BY StatesAreStrings DEF Safe, Kinds, Answered, ResultIsFinal, Nothing
<1> QED
  BY <1>1, SafeAlways, PTL

(* The watchdog gives up after exactly max_transient_errors and one more   *)
(* failures in a row (wait_for_task).                                      *)
THEOREM BudgetIsExact == Spec => []BudgetExact
<1>1. Safe => BudgetExact
  BY DEF Safe, Counting, BudgetExact
<1> QED
  BY <1>1, SafeAlways, PTL

(* No request is sent after the deadline, and the watchdog is over when    *)
(* the last one is (wait_for_task, sleep_until_next_poll).                 *)
THEOREM ExitIsInTime == Spec => []ExitsInTime
<1>1. Safe => ExitsInTime
  BY ConfigAssumption DEF Safe, Kinds, Timing, ExitsInTime
<1> QED
  BY <1>1, SafeAlways, PTL

-----------------------------------------------------------------------------
(* How late a task that is over can still be unnoticed.  A request that    *)
(* finds the row over and is answered ends the watchdog, so since doneAt   *)
(* there was nothing but failures, each at most a poll and a request       *)
(* apart.                                                                  *)

Apart == PollInterval + RequestTimeout

Unnoticed ==
  row \in Over =>
    /\ pc \in {"poll", "asking"} => now <= doneAt + (failing + 1) * Apart
    /\ \/ pc = "sleeping"
       \/ pc = "reading" /\ reply \notin Over \cup {"refused"}
       => sent <= doneAt + failing * Apart
    /\ verdict = "deadline" => TimeoutSeconds <= doneAt + (failing + 1) * Apart

LEMMA ApartNat == Apart \in Nat
BY ConfigAssumption DEF Apart

LEMMA UnnoticedStep == Safe /\ Unnoticed /\ [Next]_vars => Unnoticed'
<1> SUFFICES ASSUME Safe, Unnoticed, [Next]_vars PROVE Unnoticed'
  OBVIOUS
<1> USE ConfigAssumption, StatesAreStrings, ApartNat
<1>n. /\ now \in Nat /\ sent \in Nat /\ failing \in Nat /\ doneAt \in Nat
      /\ doneAt <= now /\ sent <= now
  BY DEF Safe, Kinds, Timing
<1>m. /\ (failing + 1) * Apart = failing * Apart + Apart
      /\ failing * Apart \in Nat
  BY <1>n, OneMore
<1>1. CASE Poll
  BY <1>1, <1>n, <1>m DEF Poll, PastDeadline, Exit, Continue, Safe, Kinds, Nothing,
     Unnoticed
<1>2. CASE Read
  <2>1. /\ pc = "asking" /\ pc' = "reading" /\ now = sent
        /\ UNCHANGED <<sent, row, doneAt, verdict>>
        /\ verdict' # "deadline"
    BY <1>2 DEF Read, Continue, Safe, Kinds, Timing, Nothing
  <2>2. ASSUME row \in Over, reply' \notin Over \cup {"refused"}
        PROVE  failing' = failing + 1
    BY <1>2, <2>2 DEF Read, Faults
  <2> QED
    BY <2>1, <2>2, <1>n, <1>m DEF Unnoticed
<1>3. CASE Deliver
  <2>1. /\ pc = "reading" /\ UNCHANGED <<sent, reply, row, doneAt, failing>>
        /\ verdict = Nothing
    BY <1>3 DEF Deliver, Safe, Kinds
  <2>2. verdict' # "deadline"
    BY <1>3, <2>1 DEF Deliver, Exit, Continue, Nothing
  <2>3. pc' = "exited" \/ (pc' = "sleeping" /\ reply \notin Over \cup {"refused"})
    BY <1>3 DEF Deliver, Exit, Continue, Faults, Over, COMPLETED, FAILED, CANCELLED,
       TIMED_OUT
  <2> QED
    BY <2>1, <2>2, <2>3 DEF Unnoticed
<1>4. CASE Sleep
  <2>1. /\ pc = "sleeping" /\ pc' = "poll" /\ UNCHANGED <<row, doneAt, failing, verdict>>
        /\ now' = now + Nap /\ now <= sent + RequestTimeout
        /\ verdict' # "deadline"
    BY <1>4 DEF Sleep, Continue, Safe, Kinds, Timing, Nothing
  <2>2. now' <= sent + Apart
    BY <2>1, <1>n, NapBounds DEF Apart
  <2> QED
    BY <2>1, <2>2, <1>n, <1>m DEF Unnoticed
<1>5. CASE TaskMoves
  <2>1. /\ row' \in Over => doneAt' = now
        /\ verdict # "deadline"
        /\ UNCHANGED <<pc, now, sent, reply, verdict, failing>>
    BY <1>5 DEF TaskMoves, Safe, Kinds, Nothing
  <2> QED
    BY <2>1, <1>n, <1>m DEF Unnoticed
<1>6. CASE UNCHANGED vars
  BY <1>6 DEF vars, Unnoticed
<1> QED
  BY <1>1, <1>2, <1>3, <1>4, <1>5, <1>6 DEF Next, WatchdogStep

(* A task that was over early enough is not reported as timed out          *)
(* (wait_for_task, its deadline and its budget of errors).                 *)
THEOREM TimeoutsAreTrue == Spec => []NoFalseTimeout
<1>1. Init => Unnoticed
  <2> SUFFICES ASSUME Init PROVE Unnoticed
    OBVIOUS
  <2>1. (0 + 1) * Apart = 0 * Apart + Apart /\ 0 * Apart \in Nat
    BY OneMore, ApartNat
  <2> QED
    BY <2>1, ApartNat DEF Init, Unnoticed, Nothing
<1>2. Safe /\ Unnoticed => NoFalseTimeout
  BY StatesAreStrings, ApartNat, ConfigAssumption, OneMore
  DEF Unnoticed, NoFalseTimeout, Safe, Kinds, Apart
<1> QED
  BY <1>1, <1>2, SafeAlways, UnnoticedStep, PTL DEF Spec

=============================================================================
