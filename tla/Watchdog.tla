------------------------------- MODULE Watchdog -------------------------------
(***************************************************************************)
(* The command line watchdog (ai_watchdog/watchdog.py): it polls           *)
(* worker_check until the task it waits for is over, its deadline passes,  *)
(* or the bridge fails it too often in a row.                              *)
(*                                                                         *)
(* Time is counted in ticks since the start of wait_for_task.  A request   *)
(* takes some ticks before the bridge reads the row and some before the    *)
(* answer is in.  The task itself is the environment: it moves along the   *)
(* transition table while the watchdog asks, reads and sleeps.             *)
(***************************************************************************)
EXTENDS TaskState, Integers

CONSTANTS
  TimeoutSeconds, \* config.timeout_seconds
  PollInterval,   \* config.poll_interval
  RequestTimeout, \* the longest request (request_timeout bounds each read)
  MaxTransient    \* config.max_transient_errors

(* The command line overrides are not validated by the program; a poll     *)
(* interval that is not positive never gets past time.sleep.               *)
ASSUME ConfigAssumption ==
  /\ {TimeoutSeconds, PollInterval, RequestTimeout} \subseteq Nat \ {0}
  /\ MaxTransient \in Nat

VARIABLES
  pc,      \* "poll", "asking", "reading", "sleeping", "exited"
  now,     \* ticks since the start
  sent,    \* when the request under way was sent
  reply,   \* a state, or the fault that the request met
  errors,  \* transient_errors
  verdict, \* why it exited: "result", "deadline", "transient", "refused"
  code,    \* exit status of the process
  row,     \* external: the state of the task in the bridge
  doneAt,  \* external: when the task was over, 0 before
  failing  \* external: network failures and 5xx answers in a row

vars == <<pc, now, sent, reply, errors, verdict, code, row, doneAt, failing>>

Nothing == "nothing"

(* What a request may meet instead of a row: "transient" a 5xx or no       *)
(* connection, "refused" a 4xx, ok = false or an answer without a usable   *)
(* body, "truncated" a connection that closes in the middle of the body.   *)
Faults == {"transient", "refused", "truncated"}

Init ==
  /\ pc = "poll" /\ now = 0 /\ sent = 0
  /\ reply = Nothing /\ errors = 0
  /\ verdict = Nothing /\ code = 0
  /\ row \in TaskStates \ {RETRYING}
  /\ doneAt = 0 /\ failing = 0

-----------------------------------------------------------------------------
(* main: any WatchdogError prints a message and yields 1, any result 0; an *)
(* exception that is no WatchdogError ends Python with 1 too.              *)
ExitCode(why) == IF why = "result" THEN 0 ELSE 1

Exit(why) ==
  /\ pc' = "exited"
  /\ verdict' = why
  /\ code' = ExitCode(why)

Continue(place) == pc' = place /\ UNCHANGED <<verdict, code>>

\* Slip: the deadline is looked at only when the last request went well.
PastDeadlineWhenHealthy == now >= TimeoutSeconds /\ errors = 0

\* Slip: no poll is begun that might not have its interval to itself.
PastDeadlineEarly == now + PollInterval >= TimeoutSeconds

\* Slip: the deadline itself is still in time, but no sleep crosses it.
PastDeadlineStrict == now > TimeoutSeconds

PastDeadline == now >= TimeoutSeconds

\* The head of the loop in wait_for_task.
Poll ==
  /\ pc = "poll"
  /\ IF PastDeadline THEN Exit("deadline") ELSE Continue("asking")
  /\ sent' = now
  /\ UNCHANGED <<now, reply, errors, row, doneAt, failing>>

\* The bridge reads the row for the answer, or the request meets a fault.
Read ==
  /\ pc = "asking"
  /\ now' \in now .. sent + RequestTimeout
  /\ reply' \in {row} \cup Faults
  /\ failing' = IF reply' \in {"transient", "truncated"} THEN failing + 1 ELSE 0
  /\ Continue("reading")
  /\ UNCHANGED <<sent, errors, row, doneAt>>

\* Slip: a task under recovery is taken for one that has come to an end.
OverOrRecovering == {COMPLETED, FAILED, CANCELLED, TIMED_OUT, RECOVERING}

\* The watchdog's own list of terminal states.
Over == {COMPLETED, FAILED, CANCELLED, TIMED_OUT}

OverBudget(n) == n > MaxTransient

\* Slip: an answer does not end a series of errors.
ErrorsAfterAnswerKept == errors

ErrorsAfterAnswer == 0

(* The answer is in: check_task returns or raises, wait_for_task decides.  *)
(* A truncated body raises http.client.IncompleteRead, which is neither an *)
(* OSError nor a WatchdogError: nothing catches it.                        *)
Deliver ==
  /\ pc = "reading"
  /\ now' \in now .. sent + RequestTimeout
  /\ \/ /\ reply = "transient"
        /\ errors' = errors + 1
        /\ IF OverBudget(errors') THEN Exit("transient") ELSE Continue("sleeping")
     \/ reply = "refused" /\ UNCHANGED errors /\ Exit("refused")
     \/ reply = "truncated" /\ UNCHANGED errors /\ Exit("uncaught")
     \/ reply \in Over /\ errors' = ErrorsAfterAnswer /\ Exit("result")
     \/ /\ reply \notin Over \cup Faults
        /\ errors' = ErrorsAfterAnswer
        /\ Continue("sleeping")
  /\ UNCHANGED <<sent, reply, row, doneAt, failing>>

\* Slip: the sleep is not cut at the deadline.
FullNap == PollInterval

\* sleep_until_next_poll; no sleep at all when the deadline is past.
Nap ==
  LET remaining == TimeoutSeconds - now
  IN IF remaining <= 0 THEN 0
     ELSE IF PollInterval > remaining THEN remaining ELSE PollInterval

Sleep ==
  /\ pc = "sleeping"
  /\ now' = now + Nap
  /\ Continue("poll")
  /\ UNCHANGED <<sent, reply, errors, row, doneAt, failing>>

\* external: the bridge moves the task on.
TaskMoves ==
  /\ pc # "exited"
  /\ row' \in {s \in TaskStates \ {RETRYING} : CanTransition(row, s)}
  /\ doneAt' = IF row' \in TERMINAL_STATES THEN now ELSE 0
  /\ UNCHANGED <<pc, now, sent, reply, errors, verdict, code, failing>>

WatchdogStep == Poll \/ Read \/ Deliver \/ Sleep

Next == WatchdogStep \/ TaskMoves

Spec == Init /\ [][Next]_vars

\* The process runs, and a request ends within its timeout.
FairSpec == Spec /\ WF_vars(WatchdogStep)

-----------------------------------------------------------------------------
(* Properties.                                                             *)

(* Type of the state; the clock is bounded by the deadline.                *)
TypeOK ==
  /\ pc \in {"poll", "asking", "reading", "sleeping", "exited"}
  /\ now \in 0 .. TimeoutSeconds + RequestTimeout
  /\ sent \in 0 .. TimeoutSeconds + RequestTimeout
  /\ reply \in TaskStates \cup Faults \cup {Nothing}
  /\ errors \in 0 .. MaxTransient + 1
  /\ verdict \in {Nothing, "result", "deadline", "transient", "refused", "uncaught"}
  /\ code \in {0, 1}
  /\ row \in TaskStates
  /\ doneAt \in 0 .. TimeoutSeconds + RequestTimeout

(* Exit status 0 means that the result printed is the task's last word,    *)
(* although the task may move between the bridge's read and the exit.      *)
ResultIsFinal ==
  pc = "exited" /\ code = 0 => row \in TERMINAL_STATES /\ reply = row

(* "Consecutive 5xx/network errors allowed before giving up": the watchdog *)
(* gives up on them after exactly that many and one more in a row.         *)
BudgetExact ==
  /\ verdict = "transient" => failing = MaxTransient + 1
  /\ pc \in {"poll", "asking"} => failing <= MaxTransient

(* The watchdog outlives its deadline by one request at most.              *)
ExitsInTime == now > TimeoutSeconds =>
                 pc # "asking" /\ now <= sent + RequestTimeout

(* A task that was over a poll and a request before the deadline (and as   *)
(* much again for every failed request) is not reported as timed out.      *)
NoFalseTimeout ==
  verdict = "deadline" /\ row \in TERMINAL_STATES =>
    doneAt + (failing + 1) * (PollInterval + RequestTimeout) >= TimeoutSeconds

(* The watchdog always comes to an end.                                    *)
Exits == <>(pc = "exited")

=============================================================================
