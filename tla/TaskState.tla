------------------------------ MODULE TaskState ------------------------------
(***************************************************************************)
(* The states a bridge task moves through and the transitions that         *)
(* TaskRecord.transition accepts (ai_bridge/task_state.py).                *)
(***************************************************************************)

PENDING    == "Pending"
RUNNING    == "Running"
COMPLETED  == "Completed"
FAILED     == "Failed"
CANCELLED  == "Cancelled"
TIMED_OUT  == "TimedOut"
RECOVERING == "Recovering"
RETRYING   == "Retrying"

TERMINAL_STATES == {COMPLETED, FAILED, CANCELLED, TIMED_OUT}
ACTIVE_STATES   == {RUNNING, RETRYING}
QUEUED_STATES   == {PENDING, RECOVERING}

TaskStates == TERMINAL_STATES \cup ACTIVE_STATES \cup QUEUED_STATES

\* Slip: the table forgets that a running task may time out.
TransitionsWithoutTimeout ==
  ({PENDING} \X {RUNNING, CANCELLED, RECOVERING})
    \cup ({RECOVERING} \X {PENDING, RUNNING, FAILED, CANCELLED})
    \cup ({RUNNING} \X {COMPLETED, FAILED, CANCELLED, RECOVERING})

\* The transition table, as a relation. Terminal states have no successor.
ALLOWED_TRANSITIONS ==
  ({PENDING} \X {RUNNING, CANCELLED, RECOVERING})
    \cup ({RECOVERING} \X {PENDING, RUNNING, FAILED, CANCELLED})
    \cup ({RETRYING} \X {RUNNING, FAILED, CANCELLED})
    \cup ({RUNNING} \X {COMPLETED, FAILED, CANCELLED, TIMED_OUT,
                        RETRYING, RECOVERING})

\* transition() raises InvalidTransition exactly when this is false.
CanTransition(from, to) == <<from, to>> \in ALLOWED_TRANSITIONS

=============================================================================
