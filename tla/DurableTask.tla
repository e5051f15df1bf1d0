----------------------------- MODULE DurableTask -----------------------------
(***************************************************************************)
(* What the bridge promises about a task, without saying how: an accepted  *)
(* task stays open until it ends in one of the terminal states; the worker *)
(* is asked once, or again only if the task may be replayed; it is never   *)
(* asked for a task that has ended; and Completed means that it was asked. *)
(* Process, store and coroutines do not appear: a crash changes nothing.   *)
(***************************************************************************)
EXTENDS TaskState, Naturals

CONSTANT Task

VARIABLES
  life,    \* "absent", "open" or the terminal state the task ended in
  asked,   \* how often the worker was asked
  replay   \* whether the task may be asked for more than once

vars == <<life, asked, replay>>

(* A task is new, or was taken over from an earlier version that may have  *)
(* asked for it once.                                                      *)
Init ==
  /\ life \in [Task -> {"absent", "open"}]
  /\ asked \in [Task -> {0, 1}]
  /\ \A t \in Task : life[t] = "absent" => asked[t] = 0
  /\ replay \in [Task -> BOOLEAN]

Accept(t) ==
  /\ life[t] = "absent"
  /\ life' = [life EXCEPT ![t] = "open"]
  /\ \E r \in BOOLEAN : replay' = [replay EXCEPT ![t] = r]
  /\ UNCHANGED asked

Ask(t) ==
  /\ life[t] = "open"
  /\ asked[t] = 0 \/ replay[t]
  /\ asked' = [asked EXCEPT ![t] = @ + 1]
  /\ UNCHANGED <<life, replay>>

Finish(t, end) ==
  /\ life[t] = "open"
  /\ end = COMPLETED => asked[t] > 0
  /\ life' = [life EXCEPT ![t] = end]
  /\ UNCHANGED <<asked, replay>>

Next == \E t \in Task : \/ Accept(t)
                        \/ Ask(t)
                        \/ \E end \in TERMINAL_STATES : Finish(t, end)

Spec == Init /\ [][Next]_vars

=============================================================================
