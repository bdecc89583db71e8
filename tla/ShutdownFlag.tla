---------------------------- MODULE ShutdownFlag ----------------------------
(***************************************************************************)
(* The cancellation flag every routine waits on (src/shutdown.rs): a       *)
(* boolean behind a mutex and a condition variable.  Waiters sleep with    *)
(* wait_timeout; the Ctrl+C handler and the GUI's stop button call         *)
(* request; a caller may reset the flag for another run.                   *)
(*                                                                         *)
(* A critical section is one step.  Parking is part of the critical        *)
(* section that found the flag down: the condition variable releases the   *)
(* mutex and enqueues the thread atomically.  request() notifies after its *)
(* critical section, so that a step of any thread fits in between.         *)
(***************************************************************************)
EXTENDS Integers, FiniteSets

CONSTANTS
  Waiters,     \* threads that call wait_timeout
  Requesters,  \* threads that call request
  MaxResets    \* bound on the calls of reset

ASSUME ShutdownAssumption ==
  Waiters \cap Requesters = {} /\ MaxResets \in Nat

VARIABLES
  requested,  \* the boolean behind the mutex
  at,         \* where each thread is
  late,       \* waiters whose deadline has passed
  answer,     \* what a waiter's last wait_timeout returned
  resets      \* calls of reset so far

vars == <<requested, at, late, answer, resets>>

WaiterPlaces == {"idle", "lock", "parked", "notified", "timedOut"}
RequesterPlaces == {"idle", "notify"}

TypeOK ==
  /\ requested \in BOOLEAN
  /\ at \in [Waiters \cup Requesters -> WaiterPlaces \cup RequesterPlaces]
  /\ \A w \in Waiters : at[w] \in WaiterPlaces
  /\ \A r \in Requesters : at[r] \in RequesterPlaces
  /\ late \subseteq Waiters
  /\ answer \in [Waiters -> {"none", "requested", "elapsed"}]
  /\ resets \in 0 .. MaxResets

Init ==
  /\ requested = FALSE
  /\ at = [t \in Waiters \cup Requesters |-> "idle"]
  /\ late = {}
  /\ answer = [w \in Waiters |-> "none"]
  /\ resets = 0

Move(t, place) == at' = [at EXCEPT ![t] = place]

-----------------------------------------------------------------------------
(***************************************************************************)
(* wait_timeout.                                                           *)
(***************************************************************************)

\* The deadline is computed before the mutex is taken.
Call(w) ==
  /\ at[w] = "idle"
  /\ Move(w, "lock")
  /\ late' = late \ {w}
  /\ answer' = [answer EXCEPT ![w] = "none"]
  /\ UNCHANGED <<requested, resets>>

Deadline(w) ==
  /\ at[w] \in {"lock", "parked", "notified"}
  /\ late' = late \cup {w}
  /\ UNCHANGED <<requested, at, answer, resets>>

Reply(w, a) ==
  /\ Move(w, "idle")
  /\ answer' = [answer EXCEPT ![w] = a]

\* `while !*requested` with the mutex held, on entry and after a notification.
Check(w) ==
  /\ at[w] \in {"lock", "notified"}
  /\ IF requested THEN Reply(w, "requested") ELSE Move(w, "parked") /\ UNCHANGED answer
  /\ UNCHANGED <<requested, late, resets>>

\* wait_until gives up on the notification and goes for the mutex.
GiveUp(w) ==
  /\ at[w] = "parked" /\ w \in late
  /\ Move(w, "timedOut")
  /\ UNCHANGED <<requested, late, answer, resets>>

\* A plausible bug: a timeout answers "elapsed" without reading the flag again.
TimedOut_Unread(w) ==
  /\ at[w] = "timedOut"
  /\ Reply(w, "elapsed")
  /\ UNCHANGED <<requested, late, resets>>

\* `return *requested`, with the mutex held again.
TimedOut(w) ==
  /\ at[w] = "timedOut"
  /\ Reply(w, IF requested THEN "requested" ELSE "elapsed")
  /\ UNCHANGED <<requested, late, resets>>

-----------------------------------------------------------------------------
(***************************************************************************)
(* request and reset.                                                      *)
(***************************************************************************)
Wake == [t \in DOMAIN at |-> IF at[t] = "parked" THEN "notified" ELSE at[t]]

\* `*requested.lock() = true`.
Request(r) ==
  /\ at[r] = "idle"
  /\ requested' = TRUE
  /\ Move(r, "notify")
  /\ UNCHANGED <<late, answer, resets>>

\* A plausible bug: notify_one.
Notify_OneWaiter(r) ==
  /\ at[r] = "notify"
  /\ \E w \in Waiters :
       at' = [at EXCEPT ![r] = "idle", ![w] = IF @ = "parked" THEN "notified" ELSE @]
  /\ UNCHANGED <<requested, late, answer, resets>>

\* notify_all, outside the mutex.
Notify(r) ==
  /\ at[r] = "notify"
  /\ at' = [Wake EXCEPT ![r] = "idle"]
  /\ UNCHANGED <<requested, late, answer, resets>>

Reset ==
  /\ resets < MaxResets
  /\ requested' = FALSE
  /\ resets' = resets + 1
  /\ UNCHANGED <<at, late, answer>>

-----------------------------------------------------------------------------
WaiterStep(w) == Check(w) \/ GiveUp(w) \/ TimedOut(w)

Next ==
  \/ \E w \in Waiters : Call(w) \/ Deadline(w) \/ WaiterStep(w)
  \/ \E r \in Requesters : Request(r) \/ Notify(r)
  \/ Reset

Spec == Init /\ [][Next]_vars

\* A thread that can run does, the mutex being held for a few instructions
\* only.  Nobody has to call anything, and a deadline may be far away.
FairSpec ==
  /\ Spec
  /\ \A w \in Waiters : WF_vars(WaiterStep(w))
  /\ \A r \in Requesters : WF_vars(Notify(r))

-----------------------------------------------------------------------------
(***************************************************************************)
(* Properties.                                                             *)
(***************************************************************************)

\* No wakeup is lost: while the flag is up, a thread sleeps only as long as
\* some requester has yet to notify -- whatever requests, resets, timeouts and
\* new waiters interleave (ShutdownFlag: "a shutdown request wakes sleeping
\* waiters immediately instead of being noticed at the next poll interval").
NoLostWakeup ==
  \A w \in Waiters :
    at[w] = "parked" /\ requested => \E r \in Requesters : at[r] = "notify"

\* wait_timeout answers false only after the full timeout and only if the flag
\* is down at that moment, even when the request comes between the timeout and
\* the mutex being taken again; and true only if the flag is up.
AnswersAreCurrent ==
  [][\A w \in Waiters :
       /\ answer[w] # "elapsed" /\ answer'[w] = "elapsed" => ~requested /\ w \in late
       /\ answer[w] # "requested" /\ answer'[w] = "requested" => requested]_vars

\* A sleeping waiter returns after a request without its deadline passing,
\* unless the flag is reset in the meantime.
RequestWakesSleepers ==
  \A w \in Waiters : (at[w] = "parked" /\ requested) ~> (at[w] = "idle" \/ ~requested)
=============================================================================
