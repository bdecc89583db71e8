------------------------- MODULE ShutdownFlagProofs -------------------------
(***************************************************************************)
(* Proofs about ShutdownFlag, for any sets of threads.                     *)
(***************************************************************************)
EXTENDS ShutdownFlag, TLAPS

\* A waiter that gave up on the notification is past its deadline.
TimedOutIsLate == \A w \in Waiters : at[w] = "timedOut" => w \in late

IInv == TypeOK /\ NoLostWakeup /\ TimedOutIsLate

\* TypeOK and the inductive invariant hold in every reachable state.  NoLostWakeup is
\* nearly inductive by itself: a waiter parks only while the flag is down, the
\* flag goes up only together with a pending notification, and that
\* notification leaves nobody parked.
THEOREM TypeCorrect == Spec => [](TypeOK /\ IInv)
<1>1. Init => IInv
  <2>1. Init => resets \in 0 .. MaxResets
    BY ShutdownAssumption DEF Init
  <2>2. QED
    BY <2>1, Zenon DEF Init, IInv, TypeOK, NoLostWakeup, TimedOutIsLate, WaiterPlaces, RequesterPlaces
<1>2. IInv /\ [Next]_vars => IInv'
  <2> SUFFICES ASSUME IInv, [Next]_vars PROVE IInv'
    OBVIOUS
  <2> USE ShutdownAssumption DEF IInv, TypeOK, NoLostWakeup, TimedOutIsLate, WaiterPlaces,
     RequesterPlaces
  <2>1. ASSUME NEW w \in Waiters, Call(w) PROVE IInv'
    BY <2>1 DEF Call, Move
  <2>2. ASSUME NEW w \in Waiters, Deadline(w) PROVE IInv'
    BY <2>2 DEF Deadline
  <2>3. ASSUME NEW w \in Waiters, Check(w) PROVE IInv'
    BY <2>3 DEF Check, Reply, Move
  <2>4. ASSUME NEW w \in Waiters, GiveUp(w) PROVE IInv'
    BY <2>4 DEF GiveUp, Move
  <2>5. ASSUME NEW w \in Waiters, TimedOut(w) PROVE IInv'
    BY <2>5 DEF TimedOut, Reply, Move
  <2>6. ASSUME NEW r \in Requesters, Request(r) PROVE IInv'
    BY <2>6 DEF Request, Move
  <2>7. ASSUME NEW r \in Requesters, Notify(r) PROVE IInv'
    BY <2>7 DEF Notify, Wake
  <2>8. ASSUME Reset PROVE IInv'
    <3>1. resets' \in 0 .. MaxResets
      BY <2>8 DEF Reset
    <3>2. QED
      BY <2>8, <3>1, Zenon DEF Reset
  <2>9. ASSUME UNCHANGED vars PROVE IInv'
    BY <2>9 DEF vars
  <2>10. QED
    BY <2>1, <2>2, <2>3, <2>4, <2>5, <2>6, <2>7, <2>8, <2>9 DEF Next, WaiterStep
<1>3. IInv => TypeOK
  BY DEF IInv
<1>4. QED
  BY <1>1, <1>2, <1>3, PTL DEF Spec

\* No wakeup is lost, whatever the interleaving of waiters, requesters and
\* resets (request, wait_timeout).
THEOREM NoLostWakeupHolds == Spec => []NoLostWakeup
<1>1. IInv => NoLostWakeup
  BY DEF IInv
<1>2. QED
  BY TypeCorrect, <1>1, PTL

\* What wait_timeout answers is true at the moment it answers.
THEOREM AnswersAreCurrentHolds == Spec => AnswersAreCurrent
<1> DEFINE Current ==
      \A w \in Waiters :
        /\ answer[w] # "elapsed" /\ answer'[w] = "elapsed" => ~requested /\ w \in late
        /\ answer[w] # "requested" /\ answer'[w] = "requested" => requested
<1>1. IInv /\ [Next]_vars => [Current]_vars
  <2> SUFFICES ASSUME IInv, [Next]_vars PROVE [Current]_vars
    OBVIOUS
  <2> USE DEF IInv, TypeOK, TimedOutIsLate
  <2>1. ASSUME NEW w \in Waiters, Call(w) PROVE Current
    BY <2>1 DEF Call, Move
  <2>2. ASSUME NEW w \in Waiters, Check(w) PROVE Current
    BY <2>2 DEF Check, Reply, Move
  <2>3. ASSUME NEW w \in Waiters, TimedOut(w) PROVE Current
    BY <2>3 DEF TimedOut, Reply, Move
  <2>4. ASSUME UNCHANGED answer PROVE Current
    BY <2>4
  <2>5. QED
    BY <2>1, <2>2, <2>3, <2>4
       DEF Next, WaiterStep, Deadline, GiveUp, Request, Notify, Reset, vars
<1>2. QED
  <2>1. Spec => [][Current]_vars
    BY TypeCorrect, <1>1, PTL DEF Spec
  <2>2. QED
    BY <2>1 DEF AnswersAreCurrent
=============================================================================
