------------------------------- MODULE Timer -------------------------------
(***************************************************************************)
(* async_sleep of awaiters.h: a timerfd that fires once, in the epoll of   *)
(* the loop.  A timer that is set to zero is disarmed: it never fires.     *)
(***************************************************************************)
EXTENDS Integers

CONSTANTS Sleepers, Elapses

ASSUME ElapsesAssumption == Elapses \subseteq Nat

VARIABLE timer   \* of each coroutine: none, or the state of the one it waits for

TimerInit == timer = [c \in Sleepers |-> "none"]

\* TimerAwaiter::await_suspend
async_sleep(c) ==
    /\ timer[c] = "none"
    /\ \E elapse \in Elapses :
          timer' = [timer EXCEPT ![c] = IF elapse = 0 THEN "disarmed" ELSE "armed"]

Expire(c) == timer[c] = "armed" /\ timer' = [timer EXCEPT ![c] = "expired"]

\* TimerCallback::on_callback and await_resume, which closes the timer and so takes it
\* from the epoll.  The call that should do that has its arguments in the wrong order,
\* fails, and changes nothing.
TimerCallback(c) == timer[c] = "expired" /\ timer' = [timer EXCEPT ![c] = "none"]
=============================================================================
