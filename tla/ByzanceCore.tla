----------------------------- MODULE ByzanceCore -----------------------------
(***************************************************************************)
(* The count-down to a restart: ByzanceCore::restart runs in the threads   *)
(* that ask for a restart or postpone it, ticker_call interrupts them every *)
(* second and resets the device when the count-down ends.                  *)
(***************************************************************************)
EXTENDS Integers

CONSTANTS
    Users,          \* threads of the user application that postpone
    MaxSec,         \* bound: seconds of a postponement
    MaxPostpone,    \* bound: number of postponements
    MaxLate         \* bound: ticks during one call of restart

ASSUME CoreAssumption ==
    /\ "byzance" \notin Users
    /\ MaxSec \in Nat \ {0}
    /\ MaxPostpone \in Nat
    /\ MaxLate \in Nat

VARIABLES
    pending,        \* restart_pending
    sec,            \* restart_sec
    rpc, arg,       \* where a thread is in restart(sec), and its argument
    busy,           \* BinManager::is_busy()
    led,            \* _led_core_controlled
    told,           \* _bin_busy: what the busy callback said last
    left            \* postponements the user still makes

threadVars == <<rpc, arg>>
vars == <<pending, sec, threadVars, busy, led, told, left>>

Threads == Users \cup {"byzance"}

Init ==
    /\ pending = FALSE
    /\ sec = 0
    /\ rpc = [t \in Threads |-> "idle"]
    /\ arg = [t \in Threads |-> 0]
    /\ busy = FALSE
    /\ led = TRUE
    /\ told = FALSE
    /\ left = MaxPostpone

-----------------------------------------------------------------------------
(* ByzanceCore::restart in a thread, which the ticker may interrupt        *)
(* anywhere and which blocks when it logs.                                 *)

restart(t, s) ==
    /\ rpc[t] = "idle"
    /\ pending' = TRUE
    /\ arg' = [arg EXCEPT ![t] = s]
    /\ rpc' = [rpc EXCEPT ![t] = "compare"]
    /\ UNCHANGED <<sec, busy, led, told>>

\* Variant: the argument is stored in any case, one second less for the call.
CompareLess(t) ==
    /\ rpc[t] = "compare"
    /\ rpc' = [rpc EXCEPT ![t] = "store"]
    /\ arg' = [arg EXCEPT ![t] = @ - 1]
    /\ UNCHANGED <<pending, sec, busy, led, told, left>>

\* The comparison with the current value, and the log message after it.
Compare(t) ==
    /\ rpc[t] = "compare"
    /\ rpc' = [rpc EXCEPT ![t] = IF arg[t] > sec THEN "store" ELSE "idle"]
    /\ UNCHANGED <<pending, sec, arg, busy, led, told, left>>

Store(t) ==
    /\ rpc[t] = "store"
    /\ sec' = arg[t]
    /\ rpc' = [rpc EXCEPT ![t] = "idle"]
    /\ UNCHANGED <<pending, arg, busy, led, told, left>>

system_restart == restart("byzance", 1) /\ UNCHANGED left

\* Byzance::restart_postpone in a thread of the user.
restart_postpone(u, s) ==
    /\ left > 0
    /\ left' = left - 1
    /\ restart(u, s)

\* A procedure of BinManager begins or ends.
BinManagerStep ==
    /\ busy' = ~ busy
    /\ UNCHANGED <<pending, sec, threadVars, led, told, left>>

led_module(b) ==
    /\ led' = b
    /\ UNCHANGED <<pending, sec, threadVars, busy, told, left>>

-----------------------------------------------------------------------------
(* ticker_call.                                                            *)

\* Variant: the user is only told of the end.
LedPartEnd == told' = IF led THEN busy /\ told ELSE told

\* The LED part: the busy callback is called when the state has changed.
LedPart == told' = IF led THEN busy ELSE told

\* The count-down goes on.
TickCount ==
    /\ IF pending THEN sec > -MaxLate /\ sec # 1 /\ sec' = sec - 1 ELSE UNCHANGED sec
    /\ LedPart
    /\ UNCHANGED <<pending, threadVars, busy, led, left>>

\* Variants: the restart is put off by a procedure that has ended; the time is
\* added and not set.
TickPostponeAlways ==
    /\ pending
    /\ sec = 1
    /\ sec' = 2
    /\ LedPart
    /\ UNCHANGED <<pending, threadVars, busy, led, left>>

TickPostponeAdds ==
    /\ pending
    /\ sec = 1
    /\ \/ busy /\ sec' = sec + 1 /\ UNCHANGED left
       \/ ~ busy /\ left > 0 /\ left' = left - 1 /\ \E s \in 1 .. MaxSec : sec' = sec + s
    /\ LedPart
    /\ UNCHANGED <<pending, threadVars, busy, led>>

\* It ends, but the callback _restart_follows postpones: by one second while
\* BinManager is busy, or as the callback of the user wants.
TickPostpone ==
    /\ pending
    /\ sec = 1
    /\ \/ busy /\ sec' = 1 /\ UNCHANGED left
       \/ ~ busy /\ left > 0 /\ left' = left - 1 /\ sec' \in 1 .. MaxSec
    /\ LedPart
    /\ UNCHANGED <<pending, threadVars, busy, led>>

\* Variant: nobody is asked.
TickResetUnasked ==
    /\ pending
    /\ sec = 1
    /\ pending' = FALSE
    /\ sec' = 0
    /\ rpc' = [t \in Threads |-> "idle"]
    /\ arg' = [t \in Threads |-> 0]
    /\ busy' = FALSE
    /\ led' = TRUE
    /\ told' = FALSE
    /\ UNCHANGED left

\* It ends with HAL_NVIC_SystemReset.
TickReset ==
    /\ pending
    /\ sec = 1
    /\ ~ busy
    /\ pending' = FALSE
    /\ sec' = 0
    /\ rpc' = [t \in Threads |-> "idle"]
    /\ arg' = [t \in Threads |-> 0]
    /\ busy' = FALSE
    /\ led' = TRUE
    /\ told' = FALSE
    /\ UNCHANGED left

ticker_call == TickCount \/ TickPostpone \/ TickReset

RestartStep(t) == Compare(t) \/ Store(t)

Next ==
    \/ system_restart
    \/ \E u \in Users, s \in 1 .. MaxSec : restart_postpone(u, s)
    \/ \E t \in Threads : RestartStep(t)
    \/ BinManagerStep
    \/ \E b \in BOOLEAN : led_module(b)
    \/ ticker_call

Spec == Init /\ [][Next]_vars

\* The ticker fires and a thread in restart gets to run.
Fairness ==
    /\ WF_vars(ticker_call)
    /\ \A t \in Threads : WF_vars(RestartStep(t))

FairSpec == Spec /\ Fairness

-----------------------------------------------------------------------------
(* Properties.                                                             *)

\* The count-down, the calls of restart and what the ticker knows.
TypeOK ==
    /\ pending \in BOOLEAN
    /\ sec \in -MaxLate .. MaxSec
    /\ rpc \in [Threads -> {"idle", "compare", "store"}]
    /\ arg \in [Threads -> 0 .. MaxSec]
    /\ busy \in BOOLEAN
    /\ led \in BOOLEAN
    /\ told \in BOOLEAN
    /\ left \in 0 .. MaxPostpone

\* A scheduled restart is counted down from a positive number, whatever the
\* ticker did while restart was being called: a count-down that has passed
\* zero would never end.
CountdownArmed == pending /\ (\A t \in Threads : rpc[t] = "idle") => sec > 0

\* The count-down implements the pending restart of the firmware update.
Abstract == INSTANCE PendingRestart WITH scheduled <- pending
ImplementsPendingRestart == Abstract!Spec

\* A scheduled restart takes place once BinManager stays idle; the user only
\* postpones it so often.
RestartHappens == <>[](~ busy) => (pending ~> ~ pending)

\* The user is told of a procedure that stays, unless the LEDs are the user's.
BusyIsTold == <>[](busy /\ led) => <>[] told
=============================================================================
