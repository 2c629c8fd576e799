-------------------------- MODULE ByzanceCoreProofs --------------------------
(* Proofs about ByzanceCore, for every set of user threads and all bounds. *)
EXTENDS ByzanceCore, TLAPS

\* A call of restart in progress has a positive argument, so that whichever
\* way it ends it leaves a positive count-down.
ArgPositive == \A t \in Threads : rpc[t] # "idle" => arg[t] > 0

IInv == TypeOK /\ ArgPositive /\ CountdownArmed

-----------------------------------------------------------------------------
(* The steps of restart in a thread.                                       *)

\* The beginning of restart, by Homer's command or by a postponement: from now
\* on this thread answers for the count-down.
LEMMA RestartKeeps ==
    ASSUME IInv, NEW t \in Threads, NEW s \in 1 .. MaxSec, restart(t, s),
           left' \in 0 .. MaxPostpone
    PROVE  IInv'
  <1> USE CoreAssumption
  <1>1. /\ rpc' = [rpc EXCEPT ![t] = "compare"]
        /\ arg' = [arg EXCEPT ![t] = s]
        /\ rpc \in [Threads -> {"idle", "compare", "store"}]
        /\ arg \in [Threads -> 0 .. MaxSec]
    BY DEF IInv, TypeOK, restart
  <1>2. s \in 0 .. MaxSec /\ s > 0
    OBVIOUS
  <1>3. TypeOK'
    BY <1>1, <1>2 DEF IInv, TypeOK, restart
  <1>4. ArgPositive'
    BY <1>1, <1>2 DEF IInv, ArgPositive
  <1>5. CountdownArmed'
    <2>1. rpc'[t] # "idle"
      BY <1>1
    <2> QED BY <2>1 DEF CountdownArmed
  <1> QED BY <1>3, <1>4, <1>5 DEF IInv

\* The comparison: the argument is still to be stored, or the count-down is at
\* least as large and so positive.
LEMMA CompareKeeps ==
    ASSUME IInv, NEW t \in Threads, Compare(t)
    PROVE  IInv'
  <1> USE CoreAssumption
  <1>1. /\ rpc' = [rpc EXCEPT ![t] = IF arg[t] > sec THEN "store" ELSE "idle"]
        /\ rpc[t] = "compare"
        /\ UNCHANGED <<pending, sec, arg, busy, led, told, left>>
        /\ rpc \in [Threads -> {"idle", "compare", "store"}]
        /\ arg \in [Threads -> 0 .. MaxSec]
        /\ sec \in -MaxLate .. MaxSec
    BY DEF IInv, TypeOK, Compare
  <1>2. arg[t] > 0
    BY <1>1 DEF IInv, ArgPositive
  <1>3. TypeOK'
    BY <1>1 DEF IInv, TypeOK
  <1>4. ArgPositive'
    BY <1>1, <1>2 DEF IInv, ArgPositive
  <1>5. CASE arg[t] > sec
    <2>1. rpc'[t] # "idle"
      BY <1>1, <1>5
    <2> QED BY <2>1, <1>3, <1>4 DEF IInv, CountdownArmed
  <1>6. CASE ~ (arg[t] > sec)
    <2>1. sec > 0
      BY <1>1, <1>2, <1>6
    <2> QED BY <2>1, <1>1, <1>3, <1>4 DEF IInv, CountdownArmed
  <1> QED BY <1>5, <1>6

\* The assignment leaves the positive argument.
LEMMA StoreKeeps ==
    ASSUME IInv, NEW t \in Threads, Store(t)
    PROVE  IInv'
  <1> USE CoreAssumption
  <1>1. /\ rpc' = [rpc EXCEPT ![t] = "idle"]
        /\ rpc[t] = "store"
        /\ sec' = arg[t]
        /\ UNCHANGED <<pending, arg, busy, led, told, left>>
        /\ rpc \in [Threads -> {"idle", "compare", "store"}]
        /\ arg \in [Threads -> 0 .. MaxSec]
    BY DEF IInv, TypeOK, Store
  <1>2. arg[t] > 0
    BY <1>1 DEF IInv, ArgPositive
  <1>3. sec' \in -MaxLate .. MaxSec /\ sec' > 0
    BY <1>1, <1>2
  <1>4. TypeOK'
    BY <1>1, <1>3 DEF IInv, TypeOK
  <1>5. ArgPositive'
    BY <1>1 DEF IInv, ArgPositive
  <1> QED BY <1>3, <1>4, <1>5 DEF IInv, CountdownArmed

-----------------------------------------------------------------------------
(* The ticker, which runs between any two of those steps.                  *)

LEMMA LedPartType ==
    ASSUME TypeOK, LedPart
    PROVE  told' \in BOOLEAN
  BY DEF TypeOK, LedPart

\* Counting skips 1, so a positive count-down stays positive; one that is not
\* belongs to a call in progress, which the ticker leaves alone.
LEMMA TickCountKeeps ==
    ASSUME IInv, TickCount
    PROVE  IInv'
  <1> USE CoreAssumption
  <1>1. sec \in -MaxLate .. MaxSec /\ pending \in BOOLEAN
    BY DEF IInv, TypeOK
  <1>2. /\ sec' \in -MaxLate .. MaxSec
        /\ pending /\ sec > 0 => sec' > 0
    BY <1>1 DEF TickCount
  <1>3. UNCHANGED <<pending, threadVars, busy, led, left>>
    BY DEF TickCount
  <1>4. TypeOK'
    BY <1>2, <1>3, LedPartType DEF IInv, TypeOK, TickCount, threadVars
  <1>5. ArgPositive'
    BY <1>3 DEF IInv, ArgPositive, threadVars
  <1>6. CountdownArmed'
    BY <1>2, <1>3 DEF IInv, CountdownArmed, threadVars
  <1> QED BY <1>4, <1>5, <1>6 DEF IInv

\* A postponement sets a positive count-down.
LEMMA TickPostponeKeeps ==
    ASSUME IInv, TickPostpone
    PROVE  IInv'
  <1> USE CoreAssumption
  <1>1. left \in 0 .. MaxPostpone
    BY DEF IInv, TypeOK
  <1>2. /\ sec' \in -MaxLate .. MaxSec
        /\ sec' > 0
        /\ left' \in 0 .. MaxPostpone
    BY <1>1 DEF TickPostpone
  <1>3. UNCHANGED <<pending, threadVars, busy, led>>
    BY DEF TickPostpone
  <1>4. TypeOK'
    BY <1>2, <1>3, LedPartType DEF IInv, TypeOK, TickPostpone, threadVars
  <1>5. ArgPositive'
    BY <1>3 DEF IInv, ArgPositive, threadVars
  <1> QED BY <1>2, <1>4, <1>5 DEF IInv, CountdownArmed

LEMMA TickResetKeeps ==
    ASSUME IInv, TickReset
    PROVE  IInv'
  <1> USE CoreAssumption
  <1>1. TypeOK'
    <2>1. rpc' \in [Threads -> {"idle", "compare", "store"}] /\ arg' \in [Threads -> 0 .. MaxSec]
      BY DEF TickReset
    <2>2. sec' \in -MaxLate .. MaxSec
      BY DEF TickReset
    <2> QED BY <2>1, <2>2 DEF IInv, TypeOK, TickReset
  <1>2. ArgPositive' /\ CountdownArmed'
    BY DEF ArgPositive, CountdownArmed, TickReset
  <1> QED BY <1>1, <1>2 DEF IInv

-----------------------------------------------------------------------------
(* The specification.                                                      *)

\* The invariant holds in the initial state and every step keeps it.
THEOREM Invariance == Spec => []IInv
  <1> USE CoreAssumption
  <1>1. Init => IInv
    <2> SUFFICES ASSUME Init PROVE IInv
      OBVIOUS
    <2>1. rpc \in [Threads -> {"idle", "compare", "store"}] /\ arg \in [Threads -> 0 .. MaxSec]
      BY DEF Init
    <2>2. sec \in -MaxLate .. MaxSec /\ left \in 0 .. MaxPostpone
      BY DEF Init
    <2>3. TypeOK
      BY <2>1, <2>2 DEF Init, TypeOK
    <2>4. ArgPositive /\ CountdownArmed
      BY DEF Init, ArgPositive, CountdownArmed
    <2> QED BY <2>3, <2>4 DEF IInv
  <1>2. IInv /\ [Next]_vars => IInv'
    <2> SUFFICES ASSUME IInv, [Next]_vars PROVE IInv'
      OBVIOUS
    <2>t. left \in 0 .. MaxPostpone /\ "byzance" \in Threads /\ Users \subseteq Threads
      BY DEF IInv, TypeOK, Threads
    <2>1. CASE system_restart
      <3>1. restart("byzance", 1) /\ left' = left
        BY <2>1 DEF system_restart
      <3> QED BY <3>1, <2>t, RestartKeeps
    <2>2. ASSUME NEW u \in Users, NEW s \in 1 .. MaxSec, restart_postpone(u, s)
          PROVE  IInv'
      <3>1. restart(u, s) /\ left' \in 0 .. MaxPostpone
        BY <2>2, <2>t DEF restart_postpone
      <3> QED BY <3>1, <2>t, RestartKeeps
    <2>3. ASSUME NEW t \in Threads, RestartStep(t)
          PROVE  IInv'
      BY <2>3, CompareKeeps, StoreKeeps DEF RestartStep
    <2>4. CASE BinManagerStep
      BY <2>4 DEF BinManagerStep, IInv, TypeOK, ArgPositive, CountdownArmed, threadVars
    <2>5. ASSUME NEW b \in BOOLEAN, led_module(b)
          PROVE  IInv'
      BY <2>5 DEF led_module, IInv, TypeOK, ArgPositive, CountdownArmed, threadVars
    <2>6. CASE ticker_call
      BY <2>6, TickCountKeeps, TickPostponeKeeps, TickResetKeeps DEF ticker_call
    <2>7. CASE UNCHANGED vars
      BY <2>7 DEF vars, IInv, TypeOK, ArgPositive, CountdownArmed, threadVars
    <2> QED BY <2>1, <2>2, <2>3, <2>4, <2>5, <2>6, <2>7 DEF Next
  <1> QED BY <1>1, <1>2, PTL DEF Spec

\* The count-down, the calls and the flags keep their types.
THEOREM TypeCorrect == Spec => []TypeOK
  <1>1. IInv => TypeOK
    BY DEF IInv
  <1> QED BY <1>1, Invariance, PTL

\* restart and ticker_call leave a scheduled restart with a positive count-down
\* whenever no call is in progress, however the interrupt cuts the calls.
THEOREM AlwaysArmed == Spec => []CountdownArmed
  <1>1. IInv => CountdownArmed
    BY DEF IInv
  <1> QED BY <1>1, Invariance, PTL

\* The count-down implements the pending restart: a scheduled restart is never
\* forgotten and the device never resets while BinManager is busy.
THEOREM CountdownImplements == Spec => ImplementsPendingRestart
  <1>1. Init => Abstract!Init
    BY DEF Init, Abstract!Init
  <1>2. TypeOK /\ [Next]_vars => [Abstract!Next]_<<pending, busy>>
    <2> SUFFICES ASSUME TypeOK, [Next]_vars
                 PROVE  [Abstract!Next]_<<pending, busy>>
      OBVIOUS
    <2>1. CASE system_restart
      BY <2>1 DEF system_restart, restart, Abstract!Next, Abstract!Schedule
    <2>2. ASSUME NEW u \in Users, NEW s \in 1 .. MaxSec, restart_postpone(u, s)
          PROVE  Abstract!Next
      BY <2>2 DEF restart_postpone, restart, Abstract!Next, Abstract!Schedule
    <2>3. ASSUME NEW t \in Threads, RestartStep(t)
          PROVE  UNCHANGED <<pending, busy>>
      BY <2>3 DEF RestartStep, Compare, Store
    <2>4. CASE BinManagerStep
      BY <2>4 DEF BinManagerStep, TypeOK, Abstract!Next, Abstract!Work
    <2>5. ASSUME NEW b \in BOOLEAN, led_module(b)
          PROVE  UNCHANGED <<pending, busy>>
      BY <2>5 DEF led_module
    <2>6. CASE TickCount \/ TickPostpone
      BY <2>6 DEF TickCount, TickPostpone
    <2>7. CASE TickReset
      BY <2>7 DEF TickReset, Abstract!Next, Abstract!Reset
    <2>8. CASE UNCHANGED vars
      BY <2>8 DEF vars
    <2> QED BY <2>1, <2>2, <2>3, <2>4, <2>5, <2>6, <2>7, <2>8 DEF Next, ticker_call
  <1> QED BY <1>1, <1>2, TypeCorrect, PTL DEF Spec, ImplementsPendingRestart, Abstract!Spec
=============================================================================
