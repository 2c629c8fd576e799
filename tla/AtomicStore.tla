----------------------------- MODULE AtomicStore -----------------------------
(***************************************************************************)
(* What ExtMem::secure_write promises to its callers (Configurator and     *)
(* BinManager keep every persistent flag through it): a call changes the   *)
(* stored pages in one indivisible step or not at all, it returns          *)
(* EXTMEM_OK only after that step, and a power loss forgets calls but      *)
(* never a change that was made.                                           *)
(*                                                                         *)
(* A patch is a function from page numbers to page contents: the data and  *)
(* the place of one call.                                                  *)
(***************************************************************************)
EXTENDS FlashGeometry

CONSTANTS
    Threads,    \* the threads that call secure_write
    NoCall      \* not an element of Patch

VARIABLES
    store,      \* the contents of the memory
    call,       \* call[t]: the argument of t's running call, or NoCall
    done,       \* done[t]: the running call of t has taken effect
    ret         \* ret[t]: what t's last call returned

vars == <<store, call, done, ret>>

Init ==
    /\ store \in [Subsector -> [PageNo -> Content]]
    /\ call = [t \in Threads |-> NoCall]
    /\ done = [t \in Threads |-> FALSE]
    /\ ret = [t \in Threads |-> "none"]

Call(t) ==
    /\ call[t] = NoCall
    /\ \E p \in Patch : call' = [call EXCEPT ![t] = p]
    /\ ret' = [ret EXCEPT ![t] = "none"]
    /\ UNCHANGED <<store, done>>

Take(t) ==
    /\ call[t] # NoCall
    /\ ~ done[t]
    /\ store' = Apply(store, call[t])
    /\ done' = [done EXCEPT ![t] = TRUE]
    /\ UNCHANGED <<call, ret>>

Acknowledge(t) ==
    /\ done[t]
    /\ call' = [call EXCEPT ![t] = NoCall]
    /\ done' = [done EXCEPT ![t] = FALSE]
    /\ ret' = [ret EXCEPT ![t] = "OK"]
    /\ UNCHANGED store

Refuse(t) ==
    /\ call[t] # NoCall
    /\ ~ done[t]
    /\ call' = [call EXCEPT ![t] = NoCall]
    /\ \E e \in {"OVERLAP", "TIMEOUT"} : ret' = [ret EXCEPT ![t] = e]
    /\ UNCHANGED <<store, done>>

Forget ==
    /\ call' = [t \in Threads |-> NoCall]
    /\ done' = [t \in Threads |-> FALSE]
    /\ ret' = [t \in Threads |-> "none"]
    /\ UNCHANGED store

Next ==
    \/ \E t \in Threads : Call(t) \/ Take(t) \/ Acknowledge(t) \/ Refuse(t)
    \/ Forget

Spec == Init /\ [][Next]_vars
=============================================================================
