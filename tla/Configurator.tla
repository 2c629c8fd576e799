---------------------------- MODULE Configurator ----------------------------
(***************************************************************************)
(* A configuration struct in RAM and its copy in the external flash, as    *)
(* Configurator keeps the settings and MqttManager the connections: a       *)
(* setter compares with RAM, changes RAM and saves the whole struct under a *)
(* lock; init loads it and repairs what reads as erased.                   *)
(* secure_write is one step here, as ExtMemJournal shows, and may fail.    *)
(***************************************************************************)
CONSTANTS
    Threads,        \* the threads that call setters
    Fields,         \* the fields of the struct
    Corrected,      \* the fields set_defaults repairs: all but alias
    Values,         \* their values
    Default,        \* the defaults
    Erased,         \* what an erased field reads as: all bits one
    None            \* no thread, no value

ASSUME ConfigAssumption ==
    /\ Corrected \subseteq Fields
    /\ Default \in [Fields -> Values \ {Erased}]
    /\ Erased \in Values
    /\ None \notin Threads \cup Values

VARIABLES
    on,             \* _initialised
    ram,            \* _config
    flash,          \* its copy in EXTPART_CONFIG
    lock,           \* _lock: its holder
    pc, call,       \* where a thread is in a setter, and its arguments
    acked,          \* history: the value last set, to be saved, and answered with OK
    hollow,         \* history: fields of acked answered while the flash had another value
    unsaved         \* history: fields whose last save failed or was not asked for

threadVars == <<pc, call>>
history == <<acked, hollow, unsaved>>
vars == <<on, ram, flash, lock, threadVars, history>>

Config == [Fields -> Values]
\* A setter of a number can be given any bits; an alias is never all ones.
Call == {c \in [field : Fields, val : Values, save : BOOLEAN] :
             c.val = Erased => c.field \in Corrected}

\* Variant: what reads as erased is left without a value.
set_defaultsNone(c) == [f \in Fields |-> IF c[f] = Erased THEN None ELSE c[f]]

\* set_defaults of a struct c that has been read.
set_defaults(c) ==
    IF \A f \in Fields : c[f] = Erased
    THEN Default
    ELSE [f \in Fields |-> IF f \in Corrected /\ c[f] = Erased THEN Default[f] ELSE c[f]]

\* The fields in which two structs differ.
Differing(c, d) == {f \in Fields : c[f] # d[f]}

Init ==
    /\ on = FALSE
    /\ ram = [f \in Fields |-> Erased]
    /\ flash = [f \in Fields |-> Erased]
    /\ lock = None
    /\ pc = [t \in Threads |-> "idle"]
    /\ call \in [Threads -> Call]
    /\ acked = [f \in Fields |-> None]
    /\ hollow = {}
    /\ unsaved = {}

-----------------------------------------------------------------------------
(* A setter.                                                               *)

Set(t, c) ==
    /\ on
    /\ pc[t] = "idle"
    /\ call' = [call EXCEPT ![t] = c]
    /\ pc' = [pc EXCEPT ![t] = "lock"]
    /\ UNCHANGED <<on, ram, flash, lock, history>>

\* _lock.lock(ms) gives up: CONFIG_ERROR_BUSY.
LockTimeout(t) ==
    /\ pc[t] = "lock"
    /\ lock # None
    /\ pc' = [pc EXCEPT ![t] = "idle"]
    /\ UNCHANGED <<on, ram, flash, lock, call, history>>

\* The value of field f is promised to nobody.
Forget(f) == acked' = [acked EXCEPT ![f] = None] /\ hollow' = hollow \ {f}

\* The lock is taken and the parameter has not changed: CONFIG_OK, and nothing
\* is saved although the caller may have asked for it.
Unchanged(t) ==
    LET f == call[t].field IN
    /\ pc[t] = "lock"
    /\ lock = None
    /\ ram[f] = call[t].val
    /\ pc' = [pc EXCEPT ![t] = "idle"]
    /\ IF call[t].save
       THEN /\ acked' = [acked EXCEPT ![f] = call[t].val]
            /\ hollow' = IF flash[f] = ram[f] THEN hollow \ {f} ELSE hollow \cup {f}
       ELSE UNCHANGED <<acked, hollow>>
    /\ UNCHANGED <<on, ram, flash, lock, call, unsaved>>

\* The parameter has changed and is not to be saved: CONFIG_OK.
ChangeOnly(t) ==
    /\ pc[t] = "lock"
    /\ lock = None
    /\ ram[call[t].field] # call[t].val
    /\ ~ call[t].save
    /\ ram' = [ram EXCEPT ![call[t].field] = call[t].val]
    /\ pc' = [pc EXCEPT ![t] = "idle"]
    /\ Forget(call[t].field)
    /\ unsaved' = unsaved \cup {call[t].field}
    /\ UNCHANGED <<on, flash, lock, call>>

\* Variant: the value is in RAM before the lock is held.
ChangeUnlocked(t) ==
    /\ pc[t] = "lock"
    /\ call[t].save
    /\ ram[call[t].field] # call[t].val
    /\ ram' = [ram EXCEPT ![call[t].field] = call[t].val]
    /\ Forget(call[t].field)
    /\ lock' = t
    /\ pc' = [pc EXCEPT ![t] = "save"]
    /\ UNCHANGED <<on, flash, call, unsaved>>

\* The parameter has changed and is to be saved.
Change(t) ==
    /\ pc[t] = "lock"
    /\ lock = None
    /\ ram[call[t].field] # call[t].val
    /\ call[t].save
    /\ ram' = [ram EXCEPT ![call[t].field] = call[t].val]
    /\ Forget(call[t].field)
    /\ lock' = t
    /\ pc' = [pc EXCEPT ![t] = "save"]
    /\ UNCHANGED <<on, flash, call, unsaved>>

\* A save: every promise that is kept in RAM is kept in the flash as well.
Saved(t) ==
    /\ acked' = [acked EXCEPT ![call[t].field] = call[t].val]
    /\ hollow' = {f \in hollow : ram[f] # acked'[f]}

\* Variant: only the changed field is saved.
SaveField(t) ==
    /\ pc[t] = "save"
    /\ flash' = [flash EXCEPT ![call[t].field] = call[t].val]
    /\ lock' = None
    /\ pc' = [pc EXCEPT ![t] = "idle"]
    /\ Saved(t)
    /\ unsaved' = {}
    /\ UNCHANGED <<on, ram, call>>

\* _save_config: CONFIG_OK.
Save(t) ==
    /\ pc[t] = "save"
    /\ flash' = ram
    /\ lock' = None
    /\ pc' = [pc EXCEPT ![t] = "idle"]
    /\ Saved(t)
    /\ unsaved' = {}
    /\ UNCHANGED <<on, ram, call>>

\* Variant: the early return forgets the lock.
SaveFailsLocked(t) ==
    /\ pc[t] = "save"
    /\ pc' = [pc EXCEPT ![t] = "idle"]
    /\ unsaved' = unsaved \cup {call[t].field}
    /\ UNCHANGED <<on, ram, flash, lock, call, acked, hollow>>

\* _save_config returns an error: CONFIG_ERROR_MEMORY, and RAM stays changed.
SaveFails(t) ==
    /\ pc[t] = "save"
    /\ lock' = None
    /\ pc' = [pc EXCEPT ![t] = "idle"]
    /\ unsaved' = unsaved \cup {call[t].field}
    /\ UNCHANGED <<on, ram, flash, call, acked, hollow>>

SetterStep(t) ==
    \/ LockTimeout(t) \/ Unchanged(t) \/ ChangeOnly(t) \/ Change(t)
    \/ Save(t) \/ SaveFails(t)

-----------------------------------------------------------------------------
(* Power, init and the factory defaults.                                   *)

PowerLoss ==
    /\ on
    /\ on' = FALSE
    /\ ram' = [f \in Fields |-> Erased]
    /\ lock' = None
    /\ pc' = [t \in Threads |-> "idle"]
    /\ unsaved' = {}
    /\ UNCHANGED <<flash, call, acked, hollow>>

\* Configurator::init; a struct that was repaired is saved.
init ==
    /\ ~ on
    /\ on' = TRUE
    /\ ram' = set_defaults(flash)
    /\ flash' \in {flash, set_defaults(flash)}
    /\ unsaved' = Differing(ram', flash')
    /\ UNCHANGED <<lock, threadVars, acked, hollow>>

\* set_defaults(1) of the bootloader, where nothing else runs.
Factory ==
    /\ on
    /\ \A t \in Threads : pc[t] = "idle"
    /\ ram' = Default
    /\ flash' \in {flash, Default}
    /\ unsaved' = Differing(ram', flash')
    /\ acked' = [f \in Fields |-> None]
    /\ hollow' = {}
    /\ UNCHANGED <<on, lock, threadVars>>

Next ==
    \/ \E t \in Threads : (\E c \in Call : Set(t, c)) \/ SetterStep(t)
    \/ PowerLoss \/ init \/ Factory

Spec == Init /\ [][Next]_vars

\* A thread in a setter gets to run; secure_write and the wait for the lock end.
FairSpec == Spec /\ \A t \in Threads : WF_vars(SetterStep(t))

-----------------------------------------------------------------------------
(* Properties.                                                             *)

\* The struct, its copy, the lock and the calls.
TypeOK ==
    /\ on \in BOOLEAN
    /\ ram \in Config
    /\ flash \in Config
    /\ lock \in Threads \cup {None}
    /\ pc \in [Threads -> {"idle", "lock", "save"}]
    /\ call \in [Threads -> Call]
    /\ acked \in [Fields -> Values \cup {None}]
    /\ hollow \subseteq Fields
    /\ unsaved \subseteq Fields

\* A value set with save and answered with OK is what the next start loads. It
\* is not: after a save that failed, or a call that did not ask for one, RAM has
\* the value already, so that the next setter finds nothing to change, answers
\* OK and saves nothing.
AckedSurvives ==
    \A f \in Fields : acked[f] \notin {None, Erased} => set_defaults(flash)[f] = acked[f]

\* That setter is the only one to lose it: a value answered with OK by a setter
\* that saved it, or that found it in the flash, is what every later start
\* loads, through the failure of other saves, saves of other fields by other
\* threads and power losses at any point.
SavedSurvives ==
    \A f \in Fields \ hollow :
        acked[f] \notin {None, Erased} => set_defaults(flash)[f] = acked[f]

\* A save that failed is made up by the next one that succeeds: when nobody
\* holds the lock, RAM and flash differ in fields whose last save failed only.
RamIsSaved == on /\ lock = None => Differing(ram, flash) \subseteq unsaved

\* Every path through a setter gives the lock back.
LockReleased == \A t \in Threads : lock = t ~> lock # t
=============================================================================
