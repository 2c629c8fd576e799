-------------------------- MODULE ConfiguratorProofs --------------------------
(* Proofs about Configurator, for every set of threads, fields and values. *)
EXTENDS Configurator, TLAPS

\* Who saves holds the lock and nobody else does.
LockInv == \A t \in Threads : pc[t] = "save" <=> lock = t

\* Without power nobody is in a setter and nothing waits to be saved.
OffInv == ~ on => lock = None /\ unsaved = {} /\ \A t \in Threads : pc[t] = "idle"

\* The field that is being saved is the only other one in which RAM and flash
\* may differ, and nobody relies on its value yet.
SavingInv ==
    \A t \in Threads : lock = t =>
        /\ call[t].save
        /\ ram[call[t].field] = call[t].val
        /\ acked[call[t].field] = None
        /\ Differing(ram, flash) \subseteq unsaved \cup {call[t].field}

\* What was promised and not hollow is at least in RAM, so that any save will
\* save it again.
AckedInRam ==
    on => \A f \in Fields \ hollow : acked[f] \notin {None, Erased} => ram[f] = acked[f]

IInv ==
    /\ TypeOK
    /\ LockInv
    /\ OffInv
    /\ SavingInv
    /\ AckedInRam
    /\ RamIsSaved
    /\ SavedSurvives

-----------------------------------------------------------------------------
(* set_defaults.                                                           *)

LEMMA DefaultsType ==
    ASSUME NEW c \in Config
    PROVE  set_defaults(c) \in Config
  BY ConfigAssumption DEF Config, set_defaults

\* A value that does not read as erased is left alone.
LEMMA DefaultsKeep ==
    ASSUME NEW c \in Config, NEW f \in Fields, c[f] # Erased
    PROVE  set_defaults(c)[f] = c[f]
  BY DEF set_defaults

\* A struct that was repaired needs no second repair.
LEMMA DefaultsIdempotent ==
    ASSUME NEW c \in Config
    PROVE  set_defaults(set_defaults(c)) = set_defaults(c)
  <1> DEFINE d == set_defaults(c)
  <1>1. CASE \A f \in Fields : c[f] = Erased
    <2>1. d = Default
      BY <1>1 DEF set_defaults
    <2>2. \A f \in Fields : Default[f] # Erased
      BY ConfigAssumption
    <2>3. CASE Fields = {}
      BY <2>1, <2>3 DEF set_defaults
    <2>4. CASE Fields # {}
      <3>1. ~ \A f \in Fields : Default[f] = Erased
        BY <2>2, <2>4
      <3>2. set_defaults(Default)
                = [f \in Fields |-> IF f \in Corrected /\ Default[f] = Erased
                                    THEN Default[f] ELSE Default[f]]
        BY <3>1 DEF set_defaults
      <3>3. set_defaults(Default) = [f \in Fields |-> Default[f]]
        BY <3>2
      <3>4. Default = [f \in Fields |-> Default[f]]
        BY ConfigAssumption
      <3> QED BY <2>1, <3>3, <3>4
    <2> QED BY <2>3, <2>4
  <1>2. CASE ~ \A f \in Fields : c[f] = Erased
    <2>1. d = [f \in Fields |-> IF f \in Corrected /\ c[f] = Erased THEN Default[f] ELSE c[f]]
      BY <1>2 DEF set_defaults
    <2>2. ~ \A f \in Fields : d[f] = Erased
      BY <1>2, <2>1
    <2>3. set_defaults(d)
              = [f \in Fields |-> IF f \in Corrected /\ d[f] = Erased THEN Default[f] ELSE d[f]]
      BY <2>2 DEF set_defaults
    <2>4. \A f \in Fields : f \in Corrected => d[f] # Erased
      BY <2>1, ConfigAssumption
    <2>5. set_defaults(d) = [f \in Fields |-> d[f]]
      BY <2>3, <2>4
    <2>6. d = [f \in Fields |-> d[f]]
      BY <2>1
    <2> QED BY <2>5, <2>6
  <1> QED BY <1>1, <1>2

\* Where RAM and flash agree on a value that does not read as erased, the next
\* start loads it.
LEMMA SavedIsLoaded ==
    ASSUME NEW c \in Config, NEW d \in Config, NEW f \in Fields,
           f \notin Differing(c, d), c[f] # Erased
    PROVE  set_defaults(d)[f] = c[f]
  BY DefaultsKeep DEF Differing

-----------------------------------------------------------------------------
(* The steps of a setter.                                                  *)

\* The lock is free exactly when nobody saves; who does not save or wait for the
\* lock does not matter to it.
LEMMA SetKeeps ==
    ASSUME IInv, NEW t \in Threads, NEW c \in Call, Set(t, c)
    PROVE  IInv'
  <1>1. /\ pc' = [pc EXCEPT ![t] = "lock"]
        /\ call' = [call EXCEPT ![t] = c]
        /\ pc[t] = "idle"
        /\ on
        /\ UNCHANGED <<on, ram, flash, lock, acked, hollow, unsaved>>
        /\ pc \in [Threads -> {"idle", "lock", "save"}]
        /\ call \in [Threads -> Call]
    BY DEF IInv, TypeOK, Set, history
  <1>2. lock # t
    BY <1>1 DEF IInv, LockInv
  <1>3. TypeOK'
    BY <1>1 DEF IInv, TypeOK
  <1>4. LockInv'
    BY <1>1, <1>2 DEF IInv, LockInv
  <1>5. SavingInv'
    BY <1>1, <1>2 DEF IInv, SavingInv, Differing
  <1>6. OffInv' /\ AckedInRam' /\ RamIsSaved' /\ SavedSurvives'
    BY <1>1 DEF IInv, OffInv, AckedInRam, RamIsSaved, SavedSurvives, Differing, set_defaults
  <1> QED BY <1>3, <1>4, <1>5, <1>6 DEF IInv

LEMMA LockTimeoutKeeps ==
    ASSUME IInv, NEW t \in Threads, LockTimeout(t)
    PROVE  IInv'
  <1>1. /\ pc' = [pc EXCEPT ![t] = "idle"]
        /\ pc[t] = "lock"
        /\ UNCHANGED <<on, ram, flash, lock, call, acked, hollow, unsaved>>
        /\ pc \in [Threads -> {"idle", "lock", "save"}]
    BY DEF IInv, TypeOK, LockTimeout, history
  <1>2. TypeOK'
    BY <1>1 DEF IInv, TypeOK
  <1>3. LockInv'
    BY <1>1 DEF IInv, LockInv
  <1>4. OffInv' /\ SavingInv' /\ AckedInRam' /\ RamIsSaved' /\ SavedSurvives'
    BY <1>1 DEF IInv, OffInv, SavingInv, AckedInRam, RamIsSaved, SavedSurvives, Differing,
                set_defaults
  <1> QED BY <1>2, <1>3, <1>4 DEF IInv

\* Nothing changes; the answer is hollow when the flash has another value.
LEMMA UnchangedKeeps ==
    ASSUME IInv, NEW t \in Threads, Unchanged(t)
    PROVE  IInv'
  <1> DEFINE f0 == call[t].field
             v0 == call[t].val
  <1>1. /\ pc' = [pc EXCEPT ![t] = "idle"]
        /\ pc[t] = "lock"
        /\ lock = None
        /\ ram[f0] = v0
        /\ UNCHANGED <<on, ram, flash, lock, call, unsaved>>
        /\ pc \in [Threads -> {"idle", "lock", "save"}]
        /\ call \in [Threads -> Call]
        /\ acked \in [Fields -> Values \cup {None}]
        /\ ram \in Config /\ flash \in Config
    BY DEF IInv, TypeOK, Unchanged
  <1>2. f0 \in Fields /\ v0 \in Values
    BY <1>1 DEF Call
  <1>3. on
    BY <1>1 DEF IInv, OffInv
  <1>h. hollow \subseteq Fields /\ hollow' \subseteq Fields
    BY <1>2 DEF IInv, TypeOK, Unchanged
  <1>4. /\ acked' \in [Fields -> Values \cup {None}]
        /\ \A f \in Fields : f # f0 => acked'[f] = acked[f] /\ (f \in hollow' <=> f \in hollow)
        /\ \/ acked'[f0] = v0 /\ (f0 \notin hollow' => flash[f0] = v0)
           \/ acked'[f0] = acked[f0] /\ (f0 \in hollow' <=> f0 \in hollow)
    <2>1. CASE call[t].save
      BY <1>1, <1>2, <2>1 DEF Unchanged
    <2>2. CASE ~ call[t].save
      BY <1>1, <1>2, <2>2 DEF Unchanged
    <2> QED BY <2>1, <2>2
  <1>5. \A u \in Threads : lock # u
    BY <1>1, ConfigAssumption
  <1>6. TypeOK'
    BY <1>1, <1>4, <1>h DEF IInv, TypeOK
  <1>7. LockInv'
    BY <1>1, <1>5 DEF IInv, LockInv
  <1>8. OffInv' /\ SavingInv' /\ RamIsSaved'
    BY <1>1, <1>3, <1>5 DEF IInv, OffInv, SavingInv, RamIsSaved, Differing
  <1>9. AckedInRam'
    BY <1>1, <1>2, <1>3, <1>4 DEF IInv, AckedInRam
  <1>10. SavedSurvives'
    <2> SUFFICES ASSUME NEW f \in Fields, f \notin hollow', acked'[f] \notin {None, Erased}
                 PROVE  set_defaults(flash)[f] = acked'[f]
      BY <1>1 DEF SavedSurvives, set_defaults
    <2>1. CASE acked'[f] = acked[f] /\ f \notin hollow
      BY <2>1 DEF IInv, SavedSurvives
    <2>2. CASE f = f0 /\ acked'[f] = v0 /\ flash[f] = v0
      BY <1>1, <2>2, DefaultsKeep
    <2> QED BY <1>4, <2>1, <2>2
  <1> QED BY <1>6, <1>7, <1>8, <1>9, <1>10 DEF IInv

\* The field is one nobody relies on and RAM is ahead of the flash in it.
LEMMA ChangeOnlyKeeps ==
    ASSUME IInv, NEW t \in Threads, ChangeOnly(t)
    PROVE  IInv'
  <1> DEFINE f0 == call[t].field
             v0 == call[t].val
  <1>1. /\ pc' = [pc EXCEPT ![t] = "idle"]
        /\ pc[t] = "lock"
        /\ lock = None
        /\ ram' = [ram EXCEPT ![f0] = v0]
        /\ unsaved' = unsaved \cup {f0}
        /\ UNCHANGED <<on, flash, lock, call>>
        /\ pc \in [Threads -> {"idle", "lock", "save"}]
        /\ call \in [Threads -> Call]
        /\ acked \in [Fields -> Values \cup {None}]
        /\ ram \in Config /\ flash \in Config
    BY DEF IInv, TypeOK, ChangeOnly
  <1>2. f0 \in Fields /\ v0 \in Values
    BY <1>1 DEF Call
  <1>3. on
    BY <1>1 DEF IInv, OffInv
  <1>4. acked' = [acked EXCEPT ![f0] = None] /\ hollow' = hollow \ {f0} /\ hollow \subseteq Fields
    BY DEF ChangeOnly, Forget, IInv, TypeOK
  <1>5. \A u \in Threads : lock # u
    BY <1>1, ConfigAssumption
  <1>6. TypeOK'
    BY <1>1, <1>2, <1>4 DEF IInv, TypeOK, Config
  <1>7. LockInv' /\ OffInv' /\ SavingInv'
    BY <1>1, <1>3, <1>5 DEF IInv, LockInv, OffInv, SavingInv
  <1>8. RamIsSaved'
    BY <1>1, <1>2, <1>3 DEF IInv, RamIsSaved, Differing, Config
  <1>9. AckedInRam'
    BY <1>1, <1>2, <1>3, <1>4 DEF IInv, AckedInRam, Config
  <1>10. SavedSurvives'
    BY <1>1, <1>2, <1>4 DEF IInv, SavedSurvives, set_defaults
  <1> QED BY <1>6, <1>7, <1>8, <1>9, <1>10 DEF IInv

\* The thread takes the lock, and its field may differ from now on.
LEMMA ChangeKeeps ==
    ASSUME IInv, NEW t \in Threads, Change(t)
    PROVE  IInv'
  <1> DEFINE f0 == call[t].field
             v0 == call[t].val
  <1>1. /\ pc' = [pc EXCEPT ![t] = "save"]
        /\ pc[t] = "lock"
        /\ lock = None
        /\ lock' = t
        /\ call[t].save
        /\ ram' = [ram EXCEPT ![f0] = v0]
        /\ acked' = [acked EXCEPT ![f0] = None]
        /\ hollow' = hollow \ {f0} /\ hollow \subseteq Fields
        /\ UNCHANGED <<on, flash, call, unsaved>>
        /\ pc \in [Threads -> {"idle", "lock", "save"}]
        /\ call \in [Threads -> Call]
        /\ acked \in [Fields -> Values \cup {None}]
        /\ ram \in Config /\ flash \in Config
    BY DEF IInv, TypeOK, Change, Forget
  <1>2. f0 \in Fields /\ v0 \in Values
    BY <1>1 DEF Call
  <1>3. on
    BY <1>1 DEF IInv, OffInv
  <1>5. \A u \in Threads : lock # u
    BY <1>1, ConfigAssumption
  <1>6. TypeOK'
    BY <1>1, <1>2 DEF IInv, TypeOK, Config
  <1>7. LockInv' /\ OffInv'
    BY <1>1, <1>3, <1>5 DEF IInv, LockInv, OffInv
  <1>8. SavingInv'
    <2>1. Differing(ram', flash) \subseteq unsaved \cup {f0}
      BY <1>1, <1>2, <1>3 DEF IInv, RamIsSaved, Differing, Config
    <2>2. ram'[f0] = v0 /\ acked'[f0] = None
      BY <1>1, <1>2 DEF Config
    <2> QED BY <1>1, <2>1, <2>2 DEF SavingInv, Differing
  <1>9. RamIsSaved'
    BY <1>1, ConfigAssumption DEF RamIsSaved
  <1>10. AckedInRam'
    BY <1>1, <1>2, <1>3 DEF IInv, AckedInRam, Config
  <1>11. SavedSurvives'
    BY <1>1, <1>2 DEF IInv, SavedSurvives, set_defaults
  <1> QED BY <1>6, <1>7, <1>8, <1>9, <1>10, <1>11 DEF IInv

\* The whole struct goes to the flash: with it everything callers rely on, and
\* what earlier saves failed to bring there.
LEMMA SaveKeeps ==
    ASSUME IInv, NEW t \in Threads, Save(t)
    PROVE  IInv'
  <1> DEFINE f0 == call[t].field
             v0 == call[t].val
  <1>1. /\ pc' = [pc EXCEPT ![t] = "idle"]
        /\ pc[t] = "save"
        /\ lock' = None
        /\ flash' = ram
        /\ unsaved' = {}
        /\ UNCHANGED <<on, ram, call>>
        /\ pc \in [Threads -> {"idle", "lock", "save"}]
        /\ call \in [Threads -> Call]
        /\ acked \in [Fields -> Values \cup {None}]
        /\ ram \in Config /\ flash \in Config
    BY DEF IInv, TypeOK, Save
  <1>2. f0 \in Fields /\ v0 \in Values
    BY <1>1 DEF Call
  <1>3. on /\ lock = t
    BY <1>1 DEF IInv, OffInv, LockInv
  <1>4. call[t].save /\ ram[f0] = v0
    BY <1>3 DEF IInv, SavingInv
  <1>5. /\ acked' = [acked EXCEPT ![f0] = v0]
        /\ hollow' = {f \in hollow : ram[f] # acked'[f]} /\ hollow \subseteq Fields
    BY <1>4 DEF Save, Saved, IInv, TypeOK
  <1>6. \A u \in Threads : None # u
    BY ConfigAssumption
  <1>7. TypeOK'
    BY <1>1, <1>2, <1>5 DEF IInv, TypeOK
  <1>8. LockInv' /\ OffInv' /\ SavingInv'
    BY <1>1, <1>3, <1>6 DEF IInv, LockInv, OffInv, SavingInv
  <1>9. RamIsSaved'
    BY <1>1 DEF RamIsSaved, Differing
  <1>10. AckedInRam'
    BY <1>1, <1>2, <1>3, <1>4, <1>5 DEF IInv, AckedInRam
  <1>11. SavedSurvives'
    <2> SUFFICES ASSUME NEW f \in Fields, f \notin hollow', acked'[f] \notin {None, Erased}
                 PROVE  set_defaults(ram)[f] = acked'[f]
      BY <1>1 DEF SavedSurvives, set_defaults
    <2>1. ram[f] = acked'[f]
      BY <1>1, <1>3, <1>10 DEF AckedInRam
    <2> QED BY <1>1, <2>1, DefaultsKeep
  <1> QED BY <1>7, <1>8, <1>9, <1>10, <1>11 DEF IInv

\* The field joins the unsaved ones; nobody relies on it.
LEMMA SaveFailsKeeps ==
    ASSUME IInv, NEW t \in Threads, SaveFails(t)
    PROVE  IInv'
  <1> DEFINE f0 == call[t].field
  <1>1. /\ pc' = [pc EXCEPT ![t] = "idle"]
        /\ pc[t] = "save"
        /\ lock' = None
        /\ unsaved' = unsaved \cup {f0}
        /\ UNCHANGED <<on, ram, flash, call, acked, hollow>>
        /\ pc \in [Threads -> {"idle", "lock", "save"}]
        /\ call \in [Threads -> Call]
    BY DEF IInv, TypeOK, SaveFails
  <1>2. f0 \in Fields
    BY <1>1 DEF Call
  <1>3. on /\ lock = t
    BY <1>1 DEF IInv, OffInv, LockInv
  <1>4. \A u \in Threads : None # u
    BY ConfigAssumption
  <1>5. TypeOK'
    BY <1>1, <1>2 DEF IInv, TypeOK
  <1>6. LockInv' /\ OffInv' /\ SavingInv'
    BY <1>1, <1>3, <1>4 DEF IInv, LockInv, OffInv, SavingInv
  <1>7. RamIsSaved'
    BY <1>1, <1>3 DEF IInv, SavingInv, RamIsSaved, Differing
  <1>8. AckedInRam' /\ SavedSurvives'
    BY <1>1 DEF IInv, AckedInRam, SavedSurvives, set_defaults
  <1> QED BY <1>5, <1>6, <1>7, <1>8 DEF IInv

-----------------------------------------------------------------------------
(* Power, init and the factory defaults.                                   *)

\* What was not saved is lost; the promises stay as they were given.
LEMMA PowerLossKeeps ==
    ASSUME IInv, PowerLoss
    PROVE  IInv'
  <1>1. TypeOK'
    BY ConfigAssumption DEF IInv, TypeOK, PowerLoss, Config
  <1>2. LockInv' /\ OffInv' /\ SavingInv'
    BY ConfigAssumption DEF PowerLoss, LockInv, OffInv, SavingInv
  <1>3. AckedInRam' /\ RamIsSaved'
    BY DEF PowerLoss, AckedInRam, RamIsSaved
  <1>4. SavedSurvives'
    BY DEF IInv, PowerLoss, SavedSurvives, set_defaults
  <1> QED BY <1>1, <1>2, <1>3, <1>4 DEF IInv

\* init loads what the callers rely on, whether the repaired struct could be
\* saved or not.
LEMMA InitKeeps ==
    ASSUME IInv, init
    PROVE  IInv'
  <1> DEFINE d == set_defaults(flash)
  <1>1. /\ ~ on
        /\ on' = TRUE
        /\ ram' = d
        /\ flash' \in {flash, d}
        /\ unsaved' = Differing(ram', flash')
        /\ UNCHANGED <<lock, threadVars, acked, hollow>>
        /\ flash \in Config
    BY DEF IInv, TypeOK, init
  <1>2. d \in Config
    BY <1>1, DefaultsType
  <1>3. lock = None /\ unsaved = {} /\ \A t \in Threads : pc[t] = "idle"
    BY <1>1 DEF IInv, OffInv
  <1>4. \A t \in Threads : None # t
    BY ConfigAssumption
  <1>5. \A f \in Fields \ hollow : acked[f] \notin {None, Erased} => d[f] = acked[f]
    BY DEF IInv, SavedSurvives
  <1>6. TypeOK'
    BY <1>1, <1>2 DEF IInv, TypeOK, threadVars, Differing
  <1>7. LockInv' /\ OffInv' /\ SavingInv'
    BY <1>1, <1>3, <1>4 DEF LockInv, OffInv, SavingInv, threadVars
  <1>8. RamIsSaved'
    BY <1>1 DEF RamIsSaved, Differing
  <1>9. AckedInRam'
    BY <1>1, <1>5 DEF AckedInRam
  <1>10. SavedSurvives'
    <2>1. set_defaults(flash') = d
      BY <1>1, DefaultsIdempotent
    <2>2. \A f \in Fields \ hollow' :
              acked'[f] \notin {None, Erased} => set_defaults(flash')[f] = acked'[f]
      BY <2>1, <1>1, <1>5
    <2> QED BY <2>2 DEF SavedSurvives, set_defaults
  <1> QED BY <1>6, <1>7, <1>8, <1>9, <1>10 DEF IInv

\* Nobody relies on anything after a factory reset.
LEMMA FactoryKeeps ==
    ASSUME IInv, Factory
    PROVE  IInv'
  <1>1. TypeOK'
    BY ConfigAssumption DEF IInv, TypeOK, Factory, Config, Differing, threadVars
  <1>2. \A t \in Threads : lock # t
    BY DEF IInv, LockInv, Factory
  <1>3. LockInv' /\ OffInv' /\ SavingInv'
    BY <1>2 DEF Factory, LockInv, OffInv, SavingInv, threadVars
  <1>4. AckedInRam' /\ SavedSurvives'
    BY DEF Factory, AckedInRam, SavedSurvives
  <1>5. RamIsSaved'
    BY DEF Factory, RamIsSaved, Differing
  <1> QED BY <1>1, <1>3, <1>4, <1>5 DEF IInv

-----------------------------------------------------------------------------
(* The specification.                                                      *)

\* The invariant holds in the initial state and every step keeps it.
THEOREM Invariance == Spec => []IInv
  <1>1. Init => IInv
    <2> SUFFICES ASSUME Init PROVE IInv
      OBVIOUS
    <2>1. TypeOK
      BY ConfigAssumption DEF Init, TypeOK, Config
    <2>2. LockInv /\ OffInv /\ SavingInv
      BY ConfigAssumption DEF Init, LockInv, OffInv, SavingInv
    <2>3. AckedInRam /\ RamIsSaved /\ SavedSurvives
      BY DEF Init, AckedInRam, RamIsSaved, SavedSurvives
    <2> QED BY <2>1, <2>2, <2>3 DEF IInv
  <1>2. IInv /\ [Next]_vars => IInv'
    <2> SUFFICES ASSUME IInv, [Next]_vars PROVE IInv'
      OBVIOUS
    <2>1. ASSUME NEW t \in Threads, NEW c \in Call, Set(t, c)
          PROVE  IInv'
      BY <2>1, SetKeeps
    <2>2. ASSUME NEW t \in Threads, SetterStep(t)
          PROVE  IInv'
      BY <2>2, LockTimeoutKeeps, UnchangedKeeps, ChangeOnlyKeeps, ChangeKeeps, SaveKeeps,
         SaveFailsKeeps DEF SetterStep
    <2>3. CASE PowerLoss
      BY <2>3, PowerLossKeeps
    <2>4. CASE init
      BY <2>4, InitKeeps
    <2>5. CASE Factory
      BY <2>5, FactoryKeeps
    <2>6. CASE UNCHANGED vars
      BY <2>6 DEF vars, threadVars, history, IInv, TypeOK, LockInv, OffInv, SavingInv, AckedInRam,
                  RamIsSaved, SavedSurvives, Differing, set_defaults
    <2> QED BY <2>1, <2>2, <2>3, <2>4, <2>5, <2>6 DEF Next
  <1> QED BY <1>1, <1>2, PTL DEF Spec

\* The struct, its copy, the lock and the calls keep their types.
THEOREM TypeCorrect == Spec => []TypeOK
  <1>1. IInv => TypeOK
    BY DEF IInv
  <1> QED BY <1>1, Invariance, PTL

\* A value answered with OK by a setter that saved it, or found it saved, is what
\* init loads at every later start; only a setter that answers OK because RAM has
\* the value, when an earlier save failed or was not asked for, can lose it.
THEOREM PromiseKept == Spec => []SavedSurvives
  <1>1. IInv => SavedSurvives
    BY DEF IInv
  <1> QED BY <1>1, Invariance, PTL

\* When nobody holds the lock, _config and its copy in the flash differ in
\* fields whose save failed or was not asked for only.
THEOREM RamSaved == Spec => []RamIsSaved
  <1>1. IInv => RamIsSaved
    BY DEF IInv
  <1> QED BY <1>1, Invariance, PTL
=============================================================================
