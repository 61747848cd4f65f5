-------------------------- MODULE HostRecordProofs --------------------------
(***************************************************************************)
(* Theorems of HostRecord, for any objects, names, addresses and bounds.   *)
(* Each invariant is strengthened to an inductive one; the lemmas follow   *)
(* the operators of ControllerRuntime first and the actions after them.    *)
(***************************************************************************)
EXTENDS HostRecord, FiniteSetTheorems, TLAPS

LEMMA StepsFacts == "idle" \in Steps /\ SessionSteps \subseteq Steps \ {"idle"}
  BY DEF Steps, SessionSteps

-----------------------------------------------------------------------------
(***************************************************************************)
(* Type correctness.  CountHosts stores a cardinality, so that the tables  *)
(* are finite is part of the induction.                                    *)
(***************************************************************************)
Finite == IsFiniteSet(running) /\ IsFiniteSet(startup) /\ IsFiniteSet(wanted)

TypeInv == TypeOK /\ Finite

LEMMA ReturnType ==
  ASSUME NEW again \in BOOLEAN, RuntimeOK, pc # "idle", Return(again)
  PROVE  /\ queue' \in SUBSET Keys /\ delayed' \in SUBSET Keys
         /\ pc' = "idle" /\ key' = NoKey /\ rec' = NoObject /\ fresh' = FALSE
  BY DEF Return, RuntimeOK

LEMMA StoreType ==
  ASSUME NEW k \in Keys, NEW o \in Object \union {NoObject}, RuntimeOK, Store(k, o)
  PROVE  /\ obj' \in [Keys -> Object \union {NoObject}]
         /\ cache' \in [Keys -> Object \union {NoObject}]
         /\ lagging' \in SUBSET Keys
  BY DEF Store, RuntimeOK

LEMMA UpdateType ==
  ASSUME NEW o \in Object \union {NoObject}, NEW again \in BOOLEAN,
         RuntimeOK, pc # "idle", Update(o, again)
  PROVE  RuntimeOK' /\ pc' = "idle"
  <1>1. key \in Keys
    BY DEF RuntimeOK
  <1>2. Return(again) \/ Return(TRUE)
    BY DEF Update
  <1>3. /\ queue' \in SUBSET Keys /\ delayed' \in SUBSET Keys
        /\ pc' = "idle" /\ key' = NoKey /\ rec' = NoObject /\ fresh' = FALSE
    BY <1>2, ReturnType
  <1>4. Store(key, o) \/ UNCHANGED clusterVars
    BY DEF Update
  <1>5. /\ obj' \in [Keys -> Object \union {NoObject}]
        /\ cache' \in [Keys -> Object \union {NoObject}]
        /\ lagging' \in SUBSET Keys
    <2>1. CASE Store(key, o)
      BY <2>1, <1>1, StoreType
    <2>2. CASE UNCHANGED clusterVars
      BY <2>2 DEF clusterVars, RuntimeOK
    <2> QED BY <1>4, <2>1, <2>2
  <1>6. faults' \in 0..MaxFaults
    <2>1. faults \in 0..MaxFaults
      BY DEF RuntimeOK
    <2>2. faults' = faults \/ Fault
      BY DEF Update
    <2> QED BY <2>1, <2>2, MaxFaultsAssumption DEF Fault
  <1> QED BY <1>3, <1>5, <1>6, StepsFacts DEF RuntimeOK

LEMMA GotoType ==
  ASSUME NEW step \in Steps \ {"idle"}, RuntimeOK, pc # "idle", Goto(step)
  PROVE  RuntimeOK' /\ pc' = step
  BY DEF Goto, RuntimeOK, clusterVars, queueVars

LEMMA UserWriteType ==
  ASSUME NEW k \in Keys, NEW o \in Object \union {NoObject},
         RuntimeOK, UserWrite(k, o)
  PROVE  RuntimeOK' /\ pc' = pc
  <1>1. /\ obj' \in [Keys -> Object \union {NoObject}]
        /\ cache' \in [Keys -> Object \union {NoObject}]
        /\ lagging' \in SUBSET Keys
    BY StoreType DEF UserWrite
  <1> QED BY <1>1 DEF UserWrite, RuntimeOK, queueVars

LEMMA FirstStepType ==
  ASSUME NEW o \in Object \union {NoObject}
  PROVE  /\ FirstStep(o) \in {"idle", "erase", "removeFinalizer", "addFinalizer",
                              "countHosts"}
         /\ FirstStep(o) # "idle" => o \in Object
  <1>1. CASE o = NoObject
    BY <1>1 DEF FirstStep
  <1>2. CASE o # NoObject
    <2>1. o \in Object
      BY <1>2
    <2>2. o.deleting \in BOOLEAN /\ o.finalizer \in BOOLEAN
      BY <2>1 DEF Object
    <2>3. FirstStep(o) = IF o.deleting THEN IF o.finalizer THEN Cleanup(o) ELSE "idle"
                         ELSE IF o.finalizer THEN "countHosts" ELSE "addFinalizer"
      BY <1>2, <2>2 DEF FirstStep
    <2> QED BY <2>1, <2>3 DEF Cleanup
  <1> QED BY <1>1, <1>2

LEMMA TakeType ==
  ASSUME NEW r \in Keys, RuntimeOK, Take(r, FirstStep(cache[r]))
  PROVE  RuntimeOK' /\ pc = "idle" /\ pc' = FirstStep(cache[r])
  <1> DEFINE step == FirstStep(cache[r])
  <1>1. cache[r] \in Object \union {NoObject}
    BY DEF RuntimeOK
  <1>2. step \in Steps /\ (step # "idle" => cache[r] \in Object)
    BY <1>1, FirstStepType DEF Steps
  <1>3. /\ pc = "idle" /\ UNCHANGED <<obj, cache, lagging, delayed, faults>>
        /\ queue' = queue \ {r}
        /\ IF step = "idle" THEN UNCHANGED <<pc, key, rec, fresh>>
           ELSE pc' = step /\ key' = r /\ rec' = cache[r] /\ fresh' = (r \notin lagging)
    BY DEF Take, clusterVars, workerVars
  <1> HIDE DEF step
  <1>4. RuntimeOK' /\ pc' = step
    BY <1>2, <1>3 DEF RuntimeOK
  <1> QED BY <1>3, <1>4 DEF step

LEMMA SessionErrorType ==
  ASSUME TypeOK, pc \in SessionSteps, SessionError, faults' \in 0..MaxFaults
  PROVE  RuntimeOK' /\ count' = 0 /\ stale' = {} /\ wanted' = {}
  <1>1. pc # "idle"
    BY StepsFacts
  <1>2. CASE pc \in {"ensureHost", "write"}
    BY <1>2, <1>1 DEF SessionError, TypeOK, RuntimeOK, Steps, clusterVars, queueVars
  <1>3. CASE pc \notin {"ensureHost", "write"}
    <2>1. Return(TRUE)
      BY <1>3 DEF SessionError
    <2>2. /\ queue' \in SUBSET Keys /\ delayed' \in SUBSET Keys
          /\ pc' = "idle" /\ key' = NoKey /\ rec' = NoObject /\ fresh' = FALSE
      BY <2>1, <1>1, ReturnType DEF TypeOK
    <2> QED BY <2>2, StepsFacts DEF SessionError, TypeOK, RuntimeOK, clusterVars
  <1> QED BY <1>2, <1>3

LEMMA RouterKept ==
  ASSUME TypeInv, UNCHANGED <<routerVars, count, scriptVars, ops, drift>>,
         pc \notin {"write", "erase"} \/ pc' = pc
  PROVE  RouterOK' /\ Finite'
  BY DEF TypeInv, TypeOK, RouterOK, Finite, routerVars, scriptVars

\* The objects the worker and the users write.
LEMMA WrittenObjects ==
  /\ \A o \in Object : /\ [o EXCEPT !.finalizer = TRUE] \in Object
                       /\ [o EXCEPT !.deleting = TRUE] \in Object
                       /\ [o EXCEPT !.applied = FALSE, !.ready = "LimitReached"] \in Object
                       /\ [o EXCEPT !.ready = "ApplyFailed"] \in Object
                       /\ [o EXCEPT !.applied = TRUE, !.observed = TRUE,
                                    !.ready = "Applied"] \in Object
                       /\ \A s \in Entry :
                             [o EXCEPT !.spec = s, !.observed = FALSE] \in Object
  /\ \A s \in Entry : NewObject(s) \in Object
  BY DEF Object, NewObject, Reasons

\* Reconciles that end in a write.
LEMMA StatusWrites ==
  ASSUME TypeInv, AddFinalizer \/ LimitStatus \/ ApplyFailed \/ Applied \/ RemoveFinalizer
  PROVE  TypeInv'
  <1>1. /\ pc \in {"addFinalizer", "limitReached", "applyFailed", "applied",
                   "removeFinalizer"}
        /\ UNCHANGED <<routerVars, count, scriptVars, ops, drift>>
    BY DEF AddFinalizer, LimitStatus, ApplyFailed, Applied, RemoveFinalizer
  <1>2. RuntimeOK /\ rec \in Object
    BY <1>1 DEF TypeInv, TypeOK, RuntimeOK
  <1>3. PICK o \in Object \union {NoObject}, again \in BOOLEAN : Update(o, again)
    BY <1>2, WrittenObjects
       DEF AddFinalizer, LimitStatus, ApplyFailed, Applied, RemoveFinalizer
  <1>4. RuntimeOK'
    BY <1>1, <1>2, <1>3, UpdateType
  <1>5. RouterOK' /\ Finite'
    BY <1>1, RouterKept
  <1> QED BY <1>4, <1>5 DEF TypeInv, TypeOK

\* Reconciles in progress, and the commands of their sessions.
LEMMA SessionSteps_Type ==
  ASSUME TypeInv, CountHosts \/ HasHost \/ EnsureHost \/ NoIpHost \/ IpHost
                    \/ SaveConfiguration
  PROVE  TypeInv'
  <1> USE DEF TypeInv
  <1>1. CASE CountHosts
    <2>1. RuntimeOK' /\ pc' = "hasHost"
      BY <1>1, GotoType DEF CountHosts, Steps, TypeOK
    <2>2. Cardinality(running) \in Nat
      BY FS_CardinalityType DEF Finite
    <2> QED BY <1>1, <2>1, <2>2
            DEF CountHosts, TypeOK, RouterOK, Finite, routerVars, scriptVars
  <1>2. CASE HasHost
    <2>1. RuntimeOK' /\ pc' \notin {"write", "erase"}
      BY <1>2, GotoType DEF HasHost, Steps, TypeOK
    <2> QED BY <1>2, <2>1
            DEF HasHost, TypeOK, RouterOK, Finite, routerVars, scriptVars
  <1>3. CASE EnsureHost
    <2> DEFINE cmds == HostCommands(rec.spec, running)
    <2>1. rec.spec \in Entry
      BY <1>3 DEF EnsureHost, TypeOK, RuntimeOK, Object
    <2>2. /\ cmds.remove \in SUBSET Entry /\ cmds.add \in SUBSET Entry
          /\ IsFiniteSet(cmds.add)
      <3>1. cmds.remove \in SUBSET running /\ cmds.add \in SUBSET {rec.spec}
        BY DEF HostCommands
      <3>2. IsFiniteSet({rec.spec})
        BY FS_Singleton
      <3>3. IsFiniteSet(cmds.add)
        BY <3>1, <3>2, FS_Subset
      <3> QED BY <2>1, <3>1, <3>3 DEF TypeOK, RouterOK
    <2>3. CASE ~ValidHostIP(rec.spec)
      <3>1. Goto("applyFailed") /\ UNCHANGED scriptVars
        BY <1>3, <2>3 DEF EnsureHost
      <3>2. RuntimeOK' /\ pc' = "applyFailed"
        BY <1>3, <3>1, GotoType DEF EnsureHost, Steps, TypeOK
      <3> QED BY <1>3, <3>1, <3>2
              DEF EnsureHost, TypeOK, RouterOK, Finite, routerVars, scriptVars
    <2>4. CASE ValidHostIP(rec.spec)
      <3>1. /\ Goto(IF cmds.remove \union cmds.add = {} THEN "applied" ELSE "write")
            /\ stale' = cmds.remove /\ wanted' = cmds.add
        BY <1>3, <2>4 DEF EnsureHost
      <3> HIDE DEF cmds
      <3>2. /\ RuntimeOK'
            /\ pc' = IF cmds.remove \union cmds.add = {} THEN "applied" ELSE "write"
        BY <1>3, <3>1, GotoType DEF EnsureHost, Steps, TypeOK
      <3>3. (cmds.remove # {} \/ cmds.add # {}) => pc' = "write"
        BY <3>2
      <3> QED BY <1>3, <2>2, <3>1, <3>2, <3>3
              DEF EnsureHost, TypeOK, RouterOK, Finite, routerVars
    <2> QED BY <2>3, <2>4
  <1>4. CASE NoIpHost
    <2>1. PICK e \in stale : running' = running \ {e} /\ stale' = stale \ {e}
      BY <1>4 DEF NoIpHost
    <2>2. IsFiniteSet(running \ {e})
      BY FS_RemoveElement DEF Finite
    <2>3. RuntimeOK'
      BY <1>4 DEF NoIpHost, TypeOK, RuntimeOK, runtimeVars, clusterVars, queueVars,
                  workerVars
    <2> QED BY <1>4, <2>1, <2>2, <2>3
            DEF NoIpHost, TypeOK, RouterOK, Finite, runtimeVars, workerVars
  <1>5. CASE IpHost
    <2>1. IsFiniteSet(running \union wanted)
      BY FS_Union DEF Finite
    <2>2. RuntimeOK' /\ pc' = pc
      BY <1>5 DEF IpHost, TypeOK, RuntimeOK, runtimeVars, clusterVars, queueVars,
                  workerVars
    <2>3. IsFiniteSet({})
      BY FS_EmptySet
    <2> QED BY <1>5, <2>1, <2>2, <2>3 DEF IpHost, TypeOK, RouterOK, Finite
  <1>6. CASE SaveConfiguration
    <2>1. RuntimeOK'
      BY <1>6, GotoType DEF SaveConfiguration, Steps, TypeOK
    <2> QED BY <1>6, <2>1
            DEF SaveConfiguration, TypeOK, RouterOK, Finite, scriptVars
  <1> QED BY <1>1, <1>2, <1>3, <1>4, <1>5, <1>6

\* What happens to the worker and to the router from outside.
LEMMA Disturbances_Type ==
  ASSUME TypeInv, SessionLost \/ Crash \/ RouterReboot \/ RouterRefuses
                    \/ AdminRemove \/ AdminAdd \/ OtherSave
  PROVE  TypeInv'
  <1> USE DEF TypeInv
  <1>a. IsFiniteSet({})
    BY FS_EmptySet
  <1>b. Drift => drift' \in 0..MaxDrift
    BY BoundsAssumption DEF Drift, TypeOK, RouterOK
  <1>c. Fault => faults' \in 0..MaxFaults
    BY MaxFaultsAssumption DEF Fault, TypeOK, RuntimeOK
  <1>1. CASE SessionLost
    <2>1. RuntimeOK' /\ count' = 0 /\ stale' = {} /\ wanted' = {}
      BY <1>1, <1>c, SessionErrorType DEF SessionLost
    <2>2. startup' \in {startup, running}
      BY <1>1 DEF SessionLost
    <2> QED BY <1>1, <1>a, <2>1, <2>2 DEF SessionLost, TypeOK, RouterOK, Finite
  <1>2. CASE Crash
    <2>1. RuntimeOK'
      BY <1>2, <1>c, StepsFacts DEF Crash, Restart, TypeOK, RuntimeOK
    <2> QED BY <1>2, <1>a, <2>1 DEF Crash, TypeOK, RouterOK, Finite, routerVars
  <1>3. CASE RouterReboot
    <2>1. CASE pc \in SessionSteps
      <3>1. SessionError /\ UNCHANGED faults
        BY <1>3, <2>1 DEF RouterReboot
      <3>2. RuntimeOK' /\ count' = 0 /\ stale' = {} /\ wanted' = {}
        BY <3>1, <2>1, SessionErrorType DEF TypeOK, RuntimeOK
      <3> QED BY <1>3, <1>a, <1>b, <3>2 DEF RouterReboot, TypeOK, RouterOK, Finite
    <2>2. CASE pc \notin SessionSteps
      <3>1. UNCHANGED <<runtimeVars, count, scriptVars>>
        BY <1>3, <2>2 DEF RouterReboot
      <3> QED BY <1>3, <1>b, <3>1
              DEF RouterReboot, TypeOK, RuntimeOK, RouterOK, Finite, runtimeVars,
                  clusterVars, queueVars, workerVars, scriptVars
    <2> QED BY <2>1, <2>2
  <1>4. CASE RouterRefuses
    BY <1>4, <1>a, <1>b
       DEF RouterRefuses, TypeOK, RuntimeOK, RouterOK, Finite, runtimeVars,
           clusterVars, queueVars, workerVars, routerVars
  <1>5. CASE AdminRemove \/ AdminAdd
    <2>1. running' \in SUBSET Entry /\ IsFiniteSet(running')
      <3>1. CASE AdminRemove
        <4>1. PICK e \in running : running' = running \ {e}
          BY <3>1 DEF AdminRemove
        <4> QED BY <4>1, FS_RemoveElement DEF TypeOK, RouterOK, Finite
      <3>2. CASE AdminAdd
        <4>1. PICK e \in AdminEntries : running' = running \union {e}
          BY <3>2 DEF AdminAdd
        <4>2. e \in Entry
          BY AddrsAssumption
        <4>3. IsFiniteSet(running \union {e})
          BY FS_AddElement DEF Finite
        <4> QED BY <4>1, <4>2, <4>3 DEF TypeOK, RouterOK
      <3> QED BY <1>5, <3>1, <3>2
    <2>2. /\ startup' \in {startup, running'} /\ drift' \in 0..MaxDrift
          /\ UNCHANGED <<runtimeVars, count, scriptVars, ops>>
      BY <1>5, <1>b DEF AdminRemove, AdminAdd
    <2> QED BY <2>1, <2>2
            DEF TypeOK, RuntimeOK, RouterOK, Finite, runtimeVars,
                clusterVars, queueVars, workerVars, scriptVars
  <1>6. CASE OtherSave
    BY <1>6 DEF OtherSave, TypeOK, RuntimeOK, RouterOK, Finite, runtimeVars,
                clusterVars, queueVars, workerVars, scriptVars
  <1> QED BY <1>1, <1>2, <1>3, <1>4, <1>5, <1>6

LEMMA Events_Type ==
  ASSUME TypeInv, NEW r \in Keys,
         \/ Reconcile(r) \/ Watch(r) \/ Timer(r)
         \/ UserCreate(r) \/ UserEdit(r) \/ UserDelete(r)
  PROVE  TypeInv'
  <1> USE DEF TypeInv
  <1>a. obj[r] # NoObject => obj[r] \in Object
    BY DEF TypeOK, RuntimeOK
  <1>1. CASE Reconcile(r)
    <2>1. RuntimeOK' /\ pc = "idle" /\ pc' = FirstStep(cache[r])
      BY <1>1, TakeType DEF Reconcile, TypeOK
    <2>2. cache[r] \in Object \union {NoObject}
      BY DEF TypeOK, RuntimeOK
    <2>3. pc' # "idle" => cache[r] \in Object
      BY <2>1, <2>2, FirstStepType
    <2>4. stale' \in SUBSET Entry /\ (stale' # {} => pc' = "erase")
      BY <1>1, <2>1, <2>3 DEF Reconcile, Object
    <2>5. wanted = {}
      BY <2>1 DEF TypeOK, RouterOK
    <2> QED BY <1>1, <2>1, <2>4, <2>5
            DEF Reconcile, TypeOK, RouterOK, Finite, routerVars
  <1>2. CASE Watch(r) \/ Timer(r)
    <2>1. RuntimeOK' /\ pc' = pc
      BY <1>2 DEF Watch, Timer, CacheSync, Requeue, TypeOK, RuntimeOK, clusterVars,
                  workerVars
    <2>2. RouterOK' /\ Finite'
      BY <1>2, <2>1, RouterKept DEF Watch, Timer
    <2> QED BY <2>1, <2>2 DEF TypeOK
  <1>3. CASE UserCreate(r) \/ UserEdit(r) \/ UserDelete(r)
    <2>1. PICK o \in Object \union {NoObject} : UserWrite(r, o)
      <3>1. SpecsOf[r] \subseteq Entry
        BY SpecsAssumption
      <3>2. CASE UserCreate(r)
        BY <3>1, <3>2, WrittenObjects DEF UserCreate
      <3>3. CASE UserEdit(r)
        BY <3>1, <3>3, <1>a, WrittenObjects DEF UserEdit
      <3>4. CASE UserDelete(r)
        BY <3>4, <1>a, WrittenObjects DEF UserDelete
      <3> QED BY <1>3, <3>2, <3>3, <3>4
    <2>2. RuntimeOK' /\ pc' = pc
      BY <2>1, UserWriteType DEF TypeOK
    <2>3. UserOp
      BY <1>3 DEF UserCreate, UserEdit, UserDelete
    <2>4. ops' \in 0..MaxUserOps
      BY <2>3, BoundsAssumption DEF UserOp, TypeOK, RouterOK
    <2> QED BY <2>2, <2>3, <2>4
            DEF UserOp, TypeOK, RouterOK, Finite, routerVars, scriptVars
  <1> QED BY <1>1, <1>2, <1>3

LEMMA TypeInit == Init => TypeInv
  <1>1. IsFiniteSet({})
    BY FS_EmptySet
  <1> SUFFICES ASSUME Init PROVE TypeInv
    OBVIOUS
  <1>2. RuntimeOK
    <2>1. obj \in [Keys -> Object \union {NoObject}]
      BY DEF Init, RuntimeInit
    <2>2. cache = obj
      BY DEF Init, RuntimeInit
    <2>3. faults \in 0..MaxFaults
      BY MaxFaultsAssumption DEF Init, RuntimeInit
    <2>4. pc = "idle" /\ key = NoKey /\ rec = NoObject /\ fresh = FALSE
          /\ lagging = {} /\ queue = {} /\ delayed = {}
      BY DEF Init, RuntimeInit
    <2> QED BY <2>1, <2>2, <2>3, <2>4, StepsFacts DEF RuntimeOK
  <1>3. RouterOK /\ Finite
    BY <1>1, BoundsAssumption DEF Init, RouterOK, Finite
  <1> QED BY <1>2, <1>3 DEF TypeInv, TypeOK

LEMMA TypeNext == TypeInv /\ [Next]_vars => TypeInv'
  <1> SUFFICES ASSUME TypeInv, [Next]_vars PROVE TypeInv'
    OBVIOUS
  <1>1. CASE \E r \in Keys : \/ Reconcile(r) \/ Watch(r) \/ Timer(r)
                             \/ UserCreate(r) \/ UserEdit(r) \/ UserDelete(r)
    BY <1>1, Events_Type
  <1>2. CASE Worker
    BY <1>2, StatusWrites, SessionSteps_Type DEF Worker
  <1>3. CASE SessionLost \/ Crash \/ RouterReboot \/ RouterRefuses
               \/ AdminRemove \/ AdminAdd \/ OtherSave
    BY <1>3, Disturbances_Type
  <1>4. CASE UNCHANGED vars
    BY <1>4 DEF TypeInv, TypeOK, RuntimeOK, RouterOK, Finite, vars, runtimeVars,
                clusterVars, queueVars, workerVars, routerVars, scriptVars
  <1> QED BY <1>1, <1>2, <1>3, <1>4 DEF Next

(***************************************************************************)
(* Every variable of HostRecord keeps its type, and the worker leaves no   *)
(* copy and no unsent command behind it.                                   *)
(***************************************************************************)
THEOREM TypeCorrect == Spec => []TypeOK
  <1>1. TypeInv => TypeOK
    BY DEF TypeInv
  <1> QED BY <1>1, TypeInit, TypeNext, PTL DEF Spec

-----------------------------------------------------------------------------
(***************************************************************************)
(* The finalizer protocol.  The cache may trail the API server by any      *)
(* number of changes, and the worker's copy may be older still.  What      *)
(* makes a write safe is one fact about caches: a copy that has the        *)
(* finalizer and no deletion timestamp, however old, is a copy of an       *)
(* object that still has the finalizer (Guarded).  Nobody but the worker   *)
(* takes the finalizer off, and it does so only for a copy it knows to be  *)
(* current and deleted.                                                    *)
(***************************************************************************)
ApplySteps == {"countHosts", "hasHost", "limitReached", "ensureHost", "write",
               "applyFailed", "applied"}
CleanupSteps == {"erase", "removeFinalizer"}

\* A key nobody has changed since its last event is cached as it is.
CacheExact == \A k \in Keys : k \notin lagging => cache[k] = obj[k]

\* A deleted object is one that waits for its finalizer.
DeletedWaits ==
    \A k \in Keys : obj[k] # NoObject /\ obj[k].deleting => obj[k].finalizer

Guarded ==
    \A k \in Keys :
        cache[k] # NoObject /\ cache[k].finalizer /\ ~cache[k].deleting =>
            obj[k] # NoObject /\ obj[k].finalizer

WorkerKnows ==
    /\ fresh => rec = obj[key] /\ key \notin lagging
    /\ pc = "addFinalizer" => ~rec.finalizer /\ ~rec.deleting
    /\ pc \in ApplySteps => /\ rec.finalizer /\ ~rec.deleting
                            /\ obj[key] # NoObject /\ obj[key].finalizer
    /\ pc \in CleanupSteps => rec.deleting /\ rec.finalizer

Protocol == CacheExact /\ DeletedWaits /\ Guarded /\ WorkerKnows /\ NoLostWakeup

LEMMA MoveProtocol ==
  ASSUME RuntimeOK, Protocol, UNCHANGED <<clusterVars, queueVars, key, rec, fresh>>,
         \/ pc' = pc
         \/ pc \in ApplySteps /\ pc' \in ApplySteps
         \/ pc \in CleanupSteps /\ pc' \in CleanupSteps
  PROVE  Protocol'
  <1>1. CacheExact' /\ DeletedWaits' /\ Guarded' /\ NoLostWakeup'
    BY DEF Protocol, CacheExact, DeletedWaits, Guarded, NoLostWakeup, Exists,
           clusterVars, queueVars
  <1>2. WorkerKnows'
    BY DEF Protocol, WorkerKnows, ApplySteps, CleanupSteps, clusterVars
  <1> QED BY <1>1, <1>2 DEF Protocol

LEMMA ReturnProtocol ==
  ASSUME RuntimeOK, Protocol, pc # "idle", Return(TRUE), UNCHANGED clusterVars
  PROVE  Protocol'
  <1>1. CacheExact' /\ DeletedWaits' /\ Guarded'
    BY DEF Protocol, CacheExact, DeletedWaits, Guarded, clusterVars
  <1>2. WorkerKnows'
    BY DEF Return, WorkerKnows, ApplySteps, CleanupSteps
  <1>3. NoLostWakeup'
    BY DEF Return, Protocol, NoLostWakeup, Exists, clusterVars
  <1> QED BY <1>1, <1>2, <1>3 DEF Protocol

LEMMA UpdateProtocol ==
  ASSUME NEW o \in Object \union {NoObject}, NEW again \in BOOLEAN,
         RuntimeOK, Protocol, pc # "idle", Update(o, again),
         o # NoObject => o.finalizer,
         o = NoObject => rec.deleting,
         ~again => o = NoObject \/ o # rec
  PROVE  Protocol'
  <1>k. key \in Keys
    BY DEF RuntimeOK
  <1>1. CASE UNCHANGED clusterVars /\ Return(TRUE)
    BY <1>1, ReturnProtocol
  <1>2. CASE fresh /\ Store(key, o) /\ (Return(again) \/ Return(TRUE))
    <2>1. /\ rec = obj[key] /\ cache[key] = rec
          /\ obj' = [obj EXCEPT ![key] = o] /\ cache' = cache
          /\ lagging' = IF o = obj[key] THEN lagging ELSE lagging \union {key}
      BY <1>k, <1>2 DEF Protocol, CacheExact, WorkerKnows, Store
    <2>2. obj'[key] = o /\ \A k \in Keys \ {key} : obj'[k] = obj[k]
      BY <2>1, <1>k DEF RuntimeOK
    <2>3. CacheExact'
      BY <2>1, <2>2 DEF Protocol, CacheExact
    <2>4. DeletedWaits'
      BY <2>2 DEF Protocol, DeletedWaits
    <2>5. Guarded'
      BY <2>1, <2>2 DEF Protocol, Guarded
    <2>6. WorkerKnows'
      BY <1>2 DEF Return, WorkerKnows, ApplySteps, CleanupSteps
    <2>7. NoLostWakeup'
      <3> SUFFICES ASSUME NEW k \in Keys, obj'[k] # NoObject
                   PROVE  k \in queue' \union delayed' \union lagging' \union {key'}
        BY DEF NoLostWakeup, Exists
      <3>1. queue' = queue /\ delayed \subseteq delayed' /\ lagging \subseteq lagging'
        BY <1>2, <2>1 DEF Return
      <3>2. CASE k # key
        BY <3>1, <3>2, <2>2 DEF Protocol, NoLostWakeup, Exists
      <3>3. CASE k = key
        <4>1. CASE again
          BY <4>1, <3>3, <1>2 DEF Return
        <4>2. CASE ~again
          BY <4>2, <3>3, <2>1, <2>2
        <4> QED BY <4>1, <4>2
      <3> QED BY <3>2, <3>3
    <2> QED BY <2>3, <2>4, <2>5, <2>6, <2>7 DEF Protocol
  <1> QED BY <1>1, <1>2 DEF Update

LEMMA TakeProtocol ==
  ASSUME NEW r \in Keys, RuntimeOK, Protocol, Take(r, FirstStep(cache[r]))
  PROVE  Protocol'
  <1> DEFINE step == FirstStep(cache[r])
             o == cache[r]
  <1>0. o \in Object \union {NoObject}
    BY DEF RuntimeOK
  <1>a. /\ step = "addFinalizer" => ~o.finalizer /\ ~o.deleting
        /\ step \in ApplySteps => o # NoObject /\ o.finalizer /\ ~o.deleting
        /\ step \in CleanupSteps => o.deleting /\ o.finalizer
        /\ step = "idle" => o = NoObject \/ (o.deleting /\ ~o.finalizer)
    <2>1. CASE o = NoObject
      BY <2>1 DEF FirstStep, ApplySteps, CleanupSteps
    <2>2. CASE o # NoObject
      <3>1. o.deleting \in BOOLEAN /\ o.finalizer \in BOOLEAN
        BY <1>0, <2>2 DEF Object
      <3>2. step = IF o.deleting THEN IF o.finalizer THEN Cleanup(o) ELSE "idle"
                   ELSE IF o.finalizer THEN "countHosts" ELSE "addFinalizer"
        BY <2>2, <3>1 DEF FirstStep
      <3> QED BY <2>2, <3>1, <3>2 DEF ApplySteps, CleanupSteps, Cleanup
    <2> QED BY <2>1, <2>2
  <1>b. /\ pc = "idle" /\ UNCHANGED <<obj, cache, lagging, delayed, faults>>
        /\ queue' = queue \ {r}
        /\ IF step = "idle" THEN UNCHANGED <<pc, key, rec, fresh>>
           ELSE pc' = step /\ key' = r /\ rec' = o /\ fresh' = (r \notin lagging)
    BY DEF Take, clusterVars, workerVars
  <1>k. key = NoKey /\ ~fresh
    BY <1>b DEF RuntimeOK
  <1> HIDE DEF step
  <1>1. CacheExact' /\ DeletedWaits' /\ Guarded'
    BY <1>b DEF Protocol, CacheExact, DeletedWaits, Guarded
  <1>2. WorkerKnows'
    <2>1. CASE step = "idle"
      BY <2>1, <1>b, <1>k DEF WorkerKnows, ApplySteps, CleanupSteps
    <2>2. CASE step # "idle"
      BY <2>2, <1>a, <1>b
         DEF Protocol, CacheExact, Guarded, WorkerKnows
    <2> QED BY <2>1, <2>2
  <1>3. NoLostWakeup'
    <2>1. CASE step = "idle"
      <3>1. r \notin lagging => obj[r] = NoObject
        BY <2>1, <1>a DEF Protocol, CacheExact, DeletedWaits
      <3> QED BY <2>1, <3>1, <1>b DEF Protocol, NoLostWakeup, Exists
    <2>2. CASE step # "idle"
      BY <2>2, <1>b, <1>k, NoKeyAssumption DEF Protocol, NoLostWakeup, Exists
    <2> QED BY <2>1, <2>2
  <1> QED BY <1>1, <1>2, <1>3 DEF Protocol

\* What others do to an object keeps its finalizer, and only an object that
\* has none disappears at once.
LEMMA UserWriteProtocol ==
  ASSUME NEW k \in Keys, NEW o \in Object \union {NoObject},
         RuntimeOK, Protocol, UserWrite(k, o), o # obj[k],
         o # NoObject /\ o.deleting => o.finalizer,
         obj[k] # NoObject /\ obj[k].finalizer => o # NoObject /\ o.finalizer
  PROVE  Protocol'
  <1>1. /\ obj' = [obj EXCEPT ![k] = o] /\ cache' = cache
        /\ lagging' = lagging \union {k} /\ fresh' = (fresh /\ k # key)
        /\ UNCHANGED <<queue, delayed, pc, key, rec>>
    BY DEF UserWrite, Store, queueVars
  <1>2. obj'[k] = o /\ \A j \in Keys \ {k} : obj'[j] = obj[j]
    BY <1>1 DEF RuntimeOK
  <1>3. CacheExact'
    BY <1>1, <1>2 DEF Protocol, CacheExact
  <1>4. DeletedWaits'
    BY <1>2 DEF Protocol, DeletedWaits
  <1>5. Guarded'
    BY <1>1, <1>2 DEF Protocol, Guarded
  <1>6. WorkerKnows'
    <2>1. CASE pc = "idle"
      BY <2>1, <1>1 DEF RuntimeOK, WorkerKnows, ApplySteps, CleanupSteps
    <2>2. CASE pc # "idle"
      BY <2>2, <1>1, <1>2 DEF RuntimeOK, Protocol, WorkerKnows
    <2> QED BY <2>1, <2>2
  <1>7. NoLostWakeup'
    BY <1>1, <1>2 DEF Protocol, NoLostWakeup, Exists
  <1> QED BY <1>3, <1>4, <1>5, <1>6, <1>7 DEF Protocol

LEMMA EventsProtocol ==
  ASSUME TypeOK, Protocol, NEW r \in Keys,
         \/ Reconcile(r) \/ Watch(r) \/ Timer(r)
         \/ UserCreate(r) \/ UserEdit(r) \/ UserDelete(r)
  PROVE  Protocol'
  <1> USE DEF TypeOK
  <1>o. obj[r] # NoObject => obj[r] \in Object
    BY DEF RuntimeOK
  <1>1. CASE Reconcile(r)
    BY <1>1, TakeProtocol DEF Reconcile
  <1>2. CASE Watch(r)
    <2>1. /\ r \in lagging /\ cache' = [cache EXCEPT ![r] = obj[r]]
          /\ lagging' = lagging \ {r} /\ queue' = queue \union {r}
          /\ UNCHANGED <<obj, delayed, pc, key, rec, fresh>>
      BY <1>2 DEF Watch, CacheSync, workerVars
    <2>2. cache'[r] = obj[r] /\ \A j \in Keys \ {r} : cache'[j] = cache[j]
      BY <2>1 DEF RuntimeOK
    <2>3. CacheExact' /\ DeletedWaits' /\ Guarded'
      BY <2>1, <2>2 DEF Protocol, CacheExact, DeletedWaits, Guarded
    <2>4. WorkerKnows'
      BY <2>1 DEF Protocol, WorkerKnows
    <2>5. NoLostWakeup'
      BY <2>1 DEF Protocol, NoLostWakeup, Exists
    <2> QED BY <2>3, <2>4, <2>5 DEF Protocol
  <1>3. CASE Timer(r)
    <2>1. /\ delayed' = delayed \ {r} /\ queue' = queue \union {r}
          /\ UNCHANGED <<obj, cache, lagging, pc, key, rec, fresh>>
      BY <1>3 DEF Timer, Requeue, workerVars, clusterVars
    <2>2. NoLostWakeup'
      BY <2>1 DEF Protocol, NoLostWakeup, Exists
    <2> QED BY <2>1, <2>2
            DEF Protocol, CacheExact, DeletedWaits, Guarded, WorkerKnows
  <1>4. CASE UserCreate(r)
    <2>1. PICK s \in SpecsOf[r] : UserWrite(r, NewObject(s))
      BY <1>4 DEF UserCreate
    <2>2. NewObject(s) \in Object
      BY SpecsAssumption, WrittenObjects
    <2>3. obj[r] = NoObject /\ NewObject(s) # NoObject /\ ~NewObject(s).deleting
      BY <1>4, <2>2, NoObjectAssumption DEF UserCreate, NewObject
    <2> QED BY <2>1, <2>2, <2>3, UserWriteProtocol
  <1>5. CASE UserEdit(r)
    <2>1. PICK s \in SpecsOf[r] \ {obj[r].spec} :
             UserWrite(r, [obj[r] EXCEPT !.spec = s, !.observed = FALSE])
      BY <1>5 DEF UserEdit
    <2> DEFINE o == [obj[r] EXCEPT !.spec = s, !.observed = FALSE]
    <2>2. obj[r] # NoObject /\ obj[r] \in Object
      BY <1>5, <1>o DEF UserEdit
    <2>s. s \in Entry /\ s # obj[r].spec
      BY SpecsAssumption
    <2>3. o \in Object /\ o.spec = s /\ s # obj[r].spec
      <3>1. o \in Object
        BY <2>2, <2>s, WrittenObjects
      <3>2. o.spec = s
        BY <2>2 DEF Object
      <3> QED BY <2>s, <3>1, <3>2
    <2>4. o.deleting = obj[r].deleting /\ o.finalizer = obj[r].finalizer
      BY <2>2 DEF Object
    <2>5. o # obj[r] /\ o # NoObject
      BY <2>3, NoObjectAssumption
    <2>6. o.deleting => o.finalizer
      BY <2>2, <2>4 DEF Protocol, DeletedWaits
    <2> HIDE DEF o
    <2>7. UserWrite(r, o)
      BY <2>1 DEF o
    <2> QED BY <2>3, <2>4, <2>5, <2>6, <2>7, UserWriteProtocol
  <1>6. CASE UserDelete(r)
    <2>1. obj[r] # NoObject /\ obj[r] \in Object /\ ~obj[r].deleting
      BY <1>6, <1>o DEF UserDelete
    <2>2. CASE obj[r].finalizer
      <3> DEFINE o == [obj[r] EXCEPT !.deleting = TRUE]
      <3>1. o \in Object /\ o.deleting /\ o.finalizer
        BY <2>1, <2>2, WrittenObjects DEF Object
      <3>2. o # obj[r] /\ o # NoObject
        BY <2>1, <3>1, NoObjectAssumption
      <3>3. UserWrite(r, o)
        BY <1>6, <2>2 DEF UserDelete
      <3> HIDE DEF o
      <3> QED BY <3>1, <3>2, <3>3, UserWriteProtocol
    <2>3. CASE ~obj[r].finalizer
      <3>1. UserWrite(r, NoObject)
        BY <1>6, <2>3 DEF UserDelete
      <3> QED BY <2>1, <2>3, <3>1, UserWriteProtocol
    <2> QED BY <2>2, <2>3
  <1> QED BY <1>1, <1>2, <1>3, <1>4, <1>5, <1>6

LEMMA WorkerProtocol ==
  ASSUME TypeOK, Protocol, Worker
  PROVE  Protocol'
  <1> USE DEF TypeOK
  <1>r. pc # "idle" => rec \in Object
    BY DEF RuntimeOK
  <1>1. CASE AddFinalizer
    <2> DEFINE o == [rec EXCEPT !.finalizer = TRUE]
    <2>1. rec \in Object /\ ~rec.finalizer
      BY <1>1, <1>r DEF AddFinalizer, Protocol, WorkerKnows
    <2>2. o \in Object /\ o.finalizer /\ o # rec
      <3>1. o \in Object
        BY <2>1, WrittenObjects
      <3>2. o.finalizer
        BY <2>1 DEF Object
      <3> QED BY <2>1, <3>1, <3>2
    <2>3. Update(o, FALSE) /\ pc # "idle"
      BY <1>1 DEF AddFinalizer
    <2> HIDE DEF o
    <2> QED BY <2>2, <2>3, NoObjectAssumption, UpdateProtocol
  <1>2. CASE LimitStatus \/ ApplyFailed \/ Applied
    <2>1. pc \in ApplySteps /\ rec \in Object /\ rec.finalizer
      BY <1>2, <1>r DEF LimitStatus, ApplyFailed, Applied, Protocol, WorkerKnows,
                        ApplySteps
    <2>2. PICK o \in Object : Update(o, TRUE) /\ o.finalizer
      <3> DEFINE limited == [rec EXCEPT !.applied = FALSE, !.ready = "LimitReached"]
                 failed == [rec EXCEPT !.ready = "ApplyFailed"]
                 done == [rec EXCEPT !.applied = TRUE, !.observed = TRUE,
                                     !.ready = "Applied"]
      <3>1. limited \in Object /\ failed \in Object /\ done \in Object
        BY <2>1, WrittenObjects
      <3>2. limited.finalizer /\ failed.finalizer /\ done.finalizer
        BY <2>1 DEF Object
      <3>3. Update(limited, TRUE) \/ Update(failed, TRUE) \/ Update(done, TRUE)
        BY <1>2 DEF LimitStatus, ApplyFailed, Applied
      <3> HIDE DEF limited, failed, done
      <3> QED BY <3>1, <3>2, <3>3
    <2>3. pc # "idle"
      BY <2>1 DEF ApplySteps
    <2> QED BY <2>2, <2>3, NoObjectAssumption, UpdateProtocol
  <1>3. CASE RemoveFinalizer
    <2>1. rec.deleting /\ pc # "idle" /\ Update(NoObject, FALSE)
      BY <1>3 DEF RemoveFinalizer, Protocol, WorkerKnows, CleanupSteps
    <2> QED BY <2>1, UpdateProtocol
  <1>4. CASE CountHosts \/ HasHost \/ EnsureHost \/ SaveConfiguration
    <2>1. /\ UNCHANGED <<clusterVars, queueVars, key, rec, fresh>>
          /\ \/ pc \in ApplySteps /\ pc' \in ApplySteps
             \/ pc \in CleanupSteps /\ pc' \in CleanupSteps
      BY <1>4 DEF CountHosts, HasHost, EnsureHost, SaveConfiguration, Goto,
                  ApplySteps, CleanupSteps
    <2> QED BY <2>1, MoveProtocol
  <1>5. CASE NoIpHost \/ IpHost
    BY <1>5, MoveProtocol DEF NoIpHost, IpHost, runtimeVars, workerVars
  <1> QED BY <1>1, <1>2, <1>3, <1>4, <1>5 DEF Worker

LEMMA SessionErrorProtocol ==
  ASSUME RuntimeOK, Protocol, pc \in SessionSteps, SessionError
  PROVE  Protocol'
  <1>1. CASE pc \in {"ensureHost", "write"}
    BY <1>1, MoveProtocol DEF SessionError, ApplySteps
  <1>2. CASE pc \notin {"ensureHost", "write"}
    BY <1>2, ReturnProtocol, StepsFacts DEF SessionError
  <1> QED BY <1>1, <1>2

LEMMA DisturbancesProtocol ==
  ASSUME TypeOK, Protocol, SessionLost \/ Crash \/ RouterReboot \/ RouterRefuses
                             \/ AdminRemove \/ AdminAdd \/ OtherSave
  PROVE  Protocol'
  <1> USE DEF TypeOK
  <1>1. CASE SessionLost
    BY <1>1, SessionErrorProtocol DEF SessionLost
  <1>2. CASE Crash
    <2>1. /\ cache' = obj /\ obj' = obj /\ pc' = "idle" /\ fresh' = FALSE
          /\ queue' = {k \in Keys : obj[k] # NoObject}
      BY <1>2 DEF Crash, Restart
    <2>2. WorkerKnows'
      BY <2>1 DEF WorkerKnows, ApplySteps, CleanupSteps
    <2>3. Guarded'
      BY <2>1 DEF Guarded
    <2> QED BY <2>1, <2>2, <2>3
            DEF Protocol, CacheExact, DeletedWaits, NoLostWakeup, Exists
  <1>3. CASE RouterReboot
    <2>1. CASE pc \in SessionSteps
      BY <1>3, <2>1, SessionErrorProtocol DEF RouterReboot
    <2>2. CASE pc \notin SessionSteps
      BY <1>3, <2>2, MoveProtocol DEF RouterReboot, runtimeVars, workerVars
    <2> QED BY <2>1, <2>2
  <1>4. CASE RouterRefuses \/ AdminRemove \/ AdminAdd \/ OtherSave
    BY <1>4, MoveProtocol
       DEF RouterRefuses, AdminRemove, AdminAdd, OtherSave, runtimeVars, workerVars
  <1> QED BY <1>1, <1>2, <1>3, <1>4

LEMMA ProtocolInductive ==
  /\ Init => Protocol
  /\ TypeInv /\ Protocol /\ [Next]_vars => Protocol'
  <1>1. Init => Protocol
    <2> SUFFICES ASSUME Init PROVE Protocol
      OBVIOUS
    <2>1. /\ obj = [k \in Keys |-> NoObject] /\ cache = obj
          /\ pc = "idle" /\ fresh = FALSE
      BY DEF Init, RuntimeInit
    <2>2. WorkerKnows
      BY <2>1 DEF WorkerKnows, ApplySteps, CleanupSteps
    <2> QED BY <2>1, <2>2
            DEF Protocol, CacheExact, DeletedWaits, Guarded, NoLostWakeup, Exists
  <1>2. ASSUME TypeInv, Protocol, [Next]_vars PROVE Protocol'
    <2>t. TypeOK
      BY <1>2 DEF TypeInv
    <2>1. CASE \E r \in Keys : \/ Reconcile(r) \/ Watch(r) \/ Timer(r)
                               \/ UserCreate(r) \/ UserEdit(r) \/ UserDelete(r)
      BY <1>2, <2>t, <2>1, EventsProtocol
    <2>2. CASE Worker
      BY <1>2, <2>t, <2>2, WorkerProtocol
    <2>3. CASE SessionLost \/ Crash \/ RouterReboot \/ RouterRefuses
                 \/ AdminRemove \/ AdminAdd \/ OtherSave
      BY <1>2, <2>t, <2>3, DisturbancesProtocol
    <2>4. CASE UNCHANGED vars
      BY <1>2, <2>t, <2>4, MoveProtocol DEF TypeOK, vars, runtimeVars, workerVars
    <2> QED BY <1>2, <2>1, <2>2, <2>3, <2>4 DEF Next
  <1> QED BY <1>1, <1>2

(***************************************************************************)
(* EnsureHost writes only under a finalizer, however far the informer      *)
(* cache trails and whatever is lost or restarted.                         *)
(***************************************************************************)
THEOREM WritesAreGuarded == Spec => []WriteUnderFinalizer
  <1>1. Protocol => WriteUnderFinalizer
    BY DEF Protocol, WorkerKnows, ApplySteps, WriteUnderFinalizer, Exists
  <1> QED BY <1>1, TypeInit, TypeNext, ProtocolInductive, PTL DEF Spec

(***************************************************************************)
(* No object is ever forgotten: it is queued, on a timer, in the worker's  *)
(* hands or about to be delivered by the watch.                            *)
(***************************************************************************)
THEOREM WakeupsAreKept == Spec => []NoLostWakeup
  <1>1. Protocol => NoLostWakeup
    BY DEF Protocol
  <1> QED BY <1>1, TypeInit, TypeNext, ProtocolInductive, PTL DEF Spec

-----------------------------------------------------------------------------
(***************************************************************************)
(* The router's limit.  A reconcile that has passed the count, or the test *)
(* for the line, holds a promise that there is room for one line more; the *)
(* one worker is the only one that redeems it, and what administrators do  *)
(* meanwhile never takes the table past MaxHosts.                          *)
(***************************************************************************)
Room(table) == Cardinality(table) < Cap

Capped ==
    /\ Cardinality(running) <= Cap /\ Cardinality(startup) <= Cap
    /\ pc = "hasHost" => count >= MaxHosts \/ Room(running)
    /\ pc = "ensureHost" => rec.spec \in running \/ Room(running)
    /\ wanted # {} => wanted = {rec.spec} /\ Room(running)

LEMMA CapType == Cap \in Nat /\ MaxHosts <= Cap /\ MaxHosts \in Nat
  BY BoundsAssumption DEF Cap

LEMMA Removed ==
  ASSUME NEW table, NEW e \in table, IsFiniteSet(table)
  PROVE  /\ Cardinality(table) \in Nat /\ Cardinality(table \ {e}) \in Nat
         /\ Cardinality(table \ {e}) < Cardinality(table)
  <1>1. /\ IsFiniteSet(table \ {e})
        /\ Cardinality(table \ {e}) = Cardinality(table) - 1
    BY FS_RemoveElement
  <1>2. Cardinality(table) \in Nat /\ Cardinality(table \ {e}) \in Nat
    BY <1>1, FS_CardinalityType
  <1> QED BY <1>1, <1>2

LEMMA Added ==
  ASSUME NEW table, NEW e, IsFiniteSet(table)
  PROVE  /\ Cardinality(table) \in Nat /\ Cardinality(table \union {e}) \in Nat
         /\ Cardinality(table \union {e}) <= Cardinality(table) + 1
  <1>1. /\ IsFiniteSet(table \union {e})
        /\ Cardinality(table \union {e}) =
             IF e \in table THEN Cardinality(table) ELSE Cardinality(table) + 1
    BY FS_AddElement
  <1>2. Cardinality(table) \in Nat /\ Cardinality(table \union {e}) \in Nat
    BY <1>1, FS_CardinalityType
  <1> QED BY <1>1, <1>2

\* Steps that leave the tables alone and make no new promise.
LEMMA CappedKept ==
  ASSUME TypeInv, Capped, UNCHANGED <<running, startup>>,
         pc' \notin {"hasHost", "ensureHost"} \/ UNCHANGED <<pc, rec, count>>,
         wanted' = {} \/ UNCHANGED <<wanted, rec>>
  PROVE  Capped'
  BY DEF Capped, Room, Cap

LEMMA CappedWorker ==
  ASSUME TypeInv, Capped, Worker
  PROVE  Capped'
  <1> USE DEF TypeInv
  <1>c. Cardinality(running) \in Nat /\ Cardinality(startup) \in Nat
    BY FS_CardinalityType DEF Finite
  <1>1. CASE AddFinalizer \/ LimitStatus \/ ApplyFailed \/ Applied \/ RemoveFinalizer
    <2>1. pc' = "idle"
      BY <1>1 DEF AddFinalizer, LimitStatus, ApplyFailed, Applied, RemoveFinalizer,
                  Update, Return
    <2>2. wanted = {}
      BY <1>1 DEF AddFinalizer, LimitStatus, ApplyFailed, Applied, RemoveFinalizer,
                  TypeOK, RouterOK
    <2>3. UNCHANGED <<running, startup, wanted>>
      BY <1>1 DEF AddFinalizer, LimitStatus, ApplyFailed, Applied, RemoveFinalizer,
                  routerVars, scriptVars
    <2> QED BY <2>1, <2>2, <2>3, CappedKept
  <1>2. CASE CountHosts
    <2>1. /\ count' = Cardinality(running) /\ pc' = "hasHost"
          /\ UNCHANGED <<running, startup, wanted, rec>>
      BY <1>2 DEF CountHosts, Goto, routerVars, scriptVars
    <2>2. count' >= MaxHosts \/ Room(running)
      BY <1>c, <2>1, CapType DEF Room
    <2>3. wanted = {}
      BY <1>2 DEF CountHosts, TypeOK, RouterOK
    <2> QED BY <2>1, <2>2, <2>3 DEF Capped, Room, Cap
  <1>3. CASE HasHost
    <2>1. /\ UNCHANGED <<running, startup, wanted, rec>>
          /\ pc' = IF rec.spec \notin running /\ count >= MaxHosts
                   THEN "limitReached" ELSE "ensureHost"
      BY <1>3 DEF HasHost, Goto, LimitReached, routerVars, scriptVars
    <2>2. pc' = "ensureHost" => rec.spec \in running \/ Room(running)
      BY <1>3, <2>1 DEF HasHost, Capped
    <2>3. pc' # "hasHost"
      BY <2>1
    <2> QED BY <2>1, <2>2, <2>3 DEF Capped, Room, Cap
  <1>4. CASE EnsureHost
    <2>1. /\ UNCHANGED <<running, startup, rec>>
          /\ pc' \notin {"hasHost", "ensureHost"}
      BY <1>4 DEF EnsureHost, Goto, routerVars
    <2>2. wanted = {}
      BY <1>4 DEF EnsureHost, TypeOK, RouterOK
    <2>3. wanted' = {} \/ wanted' = {rec.spec} \ running
      BY <1>4, <2>2 DEF EnsureHost, HostCommands, scriptVars
    <2>4. wanted' # {} => wanted' = {rec.spec} /\ rec.spec \notin running
      BY <2>3
    <2>5. rec.spec \notin running => Room(running)
      BY <1>4 DEF EnsureHost, Capped
    <2> QED BY <2>1, <2>4, <2>5 DEF Capped, Room, Cap
  <1>5. CASE NoIpHost
    <2>1. PICK e \in stale : running' = running \ {e}
      BY <1>5 DEF NoIpHost
    <2>2. /\ UNCHANGED <<startup, wanted, rec, pc>>
          /\ pc \in {"write", "erase"}
      BY <1>5 DEF NoIpHost, runtimeVars, workerVars
    <2>3. /\ Cardinality(running') \in Nat
          /\ Cardinality(running') <= Cardinality(running)
      <3>1. CASE e \in running
        BY <3>1, <2>1, Removed DEF Finite
      <3>2. CASE e \notin running
        <4>1. running' = running
          BY <3>2, <2>1
        <4> QED BY <4>1, <1>c
      <3> QED BY <3>1, <3>2
    <2> QED BY <1>c, <2>2, <2>3, CapType DEF Capped, Room, Cap
  <1>6. CASE IpHost
    <2>1. /\ running' = running \union {rec.spec} /\ wanted' = {} /\ Room(running)
          /\ UNCHANGED <<startup, pc>> /\ pc = "write"
      BY <1>6 DEF IpHost, Capped, runtimeVars, workerVars
    <2>2. /\ Cardinality(running') \in Nat
          /\ Cardinality(running') <= Cardinality(running) + 1
      BY <2>1, Added DEF Finite
    <2> QED BY <1>c, <2>1, <2>2, CapType DEF Capped, Room, Cap
  <1>7. CASE SaveConfiguration
    <2>1. /\ UNCHANGED running /\ startup' = running /\ wanted' = {}
          /\ pc' \notin {"hasHost", "ensureHost"}
      BY <1>7 DEF SaveConfiguration, Goto, scriptVars
    <2> QED BY <2>1 DEF Capped, Room, Cap
  <1> QED BY <1>1, <1>2, <1>3, <1>4, <1>5, <1>6, <1>7 DEF Worker

LEMMA CappedDisturbances ==
  ASSUME TypeInv, Capped, SessionLost \/ Crash \/ RouterReboot \/ RouterRefuses
                            \/ AdminRemove \/ AdminAdd \/ OtherSave
  PROVE  Capped'
  <1> USE DEF TypeInv
  <1>c. Cardinality(running) \in Nat /\ Cardinality(startup) \in Nat
    BY FS_CardinalityType DEF Finite
  <1>e. ASSUME SessionError
        PROVE  pc' \notin {"hasHost", "ensureHost"} /\ wanted' = {}
    BY <1>e DEF SessionError, Return
  <1>1. CASE SessionLost
    <2>1. UNCHANGED running /\ startup' \in {startup, running}
      BY <1>1 DEF SessionLost
    <2>2. pc' \notin {"hasHost", "ensureHost"} /\ wanted' = {}
      BY <1>1, <1>e DEF SessionLost
    <2> QED BY <2>1, <2>2 DEF Capped, Room, Cap
  <1>2. CASE Crash
    <2>1. UNCHANGED <<running, startup>> /\ pc' = "idle" /\ wanted' = {}
      BY <1>2 DEF Crash, Restart, routerVars
    <2> QED BY <2>1, CappedKept
  <1>3. CASE RouterReboot
    <2>1. running' = startup /\ UNCHANGED startup
      BY <1>3 DEF RouterReboot
    <2>2. pc' \notin {"hasHost", "ensureHost"} /\ wanted' = {}
      <3>1. CASE pc \in SessionSteps
        BY <1>3, <3>1, <1>e DEF RouterReboot
      <3>2. CASE pc \notin SessionSteps
        <4>1. UNCHANGED <<pc, wanted>>
          BY <1>3, <3>2 DEF RouterReboot, runtimeVars, workerVars, scriptVars
        <4> QED BY <3>2, <4>1 DEF SessionSteps, TypeOK, RouterOK
      <3> QED BY <3>1, <3>2
    <2> QED BY <2>1, <2>2 DEF Capped, Room, Cap
  <1>4. CASE RouterRefuses
    BY <1>4, CappedKept DEF RouterRefuses, routerVars, runtimeVars, workerVars
  <1>5. CASE AdminRemove \/ AdminAdd
    <2>1. UNCHANGED <<pc, rec, count, wanted>> /\ startup' \in {startup, running'}
      BY <1>5 DEF AdminRemove, AdminAdd, runtimeVars, workerVars, scriptVars
    <2>2. CASE AdminRemove
      <3>1. PICK e \in running : running' = running \ {e}
        BY <2>2 DEF AdminRemove
      <3>2. /\ Cardinality(running') \in Nat
            /\ Cardinality(running') < Cardinality(running)
        BY <3>1, Removed DEF Finite
      <3>3. Cardinality(running') <= Cap /\ Cardinality(startup') <= Cap /\ Room(running)'
        BY <1>c, <2>1, <3>2, CapType DEF Capped, Room, Cap
      <3> QED BY <2>1, <3>3 DEF Capped
    <2>3. CASE AdminAdd
      <3>1. PICK e \in AdminEntries : running' = running \union {e}
        BY <2>3 DEF AdminAdd
      <3>2. Cardinality(running) < MaxHosts /\ Cap = MaxHosts + 1
        BY <2>3, <3>1 DEF AdminAdd, Cap
      <3>3. /\ Cardinality(running') \in Nat
            /\ Cardinality(running') <= Cardinality(running) + 1
        BY <3>1, Added DEF Finite
      <3>4. Cardinality(running') <= Cap /\ Cardinality(startup') <= Cap /\ Room(running)'
        BY <1>c, <2>1, <3>2, <3>3, CapType DEF Capped, Room, Cap
      <3> QED BY <2>1, <3>4 DEF Capped
    <2> QED BY <1>5, <2>2, <2>3
  <1>6. CASE OtherSave
    <2>1. startup' = running /\ UNCHANGED <<pc, rec, running, count, wanted>>
      BY <1>6 DEF OtherSave, runtimeVars, workerVars, scriptVars
    <2> QED BY <2>1 DEF Capped, Room, Cap
  <1> QED BY <1>1, <1>2, <1>3, <1>4, <1>5, <1>6

LEMMA CappedEvents ==
  ASSUME TypeInv, Capped, NEW r \in Keys,
         \/ Reconcile(r) \/ Watch(r) \/ Timer(r)
         \/ UserCreate(r) \/ UserEdit(r) \/ UserDelete(r)
  PROVE  Capped'
  <1>1. CASE Reconcile(r)
    <2>1. pc = "idle" /\ (pc' = FirstStep(cache[r]) \/ pc' = pc)
      BY <1>1 DEF Reconcile, Take, workerVars
    <2>2. pc' \notin {"hasHost", "ensureHost"}
      <3>1. cache[r] \in Object \union {NoObject}
        BY DEF TypeInv, TypeOK, RuntimeOK
      <3> QED BY <2>1, <3>1, FirstStepType
    <2>3. wanted = {} /\ UNCHANGED <<running, startup, wanted>>
      BY <1>1, <2>1 DEF Reconcile, routerVars, TypeInv, TypeOK, RouterOK
    <2> QED BY <2>2, <2>3, CappedKept
  <1>2. CASE Watch(r) \/ Timer(r)
    BY <1>2, CappedKept DEF Watch, Timer, CacheSync, Requeue, workerVars, routerVars,
                            scriptVars
  <1>3. CASE UserCreate(r) \/ UserEdit(r) \/ UserDelete(r)
    <2>1. UNCHANGED <<pc, rec>>
      BY <1>3 DEF UserCreate, UserEdit, UserDelete, UserWrite
    <2>2. UNCHANGED <<running, startup, count, wanted>>
      BY <1>3 DEF UserCreate, UserEdit, UserDelete, UserOp, routerVars, scriptVars
    <2> QED BY <2>1, <2>2, CappedKept
  <1> QED BY <1>1, <1>2, <1>3

(***************************************************************************)
(* The table of `ip host` lines never outgrows KEENETIC_MAX_HOSTS, except  *)
(* by one line where an administrator adds lines by hand.                  *)
(***************************************************************************)
THEOREM LimitIsKept == Spec => []CapRespected
  <1>1. Init => Capped
    <2>1. Cardinality({}) = 0
      BY FS_EmptySet
    <2> QED BY <2>1, CapType DEF Init, RuntimeInit, Capped
  <1>2. TypeInv /\ Capped /\ [Next]_vars => Capped'
    <2> SUFFICES ASSUME TypeInv, Capped, [Next]_vars PROVE Capped'
      OBVIOUS
    <2>1. CASE \E r \in Keys : \/ Reconcile(r) \/ Watch(r) \/ Timer(r)
                               \/ UserCreate(r) \/ UserEdit(r) \/ UserDelete(r)
      BY <2>1, CappedEvents
    <2>2. CASE Worker
      BY <2>2, CappedWorker
    <2>3. CASE SessionLost \/ Crash \/ RouterReboot \/ RouterRefuses
                 \/ AdminRemove \/ AdminAdd \/ OtherSave
      BY <2>3, CappedDisturbances
    <2>4. CASE UNCHANGED vars
      BY <2>4, CappedKept DEF vars, runtimeVars, workerVars, routerVars, scriptVars
    <2> QED BY <2>1, <2>2, <2>3, <2>4 DEF Next
  <1>3. Capped => CapRespected
    BY DEF Capped, CapRespected
  <1> QED BY <1>1, <1>2, <1>3, TypeInit, TypeNext, PTL DEF Spec
=============================================================================
