--------------------------- MODULE CustodyProofs ---------------------------
(***************************************************************************)
(* HostRecord keeps the finalizer's promise (Custody), for any bounds and  *)
(* any objects that do not share a line and whose spec never changes.      *)
(***************************************************************************)
EXTENDS HostRecordProofs

FixedSpecs == \A k \in Keys : \A s, t \in SpecsOf[k] : s = t
OwnLines == \A k, j \in Keys : \A s \in SpecsOf[k] : s \in SpecsOf[j] => k = j
NotByHand == \A k \in Keys : \A s \in SpecsOf[k] : s \notin AdminEntries

Premise == FixedSpecs /\ OwnLines /\ NotByHand

\* On the router, now or after its next reboot.
There(e) == e \in running \/ e \in startup

-----------------------------------------------------------------------------
(***************************************************************************)
(* The objects, their cached copies and the worker's copy have the spec    *)
(* that their users gave them.                                             *)
(***************************************************************************)
HasSpec(o, k) == o # NoObject => o.spec \in SpecsOf[k]

Specs ==
    /\ \A k \in Keys : HasSpec(obj[k], k) /\ HasSpec(cache[k], k)
    /\ pc # "idle" => rec.spec \in SpecsOf[key]

(***************************************************************************)
(* What a step makes of an object's life.  It vanishes in the worker's     *)
(* hands, or before it had a finalizer.                                    *)
(***************************************************************************)
Turn(r, o) ==
    LET from == Life(obj[r])
        to == Life(o)
    IN \/ from = to
       \/ from = "absent" /\ to = "new"
       \/ from = "new" /\ to \in {"guarded", "absent"}
       \/ from = "guarded" /\ to = "deleting"
       \/ /\ from = "deleting" /\ to = "absent"
          /\ pc = "removeFinalizer" /\ r = key /\ rec = obj[r]

Writes(r, o) ==
    /\ o \in Object \union {NoObject} /\ HasSpec(o, r)
    /\ obj' = [obj EXCEPT ![r] = o]
    /\ Turn(r, o)

LEMMA LifeFacts ==
  ASSUME NEW o \in Object
  PROVE  /\ o # NoObject
         /\ ~o.finalizer => Life(o) = "new"
         /\ o.finalizer /\ o.deleting => Life(o) = "deleting"
         /\ o.finalizer /\ ~o.deleting => Life(o) = "guarded"
         /\ Life(NoObject) = "absent"
  BY NoObjectAssumption DEF Life, Object

\* An update succeeds on the current version of the object, or does nothing.
LEMMA UpdateWrites ==
  ASSUME TypeOK, Protocol, Specs, NEW o \in Object \union {NoObject},
         NEW again \in BOOLEAN, pc # "idle", Update(o, again),
         HasSpec(o, key), obj[key] = rec => Turn(key, o)
  PROVE  UNCHANGED obj \/ Writes(key, o)
  <1>1. UNCHANGED obj \/ (fresh /\ Store(key, o))
    BY DEF Update, clusterVars
  <1>2. CASE fresh /\ Store(key, o)
    BY <1>2 DEF Store, Protocol, WorkerKnows, Writes
  <1> QED BY <1>1, <1>2

LEMMA WorkerWrites ==
  ASSUME TypeOK, Protocol, Specs, Worker
  PROVE  UNCHANGED obj \/ \E o : Writes(key, o) /\ UNCHANGED <<running, startup>>
  <1>r. pc # "idle" => key \in Keys /\ rec \in Object /\ rec.spec \in SpecsOf[key]
    BY DEF TypeOK, RuntimeOK, Specs
  <1>1. CASE AddFinalizer
    <2> DEFINE o == [rec EXCEPT !.finalizer = TRUE]
    <2>1. rec \in Object /\ ~rec.finalizer /\ ~rec.deleting
      BY <1>1, <1>r DEF AddFinalizer, Protocol, WorkerKnows
    <2>2. o \in Object
      BY <2>1, WrittenObjects
    <2>3. o.finalizer /\ ~o.deleting /\ o.spec = rec.spec
      BY <2>1 DEF Object
    <2>4. Update(o, FALSE) /\ pc # "idle" /\ UNCHANGED <<running, startup>>
      BY <1>1 DEF AddFinalizer, routerVars
    <2> HIDE DEF o
    <2>5. Life(rec) = "new" /\ Life(o) = "guarded"
      BY <2>1, <2>2, <2>3, LifeFacts
    <2>6. HasSpec(o, key) /\ (obj[key] = rec => Turn(key, o))
      BY <1>r, <2>3, <2>4, <2>5 DEF HasSpec, Turn
    <2> QED BY <2>2, <2>4, <2>6, UpdateWrites
  <1>2. CASE LimitStatus \/ ApplyFailed \/ Applied
    <2>1. pc # "idle" /\ rec \in Object
      BY <1>2, <1>r DEF LimitStatus, ApplyFailed, Applied
    <2>2. PICK o \in Object : /\ Update(o, TRUE) /\ o.spec = rec.spec
                              /\ o.finalizer = rec.finalizer
                              /\ o.deleting = rec.deleting
      <3> DEFINE limited == [rec EXCEPT !.applied = FALSE, !.ready = "LimitReached"]
                 failed == [rec EXCEPT !.ready = "ApplyFailed"]
                 done == [rec EXCEPT !.applied = TRUE, !.observed = TRUE,
                                     !.ready = "Applied"]
      <3>1. limited \in Object /\ failed \in Object /\ done \in Object
        BY <2>1, WrittenObjects
      <3>2. \A o \in {limited, failed, done} :
               /\ o.spec = rec.spec /\ o.finalizer = rec.finalizer
               /\ o.deleting = rec.deleting
        BY <2>1 DEF Object
      <3>3. Update(limited, TRUE) \/ Update(failed, TRUE) \/ Update(done, TRUE)
        BY <1>2 DEF LimitStatus, ApplyFailed, Applied
      <3> HIDE DEF limited, failed, done
      <3> QED BY <3>1, <3>2, <3>3
    <2>3. Life(o) = Life(rec) /\ HasSpec(o, key)
      BY <1>r, <2>1, <2>2, NoObjectAssumption DEF Life, HasSpec
    <2>4. obj[key] = rec => Turn(key, o)
      BY <2>3 DEF Turn
    <2>5. UNCHANGED <<running, startup>>
      BY <1>2 DEF LimitStatus, ApplyFailed, Applied, routerVars
    <2> QED BY <2>1, <2>2, <2>3, <2>4, <2>5, UpdateWrites
  <1>3. CASE RemoveFinalizer
    <2>1. /\ pc = "removeFinalizer" /\ rec \in Object /\ rec.deleting /\ rec.finalizer
          /\ Update(NoObject, FALSE) /\ UNCHANGED <<running, startup>>
      BY <1>3, <1>r DEF RemoveFinalizer, Protocol, WorkerKnows, CleanupSteps, routerVars
    <2>2. Life(rec) = "deleting" /\ Life(NoObject) = "absent"
      BY <2>1, LifeFacts
    <2>3. HasSpec(NoObject, key) /\ (obj[key] = rec => Turn(key, NoObject))
      BY <2>1, <2>2 DEF HasSpec, Turn
    <2> QED BY <2>1, <2>3, UpdateWrites
  <1>4. CASE CountHosts \/ HasHost \/ EnsureHost \/ SaveConfiguration
    BY <1>4 DEF CountHosts, HasHost, EnsureHost, SaveConfiguration, Goto, clusterVars
  <1>5. CASE NoIpHost \/ IpHost
    BY <1>5 DEF NoIpHost, IpHost, runtimeVars, clusterVars
  <1> QED BY <1>1, <1>2, <1>3, <1>4, <1>5 DEF Worker

LEMMA UserWrites ==
  ASSUME Premise, TypeOK, Protocol, Specs, NEW r \in Keys,
         UserCreate(r) \/ UserEdit(r) \/ UserDelete(r)
  PROVE  \E o : Writes(r, o) /\ UNCHANGED <<running, startup>>
  <1>u. UNCHANGED <<running, startup>>
    BY DEF UserCreate, UserEdit, UserDelete, UserOp, routerVars
  <1>o. obj[r] # NoObject => obj[r] \in Object /\ obj[r].spec \in SpecsOf[r]
    BY DEF TypeOK, RuntimeOK, Specs, HasSpec
  <1>1. CASE UserCreate(r)
    <2>1. PICK s \in SpecsOf[r] : obj[r] = NoObject /\ UserWrite(r, NewObject(s))
      BY <1>1 DEF UserCreate
    <2>2. NewObject(s) \in Object
      BY SpecsAssumption, WrittenObjects
    <2>3. NewObject(s).spec = s /\ ~NewObject(s).finalizer
      BY DEF NewObject
    <2>4. Life(NewObject(s)) = "new" /\ Life(obj[r]) = "absent"
      BY <2>1, <2>2, <2>3, LifeFacts
    <2>5. Writes(r, NewObject(s))
      BY <2>1, <2>2, <2>3, <2>4 DEF Writes, Turn, HasSpec, UserWrite, Store
    <2> QED BY <1>u, <2>5
  <1>2. CASE UserEdit(r)
    <2>1. PICK s \in SpecsOf[r] : obj[r] # NoObject /\ s # obj[r].spec
      BY <1>2 DEF UserEdit
    <2> QED BY <1>o, <2>1 DEF Premise, FixedSpecs
  <1>3. CASE UserDelete(r)
    <2>1. obj[r] \in Object /\ ~obj[r].deleting /\ obj[r].spec \in SpecsOf[r]
      BY <1>3, <1>o DEF UserDelete
    <2>2. CASE obj[r].finalizer
      <3> DEFINE o == [obj[r] EXCEPT !.deleting = TRUE]
      <3>1. o \in Object /\ o.deleting /\ o.finalizer /\ o.spec = obj[r].spec
        BY <2>1, <2>2, WrittenObjects DEF Object
      <3>2. obj' = [obj EXCEPT ![r] = o]
        BY <1>3, <2>2 DEF UserDelete, UserWrite, Store
      <3> HIDE DEF o
      <3>3. Life(obj[r]) = "guarded" /\ Life(o) = "deleting"
        BY <2>1, <2>2, <3>1, LifeFacts
      <3>4. Writes(r, o)
        BY <2>1, <3>1, <3>2, <3>3 DEF Writes, Turn, HasSpec
      <3> QED BY <1>u, <3>4
    <2>3. CASE ~obj[r].finalizer
      <3>1. obj' = [obj EXCEPT ![r] = NoObject]
        BY <1>3, <2>3 DEF UserDelete, UserWrite, Store
      <3>2. Life(obj[r]) = "new" /\ Life(NoObject) = "absent"
        BY <2>1, <2>3, LifeFacts
      <3>3. Writes(r, NoObject)
        BY <3>1, <3>2 DEF Writes, Turn, HasSpec
      <3> QED BY <1>u, <3>3
    <2> QED BY <2>2, <2>3
  <1> QED BY <1>1, <1>2, <1>3

\* A cached copy is an older one or a current one, and the worker's copy is the
\* cached one when it takes the key.
LEMMA CopiesAreCopies ==
  ASSUME TypeOK, [Next]_vars
  PROVE  /\ \A k \in Keys : cache'[k] \in {cache[k], obj[k]}
         /\ \/ pc' = "idle"
            \/ pc # "idle" /\ UNCHANGED <<key, rec>>
            \/ \E r \in Keys : key' = r /\ rec' = cache[r] /\ cache[r] # NoObject
  <1> USE DEF TypeOK, clusterVars, queueVars, workerVars, runtimeVars
  <1>1. CASE UNCHANGED vars
    BY <1>1 DEF vars, RuntimeOK
  <1>2. CASE Worker
    <2>1. CASE AddFinalizer \/ LimitStatus \/ ApplyFailed \/ Applied \/ RemoveFinalizer
      BY <2>1 DEF AddFinalizer, LimitStatus, ApplyFailed, Applied, RemoveFinalizer,
                  Update, Store, Return
    <2>2. CASE CountHosts \/ HasHost \/ EnsureHost \/ SaveConfiguration
      BY <2>2 DEF CountHosts, HasHost, EnsureHost, SaveConfiguration, Goto
    <2>3. CASE NoIpHost \/ IpHost
      BY <2>3 DEF NoIpHost, IpHost
    <2> QED BY <1>2, <2>1, <2>2, <2>3 DEF Worker
  <1>3. ASSUME NEW r \in Keys, Reconcile(r)
        PROVE  /\ UNCHANGED cache
               /\ pc' = "idle" \/ (key' = r /\ rec' = cache[r] /\ cache[r] # NoObject)
    BY <1>3 DEF Reconcile, Take, FirstStep
  <1>4. ASSUME NEW r \in Keys, Watch(r) \/ Timer(r)
        PROVE  /\ \A k \in Keys : cache'[k] \in {cache[k], obj[k]}
               /\ UNCHANGED <<pc, key, rec>>
    BY <1>4 DEF Watch, CacheSync, Timer, Requeue, RuntimeOK
  <1>5. ASSUME NEW r \in Keys, UserCreate(r) \/ UserEdit(r) \/ UserDelete(r)
        PROVE  UNCHANGED <<cache, pc, key, rec>>
    BY <1>5 DEF UserCreate, UserEdit, UserDelete, UserWrite, Store
  <1>6. CASE SessionLost \/ Crash \/ RouterReboot
    BY <1>6 DEF SessionLost, Crash, Restart, RouterReboot, SessionError, SessionSteps,
                Return
  <1>7. CASE RouterRefuses \/ AdminRemove \/ AdminAdd \/ OtherSave
    BY <1>7 DEF RouterRefuses, AdminRemove, AdminAdd, OtherSave
  <1> QED BY <1>1, <1>2, <1>3, <1>4, <1>5, <1>6, <1>7 DEF Next

LEMMA NextWrites ==
  ASSUME Premise, TypeOK, Protocol, Specs, [Next]_vars
  PROVE  \/ UNCHANGED obj
         \/ \E r \in Keys : \E o : Writes(r, o) /\ UNCHANGED <<running, startup>>
  <1>1. ASSUME Worker
        PROVE  \/ UNCHANGED obj
               \/ \E r \in Keys : \E o : Writes(r, o) /\ UNCHANGED <<running, startup>>
    <2>1. CASE pc = "idle"
      BY <1>1, <2>1 DEF Worker, AddFinalizer, CountHosts, HasHost, LimitStatus,
            EnsureHost, NoIpHost, IpHost, SaveConfiguration, ApplyFailed, Applied,
            RemoveFinalizer
    <2>2. CASE pc # "idle"
      <3>1. key \in Keys
        BY <2>2 DEF TypeOK, RuntimeOK
      <3> QED BY <1>1, <3>1, WorkerWrites
    <2> QED BY <2>1, <2>2
  <1>2. CASE UNCHANGED vars
    BY <1>2 DEF vars, runtimeVars, clusterVars
  <1>3. ASSUME NEW r \in Keys, UserCreate(r) \/ UserEdit(r) \/ UserDelete(r)
        PROVE  \E o : Writes(r, o) /\ UNCHANGED <<running, startup>>
    BY <1>3, UserWrites
  <1>4. ASSUME NEW r \in Keys, Reconcile(r) \/ Watch(r) \/ Timer(r)
        PROVE  UNCHANGED obj
    BY <1>4 DEF Reconcile, Take, Watch, CacheSync, Timer, Requeue, clusterVars
  <1>5. ASSUME \/ SessionLost \/ Crash \/ RouterReboot \/ RouterRefuses
               \/ AdminRemove \/ AdminAdd \/ OtherSave
        PROVE  UNCHANGED obj
    BY <1>5 DEF SessionLost, Crash, Restart, RouterReboot, SessionError, Return,
         RouterRefuses, AdminRemove, AdminAdd, OtherSave, runtimeVars, clusterVars
  <1> QED BY <1>1, <1>2, <1>3, <1>4, <1>5 DEF Next

LEMMA SpecsInductive ==
  ASSUME Premise, TypeInv, Protocol, Specs, [Next]_vars
  PROVE  Specs'
  <1>t. TypeOK
    BY DEF TypeInv
  <1>1. \A k \in Keys : HasSpec(obj'[k], k)
    <2>1. CASE UNCHANGED obj
      BY <2>1 DEF Specs
    <2>2. CASE \E r \in Keys : \E o : Writes(r, o)
      BY <2>2, <1>t DEF Specs, Writes, TypeOK, RuntimeOK
    <2> QED BY <1>t, <2>1, <2>2, NextWrites
  <1>2. \A k \in Keys : HasSpec(cache'[k], k)
    BY <1>t, CopiesAreCopies DEF Specs
  <1>3. pc' # "idle" => rec'.spec \in SpecsOf[key']
    BY <1>t, CopiesAreCopies DEF Specs, HasSpec
  <1> QED BY <1>1, <1>2, <1>3 DEF Specs, HasSpec

-----------------------------------------------------------------------------
(***************************************************************************)
(* A line that is there belongs to an object with the finalizer, and can   *)
(* be removed again.  What keeps this true is what the worker has in hand: *)
(* a session that writes adds the line of its own object, which is valid;  *)
(* one that cleans up still has to remove the line, if it is running; and  *)
(* when the finalizer goes, the line is nowhere.                           *)
(***************************************************************************)
LinesAreHeld ==
    \A k \in Keys : \A e \in SpecsOf[k] :
        There(e) => obj[k] # NoObject /\ obj[k].finalizer /\ ValidHostIP(e)

SessionKnows ==
    /\ \A w \in wanted : w = rec.spec
    /\ pc = "write" => ValidHostIP(rec.spec)
    /\ pc = "erase" => (rec.spec \in running => rec.spec \in stale)
    /\ pc = "removeFinalizer" => ~There(rec.spec)

Keeping == LinesAreHeld /\ SessionKnows

\* What a step may put on the router.
LEMMA NextTables ==
  ASSUME TypeOK, [Next]_vars, NEW e, There(e)'
  PROVE  There(e) \/ e \in AdminEntries \/ (IpHost /\ e \in wanted)
  <1> USE DEF There
  <1>1. CASE UNCHANGED <<running, startup>>
    BY <1>1
  <1>2. CASE Worker
    <2>1. CASE NoIpHost \/ IpHost \/ SaveConfiguration
      BY <2>1 DEF NoIpHost, IpHost, SaveConfiguration
    <2>2. CASE ~(NoIpHost \/ IpHost \/ SaveConfiguration)
      BY <1>2, <2>2 DEF Worker, AddFinalizer, CountHosts, HasHost, LimitStatus,
            EnsureHost, ApplyFailed, Applied, RemoveFinalizer, routerVars
    <2> QED BY <2>1, <2>2
  <1>3. CASE \E r \in Keys : \/ Reconcile(r) \/ Watch(r) \/ Timer(r)
                             \/ UserCreate(r) \/ UserEdit(r) \/ UserDelete(r)
    BY <1>3 DEF Reconcile, Watch, Timer, UserCreate, UserEdit, UserDelete, UserOp,
                routerVars
  <1>4. CASE SessionLost \/ Crash \/ RouterReboot \/ RouterRefuses
    BY <1>4 DEF SessionLost, Crash, RouterReboot, RouterRefuses, routerVars
  <1>5. CASE AdminRemove \/ AdminAdd \/ OtherSave
    BY <1>5 DEF AdminRemove, AdminAdd, OtherSave
  <1> QED BY <1>1, <1>2, <1>3, <1>4, <1>5 DEF Next, vars, routerVars

LEMMA LifeGuards ==
  ASSUME NEW o \in Object \union {NoObject}
  PROVE  Life(o) \in {"guarded", "deleting"} <=> o # NoObject /\ o.finalizer
  <1>1. o # NoObject => o.finalizer \in BOOLEAN /\ o.deleting \in BOOLEAN
    BY DEF Object
  <1> QED BY <1>1 DEF Life

LEMMA LinesStayHeld ==
  ASSUME Premise, TypeInv, Protocol, Specs, Keeping, [Next]_vars
  PROVE  LinesAreHeld'
  <1>t. TypeOK
    BY DEF TypeInv
  <1> SUFFICES ASSUME NEW k \in Keys, NEW e \in SpecsOf[k], There(e)'
               PROVE  obj'[k] # NoObject /\ obj'[k].finalizer /\ ValidHostIP(e)
    BY DEF LinesAreHeld
  <1>1. There(e) \/ (IpHost /\ e \in wanted)
    <2>1. e \notin AdminEntries
      BY DEF Premise, NotByHand
    <2> QED BY <1>t, <2>1, NextTables
  <1>2. obj[k] # NoObject /\ obj[k].finalizer /\ ValidHostIP(e)
    <2>1. CASE There(e)
      BY <2>1 DEF Keeping, LinesAreHeld
    <2>2. CASE IpHost /\ e \in wanted
      <3>1. pc = "write" /\ e = rec.spec /\ ValidHostIP(e)
        BY <2>2 DEF IpHost, Keeping, SessionKnows
      <3>2. key \in Keys /\ obj[key] # NoObject /\ obj[key].finalizer
        BY <1>t, <3>1 DEF TypeOK, RuntimeOK, Protocol, WorkerKnows, ApplySteps
      <3>3. k = key
        BY <3>1, <3>2 DEF Specs, Premise, OwnLines
      <3> QED BY <3>1, <3>2, <3>3
    <2> QED BY <1>1, <2>1, <2>2
  <1>3. CASE UNCHANGED obj
    BY <1>2, <1>3
  <1>4. CASE \E r \in Keys : \E o : Writes(r, o) /\ UNCHANGED <<running, startup>>
    <2>1. PICK r \in Keys : \E x : Writes(r, x) /\ UNCHANGED <<running, startup>>
      BY <1>4
    <2>o. PICK o : Writes(r, o) /\ UNCHANGED <<running, startup>>
      BY <2>1
    <2>2. /\ o \in Object \union {NoObject} /\ obj' = [obj EXCEPT ![r] = o]
          /\ Turn(r, o) /\ obj[k] \in Object \union {NoObject}
      BY <1>t, <2>o DEF Writes, TypeOK, RuntimeOK
    <2>3. CASE k # r
      BY <1>t, <1>2, <2>2, <2>3 DEF TypeOK, RuntimeOK
    <2>4. CASE k = r
      <3>1. There(e)
        BY <2>o DEF There
      <3>2. Life(obj[k]) \in {"guarded", "deleting"}
        BY <1>2, <2>2, LifeGuards
      <3>3. ~(pc = "removeFinalizer" /\ k = key)
        <4>1. CASE pc = "removeFinalizer" /\ k = key
          <5>1. rec.spec = e
            BY <4>1 DEF Specs, Premise, FixedSpecs
          <5> QED BY <3>1, <4>1, <5>1 DEF Keeping, SessionKnows
        <4> QED BY <4>1
      <3>4. Life(o) \in {"guarded", "deleting"}
        BY <2>2, <2>4, <3>2, <3>3 DEF Turn
      <3>5. obj'[k] = o
        BY <1>t, <2>2, <2>4 DEF TypeOK, RuntimeOK
      <3> QED BY <1>2, <2>2, <3>4, <3>5, LifeGuards
    <2> QED BY <2>3, <2>4
  <1> QED BY <1>t, <1>3, <1>4, NextWrites

\* Steps after which the worker is not in the middle of anything, or where it was.
LEMMA SessionKept ==
  ASSUME SessionKnows, UNCHANGED <<running, startup>>,
         \/ pc' \notin {"write", "erase", "removeFinalizer"} /\ wanted' = {}
         \/ UNCHANGED <<pc, rec, wanted, stale>>
  PROVE  SessionKnows'
  BY DEF SessionKnows, There

LEMMA SessionWorker ==
  ASSUME TypeInv, SessionKnows, Worker
  PROVE  SessionKnows'
  <1> USE DEF TypeInv, TypeOK, RouterOK
  <1>1. CASE AddFinalizer \/ LimitStatus \/ ApplyFailed \/ Applied \/ RemoveFinalizer
    <2>1. pc' = "idle"
      BY <1>1 DEF AddFinalizer, LimitStatus, ApplyFailed, Applied, RemoveFinalizer,
                  Update, Return
    <2>2. wanted = {}
      BY <1>1 DEF AddFinalizer, LimitStatus, ApplyFailed, Applied, RemoveFinalizer
    <2>3. UNCHANGED <<running, startup, wanted>>
      BY <1>1 DEF AddFinalizer, LimitStatus, ApplyFailed, Applied, RemoveFinalizer,
                  routerVars, scriptVars
    <2> QED BY <2>1, <2>2, <2>3, SessionKept
  <1>2. CASE CountHosts \/ HasHost
    <2>1. /\ UNCHANGED <<running, startup, wanted>> /\ wanted = {}
          /\ pc' \in {"hasHost", "limitReached", "ensureHost"}
      BY <1>2 DEF CountHosts, HasHost, Goto, routerVars, scriptVars
    <2> QED BY <2>1, SessionKept
  <1>3. CASE EnsureHost
    <2>1. /\ UNCHANGED <<running, startup, rec>> /\ wanted = {}
          /\ pc' \notin {"erase", "removeFinalizer"}
          /\ pc' = "write" => ValidHostIP(rec.spec)
          /\ wanted' = {} \/ wanted' = {rec.spec} \ running
      BY <1>3 DEF EnsureHost, Goto, HostCommands, routerVars, scriptVars
    <2> QED BY <2>1 DEF SessionKnows
  <1>4. CASE NoIpHost
    <2>1. PICK e \in stale : running' = running \ {e} /\ stale' = stale \ {e}
      BY <1>4 DEF NoIpHost
    <2>2. UNCHANGED <<startup, pc, rec, wanted>> /\ pc \in {"write", "erase"}
      BY <1>4 DEF NoIpHost, runtimeVars, workerVars
    <2> QED BY <2>1, <2>2 DEF SessionKnows
  <1>5. CASE IpHost
    BY <1>5 DEF IpHost, SessionKnows, runtimeVars, workerVars
  <1>6. CASE SaveConfiguration
    <2>1. /\ UNCHANGED <<running, rec>> /\ startup' = running
          /\ wanted' = {} /\ stale = {} /\ pc \in {"write", "erase"}
          /\ pc' = IF pc = "write" THEN "applied" ELSE "removeFinalizer"
      BY <1>6 DEF SaveConfiguration, Goto, scriptVars
    <2> QED BY <2>1 DEF SessionKnows, There
  <1> QED BY <1>1, <1>2, <1>3, <1>4, <1>5, <1>6 DEF Worker

LEMMA SessionDisturbances ==
  ASSUME Premise, TypeInv, Specs, SessionKnows,
         \/ SessionLost \/ Crash \/ RouterReboot \/ RouterRefuses
         \/ AdminRemove \/ AdminAdd \/ OtherSave
  PROVE  SessionKnows'
  <1> USE DEF TypeInv, TypeOK
  <1>e. ASSUME SessionError
        PROVE  pc' \in {"idle", "applyFailed"} /\ wanted' = {}
    BY <1>e DEF SessionError, Return
  <1>1. CASE SessionLost
    BY <1>1, <1>e DEF SessionLost, SessionKnows
  <1>2. CASE Crash
    BY <1>2 DEF Crash, Restart, SessionKnows
  <1>3. CASE RouterReboot
    <2>1. running' = startup /\ UNCHANGED startup
      BY <1>3 DEF RouterReboot
    <2>2. CASE pc \in SessionSteps
      BY <1>3, <2>2, <1>e DEF RouterReboot, SessionKnows
    <2>3. CASE pc \notin SessionSteps
      <3>1. UNCHANGED <<pc, rec, wanted>> /\ pc \notin {"write", "erase"}
        BY <1>3, <2>3 DEF RouterReboot, runtimeVars, workerVars, scriptVars, SessionSteps
      <3> QED BY <2>1, <3>1 DEF SessionKnows, There
    <2> QED BY <2>2, <2>3
  <1>4. CASE RouterRefuses
    BY <1>4 DEF RouterRefuses, SessionKnows, runtimeVars, workerVars, routerVars
  <1>5. CASE AdminRemove
    BY <1>5 DEF AdminRemove, SessionKnows, There, runtimeVars, workerVars, scriptVars
  <1>6. CASE AdminAdd
    <2>1. PICK n \in AdminEntries : running' = running \union {n}
      BY <1>6 DEF AdminAdd
    <2>2. startup' \in {startup, running'} /\ UNCHANGED <<pc, rec, wanted, stale>>
      BY <1>6 DEF AdminAdd, runtimeVars, workerVars, scriptVars
    <2>3. pc # "idle" => rec.spec # n
      BY DEF Specs, RuntimeOK, Premise, NotByHand
    <2> QED BY <2>1, <2>2, <2>3 DEF SessionKnows, There
  <1>7. CASE OtherSave
    BY <1>7 DEF OtherSave, SessionKnows, There, runtimeVars, workerVars, scriptVars
  <1> QED BY <1>1, <1>2, <1>3, <1>4, <1>5, <1>6, <1>7

LEMMA SessionEvents ==
  ASSUME TypeInv, Specs, Keeping, NEW r \in Keys,
         \/ Reconcile(r) \/ Watch(r) \/ Timer(r)
         \/ UserCreate(r) \/ UserEdit(r) \/ UserDelete(r)
  PROVE  SessionKnows'
  <1> USE DEF TypeInv, TypeOK, Keeping
  <1>1. CASE Reconcile(r)
    <2> DEFINE step == FirstStep(cache[r])
    <2>1. /\ wanted' = {} /\ UNCHANGED <<running, startup>> /\ pc = "idle"
          /\ stale' = IF step = "erase" THEN {cache[r].spec} ELSE {}
          /\ \/ pc' = "idle"
             \/ pc' = step /\ rec' = cache[r]
      BY <1>1 DEF Reconcile, Take, routerVars, workerVars, RouterOK
    <2>2. cache[r] \in Object \union {NoObject}
      BY DEF RuntimeOK
    <2>3. step # "write"
      BY <2>2 DEF FirstStep, Cleanup
    <2>4. step = "removeFinalizer" => ~There(cache[r].spec)
      <3>1. CASE step = "removeFinalizer"
        <4>1. cache[r] # NoObject /\ ~ValidHostIP(cache[r].spec)
          BY <2>2, <3>1 DEF FirstStep, Cleanup
        <4> QED BY <4>1 DEF Specs, HasSpec, LinesAreHeld
      <3> QED BY <3>1
    <2> HIDE DEF step
    <2> QED BY <2>1, <2>3, <2>4 DEF SessionKnows, There
  <1>2. CASE Watch(r) \/ Timer(r)
    BY <1>2, SessionKept DEF Watch, Timer, CacheSync, Requeue, workerVars, routerVars,
                             scriptVars
  <1>3. CASE UserCreate(r) \/ UserEdit(r) \/ UserDelete(r)
    <2>1. UNCHANGED <<pc, rec>>
      BY <1>3 DEF UserCreate, UserEdit, UserDelete, UserWrite
    <2>2. UNCHANGED <<running, startup, wanted, stale>>
      BY <1>3 DEF UserCreate, UserEdit, UserDelete, UserOp, routerVars, scriptVars
    <2> QED BY <2>1, <2>2, SessionKept
  <1> QED BY <1>1, <1>2, <1>3

LEMMA KeepingInductive ==
  ASSUME Premise, TypeInv, Protocol, Specs, Keeping, [Next]_vars
  PROVE  Keeping'
  <1>1. LinesAreHeld'
    BY LinesStayHeld
  <1>2. SessionKnows'
    <2>1. CASE \E r \in Keys : \/ Reconcile(r) \/ Watch(r) \/ Timer(r)
                               \/ UserCreate(r) \/ UserEdit(r) \/ UserDelete(r)
      BY <2>1, SessionEvents
    <2>2. CASE Worker
      BY <2>2, SessionWorker DEF Keeping
    <2>3. CASE \/ SessionLost \/ Crash \/ RouterReboot \/ RouterRefuses
               \/ AdminRemove \/ AdminAdd \/ OtherSave
      BY <2>3, SessionDisturbances DEF Keeping
    <2>4. CASE UNCHANGED vars
      BY <2>4, SessionKept DEF Keeping, vars, runtimeVars, workerVars, routerVars,
                               scriptVars
    <2> QED BY <2>1, <2>2, <2>3, <2>4 DEF Next
  <1> QED BY <1>1, <1>2 DEF Keeping

LEMMA KeepingInit == Init => Specs /\ Keeping
  BY DEF Init, RuntimeInit, Specs, HasSpec, Keeping, LinesAreHeld, SessionKnows, There

(***************************************************************************)
(* All of it together, in every state.                                     *)
(***************************************************************************)
Custodial == TypeInv /\ Protocol /\ Specs /\ Keeping

LEMMA CustodialInductive ==
  ASSUME Premise
  PROVE  /\ Init => Custodial
         /\ Custodial /\ [Next]_vars => Custodial'
  <1>1. Init => Custodial
    BY TypeInit, ProtocolInductive, KeepingInit DEF Custodial
  <1>2. Custodial /\ [Next]_vars => Custodial'
    <2> SUFFICES ASSUME Custodial, [Next]_vars PROVE Custodial'
      OBVIOUS
    <2>1. TypeInv /\ Protocol /\ Specs /\ Keeping
      BY DEF Custodial
    <2>2. TypeInv' /\ Protocol'
      BY <2>1, TypeNext, ProtocolInductive
    <2>3. Specs'
      BY <2>1, SpecsInductive
    <2>4. Keeping'
      BY <2>1, KeepingInductive
    <2> QED BY <2>2, <2>3, <2>4 DEF Custodial
  <1> QED BY <1>1, <1>2

(***************************************************************************)
(* Entries are removed from the router before the object disappears: for   *)
(* objects that do not share a line and whose spec never changes, once the *)
(* object is gone neither configuration has a line of it.                  *)
(***************************************************************************)
THEOREM NoOrphanIsLeft ==
  ASSUME Premise
  PROVE  Spec => []NoOrphan
  <1>1. Custodial => NoOrphan
    BY DEF Custodial, Keeping, LinesAreHeld, NoOrphan, Exists, There
  <1> QED BY <1>1, CustodialInductive, PTL DEF Spec

-----------------------------------------------------------------------------
(***************************************************************************)
(* The refinement.  A write to the API server is a step of an object's     *)
(* life; every other step leaves the lives as they are, and either adds    *)
(* the line of the object that is reconciled or adds none.                 *)
(***************************************************************************)
Lives == [r \in Keys |-> Life(obj[r])]
Has(k) == SpecsOf[k] \cap (running \union startup) # {}
Held == [r \in Keys |-> Has(r)]

LEMMA HasLine ==
  ASSUME NEW k \in Keys
  PROVE  /\ Has(k) <=> \E e \in SpecsOf[k] : There(e)
         /\ Has(k)' <=> \E e \in SpecsOf[k] : There(e)'
  BY DEF Has, There

LEMMA WritesAreLives ==
  ASSUME Premise, Custodial, NEW r \in Keys, NEW o, Writes(r, o), UNCHANGED <<running, startup>>
  PROVE  [Guardian!Next]_(Guardian!vars)
  <1> DEFINE from == Life(obj[r])
             to == Life(o)
  <1>1. obj \in [Keys -> Object \union {NoObject}] /\ obj' = [obj EXCEPT ![r] = o]
    BY DEF Custodial, TypeInv, TypeOK, RuntimeOK, Writes
  <1>2. Lives[r] = from /\ Lives' = [Lives EXCEPT ![r] = to]
    BY <1>1 DEF Lives
  <1>3. Held' = Held
    BY DEF Held, Has
  <1>4. CASE from = to
    <2>1. Lives' = Lives
      BY <1>2, <1>4 DEF Lives
    <2> QED BY <1>3, <2>1 DEF Guardian!vars, Lives, Held, Has
  <1>5. CASE from # to
    <2> HIDE DEF from, to
    <2>1. Guardian!Become(r, from, to)
      BY <1>2, <1>3 DEF Guardian!Become, Lives, Held, Has
    <2>2. \/ from = "absent" /\ to = "new"
          \/ from = "new" /\ to \in {"guarded", "absent"}
          \/ from = "guarded" /\ to = "deleting"
          \/ from = "deleting" /\ to = "absent" /\ pc = "removeFinalizer"
                /\ r = key /\ rec = obj[r]
      BY <1>5 DEF Writes, Turn, from, to
    <2>3. CASE from = "deleting" /\ to = "absent" /\ pc = "removeFinalizer"
                /\ r = key /\ rec = obj[r]
      <3>1. ~There(rec.spec) /\ rec.spec \in SpecsOf[r]
        BY <2>3 DEF Custodial, Keeping, SessionKnows, Specs
      <3>2. ~Has(r)
        <4>1. \A e \in SpecsOf[r] : e = rec.spec
          BY <3>1 DEF Premise, FixedSpecs
        <4> QED BY <3>1, <4>1, HasLine
      <3> QED BY <2>1, <2>3, <3>2 DEF Guardian!Next, Guardian!Vanish, Held, Has
    <2> QED BY <2>1, <2>2, <2>3 DEF Guardian!Next, Guardian!Create, Guardian!Guard,
                                     Guardian!Delete
  <1> QED BY <1>4, <1>5

LEMMA OthersAreLosses ==
  ASSUME Premise, Custodial, [Next]_vars, UNCHANGED obj
  PROVE  [Guardian!Next]_(Guardian!vars)
  <1> USE DEF Custodial
  <1>t. TypeOK
    BY DEF TypeInv
  <1>1. Lives' = Lives
    BY DEF Lives
  <1>2. CASE IpHost
    <2>1. /\ pc = "write" /\ wanted # {} /\ \A w \in wanted : w = rec.spec
          /\ running' = running \union wanted /\ UNCHANGED startup
      BY <1>2 DEF IpHost, Keeping, SessionKnows
    <2>2. key \in Keys /\ rec.spec \in SpecsOf[key] /\ obj[key] # NoObject
          /\ obj[key].finalizer
      BY <1>t, <2>1 DEF TypeOK, RuntimeOK, Specs, Protocol, WorkerKnows, ApplySteps
    <2>3. Held' = [Held EXCEPT ![key] = TRUE]
      <3>1. \A k \in Keys : Has(k)' = IF k = key THEN TRUE ELSE Has(k)
        <4> TAKE k \in Keys
        <4>1. CASE k = key
          BY <2>1, <2>2, <4>1 DEF Has
        <4>2. CASE k # key
          <5>1. rec.spec \notin SpecsOf[k]
            BY <2>2, <4>2 DEF Premise, OwnLines
          <5>2. SpecsOf[k] \cap (running' \union startup') =
                   SpecsOf[k] \cap (running \union startup)
            BY <2>1, <5>1
          <5> QED BY <4>2, <5>2 DEF Has
        <4> QED BY <4>1, <4>2
      <3> QED BY <2>2, <3>1 DEF Held
    <2>4. Lives[key] \in {"guarded", "deleting"}
      <3>1. obj[key] \in Object \union {NoObject}
        BY <1>t, <2>2 DEF TypeOK, RuntimeOK
      <3> QED BY <2>2, <3>1, LifeGuards DEF Lives
    <2>5. PICK k \in Keys : k = key
      BY <2>2
    <2>6. Guardian!Acquire(k)
      BY <1>1, <2>3, <2>4, <2>5 DEF Guardian!Acquire, Lives, Held, Has
    <2> QED BY <2>6 DEF Guardian!Next
  <1>3. CASE ~IpHost
    <2> DEFINE O == {k \in Keys : ~Has(k)'}
    <2>1. \A k \in Keys : Has(k)' => Has(k)
      <3> SUFFICES ASSUME NEW k \in Keys, Has(k)' PROVE Has(k)
        OBVIOUS
      <3>1. PICK e \in SpecsOf[k] : There(e)'
        BY HasLine
      <3>2. e \notin AdminEntries
        BY DEF Premise, NotByHand
      <3>3. There(e)
        BY <1>t, <1>3, <3>1, <3>2, NextTables
      <3> QED BY <3>3, HasLine
    <2>2. \A k \in Keys : Has(k)' = (Has(k) /\ k \notin O)
      BY <2>1 DEF Has
    <2>3. O \in SUBSET Keys
      OBVIOUS
    <2> HIDE DEF O
    <2>4. Held' = [k \in Keys |-> Held[k] /\ k \notin O]
      BY <2>2 DEF Held
    <2>5. Guardian!Lose
      BY <1>1, <2>3, <2>4 DEF Guardian!Lose, Lives, Held, Has
    <2> QED BY <2>5 DEF Guardian!Next
  <1> QED BY <1>2, <1>3

LEMMA CustodyInit == Init => Guardian!Init
  BY DEF Init, RuntimeInit, Guardian!Init, Life

LEMMA CustodyStep ==
  ASSUME Premise, Custodial, [Next]_vars
  PROVE  [Guardian!Next]_(Guardian!vars)
  <1>1. CASE UNCHANGED obj
    BY <1>1, OthersAreLosses
  <1>2. CASE \E r \in Keys : \E o : Writes(r, o) /\ UNCHANGED <<running, startup>>
    BY <1>2, WritesAreLives
  <1>3. TypeOK /\ Protocol /\ Specs
    BY DEF Custodial, TypeInv
  <1> QED BY <1>1, <1>2, <1>3, NextWrites

(***************************************************************************)
(* The controller implements Custody: a line appears only under the        *)
(* finalizer, and the object goes after the line has gone from the running *)
(* and from the stored configuration, through lost sessions, restarts,     *)
(* reboots and saves of the other controller; for objects that do not      *)
(* share a line and whose spec never changes.                              *)
(***************************************************************************)
THEOREM CustodyIsKept ==
  ASSUME Premise
  PROVE  Spec => KeepsCustody
  <1>1. Custodial /\ [Next]_vars => [Guardian!Next]_(Guardian!vars)
    BY CustodyStep
  <1> QED BY <1>1, CustodyInit, CustodialInductive, PTL
          DEF Spec, KeepsCustody, Guardian!Spec
=============================================================================
