------------------------ MODULE WebAppCustodyProofs ------------------------
(***************************************************************************)
(* WebApp leaves no entry behind and keeps the finalizer's promise         *)
(* (Custody), for any bounds, firmware and objects that keep their name    *)
(* and share it with no other; the rest of a spec may change at any time.  *)
(***************************************************************************)
EXTENDS WebAppProofs

SameName == \A k \in Keys : \A s, t \in SpecsOf[k] : s.name = t.name
OwnNames ==
    \A k, j \in Keys : \A s \in SpecsOf[k], t \in SpecsOf[j] : s.name = t.name => k = j

Premise == SameName /\ OwnNames

\* On the router, now or after its next reboot.
There(n) == proxies[n] # NoEntry \/ startup[n] # NoEntry

-----------------------------------------------------------------------------
(***************************************************************************)
(* The objects, their cached copies and the worker's copy have a spec that *)
(* their users gave them, and were published, if ever, under its name.     *)
(***************************************************************************)
HasSpec(o, k) ==
    o # NoObject => o.spec \in SpecsOf[k] /\ o.appliedName \in {NoName, o.spec.name}

Specs ==
    /\ \A k \in Keys : HasSpec(obj[k], k) /\ HasSpec(cache[k], k)
    /\ pc # "idle" => HasSpec(rec, key)

(***************************************************************************)
(* What a step makes of an object's life.  It vanishes in the worker's     *)
(* hands, or before it had a finalizer.                                    *)
(***************************************************************************)
Turn(r, o) ==
    LET from == Life(obj[r])
        to == Life(o)
    IN \/ from = to
       \/ from = "absent" /\ to = "new"
       \/ from = "new" /\ to \in {"guarded", "absent"}
       \/ from = "guarded" /\ to = "deleting"
       \/ /\ from = "deleting" /\ to = "absent"
          /\ pc = "removeFinalizer" /\ r = key /\ rec = obj[r]

Writes(r, o) ==
    /\ o \in Object \union {NoObject} /\ HasSpec(o, r)
    /\ obj' = [obj EXCEPT ![r] = o]
    /\ Turn(r, o)

LEMMA LifeFacts ==
  ASSUME NEW o \in Object
  PROVE  /\ o # NoObject
         /\ ~o.finalizer => Life(o) = "new"
         /\ o.finalizer /\ o.deleting => Life(o) = "deleting"
         /\ o.finalizer /\ ~o.deleting => Life(o) = "guarded"
         /\ Life(NoObject) = "absent"
  BY NoObjectAssumption DEF Life, Object

LEMMA LifeGuards ==
  ASSUME NEW o \in Object \union {NoObject}
  PROVE  Life(o) \in {"guarded", "deleting"} <=> o # NoObject /\ o.finalizer
  <1>1. o # NoObject => o.finalizer \in BOOLEAN /\ o.deleting \in BOOLEAN
    BY DEF Object
  <1> QED BY <1>1 DEF Life

\* Two copies of an object have the same name.
LEMMA NameStays ==
  ASSUME Premise, NEW k \in Keys, NEW o, NEW c, HasSpec(o, k), HasSpec(c, k),
         o # NoObject, c # NoObject
  PROVE  o.spec.name = c.spec.name
  BY DEF Premise, SameName, HasSpec

\* And no two objects have.
LEMMA NamesDiffer ==
  ASSUME Premise, NEW k \in Keys, NEW j \in Keys, NEW o, NEW c,
         HasSpec(o, k), HasSpec(c, j), o # NoObject, c # NoObject,
         o.spec.name = c.spec.name
  PROVE  k = j
  BY DEF Premise, OwnNames, HasSpec

\* An update succeeds on the current version of the object, or does nothing.
LEMMA UpdateWrites ==
  ASSUME RuntimeOK, Protocol, NEW o \in Object \union {NoObject},
         NEW again \in BOOLEAN, pc # "idle", Update(o, again),
         HasSpec(o, key), obj[key] = rec => Turn(key, o)
  PROVE  UNCHANGED obj \/ Writes(key, o)
  <1>1. UNCHANGED obj \/ (fresh /\ Store(key, o))
    BY DEF Update, clusterVars
  <1>2. CASE fresh /\ Store(key, o)
    BY <1>2 DEF Store, Protocol, WorkerKnows, Writes
  <1> QED BY <1>1, <1>2

LEMMA WorkerWrites ==
  ASSUME RuntimeOK, Protocol, Specs, Worker
  PROVE  UNCHANGED obj \/ \E o : Writes(key, o) /\ UNCHANGED <<proxies, startup>>
  <1>r. pc # "idle" => key \in Keys /\ rec \in Object /\ rec # NoObject /\ HasSpec(rec, key)
    BY NoObjectAssumption DEF RuntimeOK, Specs
  <1>1. CASE AddFinalizer
    <2> DEFINE o == [rec EXCEPT !.finalizer = TRUE]
    <2>1. rec \in Object /\ ~rec.finalizer /\ ~rec.deleting
      BY <1>1, <1>r DEF AddFinalizer, Protocol, WorkerKnows
    <2>2. o \in Object
      BY <2>1, WrittenObjects
    <2>3. /\ o.finalizer /\ ~o.deleting /\ o.spec = rec.spec
          /\ o.appliedName = rec.appliedName
      BY <2>1 DEF Object
    <2>4. Update(o, FALSE) /\ pc # "idle" /\ UNCHANGED <<proxies, startup>>
      BY <1>1 DEF AddFinalizer, routerVars
    <2> HIDE DEF o
    <2>5. Life(rec) = "new" /\ Life(o) = "guarded"
      BY <2>1, <2>2, <2>3, LifeFacts
    <2>6. HasSpec(o, key) /\ (obj[key] = rec => Turn(key, o))
      BY <1>r, <2>3, <2>4, <2>5 DEF HasSpec, Turn
    <2> QED BY <2>2, <2>4, <2>6, UpdateWrites
  <1>2. CASE NameConflict \/ ApplyFailed \/ Applied
    <2>1. pc # "idle" /\ rec \in Object
      BY <1>2, <1>r DEF NameConflict, ApplyFailed, Applied
    <2>2. PICK o \in Object : /\ Update(o, TRUE) /\ o.spec = rec.spec
                              /\ o.finalizer = rec.finalizer
                              /\ o.deleting = rec.deleting
                              /\ o.appliedName \in {rec.appliedName, rec.spec.name}
      <3> DEFINE conflict == [rec EXCEPT !.applied = FALSE, !.ready = "NameConflict"]
                 failed == [rec EXCEPT !.applied = FALSE, !.ready = "ApplyFailed"]
                 done == [rec EXCEPT !.applied = TRUE, !.appliedName = rec.spec.name,
                                     !.observed = TRUE, !.ready = "Applied"]
      <3>1. conflict \in Object /\ failed \in Object /\ done \in Object
        BY <2>1, WrittenObjects
      <3>2. \A o \in {conflict, failed, done} :
               /\ o.spec = rec.spec /\ o.finalizer = rec.finalizer
               /\ o.deleting = rec.deleting
               /\ o.appliedName \in {rec.appliedName, rec.spec.name}
        BY <2>1 DEF Object
      <3>3. Update(conflict, TRUE) \/ Update(failed, TRUE) \/ Update(done, TRUE)
        BY <1>2 DEF NameConflict, ApplyFailed, Applied
      <3> HIDE DEF conflict, failed, done
      <3> QED BY <3>1, <3>2, <3>3
    <2>3. Life(o) = Life(rec) /\ HasSpec(o, key)
      BY <1>r, <2>1, <2>2, NoObjectAssumption DEF Life, HasSpec
    <2>4. obj[key] = rec => Turn(key, o)
      BY <2>3 DEF Turn
    <2>5. UNCHANGED <<proxies, startup>>
      BY <1>2 DEF NameConflict, ApplyFailed, Applied, routerVars
    <2> QED BY <2>1, <2>2, <2>3, <2>4, <2>5, UpdateWrites
  <1>3. CASE RemoveFinalizer
    <2>1. /\ pc = "removeFinalizer" /\ rec \in Object /\ rec.deleting /\ rec.finalizer
          /\ Update(NoObject, FALSE) /\ UNCHANGED <<proxies, startup>>
      BY <1>3, <1>r DEF RemoveFinalizer, Protocol, WorkerKnows, GuardedSteps, routerVars
    <2>2. Life(rec) = "deleting" /\ Life(NoObject) = "absent"
      BY <2>1, LifeFacts
    <2>3. HasSpec(NoObject, key) /\ (obj[key] = rec => Turn(key, NoObject))
      BY <2>1, <2>2 DEF HasSpec, Turn
    <2> QED BY <2>1, <2>3, UpdateWrites
  <1>4. CASE CheckName \/ Release \/ NoIpHttpProxy \/ EnsureProxy \/ SaveConfiguration
    BY <1>4 DEF CheckName, Release, NoIpHttpProxy, EnsureProxy, SaveConfiguration, Goto,
                clusterVars
  <1>5. CASE DropSave \/ Command
    BY <1>5 DEF DropSave, Command, Goto, runtimeVars, clusterVars
  <1> QED BY <1>1, <1>2, <1>3, <1>4, <1>5 DEF Worker

LEMMA UserLives ==
  ASSUME Premise, RuntimeOK, Specs, NEW r \in Keys,
         UserCreate(r) \/ UserEdit(r) \/ UserDelete(r)
  PROVE  \E o : Writes(r, o) /\ UNCHANGED <<proxies, startup>>
  <1>u. UNCHANGED <<proxies, startup>>
    BY DEF UserCreate, UserEdit, UserDelete, UserOp, routerVars
  <1>o. obj[r] # NoObject => obj[r] \in Object /\ HasSpec(obj[r], r)
    BY DEF RuntimeOK, Specs
  <1>1. CASE UserCreate(r)
    <2>1. PICK s \in SpecsOf[r] : obj[r] = NoObject /\ UserWrite(r, NewObject(s))
      BY <1>1 DEF UserCreate
    <2>2. NewObject(s) \in Object
      BY SpecsAssumption, WrittenObjects
    <2>3. /\ NewObject(s).spec = s /\ ~NewObject(s).finalizer
          /\ NewObject(s).appliedName = NoName
      BY DEF NewObject
    <2>4. Life(NewObject(s)) = "new" /\ Life(obj[r]) = "absent"
      BY <2>1, <2>2, <2>3, LifeFacts
    <2>5. Writes(r, NewObject(s))
      BY <2>1, <2>2, <2>3, <2>4 DEF Writes, Turn, HasSpec, UserWrite, Store
    <2> QED BY <1>u, <2>5
  <1>2. CASE UserEdit(r)
    <2>1. PICK s \in SpecsOf[r] :
             UserWrite(r, [obj[r] EXCEPT !.spec = s, !.observed = FALSE])
      BY <1>2 DEF UserEdit
    <2> DEFINE o == [obj[r] EXCEPT !.spec = s, !.observed = FALSE]
    <2>2. obj[r] \in Object /\ obj[r] # NoObject /\ HasSpec(obj[r], r)
      BY <1>2, <1>o DEF UserEdit
    <2>3. o \in Object /\ obj' = [obj EXCEPT ![r] = o]
      <3>1. s \in WebAppSpec
        BY SpecsAssumption
      <3> QED BY <2>1, <2>2, <3>1, WrittenObjects DEF UserWrite, Store
    <2>4. /\ o.spec = s /\ o.appliedName = obj[r].appliedName
          /\ o.finalizer = obj[r].finalizer /\ o.deleting = obj[r].deleting
      BY <2>2 DEF Object
    <2> HIDE DEF o
    <2>5. s.name = obj[r].spec.name
      BY <2>2 DEF HasSpec, Premise, SameName
    <2>6. HasSpec(o, r)
      BY <2>2, <2>4, <2>5 DEF HasSpec
    <2>7. Life(o) = Life(obj[r])
      BY <2>2, <2>3, <2>4, NoObjectAssumption DEF Life
    <2>8. Writes(r, o)
      BY <2>3, <2>6, <2>7 DEF Writes, Turn
    <2> QED BY <1>u, <2>8
  <1>3. CASE UserDelete(r)
    <2>1. /\ obj[r] # NoObject /\ obj[r] \in Object /\ ~obj[r].deleting
          /\ HasSpec(obj[r], r)
      BY <1>3, <1>o DEF UserDelete
    <2>2. CASE obj[r].finalizer
      <3> DEFINE o == [obj[r] EXCEPT !.deleting = TRUE]
      <3>1. /\ o \in Object /\ o.deleting /\ o.finalizer
            /\ o.spec = obj[r].spec /\ o.appliedName = obj[r].appliedName
        BY <2>1, <2>2, WrittenObjects DEF Object
      <3>2. obj' = [obj EXCEPT ![r] = o]
        BY <1>3, <2>2 DEF UserDelete, UserWrite, Store
      <3> HIDE DEF o
      <3>3. Life(obj[r]) = "guarded" /\ Life(o) = "deleting"
        BY <2>1, <2>2, <3>1, LifeFacts
      <3>4. Writes(r, o)
        BY <2>1, <3>1, <3>2, <3>3 DEF Writes, Turn, HasSpec
      <3> QED BY <1>u, <3>4
    <2>3. CASE ~obj[r].finalizer
      <3>1. obj' = [obj EXCEPT ![r] = NoObject]
        BY <1>3, <2>3 DEF UserDelete, UserWrite, Store
      <3>2. Life(obj[r]) = "new" /\ Life(NoObject) = "absent"
        BY <2>1, <2>3, LifeFacts
      <3>3. Writes(r, NoObject)
        BY <3>1, <3>2 DEF Writes, Turn, HasSpec
      <3> QED BY <1>u, <3>3
    <2> QED BY <2>2, <2>3
  <1> QED BY <1>1, <1>2, <1>3

\* A cached copy is an older one or a current one, and the worker's copy is the
\* cached one when it takes the key.
LEMMA CopiesAreCopies ==
  ASSUME RuntimeOK, [Next]_vars
  PROVE  /\ \A k \in Keys : cache'[k] \in {cache[k], obj[k]}
         /\ \/ pc' = "idle"
            \/ pc # "idle" /\ UNCHANGED <<key, rec>>
            \/ \E r \in Keys : key' = r /\ rec' = cache[r]
  <1> USE DEF clusterVars, queueVars, workerVars, runtimeVars
  <1>1. CASE UNCHANGED vars
    BY <1>1 DEF vars, RuntimeOK
  <1>2. CASE Worker
    <2>1. CASE AddFinalizer \/ NameConflict \/ ApplyFailed \/ Applied \/ RemoveFinalizer
      BY <2>1 DEF AddFinalizer, NameConflict, ApplyFailed, Applied, RemoveFinalizer,
                  Update, Store, Return
    <2>2. CASE CheckName \/ Release \/ NoIpHttpProxy \/ EnsureProxy \/ SaveConfiguration
      BY <2>2 DEF CheckName, Release, NoIpHttpProxy, EnsureProxy, SaveConfiguration, Goto
    <2>3. CASE DropSave
      BY <2>3 DEF DropSave, Goto, Return
    <2>4. CASE Command
      BY <2>4 DEF Command
    <2> QED BY <1>2, <2>1, <2>2, <2>3, <2>4 DEF Worker
  <1>3. ASSUME NEW r \in Keys, Reconcile(r)
        PROVE  UNCHANGED cache /\ (pc' = "idle" \/ (key' = r /\ rec' = cache[r]))
    BY <1>3 DEF Reconcile, Take
  <1>4. ASSUME NEW r \in Keys, Watch(r) \/ Timer(r)
        PROVE  /\ \A k \in Keys : cache'[k] \in {cache[k], obj[k]}
               /\ UNCHANGED <<pc, key, rec>>
    BY <1>4 DEF Watch, CacheSync, Timer, Requeue, RuntimeOK
  <1>5. ASSUME NEW r \in Keys, UserCreate(r) \/ UserEdit(r) \/ UserDelete(r)
        PROVE  UNCHANGED <<cache, pc, key, rec>>
    BY <1>5 DEF UserCreate, UserEdit, UserDelete, UserWrite, Store
  <1>6. CASE SessionLost \/ Crash \/ RouterReboot
    BY <1>6 DEF SessionLost, Crash, Restart, RouterReboot, SessionError, SessionSteps,
                Return
  <1>7. CASE RouterRefuses \/ AdminRemove \/ OtherSave
    BY <1>7 DEF RouterRefuses, AdminRemove, OtherSave, Goto
  <1> QED BY <1>1, <1>2, <1>3, <1>4, <1>5, <1>6, <1>7 DEF Next

LEMMA NextWrites ==
  ASSUME Premise, RuntimeOK, Protocol, Specs, [Next]_vars
  PROVE  \/ UNCHANGED obj
         \/ \E r \in Keys : \E o : Writes(r, o) /\ UNCHANGED <<proxies, startup>>
  <1>1. ASSUME Worker
        PROVE  \/ UNCHANGED obj
               \/ \E r \in Keys : \E o : Writes(r, o) /\ UNCHANGED <<proxies, startup>>
    <2>1. pc # "idle"
      BY <1>1 DEF Worker, AddFinalizer, CheckName, NameConflict, Release, NoIpHttpProxy,
            DropSave, EnsureProxy, Command, SaveConfiguration, ApplyFailed, Applied,
            RemoveFinalizer
    <2>2. key \in Keys
      BY <2>1 DEF RuntimeOK
    <2> QED BY <1>1, <2>2, WorkerWrites
  <1>2. CASE UNCHANGED vars
    BY <1>2 DEF vars, runtimeVars, clusterVars
  <1>3. ASSUME NEW r \in Keys, UserCreate(r) \/ UserEdit(r) \/ UserDelete(r)
        PROVE  \E o : Writes(r, o) /\ UNCHANGED <<proxies, startup>>
    BY <1>3, UserLives
  <1>4. ASSUME NEW r \in Keys, Reconcile(r) \/ Watch(r) \/ Timer(r)
        PROVE  UNCHANGED obj
    BY <1>4 DEF Reconcile, Take, Watch, CacheSync, Timer, Requeue, clusterVars
  <1>5. ASSUME \/ SessionLost \/ Crash \/ RouterReboot \/ RouterRefuses
               \/ AdminRemove \/ OtherSave
        PROVE  UNCHANGED obj
    BY <1>5 DEF SessionLost, Crash, Restart, RouterReboot, SessionError, Return,
         RouterRefuses, AdminRemove, OtherSave, Goto, runtimeVars, clusterVars
  <1> QED BY <1>1, <1>2, <1>3, <1>4, <1>5 DEF Next

LEMMA SpecsInductive ==
  ASSUME Premise, RuntimeOK, Protocol, Specs, [Next]_vars
  PROVE  Specs'
  <1>1. \A k \in Keys : HasSpec(obj'[k], k)
    <2>1. CASE UNCHANGED obj
      BY <2>1 DEF Specs
    <2>2. CASE \E r \in Keys : \E o : Writes(r, o)
      BY <2>2 DEF Specs, Writes, RuntimeOK
    <2> QED BY <2>1, <2>2, NextWrites
  <1>2. \A k \in Keys : HasSpec(cache'[k], k)
    BY CopiesAreCopies DEF Specs
  <1>3. pc' # "idle" => HasSpec(rec', key')
    BY CopiesAreCopies DEF Specs
  <1> QED BY <1>1, <1>2, <1>3 DEF Specs, HasSpec

-----------------------------------------------------------------------------
(***************************************************************************)
(* An entry that is there belongs to an object with the finalizer, and its *)
(* name can be sent to the router again.  What keeps this true is what the *)
(* worker has in hand: it writes the entry of its own object, whose name   *)
(* is valid; it releases a name only for a deleted object, which no one    *)
(* else claims; and unless the router has refused the removal, the entry   *)
(* is gone before the configuration is saved, and from both configurations *)
(* before the finalizer is.                                                *)
(***************************************************************************)
Holds(k, n) == obj[k] # NoObject /\ obj[k].finalizer /\ obj[k].spec.name = n

EntriesAreHeld ==
    \A n \in Names : There(n) => n \notin BadNames /\ \E k \in Keys : Holds(k, n)

SessionKnows ==
    /\ pc = "write" => rec.spec.name \notin BadNames
    /\ pc \in ReleaseSteps => rec.deleting
    /\ pc = "dropSave" /\ ~refused => proxies[rec.spec.name] = NoEntry
    /\ pc = "removeFinalizer" => ~There(rec.spec.name)

Keeping == EntriesAreHeld /\ SessionKnows

\* The worker's object is not renamed, and gives up the name it has.
LEMMA OneNameToRelease ==
  ASSUME RuntimeOK, Specs, pc # "idle"
  PROVE  /\ rec \in Object /\ rec # NoObject /\ HasSpec(rec, key) /\ key \in Keys
         /\ rec.spec.name \in Names /\ rec.spec.name # NoName
         /\ ~Renamed(rec) /\ ReleasedName(rec) = rec.spec.name
  <1>1. rec \in Object /\ rec # NoObject /\ HasSpec(rec, key) /\ key \in Keys
    BY NoObjectAssumption DEF RuntimeOK, Specs
  <1>2. rec.spec.name \in Names /\ rec.spec.name # NoName
    BY <1>1, NoNameAssumption DEF Object, WebAppSpec
  <1>3. rec.appliedName \in {NoName, rec.spec.name}
    BY <1>1 DEF HasSpec
  <1> QED BY <1>1, <1>2, <1>3 DEF Renamed, ReleasedName

\* No other object claims it.
LEMMA NoClaimants ==
  ASSUME Premise, RuntimeOK, Specs, pc # "idle"
  PROVE  Claimants(rec.spec.name, key) = {}
  <1>1. HasSpec(rec, key) /\ rec # NoObject /\ key \in Keys
    BY OneNameToRelease
  <1>2. ASSUME NEW r \in Claimants(rec.spec.name, key)
        PROVE  FALSE
    <2>1. r \in Keys /\ r # key /\ cache[r] # NoObject
          /\ cache[r].spec.name = rec.spec.name
      BY DEF Claimants
    <2>2. HasSpec(cache[r], r)
      BY <2>1 DEF Specs
    <2> QED BY <1>1, <2>1, <2>2, NamesDiffer
  <1> QED BY <1>2

\* What a step may put on the router.
LEMMA NextEntries ==
  ASSUME TypeInv, [Next]_vars, NEW n \in Names, There(n)'
  PROVE  There(n) \/ (Command /\ n = rec.spec.name)
  <1> USE DEF There, TypeInv, EntriesOK, Entries
  <1>1. CASE UNCHANGED <<proxies, startup>>
    BY <1>1
  <1>2. CASE Worker
    <2>1. CASE NoIpHttpProxy
      BY <2>1 DEF NoIpHttpProxy
    <2>2. CASE DropSave \/ SaveConfiguration
      BY <2>2 DEF DropSave, SaveConfiguration
    <2>3. CASE Command
      BY <2>3 DEF Command
    <2>4. CASE \/ AddFinalizer \/ CheckName \/ NameConflict \/ Release \/ EnsureProxy
               \/ ApplyFailed \/ Applied \/ RemoveFinalizer
      BY <2>4, <1>1 DEF AddFinalizer, CheckName, NameConflict, Release, EnsureProxy,
            ApplyFailed, Applied, RemoveFinalizer, routerVars
    <2> QED BY <1>2, <2>1, <2>2, <2>3, <2>4 DEF Worker
  <1>3. CASE \E r \in Keys : \/ Reconcile(r) \/ Watch(r) \/ Timer(r)
                             \/ UserCreate(r) \/ UserEdit(r) \/ UserDelete(r)
    BY <1>1, <1>3 DEF Reconcile, Watch, Timer, UserCreate, UserEdit, UserDelete, UserOp,
                routerVars
  <1>4. CASE SessionLost \/ Crash \/ RouterReboot \/ RouterRefuses
    BY <1>4 DEF SessionLost, Crash, RouterReboot, RouterRefuses, routerVars
  <1>5. CASE AdminRemove
    <2>1. PICK m \in Names : proxies' = [proxies EXCEPT ![m] = NoEntry]
      BY <1>5 DEF AdminRemove
    <2>2. startup' \in {startup, proxies'}
      BY <1>5 DEF AdminRemove
    <2> QED BY <2>1, <2>2
  <1>6. CASE OtherSave
    BY <1>6 DEF OtherSave
  <1> QED BY <1>1, <1>2, <1>3, <1>4, <1>5, <1>6 DEF Next, vars, routerVars

LEMMA EntriesStayHeld ==
  ASSUME Premise, TypeInv, Protocol, Specs, Keeping, [Next]_vars
  PROVE  EntriesAreHeld'
  <1>t. RuntimeOK
    BY DEF TypeInv
  <1> SUFFICES ASSUME NEW n \in Names, There(n)'
               PROVE  n \notin BadNames /\ \E k \in Keys : Holds(k, n)'
    BY DEF EntriesAreHeld
  <1>1. There(n) \/ (Command /\ n = rec.spec.name)
    BY NextEntries
  <1>2. n \notin BadNames /\ \E k \in Keys : Holds(k, n)
    <2>1. CASE There(n)
      BY <2>1 DEF Keeping, EntriesAreHeld
    <2>2. CASE Command /\ n = rec.spec.name
      <3>1. pc = "write"
        BY <2>2 DEF Command
      <3>2. n \notin BadNames
        BY <2>2, <3>1 DEF Keeping, SessionKnows
      <3>3. obj[key] # NoObject /\ obj[key].finalizer
        BY <3>1 DEF Protocol, WorkerKnows, ApplySteps, GuardedSteps
      <3>4. rec # NoObject /\ HasSpec(rec, key) /\ key \in Keys
        BY <1>t, <3>1, OneNameToRelease
      <3>5. obj[key].spec.name = n
        BY <2>2, <3>3, <3>4, NameStays DEF Specs
      <3> QED BY <3>2, <3>3, <3>4, <3>5 DEF Holds
    <2> QED BY <1>1, <2>1, <2>2
  <1>k. PICK k \in Keys : Holds(k, n)
    BY <1>2
  <1>3. CASE UNCHANGED obj
    BY <1>2, <1>k, <1>3 DEF Holds
  <1>4. CASE \E r \in Keys : \E o : Writes(r, o) /\ UNCHANGED <<proxies, startup>>
    <2>1. PICK r \in Keys : \E x : Writes(r, x) /\ UNCHANGED <<proxies, startup>>
      BY <1>4
    <2>o. PICK o : Writes(r, o) /\ UNCHANGED <<proxies, startup>>
      BY <2>1
    <2>2. /\ o \in Object \union {NoObject} /\ obj' = [obj EXCEPT ![r] = o]
          /\ HasSpec(o, r) /\ Turn(r, o) /\ obj[k] \in Object \union {NoObject}
      BY <1>t, <2>o DEF Writes, RuntimeOK
    <2>3. CASE k # r
      <3>1. obj'[k] = obj[k]
        BY <1>t, <2>2, <2>3 DEF RuntimeOK
      <3> QED BY <1>2, <1>k, <3>1 DEF Holds
    <2>4. CASE k = r
      <3>1. There(n)
        BY <2>o DEF There
      <3>2. Life(obj[k]) \in {"guarded", "deleting"}
        BY <1>k, <2>2, LifeGuards DEF Holds
      <3>3. ~(pc = "removeFinalizer" /\ k = key /\ rec = obj[k])
        BY <1>k, <3>1 DEF Keeping, SessionKnows, Holds
      <3>4. Life(o) \in {"guarded", "deleting"}
        BY <2>2, <2>4, <3>2, <3>3 DEF Turn
      <3>5. o # NoObject /\ o.finalizer
        BY <2>2, <3>4, LifeGuards
      <3>6. o.spec.name = n
        BY <1>k, <2>2, <2>4, <3>5, NameStays DEF Holds, Specs
      <3>7. obj'[k] = o
        BY <1>t, <2>2, <2>4 DEF RuntimeOK
      <3>8. Holds(k, n)'
        BY <3>5, <3>6, <3>7 DEF Holds
      <3> QED BY <1>2, <3>8
    <2> QED BY <2>3, <2>4
  <1> QED BY <1>t, <1>3, <1>4, NextWrites

\* Steps after which the worker is not in the middle of anything, or where it was.
LEMMA SessionKept ==
  ASSUME SessionKnows, UNCHANGED <<proxies, startup>>,
         \/ pc' \notin ReleaseSteps \union {"write", "removeFinalizer"}
         \/ UNCHANGED <<pc, rec, refused>>
  PROVE  SessionKnows'
  BY DEF SessionKnows, There, ReleaseSteps

LEMMA SessionWorker ==
  ASSUME Premise, TypeInv, Specs, Keeping, Worker
  PROVE  SessionKnows'
  <1> USE DEF TypeInv, Keeping
  <1>r. pc # "idle" => /\ rec.spec.name \in Names /\ rec.spec.name # NoName
                       /\ ~Renamed(rec) /\ ReleasedName(rec) = rec.spec.name
                       /\ Claimants(rec.spec.name, key) = {}
    BY OneNameToRelease, NoClaimants
  <1>1. CASE AddFinalizer \/ NameConflict \/ ApplyFailed \/ Applied \/ RemoveFinalizer
    <2>1. pc' = "idle" /\ UNCHANGED <<proxies, startup>>
      BY <1>1 DEF AddFinalizer, NameConflict, ApplyFailed, Applied, RemoveFinalizer,
                  Update, Return, routerVars
    <2> QED BY <2>1, SessionKept DEF ReleaseSteps
  <1>2. CASE CheckName
    <2>1. pc' \in {"nameConflict", "ensureProxy"} /\ UNCHANGED <<proxies, startup>>
      BY <1>r, <1>2 DEF CheckName, Goto, routerVars
    <2> QED BY <2>1, SessionKept DEF ReleaseSteps
  <1>3. CASE Release
    <2>1. /\ UNCHANGED <<proxies, startup, rec, refused>> /\ rec.deleting
          /\ pc' = IF rec.spec.name \in BadNames THEN "removeFinalizer" ELSE "drop"
      BY <1>r, <1>3 DEF Release, Goto, routerVars, sessionVars, AfterRelease, SessionKnows,
                        ReleaseSteps
    <2>2. rec.spec.name \in BadNames => ~There(rec.spec.name)
      BY <1>r, <1>3 DEF EntriesAreHeld, Release
    <2> QED BY <2>1, <2>2 DEF SessionKnows, There, ReleaseSteps
  <1>4. CASE NoIpHttpProxy
    <2>1. /\ proxies' = [proxies EXCEPT ![rec.spec.name] = NoEntry]
          /\ UNCHANGED rec /\ pc' = "dropSave" /\ rec.deleting
      BY <1>r, <1>4 DEF NoIpHttpProxy, Goto, SessionKnows, ReleaseSteps
    <2>2. proxies'[rec.spec.name] = NoEntry
      BY <1>r, <1>4, <2>1 DEF NoIpHttpProxy, EntriesOK, Entries
    <2> QED BY <2>1, <2>2 DEF SessionKnows, ReleaseSteps
  <1>5. CASE DropSave
    <2>1. CASE refused
      BY <1>5, <2>1 DEF DropSave, Return, SessionKnows, ReleaseSteps
    <2>2. CASE ~refused
      <3>1. /\ proxies[rec.spec.name] = NoEntry /\ rec.deleting
            /\ UNCHANGED <<proxies, rec>> /\ startup' = proxies
            /\ pc' = "removeFinalizer"
        BY <1>5, <2>2 DEF DropSave, Goto, SessionKnows, ReleaseSteps, AfterRelease
      <3> QED BY <3>1 DEF SessionKnows, ReleaseSteps, There
    <2> QED BY <2>1, <2>2
  <1>6. CASE EnsureProxy
    <2>1. /\ UNCHANGED <<proxies, startup, rec>>
          /\ pc' \in {"applyFailed", "applied", "write"}
          /\ pc' = "write" => rec.spec.name \notin BadNames
      BY <1>6 DEF EnsureProxy, Goto, routerVars, Publishable
    <2> QED BY <2>1 DEF SessionKnows, ReleaseSteps
  <1>7. CASE Command
    <2>1. pc = "write" /\ UNCHANGED <<pc, rec>>
      BY <1>7 DEF Command, runtimeVars, workerVars
    <2> QED BY <2>1 DEF SessionKnows, ReleaseSteps
  <1>8. CASE SaveConfiguration
    <2>1. pc' \in {"applyFailed", "applied"}
      BY <1>8 DEF SaveConfiguration, Goto
    <2> QED BY <2>1 DEF SessionKnows, ReleaseSteps
  <1> QED BY <1>1, <1>2, <1>3, <1>4, <1>5, <1>6, <1>7, <1>8 DEF Worker

LEMMA SessionDisturbances ==
  ASSUME TypeInv, Specs, SessionKnows,
         SessionLost \/ Crash \/ RouterReboot \/ RouterRefuses \/ AdminRemove \/ OtherSave
  PROVE  SessionKnows'
  <1>r. pc # "idle" => rec.spec.name \in Names
    BY OneNameToRelease DEF TypeInv
  <1>e. ASSUME SessionError PROVE pc' \in {"idle", "applyFailed"}
    BY <1>e DEF SessionError, Return
  <1>1. CASE SessionLost
    BY <1>1, <1>e DEF SessionLost, SessionKnows, ReleaseSteps
  <1>2. CASE Crash
    BY <1>2 DEF Crash, Restart, SessionKnows, ReleaseSteps
  <1>3. CASE RouterReboot
    <2>1. CASE pc \in SessionSteps
      BY <1>3, <2>1, <1>e DEF RouterReboot, SessionKnows, ReleaseSteps
    <2>2. CASE pc \notin SessionSteps
      BY <1>3, <2>2 DEF RouterReboot, SessionKnows, There, runtimeVars, workerVars,
                        sessionVars, SessionSteps
    <2> QED BY <2>1, <2>2
  <1>4. CASE RouterRefuses
    <2>1. /\ UNCHANGED <<proxies, startup, rec>> /\ refused' = TRUE
          /\ \/ pc = "write" /\ pc' = "write"
             \/ pc = "drop" /\ pc' = "dropSave"
      BY <1>4 DEF RouterRefuses, routerVars, runtimeVars, workerVars, Goto
    <2> QED BY <2>1 DEF SessionKnows, ReleaseSteps
  <1>5. CASE AdminRemove
    <2>1. PICK m \in Names : proxies' = [proxies EXCEPT ![m] = NoEntry]
      BY <1>5 DEF AdminRemove
    <2>2. startup' \in {startup, proxies'} /\ UNCHANGED <<pc, rec, refused>>
      BY <1>5 DEF AdminRemove, runtimeVars, workerVars, sessionVars
    <2>3. \A n \in Names : proxies'[n] \in {proxies[n], NoEntry}
      BY <2>1 DEF TypeInv, EntriesOK, Entries
    <2>4. \A n \in Names : There(n)' => There(n)
      BY <2>2, <2>3 DEF There
    <2> QED BY <1>r, <2>2, <2>3, <2>4 DEF SessionKnows, ReleaseSteps
  <1>6. CASE OtherSave
    BY <1>6 DEF OtherSave, SessionKnows, There, runtimeVars, workerVars, sessionVars
  <1> QED BY <1>1, <1>2, <1>3, <1>4, <1>5, <1>6

LEMMA SessionEvents ==
  ASSUME TypeInv, SessionKnows, NEW r \in Keys,
         \/ Reconcile(r) \/ Watch(r) \/ Timer(r)
         \/ UserCreate(r) \/ UserEdit(r) \/ UserDelete(r)
  PROVE  SessionKnows'
  <1>1. CASE Reconcile(r)
    <2>1. /\ pc' = FirstStep(cache[r])
          /\ pc' # "idle" => rec' = cache[r]
      BY <1>1, TakeType DEF Reconcile, Take, TypeInv
    <2>2. cache[r] \in Object \union {NoObject}
      BY DEF TypeInv, RuntimeOK
    <2>3. /\ pc' \in {"idle", "release", "checkName", "addFinalizer"}
          /\ pc' = "release" => rec'.deleting
      BY <2>1, <2>2, FirstStepType
    <2> QED BY <2>3 DEF SessionKnows, ReleaseSteps
  <1>2. CASE Watch(r) \/ Timer(r)
    BY <1>2, SessionKept DEF Watch, Timer, CacheSync, Requeue, workerVars, routerVars,
                             sessionVars
  <1>3. CASE UserCreate(r) \/ UserEdit(r) \/ UserDelete(r)
    <2>1. UNCHANGED <<pc, rec>>
      BY <1>3 DEF UserCreate, UserEdit, UserDelete, UserWrite
    <2>2. UNCHANGED <<proxies, startup, refused>>
      BY <1>3 DEF UserCreate, UserEdit, UserDelete, UserOp, routerVars, sessionVars
    <2> QED BY <2>1, <2>2, SessionKept
  <1> QED BY <1>1, <1>2, <1>3

LEMMA KeepingInductive ==
  ASSUME Premise, TypeInv, Protocol, Specs, Keeping, [Next]_vars
  PROVE  Keeping'
  <1>1. EntriesAreHeld'
    BY EntriesStayHeld
  <1>2. SessionKnows'
    <2>1. CASE \E r \in Keys : \/ Reconcile(r) \/ Watch(r) \/ Timer(r)
                               \/ UserCreate(r) \/ UserEdit(r) \/ UserDelete(r)
      BY <2>1, SessionEvents DEF Keeping
    <2>2. CASE Worker
      BY <2>2, SessionWorker
    <2>3. CASE SessionLost \/ Crash \/ RouterReboot \/ RouterRefuses
                 \/ AdminRemove \/ OtherSave
      BY <2>3, SessionDisturbances DEF Keeping
    <2>4. CASE UNCHANGED vars
      BY <2>4, SessionKept DEF Keeping, vars, runtimeVars, workerVars, routerVars,
                               sessionVars
    <2> QED BY <2>1, <2>2, <2>3, <2>4 DEF Next
  <1> QED BY <1>1, <1>2 DEF Keeping

LEMMA KeepingInit == Init => Specs /\ Keeping
  BY DEF Init, RuntimeInit, Specs, HasSpec, Keeping, EntriesAreHeld, SessionKnows, There,
         ReleaseSteps

(***************************************************************************)
(* All of it together, in every state.                                     *)
(***************************************************************************)
Custodial == TypeInv /\ Protocol /\ Specs /\ Keeping

LEMMA CustodialInductive ==
  ASSUME Premise
  PROVE  /\ Init => Custodial
         /\ Custodial /\ [Next]_vars => Custodial'
  <1>1. Init => Custodial
    BY TypeInit, ProtocolInductive, KeepingInit DEF Custodial
  <1>2. Custodial /\ [Next]_vars => Custodial'
    <2> SUFFICES ASSUME Custodial, [Next]_vars PROVE Custodial'
      OBVIOUS
    <2>1. TypeInv /\ RuntimeOK /\ Protocol /\ Specs /\ Keeping
      BY DEF Custodial, TypeInv
    <2>2. TypeInv' /\ Protocol'
      BY <2>1, TypeNext, ProtocolInductive
    <2>3. Specs'
      BY <2>1, SpecsInductive
    <2>4. Keeping'
      BY <2>1, KeepingInductive
    <2> QED BY <2>2, <2>3, <2>4 DEF Custodial
  <1> QED BY <1>1, <1>2

(***************************************************************************)
(* "Deleting a resource removes the entry from the router": for objects    *)
(* that keep their name to themselves, every entry of the running and of   *)
(* the stored configuration belongs to an object that still exists.        *)
(***************************************************************************)
THEOREM NoEntryIsStranded ==
  ASSUME Premise
  PROVE  Spec => []NoStrandedEntry
  <1>1. Custodial => NoStrandedEntry
    BY DEF Custodial, Keeping, EntriesAreHeld, Holds, NoStrandedEntry, Exists, There
  <1> QED BY <1>1, CustodialInductive, PTL DEF Spec

-----------------------------------------------------------------------------
(***************************************************************************)
(* The refinement.  A write to the API server is a step of an object's     *)
(* life; every other step leaves the lives as they are, and either writes  *)
(* the entry of the object that is reconciled or adds none.                *)
(***************************************************************************)
Lives == [r \in Keys |-> Life(obj[r])]
Has(k) == \E s \in SpecsOf[k] : {proxies[s.name], startup[s.name]} # {NoEntry}
Held == [r \in Keys |-> Has(r)]

LEMMA HasEntry ==
  ASSUME NEW k \in Keys
  PROVE  /\ Has(k) <=> \E s \in SpecsOf[k] : There(s.name)
         /\ Has(k)' <=> \E s \in SpecsOf[k] : There(s.name)'
  BY DEF Has, There

LEMMA WritesAreLives ==
  ASSUME Premise, Custodial, NEW r \in Keys, NEW o, Writes(r, o),
         UNCHANGED <<proxies, startup>>
  PROVE  [Guardian!Next]_(Guardian!vars)
  <1> DEFINE from == Life(obj[r])
             to == Life(o)
  <1>1. obj \in [Keys -> Object \union {NoObject}] /\ obj' = [obj EXCEPT ![r] = o]
    BY DEF Custodial, TypeInv, RuntimeOK, Writes
  <1>2. Lives[r] = from /\ Lives' = [Lives EXCEPT ![r] = to]
    BY <1>1 DEF Lives
  <1>3. Held' = Held
    BY DEF Held, Has
  <1>4. CASE from = to
    <2>1. Lives' = Lives
      BY <1>2, <1>4 DEF Lives
    <2> QED BY <1>3, <2>1 DEF Guardian!vars, Lives, Held, Has
  <1>5. CASE from # to
    <2> HIDE DEF from, to
    <2>1. Guardian!Become(r, from, to)
      BY <1>2, <1>3 DEF Guardian!Become, Lives, Held, Has
    <2>2. \/ from = "absent" /\ to = "new"
          \/ from = "new" /\ to \in {"guarded", "absent"}
          \/ from = "guarded" /\ to = "deleting"
          \/ from = "deleting" /\ to = "absent" /\ pc = "removeFinalizer"
                /\ r = key /\ rec = obj[r]
      BY <1>5 DEF Writes, Turn, from, to
    <2>3. CASE from = "deleting" /\ to = "absent" /\ pc = "removeFinalizer"
                /\ r = key /\ rec = obj[r]
      <3>1. ~There(rec.spec.name) /\ rec.spec \in SpecsOf[r]
        BY <2>3, OneNameToRelease
           DEF Custodial, TypeInv, Keeping, SessionKnows, Specs, HasSpec
      <3>2. ~Has(r)
        <4>1. \A s \in SpecsOf[r] : s.name = rec.spec.name
          BY <3>1 DEF Premise, SameName
        <4> QED BY <3>1, <4>1, HasEntry
      <3> QED BY <2>1, <2>3, <3>2 DEF Guardian!Next, Guardian!Vanish, Held, Has
    <2> QED BY <2>1, <2>2, <2>3 DEF Guardian!Next, Guardian!Create, Guardian!Guard,
                                     Guardian!Delete
  <1> QED BY <1>4, <1>5

\* An object that gets an entry in this step had one, or is being published.
LEMMA NextHas ==
  ASSUME TypeInv, [Next]_vars, NEW k \in Keys, Has(k)', ~Has(k)
  PROVE  Command /\ \E s \in SpecsOf[k] : s.name = rec.spec.name
  <1>1. PICK s \in SpecsOf[k] : There(s.name)'
    BY HasEntry
  <1>2. s.name \in Names
    BY SpecsAssumption DEF WebAppSpec
  <1>3. ~There(s.name)
    BY HasEntry
  <1> QED BY <1>1, <1>2, <1>3, NextEntries

\* The entry is there as soon as its first command has run.
LEMMA CommandAcquires ==
  ASSUME Premise, TypeInv, Specs, Command
  PROVE  key \in Keys /\ Held' = [Held EXCEPT ![key] = TRUE]
  <1>1. pc = "write" /\ UNCHANGED startup
    BY DEF Command
  <1>2. /\ key \in Keys /\ rec # NoObject /\ HasSpec(rec, key) /\ rec.spec.name \in Names
        /\ rec.spec \in SpecsOf[key]
    BY <1>1, OneNameToRelease DEF TypeInv, HasSpec
  <1>n. PICK n \in Names : n = rec.spec.name
    BY <1>2
  <1>3. There(n)'
    <2>1. Scripted' /\ pc' = "write" /\ rec' = rec
      BY <1>1, CommandType DEF Command, runtimeVars, workerVars, TypeInv
    <2>2. script' = <<>> \/ script'[1] # OpenContext
      <3>1. /\ script \in Seq({OpenContext} \union Settings(ProxyFromSpec(rec.spec)))
            /\ script # <<>> /\ script' = Tail(script)
            /\ \A i \in 2..Len(script) : script[i] # OpenContext
        BY <1>1 DEF Command, TypeInv, Scripted
      <3>2. /\ script' \in Seq({OpenContext} \union Settings(ProxyFromSpec(rec.spec)))
            /\ \A i \in 1..Len(script') : script'[i] # OpenContext
        BY <3>1, SendOne
      <3>3. script' = <<>> \/ 1 \in 1..Len(script')
        BY <3>2, LenProperties, EmptySeq
      <3> QED BY <3>2, <3>3
    <2>3. proxies'[n] # NoEntry
      BY <1>n, <2>1, <2>2 DEF Scripted
    <2> QED BY <2>3 DEF There
  <1>4. \A k \in Keys : Has(k)' = IF k = key THEN TRUE ELSE Has(k)
    <2> TAKE k \in Keys
    <2>1. CASE k = key
      <3>1. Has(k)'
        BY <1>2, <1>n, <1>3, <2>1, HasEntry
      <3> QED BY <2>1, <3>1 DEF Has
    <2>2. CASE k # key
      <3>1. \A s \in SpecsOf[k] : s.name # rec.spec.name
        BY <1>2, <2>2 DEF Premise, OwnNames
      <3>2. \A s \in SpecsOf[k] : proxies'[s.name] = proxies[s.name]
        BY <1>2, <3>1 DEF Command, TypeInv, EntriesOK, Entries
      <3> QED BY <1>1, <2>2, <3>2 DEF Has
    <2> QED BY <2>1, <2>2
  <1> QED BY <1>2, <1>4 DEF Held

LEMMA OthersAreLosses ==
  ASSUME Premise, Custodial, [Next]_vars, UNCHANGED obj
  PROVE  [Guardian!Next]_(Guardian!vars)
  <1> USE DEF Custodial
  <1>t. RuntimeOK
    BY DEF TypeInv
  <1>1. Lives' = Lives
    BY DEF Lives
  <1>2. CASE Command
    <2>1. key \in Keys /\ Held' = [Held EXCEPT ![key] = TRUE]
      BY <1>2, CommandAcquires
    <2>2. obj[key] # NoObject /\ obj[key].finalizer
      BY <1>2 DEF Command, Protocol, WorkerKnows, ApplySteps, GuardedSteps
    <2>4. Lives[key] \in {"guarded", "deleting"}
      <3>1. obj[key] \in Object \union {NoObject}
        BY <1>t, <2>1 DEF RuntimeOK
      <3> QED BY <2>1, <2>2, <3>1, LifeGuards DEF Lives
    <2>5. PICK k \in Keys : k = key
      BY <2>1
    <2>6. Guardian!Acquire(k)
      BY <1>1, <2>1, <2>4, <2>5 DEF Guardian!Acquire, Lives, Held, Has
    <2> QED BY <2>6 DEF Guardian!Next
  <1>3. CASE ~Command
    <2> DEFINE O == {k \in Keys : ~Has(k)'}
    <2>1. \A k \in Keys : Has(k)' => Has(k)
      BY <1>3, NextHas
    <2>2. \A k \in Keys : Has(k)' = (Has(k) /\ k \notin O)
      BY <2>1 DEF Has
    <2>3. O \in SUBSET Keys
      OBVIOUS
    <2> HIDE DEF O
    <2>4. Held' = [k \in Keys |-> Held[k] /\ k \notin O]
      BY <2>2 DEF Held
    <2>5. Guardian!Lose
      BY <1>1, <2>3, <2>4 DEF Guardian!Lose, Lives, Held, Has
    <2> QED BY <2>5 DEF Guardian!Next
  <1> QED BY <1>2, <1>3

LEMMA CustodyInit == Init => Guardian!Init
  <1> SUFFICES ASSUME Init PROVE Guardian!Init
    OBVIOUS
  <1>1. Lives = [r \in Keys |-> "absent"]
    BY DEF Init, RuntimeInit, Lives, Life
  <1>2. \A r \in Keys : Has(r) = FALSE
    <2>1. \A r \in Keys : \A s \in SpecsOf[r] : s.name \in Names
      BY SpecsAssumption DEF WebAppSpec
    <2> QED BY <2>1 DEF Init, Has
  <1> QED BY <1>1, <1>2 DEF Guardian!Init, Lives, Has

LEMMA CustodyStep ==
  ASSUME Premise, Custodial, [Next]_vars
  PROVE  [Guardian!Next]_(Guardian!vars)
  <1>1. CASE UNCHANGED obj
    BY <1>1, OthersAreLosses
  <1>2. CASE \E r \in Keys : \E o : Writes(r, o) /\ UNCHANGED <<proxies, startup>>
    BY <1>2, WritesAreLives
  <1>3. RuntimeOK /\ Protocol /\ Specs
    BY DEF Custodial, TypeInv
  <1> QED BY <1>1, <1>2, <1>3, NextWrites

(***************************************************************************)
(* The controller implements Custody: an entry appears only under the      *)
(* finalizer, and the object goes after the entry has gone from the        *)
(* running and from the stored configuration, through lost sessions,       *)
(* refused commands, restarts, reboots, drift and edits; for objects that  *)
(* keep their name to themselves.                                          *)
(***************************************************************************)
THEOREM CustodyIsKept ==
  ASSUME Premise
  PROVE  Spec => KeepsCustody
  <1>1. Custodial /\ [Next]_vars => [Guardian!Next]_(Guardian!vars)
    BY CustodyStep
  <1> QED BY <1>1, CustodyInit, CustodialInductive, PTL
          DEF Spec, KeepsCustody, Guardian!Spec
=============================================================================
