--------------------------- MODULE HostNameProofs ---------------------------
(***************************************************************************)
(* The names of HostRecord, for any objects, addresses and bounds.  No     *)
(* name of the operator's ever has two addresses, whether or not two       *)
(* objects name the same line, and wherever a session breaks; and the name *)
(* of an object that is reported Applied has the address of its spec.      *)
(***************************************************************************)
EXTENDS HostRecordProofs

\* A line whose name no administrator keeps by hand.
Ours(e) == AddrsOf(AdminEntries, e[1]) = {}

Rivals(e, f) == e[1] = f[1] /\ e # f

\* No two lines of ours have a name in common.
Unique(table) == \A e, f \in table : Ours(e) => ~Rivals(e, f)

(***************************************************************************)
(* Uniqueness is kept by IpHost, and therefore depends on what the session *)
(* has in hand: a line that a line to be added would be the rival of is    *)
(* among the lines to be removed first.  Others may remove lines meanwhile *)
(* and add lines by hand, but none with a name of ours.                    *)
(***************************************************************************)
OneLine ==
    /\ Unique(running) /\ Unique(startup)
    /\ \A w \in wanted : w = rec.spec
    /\ \A w \in wanted, e \in running : Ours(w) /\ Rivals(w, e) => e \in stale

LEMMA AdminsOwn == \A e \in AdminEntries : ~Ours(e)
  BY AddrsAssumption DEF Ours, AddrsOf

LEMMA Fewer ==
  ASSUME NEW table, NEW other, Unique(table), other \subseteq table
  PROVE  Unique(other)
  BY DEF Unique

\* One line more, which has no rival among ours.
LEMMA OneMore ==
  ASSUME NEW table, NEW n, Unique(table),
         Ours(n) => \A e \in table : ~Rivals(n, e)
  PROVE  Unique(table \union {n})
  <1> SUFFICES ASSUME NEW e \in table \union {n}, NEW f \in table \union {n}, Ours(e)
               PROVE  ~Rivals(e, f)
    BY DEF Unique
  <1>1. CASE e = n
    BY <1>1 DEF Rivals
  <1>2. CASE e \in table /\ f \in table
    BY <1>2 DEF Unique
  <1>3. CASE e \in table /\ f = n
    <2>1. e[1] = n[1] => Ours(n)
      BY DEF Ours
    <2> QED BY <1>3, <2>1 DEF Rivals
  <1> QED BY <1>1, <1>2, <1>3

\* Steps that change neither the tables nor what the session has to send,
\* unless it is nothing.
LEMMA OneLineKept ==
  ASSUME OneLine, UNCHANGED <<running, startup>>,
         wanted' = {} \/ UNCHANGED <<wanted, stale, rec>>
  PROVE  OneLine'
  BY DEF OneLine, Unique

LEMMA OneLineWorker ==
  ASSUME TypeInv, OneLine, Worker
  PROVE  OneLine'
  <1> USE DEF TypeInv
  <1>1. CASE AddFinalizer \/ LimitStatus \/ ApplyFailed \/ Applied \/ RemoveFinalizer
    <2>1. wanted = {}
      BY <1>1 DEF AddFinalizer, LimitStatus, ApplyFailed, Applied, RemoveFinalizer,
                  TypeOK, RouterOK
    <2>2. UNCHANGED <<running, startup, wanted>>
      BY <1>1 DEF AddFinalizer, LimitStatus, ApplyFailed, Applied, RemoveFinalizer,
                  routerVars, scriptVars
    <2> QED BY <2>1, <2>2, OneLineKept
  <1>2. CASE CountHosts \/ HasHost
    <2>1. UNCHANGED <<running, startup, wanted, stale, rec>>
      BY <1>2 DEF CountHosts, HasHost, Goto, routerVars, scriptVars
    <2> QED BY <2>1, OneLineKept
  <1>3. CASE EnsureHost
    <2>1. UNCHANGED <<running, startup, rec>> /\ wanted = {}
      BY <1>3 DEF EnsureHost, Goto, routerVars, TypeOK, RouterOK
    <2>2. CASE wanted' = {}
      BY <2>1, <2>2, OneLineKept
    <2>3. CASE wanted' # {}
      <3>1. /\ wanted' = {rec.spec} \ running
            /\ stale' = {e \in running : e[1] = rec.spec[1] /\ e # rec.spec}
        BY <1>3, <2>1, <2>3 DEF EnsureHost, HostCommands, scriptVars
      <3>2. \A w \in wanted' : w = rec.spec
        BY <3>1
      <3>3. \A w \in wanted', e \in running : Rivals(w, e) => e \in stale'
        BY <3>1, <3>2 DEF Rivals
      <3> QED BY <2>1, <3>2, <3>3 DEF OneLine, Unique
    <2> QED BY <2>2, <2>3
  <1>4. CASE NoIpHost
    <2>1. PICK e \in stale : running' = running \ {e} /\ stale' = stale \ {e}
      BY <1>4 DEF NoIpHost
    <2>2. UNCHANGED <<startup, wanted, rec>>
      BY <1>4 DEF NoIpHost, runtimeVars, workerVars
    <2>3. Unique(running')
      BY <2>1, Fewer DEF OneLine
    <2> QED BY <2>1, <2>2, <2>3 DEF OneLine, Unique
  <1>5. CASE IpHost
    <2>1. /\ wanted = {rec.spec} /\ stale = {} /\ wanted' = {}
          /\ running' = running \union {rec.spec} /\ UNCHANGED startup
      BY <1>5 DEF IpHost, OneLine
    <2>2. Ours(rec.spec) => \A e \in running : ~Rivals(rec.spec, e)
      BY <2>1 DEF OneLine
    <2>3. Unique(running')
      BY <2>1, <2>2, OneMore DEF OneLine
    <2> QED BY <2>1, <2>3 DEF OneLine, Unique
  <1>6. CASE SaveConfiguration
    <2>1. startup' = running /\ wanted' = {} /\ UNCHANGED running
      BY <1>6 DEF SaveConfiguration, scriptVars
    <2> QED BY <2>1 DEF OneLine, Unique
  <1> QED BY <1>1, <1>2, <1>3, <1>4, <1>5, <1>6 DEF Worker

LEMMA OneLineDisturbances ==
  ASSUME TypeInv, OneLine, SessionLost \/ Crash \/ RouterReboot \/ RouterRefuses
                             \/ AdminRemove \/ AdminAdd \/ OtherSave
  PROVE  OneLine'
  <1> USE DEF TypeInv
  <1>1. CASE SessionLost
    <2>1. UNCHANGED running /\ startup' \in {startup, running} /\ wanted' = {}
      BY <1>1 DEF SessionLost, SessionError
    <2> QED BY <2>1 DEF OneLine, Unique
  <1>2. CASE Crash
    <2>1. UNCHANGED <<running, startup>> /\ wanted' = {}
      BY <1>2 DEF Crash, routerVars
    <2> QED BY <2>1, OneLineKept
  <1>3. CASE RouterReboot
    <2>1. running' = startup /\ UNCHANGED startup
      BY <1>3 DEF RouterReboot
    <2>2. wanted' = {}
      BY <1>3 DEF RouterReboot, SessionError, SessionSteps, scriptVars, TypeOK, RouterOK
    <2> QED BY <2>1, <2>2 DEF OneLine, Unique
  <1>4. CASE RouterRefuses
    BY <1>4, OneLineKept DEF RouterRefuses, routerVars
  <1>5. CASE AdminRemove
    <2>1. /\ running' \subseteq running /\ startup' \in {startup, running'}
          /\ UNCHANGED <<wanted, stale, rec>>
      BY <1>5 DEF AdminRemove, runtimeVars, workerVars, scriptVars
    <2>2. Unique(running') /\ Unique(startup')
      BY <2>1, Fewer DEF OneLine
    <2> QED BY <2>1, <2>2 DEF OneLine, Unique
  <1>6. CASE AdminAdd
    <2>1. PICK n \in AdminEntries : running' = running \union {n}
      BY <1>6 DEF AdminAdd
    <2>2. startup' \in {startup, running'} /\ UNCHANGED <<wanted, stale, rec>>
      BY <1>6 DEF AdminAdd, runtimeVars, workerVars, scriptVars
    <2>3. ~Ours(n)
      BY AdminsOwn
    <2>4. Unique(running') /\ Unique(startup')
      BY <2>1, <2>2, <2>3, OneMore DEF OneLine
    <2>5. \A w \in wanted : Ours(w) => ~Rivals(w, n)
      BY <2>3 DEF Ours, Rivals
    <2> QED BY <2>1, <2>2, <2>4, <2>5 DEF OneLine, Unique
  <1>7. CASE OtherSave
    <2>1. startup' = running /\ UNCHANGED <<running, wanted, stale, rec>>
      BY <1>7 DEF OtherSave, runtimeVars, workerVars, scriptVars
    <2> QED BY <2>1 DEF OneLine, Unique
  <1> QED BY <1>1, <1>2, <1>3, <1>4, <1>5, <1>6, <1>7

LEMMA OneLineEvents ==
  ASSUME TypeInv, OneLine, NEW r \in Keys,
         \/ Reconcile(r) \/ Watch(r) \/ Timer(r)
         \/ UserCreate(r) \/ UserEdit(r) \/ UserDelete(r)
  PROVE  OneLine'
  <1>1. CASE Reconcile(r)
    <2>1. wanted = {} /\ UNCHANGED <<running, startup, wanted>>
      BY <1>1 DEF Reconcile, Take, routerVars, TypeInv, TypeOK, RouterOK
    <2> QED BY <2>1, OneLineKept
  <1>2. CASE Watch(r) \/ Timer(r)
    BY <1>2, OneLineKept DEF Watch, Timer, CacheSync, Requeue, workerVars, routerVars,
                             scriptVars
  <1>3. CASE UserCreate(r) \/ UserEdit(r) \/ UserDelete(r)
    <2>1. UNCHANGED rec
      BY <1>3 DEF UserCreate, UserEdit, UserDelete, UserWrite
    <2>2. UNCHANGED <<running, startup, wanted, stale>>
      BY <1>3 DEF UserCreate, UserEdit, UserDelete, UserOp, routerVars, scriptVars
    <2> QED BY <2>1, <2>2, OneLineKept
  <1> QED BY <1>1, <1>2, <1>3

LEMMA OneLineInductive == TypeInv /\ OneLine /\ [Next]_vars => OneLine'
  <1> SUFFICES ASSUME TypeInv, OneLine, [Next]_vars PROVE OneLine'
    OBVIOUS
  <1>1. CASE \E r \in Keys : \/ Reconcile(r) \/ Watch(r) \/ Timer(r)
                             \/ UserCreate(r) \/ UserEdit(r) \/ UserDelete(r)
    BY <1>1, OneLineEvents
  <1>2. CASE Worker
    BY <1>2, OneLineWorker
  <1>3. CASE SessionLost \/ Crash \/ RouterReboot \/ RouterRefuses
               \/ AdminRemove \/ AdminAdd \/ OtherSave
    BY <1>3, OneLineDisturbances
  <1>4. CASE UNCHANGED vars
    BY <1>4, OneLineKept DEF vars, runtimeVars, workerVars, routerVars, scriptVars
  <1> QED BY <1>1, <1>2, <1>3, <1>4 DEF Next

-----------------------------------------------------------------------------
\* The addresses of a name of ours are those of one line, if any.
LEMMA OneLineOneAddress == TypeInv /\ OneLine => AtMostOneAddress
  <1> SUFFICES ASSUME TypeInv, OneLine,
                      NEW h \in Hosts, AddrsOf(AdminEntries, h) = {}
               PROVE  Cardinality(AddrsOf(running, h)) <= 1
    BY DEF AtMostOneAddress
  <1>1. running \subseteq Entry
    BY DEF TypeInv, TypeOK, RouterOK
  <1>2. ASSUME NEW a \in AddrsOf(running, h), NEW b \in AddrsOf(running, h)
        PROVE  a = b
    <2>1. PICK e \in running : e[1] = h /\ e[2] = a
      BY <1>2 DEF AddrsOf
    <2>2. PICK f \in running : f[1] = h /\ f[2] = b
      BY <1>2 DEF AddrsOf
    <2>3. Ours(e)
      BY <2>1 DEF Ours
    <2>4. e = f
      BY <2>1, <2>2, <2>3 DEF OneLine, Unique, Rivals
    <2> QED BY <2>1, <2>2, <2>4
  <1>3. CASE AddrsOf(running, h) = {}
    <2>1. Cardinality({}) = 0
      BY FS_EmptySet
    <2> QED BY <1>3, <2>1
  <1>4. CASE AddrsOf(running, h) # {}
    <2>1. PICK a \in AddrsOf(running, h) : TRUE
      BY <1>4
    <2>2. AddrsOf(running, h) = {a}
      BY <1>2, <2>1
    <2>3. Cardinality({a}) = 1
      BY FS_Singleton
    <2> QED BY <2>2, <2>3
  <1> QED BY <1>3, <1>4

(***************************************************************************)
(* At no moment, not even between two commands of a session or with two    *)
(* objects that disagree about the name, does a name of the operator's     *)
(* have two addresses.                                                     *)
(***************************************************************************)
THEOREM OneAddressAtATime == Spec => []AtMostOneAddress
  <1>1. Init => OneLine
    BY DEF Init, OneLine, Unique
  <1> QED BY <1>1, TypeInit, TypeNext, OneLineInductive, OneLineOneAddress, PTL DEF Spec

-----------------------------------------------------------------------------
(***************************************************************************)
(* Ready=Applied is true.  Of a settled object the name has the line of    *)
(* the spec and no other (Exact); it is made so by the session that        *)
(* precedes the status update, and no later session undoes it: the specs   *)
(* of other objects name other hosts, and for the object itself no session *)
(* is opened that writes, although the worker may act on an old copy of    *)
(* it, because a settled object is cached with the spec it was settled     *)
(* with, and cached as not deleted.                                        *)
(***************************************************************************)
Undisturbed == MaxDrift = 0
OwnHosts ==
    \A k, j \in Keys : \A s \in SpecsOf[k], t \in SpecsOf[j] : s[1] = t[1] => k = j

Exact(s) == s \in running /\ \A e \in running : e[1] = s[1] => e = s

Up(k) == obj[k] # NoObject /\ Settled(k)

Truthful == \A k \in Keys : Up(k) => Exact(obj[k].spec)

HasSpec(o, k) == o # NoObject => o.spec \in SpecsOf[k]

\* The copy c shows an observed object o as the worker has observed it.
Shows(c, o) == /\ c # NoObject /\ c.spec = o.spec
               /\ ~o.deleting => ~c.deleting

Copies ==
    /\ \A k \in Keys : /\ HasSpec(obj[k], k) /\ HasSpec(cache[k], k)
                       /\ obj[k] # NoObject /\ obj[k].observed => Shows(cache[k], obj[k])
    /\ pc # "idle" => /\ HasSpec(rec, key)
                      /\ obj[key] # NoObject /\ obj[key].observed => Shows(rec, obj[key])

\* What the session of EnsureHost has still to send makes the name exact.
Sending(s) ==
    /\ wanted \subseteq {s} /\ s \in running \union wanted
    /\ \A e \in running : e[1] = s[1] => e = s \/ e \in stale
    /\ \A e \in stale : e[1] = s[1] /\ e # s

InHand ==
    /\ pc = "write" => ~Up(key) /\ Sending(rec.spec)
    /\ pc = "erase" => stale \subseteq {rec.spec}
    /\ pc = "applied" => Exact(rec.spec)

Ready == Truthful /\ Copies /\ InHand

\* The worker cleans up after no object that is settled.
LEMMA CleanupIsDown ==
  ASSUME RuntimeOK, Protocol, Copies, pc \in CleanupSteps
  PROVE  ~Up(key)
  BY DEF Protocol, WorkerKnows, CleanupSteps, Copies, Shows, Up, Settled

\* A session that touches no lines but those of its own object's name
\* leaves the lines of other objects as they are.
LEMMA OthersStayExact ==
  ASSUME OwnHosts, RuntimeOK, Copies, Truthful, pc # "idle", ~Up(key),
         UNCHANGED obj,
         \A e : e[1] # rec.spec[1] => (e \in running' <=> e \in running)
  PROVE  Truthful'
  <1> SUFFICES ASSUME NEW k \in Keys, Up(k)' PROVE Exact(obj[k].spec)'
    BY DEF Truthful
  <1>1. Up(k) /\ k # key /\ Exact(obj[k].spec)
    BY DEF Up, Settled, Truthful
  <1>2. obj[k].spec[1] # rec.spec[1]
    BY <1>1, NoObjectAssumption DEF RuntimeOK, Copies, HasSpec, OwnHosts, Up
  <1> QED BY <1>1, <1>2 DEF Exact

\* Updates of the worker's copy that keep what it says of the object, or say
\* Applied when it is true.
LEMMA UpdateReady ==
  ASSUME RuntimeOK, Protocol, Ready, pc # "idle",
         NEW o \in Object \union {NoObject}, NEW again \in BOOLEAN,
         Update(o, again), UNCHANGED running,
         o # NoObject => /\ o.spec = rec.spec /\ o.deleting = rec.deleting
                         /\ o.ready = "Applied" /\ o.observed =>
                               \/ rec.ready = "Applied" /\ rec.observed
                               \/ Exact(rec.spec)
  PROVE  Ready'
  <1>1. pc' = "idle" /\ UNCHANGED cache
    BY DEF Update, Return, Store, clusterVars
  <1>2. CASE UNCHANGED obj
    BY <1>1, <1>2 DEF Ready, Truthful, Copies, InHand, Up, Settled, Exact
  <1>3. CASE fresh /\ Store(key, o)
    <2>1. /\ key \in Keys /\ rec # NoObject /\ rec = obj[key] /\ cache[key] = rec
          /\ obj' = [obj EXCEPT ![key] = o]
      BY <1>3, NoObjectAssumption
         DEF RuntimeOK, Protocol, WorkerKnows, CacheExact, Store
    <2>2. obj'[key] = o /\ \A k \in Keys \ {key} : obj'[k] = obj[k]
      BY <2>1 DEF RuntimeOK
    <2>3. Truthful'
      <3> SUFFICES ASSUME NEW k \in Keys, Up(k)' PROVE Exact(obj[k].spec)'
        BY DEF Truthful
      <3>1. CASE k # key
        BY <2>2, <3>1 DEF Ready, Truthful, Up, Settled, Exact
      <3>2. CASE k = key
        <4>1. o # NoObject /\ o.ready = "Applied" /\ o.observed /\ ~o.deleting
          BY <2>2, <3>2 DEF Up, Settled
        <4>2. Exact(rec.spec)
          BY <2>1, <4>1 DEF Ready, Truthful, Up, Settled
        <4> QED BY <2>2, <3>2, <4>1, <4>2 DEF Exact
      <3> QED BY <3>1, <3>2
    <2>4. Copies'
      BY <1>1, <2>1, <2>2 DEF Ready, Copies, HasSpec, Shows
    <2>5. InHand'
      BY <1>1 DEF InHand
    <2> QED BY <2>3, <2>4, <2>5 DEF Ready
  <1> QED BY <1>2, <1>3 DEF Update, clusterVars

\* Steps of a session, and steps that end it.
LEMMA MoveReady ==
  ASSUME Ready, UNCHANGED <<obj, cache>>,
         pc' = "idle" \/ (pc # "idle" /\ UNCHANGED <<key, rec>>),
         Truthful', InHand'
  PROVE  Ready'
  BY DEF Ready, Copies

LEMMA TruthfulKept ==
  ASSUME Truthful, UNCHANGED <<obj, running>>
  PROVE  Truthful'
  BY DEF Truthful, Up, Settled, Exact

LEMMA WorkerReady ==
  ASSUME OwnHosts, TypeInv, Protocol, Ready, Worker
  PROVE  Ready'
  <1>t. RuntimeOK /\ RouterOK
    BY DEF TypeInv, TypeOK
  <1>r. pc # "idle" => key \in Keys /\ rec \in Object /\ rec # NoObject
    BY <1>t, NoObjectAssumption DEF RuntimeOK
  <1>1. CASE AddFinalizer \/ LimitStatus \/ ApplyFailed \/ Applied
    <2>1. /\ pc \in {"addFinalizer", "limitReached", "applyFailed", "applied"}
          /\ rec \in Object /\ ~rec.deleting /\ UNCHANGED running
      BY <1>1, <1>r DEF AddFinalizer, LimitStatus, ApplyFailed, Applied, Protocol,
                        WorkerKnows, ApplySteps, routerVars
    <2>2. PICK o \in Object, again \in BOOLEAN :
             /\ Update(o, again) /\ o.spec = rec.spec /\ o.deleting = rec.deleting
             /\ o.ready = "Applied" /\ o.observed =>
                   (rec.ready = "Applied" /\ rec.observed) \/ pc = "applied"
      <3> DEFINE guarded == [rec EXCEPT !.finalizer = TRUE]
                 limited == [rec EXCEPT !.applied = FALSE, !.ready = "LimitReached"]
                 failed == [rec EXCEPT !.ready = "ApplyFailed"]
                 done == [rec EXCEPT !.applied = TRUE, !.observed = TRUE,
                                     !.ready = "Applied"]
      <3>1. guarded \in Object /\ limited \in Object /\ failed \in Object /\ done \in Object
        BY <2>1, WrittenObjects
      <3>2. /\ \A o \in {guarded, limited, failed, done} :
                  o.spec = rec.spec /\ o.deleting = rec.deleting
            /\ guarded.ready = rec.ready /\ guarded.observed = rec.observed
            /\ limited.ready = "LimitReached" /\ failed.ready = "ApplyFailed"
        BY <2>1 DEF Object
      <3>3. \/ Update(guarded, FALSE) \/ Update(limited, TRUE) \/ Update(failed, TRUE)
            \/ pc = "applied" /\ Update(done, TRUE)
        BY <1>1 DEF AddFinalizer, LimitStatus, ApplyFailed, Applied
      <3> HIDE DEF guarded, limited, failed, done
      <3> QED BY <3>1, <3>2, <3>3
    <2>3. pc = "applied" => Exact(rec.spec)
      BY DEF Ready, InHand
    <2> QED BY <1>t, <2>1, <2>2, <2>3, UpdateReady
  <1>2. CASE RemoveFinalizer
    <2>1. pc # "idle" /\ Update(NoObject, FALSE) /\ UNCHANGED running
      BY <1>2 DEF RemoveFinalizer, routerVars
    <2> QED BY <1>t, <2>1, UpdateReady
  <1>3. CASE CountHosts \/ HasHost
    <2>1. /\ UNCHANGED <<obj, cache, key, rec, running>> /\ pc # "idle"
          /\ pc' \in {"hasHost", "limitReached", "ensureHost"}
      BY <1>3 DEF CountHosts, HasHost, Goto, clusterVars, routerVars
    <2>2. Truthful' /\ InHand'
      BY <2>1, TruthfulKept DEF Ready, InHand
    <2> QED BY <2>1, <2>2, MoveReady
  <1>4. CASE EnsureHost
    <2> DEFINE remove == {e \in running : e[1] = rec.spec[1] /\ e # rec.spec}
               add == {rec.spec} \ running
    <2>1. /\ UNCHANGED <<obj, cache, key, rec, running>> /\ pc = "ensureHost"
          /\ \/ pc' = "applyFailed"
             \/ /\ pc' = IF remove \union add = {} THEN "applied" ELSE "write"
                /\ stale' = remove /\ wanted' = add
      BY <1>4 DEF EnsureHost, HostCommands, Goto, clusterVars, routerVars
    <2>2. remove \union add = {} <=> Exact(rec.spec)
      BY DEF Exact
    <2>3. Up(key) => Exact(rec.spec)
      BY <1>r, <2>1 DEF Ready, Truthful, Copies, Shows, Up, Settled
    <2>4. Truthful'
      BY <2>1, TruthfulKept DEF Ready
    <2>5. CASE pc' = "applyFailed"
      BY <2>1, <2>4, <2>5, MoveReady DEF InHand
    <2>6. CASE pc' = "applied"
      <3>1. InHand'
        BY <2>1, <2>2, <2>6 DEF InHand, Exact
      <3> QED BY <2>1, <2>4, <3>1, MoveReady
    <2>7. CASE pc' = "write"
      <3>1. ~Up(key) /\ stale' = remove /\ wanted' = add
        BY <2>1, <2>2, <2>3, <2>7
      <3>2. Sending(rec.spec)'
        BY <2>1, <3>1 DEF Sending
      <3>3. InHand'
        BY <2>1, <2>7, <3>1, <3>2 DEF InHand, Up, Settled
      <3> QED BY <2>1, <2>4, <3>3, MoveReady
    <2> QED BY <2>1, <2>5, <2>6, <2>7
  <1>5. CASE NoIpHost
    <2>1. PICK e \in stale : running' = running \ {e} /\ stale' = stale \ {e}
      BY <1>5 DEF NoIpHost
    <2>2. UNCHANGED <<obj, cache, pc, key, rec, wanted>> /\ pc \in {"write", "erase"}
      BY <1>5 DEF NoIpHost, runtimeVars, clusterVars, workerVars
    <2>3. e[1] = rec.spec[1] /\ ~Up(key)
      BY <1>t, <2>2, CleanupIsDown DEF Ready, InHand, Sending, CleanupSteps
    <2>4. Truthful'
      BY <1>t, <2>1, <2>2, <2>3, OthersStayExact DEF Ready
    <2>5. InHand'
      BY <2>1, <2>2 DEF Ready, InHand, Sending, Up, Settled
    <2> QED BY <2>2, <2>4, <2>5, MoveReady
  <1>6. CASE IpHost
    <2>1. /\ pc = "write" /\ stale = {} /\ running' = running \union wanted
          /\ wanted' = {} /\ UNCHANGED <<obj, cache, pc, key, rec, stale>>
      BY <1>6 DEF IpHost, runtimeVars, clusterVars, workerVars
    <2>2. ~Up(key) /\ wanted \subseteq {rec.spec}
      BY <2>1 DEF Ready, InHand, Sending
    <2>3. Truthful'
      BY <1>t, <2>1, <2>2, OthersStayExact DEF Ready
    <2>4. InHand'
      BY <2>1, <2>2 DEF Ready, InHand, Sending, Up, Settled
    <2> QED BY <2>1, <2>3, <2>4, MoveReady
  <1>7. CASE SaveConfiguration
    <2>1. /\ UNCHANGED <<obj, cache, key, rec, running>> /\ stale = {} /\ wanted = {}
          /\ \/ pc = "write" /\ pc' = "applied"
             \/ pc = "erase" /\ pc' = "removeFinalizer"
      BY <1>7 DEF SaveConfiguration, Goto, clusterVars
    <2>2. pc = "write" => Exact(rec.spec)
      BY <2>1 DEF Ready, InHand, Sending, Exact
    <2>3. Truthful' /\ InHand'
      BY <2>1, <2>2, TruthfulKept DEF Ready, InHand, Exact
    <2> QED BY <2>1, <2>3, MoveReady
  <1> QED BY <1>1, <1>2, <1>3, <1>4, <1>5, <1>6, <1>7 DEF Worker

LEMMA DisturbancesReady ==
  ASSUME Undisturbed, TypeInv, Ready,
         \/ SessionLost \/ Crash \/ RouterReboot \/ RouterRefuses
         \/ AdminRemove \/ AdminAdd \/ OtherSave
  PROVE  Ready'
  <1>1. ~Drift
    BY BoundsAssumption DEF Drift, Undisturbed, TypeInv, TypeOK, RouterOK
  <1>2. CASE SessionLost
    <2>1. /\ pc' \in {"idle", "applyFailed"} /\ UNCHANGED <<obj, cache, running>>
          /\ pc' = "idle" \/ UNCHANGED <<key, rec>>
          /\ pc # "idle"
      BY <1>2, StepsFacts DEF SessionLost, SessionError, Return, clusterVars
    <2>2. Truthful' /\ InHand'
      BY <2>1, TruthfulKept DEF Ready, InHand
    <2> QED BY <2>1, <2>2, MoveReady
  <1>3. CASE Crash
    <2>1. pc' = "idle" /\ cache' = obj /\ UNCHANGED <<obj, running>>
      BY <1>3 DEF Crash, Restart, routerVars
    <2>2. Truthful' /\ InHand'
      BY <2>1, TruthfulKept DEF Ready, InHand
    <2>3. Copies'
      BY <2>1 DEF Ready, Copies, Shows
    <2> QED BY <2>2, <2>3 DEF Ready
  <1>4. CASE OtherSave
    BY <1>4 DEF OtherSave, Ready, Truthful, Copies, InHand, Up, Settled, Exact, Sending,
                runtimeVars, clusterVars, workerVars, scriptVars
  <1> QED BY <1>1, <1>2, <1>3, <1>4
          DEF RouterReboot, RouterRefuses, AdminRemove, AdminAdd

\* The writes of the users take the observation away, or only delete.
LEMMA UsersUnsettle ==
  ASSUME RuntimeOK, Copies, NEW r \in Keys,
         UserCreate(r) \/ UserEdit(r) \/ UserDelete(r)
  PROVE  \E o \in Object \union {NoObject} :
            /\ UserWrite(r, o) /\ HasSpec(o, r)
            /\ o # NoObject /\ o.observed => /\ obj[r] # NoObject /\ obj[r].observed
                                             /\ o.spec = obj[r].spec /\ o.deleting
  <1>o. obj[r] # NoObject => obj[r] \in Object /\ HasSpec(obj[r], r)
    BY DEF RuntimeOK, Copies
  <1>1. CASE UserCreate(r)
    <2>1. PICK s \in SpecsOf[r] : UserWrite(r, NewObject(s))
      BY <1>1 DEF UserCreate
    <2>2. NewObject(s) \in Object
      BY SpecsAssumption, WrittenObjects
    <2>3. NewObject(s).spec = s /\ ~NewObject(s).observed
      BY DEF NewObject
    <2> QED BY <2>1, <2>2, <2>3 DEF HasSpec
  <1>2. CASE UserEdit(r)
    <2>1. PICK s \in SpecsOf[r] :
             UserWrite(r, [obj[r] EXCEPT !.spec = s, !.observed = FALSE])
      BY <1>2 DEF UserEdit
    <2> DEFINE o == [obj[r] EXCEPT !.spec = s, !.observed = FALSE]
    <2>2. obj[r] \in Object
      BY <1>2, <1>o DEF UserEdit
    <2>3. o \in Object /\ o.spec = s /\ ~o.observed
      <3>1. s \in Entry
        BY SpecsAssumption
      <3>2. o \in Object
        BY <2>2, <3>1, WrittenObjects
      <3>3. o.spec = s /\ ~o.observed
        BY <2>2 DEF Object
      <3> QED BY <3>2, <3>3
    <2> HIDE DEF o
    <2>4. UserWrite(r, o)
      BY <2>1 DEF o
    <2> QED BY <2>3, <2>4 DEF HasSpec
  <1>3. CASE UserDelete(r)
    <2>1. obj[r] # NoObject /\ obj[r] \in Object /\ HasSpec(obj[r], r)
      BY <1>3, <1>o DEF UserDelete
    <2>2. CASE obj[r].finalizer
      <3> DEFINE o == [obj[r] EXCEPT !.deleting = TRUE]
      <3>1. /\ o \in Object /\ o.deleting /\ o.spec = obj[r].spec
            /\ o.observed = obj[r].observed
        BY <2>1, WrittenObjects DEF Object
      <3>2. UserWrite(r, o)
        BY <1>3, <2>2 DEF UserDelete
      <3> HIDE DEF o
      <3> QED BY <2>1, <3>1, <3>2 DEF HasSpec
    <2>3. CASE ~obj[r].finalizer
      <3>1. UserWrite(r, NoObject)
        BY <1>3, <2>3 DEF UserDelete
      <3> QED BY <3>1 DEF HasSpec
    <2> QED BY <2>2, <2>3
  <1> QED BY <1>1, <1>2, <1>3

LEMMA EventsReady ==
  ASSUME TypeInv, Ready, NEW r \in Keys,
         \/ Reconcile(r) \/ Watch(r) \/ Timer(r)
         \/ UserCreate(r) \/ UserEdit(r) \/ UserDelete(r)
  PROVE  Ready'
  <1>t. RuntimeOK
    BY DEF TypeInv, TypeOK
  <1>1. CASE Reconcile(r)
    <2> DEFINE step == FirstStep(cache[r])
    <2>1. /\ UNCHANGED <<obj, cache, running>> /\ pc' = step
          /\ stale' = IF step = "erase" THEN {cache[r].spec} ELSE {}
          /\ step # "idle" => key' = r /\ rec' = cache[r]
      BY <1>1, <1>t, TakeType DEF Reconcile, Take, clusterVars, routerVars
    <2>2. /\ step \in {"idle", "erase", "removeFinalizer", "addFinalizer", "countHosts"}
          /\ step # "idle" => cache[r] \in Object
      BY <1>t, FirstStepType DEF RuntimeOK
    <2> HIDE DEF step
    <2>3. Truthful'
      BY <2>1, TruthfulKept DEF Ready
    <2>4. InHand'
      BY <2>1, <2>2 DEF InHand
    <2>5. Copies'
      BY <2>1 DEF Ready, Copies
    <2> QED BY <2>3, <2>4, <2>5 DEF Ready
  <1>2. CASE Watch(r) \/ Timer(r)
    <2>1. /\ UNCHANGED <<obj, running, pc, key, rec, stale, wanted>>
          /\ cache' = [cache EXCEPT ![r] = obj[r]] \/ UNCHANGED cache
      BY <1>2 DEF Watch, Timer, CacheSync, Requeue, clusterVars, workerVars, routerVars,
                  scriptVars
    <2>2. \A k \in Keys : cache'[k] \in {cache[k], obj[k]}
      BY <1>t, <2>1 DEF RuntimeOK
    <2>3. Truthful' /\ InHand'
      BY <2>1, TruthfulKept DEF Ready, InHand, Up, Settled, Exact, Sending
    <2>4. Copies'
      BY <2>1, <2>2 DEF Ready, Copies, Shows
    <2> QED BY <2>3, <2>4 DEF Ready
  <1>3. CASE UserCreate(r) \/ UserEdit(r) \/ UserDelete(r)
    <2>1. PICK o \in Object \union {NoObject} :
             /\ UserWrite(r, o) /\ HasSpec(o, r)
             /\ o # NoObject /\ o.observed => /\ obj[r] # NoObject /\ obj[r].observed
                                              /\ o.spec = obj[r].spec /\ o.deleting
      BY <1>3, <1>t, UsersUnsettle DEF Ready
    <2>2. /\ obj'[r] = o /\ \A k \in Keys \ {r} : obj'[k] = obj[k]
          /\ UNCHANGED <<cache, pc, key, rec>>
      BY <1>t, <2>1 DEF UserWrite, Store, RuntimeOK
    <2>3. UNCHANGED <<running, stale, wanted>>
      BY <1>3 DEF UserCreate, UserEdit, UserDelete, UserOp, routerVars, scriptVars
    <2>4. \A k \in Keys : Up(k)' => k # r /\ Up(k)
      BY <2>1, <2>2 DEF Up, Settled
    <2>5. Truthful'
      BY <2>2, <2>3, <2>4 DEF Ready, Truthful, Exact
    <2>6. InHand'
      BY <1>t, <2>2, <2>3, <2>4 DEF Ready, InHand, Sending, Exact, RuntimeOK
    <2>7. Copies'
      BY <1>t, <2>1, <2>2 DEF Ready, Copies, HasSpec, Shows, RuntimeOK
    <2> QED BY <2>5, <2>6, <2>7 DEF Ready
  <1> QED BY <1>1, <1>2, <1>3

LEMMA ReadyInductive ==
  ASSUME Undisturbed, OwnHosts
  PROVE  /\ Init => Ready
         /\ TypeInv /\ Protocol /\ Ready /\ [Next]_vars => Ready'
  <1>1. Init => Ready
    BY DEF Init, RuntimeInit, Ready, Truthful, Copies, InHand, HasSpec, Up
  <1>2. ASSUME TypeInv, Protocol, Ready, [Next]_vars PROVE Ready'
    <2>1. CASE \E r \in Keys : \/ Reconcile(r) \/ Watch(r) \/ Timer(r)
                               \/ UserCreate(r) \/ UserEdit(r) \/ UserDelete(r)
      BY <1>2, <2>1, EventsReady
    <2>2. CASE Worker
      BY <1>2, <2>2, WorkerReady
    <2>3. CASE SessionLost \/ Crash \/ RouterReboot \/ RouterRefuses
                 \/ AdminRemove \/ AdminAdd \/ OtherSave
      BY <1>2, <2>3, DisturbancesReady
    <2>4. CASE UNCHANGED vars
      BY <1>2, <2>4 DEF Ready, Truthful, Copies, InHand, Up, Settled, Exact, Sending,
            vars, runtimeVars, clusterVars, workerVars, routerVars, scriptVars
    <2> QED BY <1>2, <2>1, <2>2, <2>3, <2>4 DEF Next
  <1> QED BY <1>1, <1>2

(***************************************************************************)
(* Ready=Applied with observedGeneration current tells the truth, whatever *)
(* was edited, lost or restarted meanwhile: while nobody else touches the  *)
(* router and no two objects share a name, the name has exactly the        *)
(* address of the spec.                                                    *)
(***************************************************************************)
THEOREM AppliedIsTrue ==
  ASSUME Undisturbed, OwnHosts
  PROVE  Spec => []ReadyIsTrue
  <1>1. TypeInv /\ Ready => ReadyIsTrue
    <2> SUFFICES ASSUME TypeInv, Ready, NEW r \in Keys, Exists(r) /\ Settled(r)
                 PROVE  AddrsOf(running, obj[r].spec[1]) = {obj[r].spec[2]}
      BY DEF ReadyIsTrue
    <2>1. Exact(obj[r].spec)
      BY DEF Ready, Truthful, Up, Exists
    <2> QED BY <2>1 DEF Exact, AddrsOf
  <1> QED BY <1>1, TypeInit, TypeNext, ProtocolInductive, ReadyInductive, PTL DEF Spec
=============================================================================
