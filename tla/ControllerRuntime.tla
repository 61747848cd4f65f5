------------------------- MODULE ControllerRuntime -------------------------
(***************************************************************************)
(* What the reconcilers of internal/controller stand on and the repository *)
(* does not contain: the Kubernetes API server and controller-runtime.     *)
(* It is modelled from the way the code uses it.                           *)
(*                                                                         *)
(*   - r.Get and r.List read an informer cache that trails the API server; *)
(*   - r.Update and r.Status().Update carry the resourceVersion of the     *)
(*     copy that was read and fail (409) once the object has moved on;     *)
(*   - every change of an object reaches the cache as an event, and the    *)
(*     event puts its key on the work queue;                               *)
(*   - an error, or a RequeueAfter, puts the key on the queue again later; *)
(*   - one worker takes the keys (MaxConcurrentReconciles is left at 1 and *)
(*     cmd/main.go elects one leader among the replicas);                  *)
(*   - a new process, or a new leader, lists everything from scratch.      *)
(***************************************************************************)
EXTENDS Naturals, FiniteSets

CONSTANTS Keys,       \* namespace/name of the objects of one kind
          NoKey,      \* the worker holds no key
          NoObject,   \* the API server (or the cache) has no such object
          MaxFaults   \* bound on lost requests, lost sessions and restarts

ASSUME NoKeyAssumption == NoKey \notin Keys
ASSUME MaxFaultsAssumption == MaxFaults \in Nat

VARIABLES obj,      \* the API server's objects
          cache,    \* the informer's copies
          lagging,  \* keys whose last change has not reached the cache
          queue,    \* work queue
          delayed,  \* keys that come back later: AddAfter, AddRateLimited
          pc,       \* what the worker does next, "idle" between two keys
          key,      \* the key the worker holds
          rec,      \* the worker's copy of the object
          fresh,    \* whether the copy's resourceVersion is still current
          faults    \* faults so far

clusterVars == <<obj, cache, lagging>>
queueVars == <<queue, delayed>>
workerVars == <<pc, key, rec, fresh>>
runtimeVars == <<clusterVars, queueVars, workerVars, faults>>

-----------------------------------------------------------------------------
(***************************************************************************)
(* Writes.  A write that changes nothing keeps the resourceVersion and     *)
(* fires no event.                                                         *)
(***************************************************************************)
Store(k, o) ==
    /\ obj' = [obj EXCEPT ![k] = o]
    /\ lagging' = IF o = obj[k] THEN lagging ELSE lagging \union {k}
    /\ UNCHANGED cache

\* A write by somebody else: the worker's copy of the object becomes outdated.
UserWrite(k, o) ==
    /\ Store(k, o)
    /\ fresh' = (fresh /\ k # key)
    /\ UNCHANGED <<queueVars, pc, key, rec, faults>>

\* Reconcile returns; again is its RequeueAfter or its error.
Return(again) ==
    /\ pc' = "idle"
    /\ key' = NoKey
    /\ rec' = NoObject
    /\ fresh' = FALSE
    /\ delayed' = IF again THEN delayed \union {key} ELSE delayed
    /\ UNCHANGED queue

\* A request that does not come back: the error sends the key to the queue.
Fault == /\ faults < MaxFaults
         /\ faults' = faults + 1

(***************************************************************************)
(* r.Update or r.Status().Update of the worker's copy, the last call of    *)
(* every reconcile that makes one.  It succeeds, conflicts, or is lost     *)
(* before or after the server has carried it out.                          *)
(***************************************************************************)
Update(o, again) ==
    \/ fresh /\ Store(key, o) /\ Return(again) /\ UNCHANGED faults
    \/ ~fresh /\ Return(TRUE) /\ UNCHANGED <<clusterVars, faults>>
    \/ Fault /\ Return(TRUE) /\ UNCHANGED clusterVars
    \/ Fault /\ fresh /\ Store(key, o) /\ Return(TRUE)

(***************************************************************************)
(* The worker takes a key and reads the object; step is what the reconcile *)
(* then goes on to do, "idle" if it returns at once.                       *)
(***************************************************************************)
Take(k, step) ==
    /\ pc = "idle"
    /\ k \in queue
    /\ queue' = queue \ {k}
    /\ IF step = "idle"
       THEN UNCHANGED workerVars
       ELSE /\ pc' = step
            /\ key' = k
            /\ rec' = cache[k]
            /\ fresh' = (k \notin lagging)
    /\ UNCHANGED <<clusterVars, delayed, faults>>

Goto(step) ==
    /\ pc' = step
    /\ UNCHANGED <<clusterVars, queueVars, key, rec, fresh, faults>>

-----------------------------------------------------------------------------
\* The watch delivers the latest version of an object.
CacheSync(k) ==
    /\ k \in lagging
    /\ cache' = [cache EXCEPT ![k] = obj[k]]
    /\ lagging' = lagging \ {k}
    /\ queue' = queue \union {k}
    /\ UNCHANGED <<obj, delayed, workerVars, faults>>

\* The back-off or the RequeueAfter of a key has run out.
Requeue(k) ==
    /\ k \in delayed
    /\ delayed' = delayed \ {k}
    /\ queue' = queue \union {k}
    /\ UNCHANGED <<clusterVars, workerVars, faults>>

\* The process dies or loses the lease; its successor lists everything.
Restart ==
    /\ Fault
    /\ cache' = obj
    /\ lagging' = {}
    /\ queue' = {k \in Keys : obj[k] # NoObject}
    /\ delayed' = {}
    /\ pc' = "idle" /\ key' = NoKey /\ rec' = NoObject /\ fresh' = FALSE
    /\ UNCHANGED obj

RuntimeInit ==
    /\ obj = [k \in Keys |-> NoObject]
    /\ cache = obj
    /\ lagging = {} /\ queue = {} /\ delayed = {}
    /\ pc = "idle" /\ key = NoKey /\ rec = NoObject /\ fresh = FALSE
    /\ faults = 0
=============================================================================
