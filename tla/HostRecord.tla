----------------------------- MODULE HostRecord -----------------------------
(***************************************************************************)
(* The actuator of KeeneticHostRecord objects                              *)
(* (internal/controller/keenetichostrecord_controller.go) and the part of  *)
(* the SSH client it drives (internal/keenetic/client.go): it keeps one    *)
(* `ip host <hostname> <address>` line on the router per object.           *)
(*                                                                         *)
(* The worker's pc names the call of Reconcile that comes next.  Each call *)
(* is one SSH session or one API request; the commands of a session that   *)
(* writes are separate steps, because the router executes them one by one  *)
(* and the session can break between any two of them.                      *)
(***************************************************************************)
EXTENDS ControllerRuntime

CONSTANTS Hosts, Addrs,
          BadAddrs,    \* addresses validateHostIP refuses
          SpecsOf,     \* the specs the users give each object
          MaxHosts,    \* KEENETIC_MAX_HOSTS
          AdminEntries,\* lines the administrator keeps on the router by hand
          MaxUserOps,  \* bound on creations, edits and deletions
          MaxDrift     \* bound on reboots, manual edits and refusals

Entry == Hosts \X Addrs

ASSUME SpecsAssumption == SpecsOf \in [Keys -> SUBSET Entry]
ASSUME AddrsAssumption == BadAddrs \subseteq Addrs /\ AdminEntries \subseteq Entry
ASSUME BoundsAssumption ==
    MaxHosts \in Nat /\ MaxUserOps \in Nat /\ MaxDrift \in Nat

VARIABLES running,  \* the `ip host` lines of running-config
          startup,  \* and of the configuration the router boots from
          count,    \* what CountHosts returned
          stale,    \* `no ip host` commands the session has still to send
          wanted,   \* `ip host` commands the session has still to send
          ops, drift

routerVars == <<running, startup>>
scriptVars == <<stale, wanted>>
vars == <<runtimeVars, routerVars, count, scriptVars, ops, drift>>

Reasons == {"Unset", "Applied", "LimitReached", "ApplyFailed"}

\* observed: status.observedGeneration equals metadata.generation.
Object == [deleting : BOOLEAN, finalizer : BOOLEAN, spec : Entry,
           applied : BOOLEAN, observed : BOOLEAN, ready : Reasons]

ASSUME NoObjectAssumption == NoObject \notin Object

Steps == {"idle", "addFinalizer", "countHosts", "hasHost", "limitReached",
          "ensureHost", "write", "applyFailed", "applied", "erase",
          "removeFinalizer"}

\* The steps at which a session with the router is open, or about to be.
SessionSteps == {"countHosts", "hasHost", "ensureHost", "write", "erase"}

ValidHostIP(spec) == spec[2] \notin BadAddrs

AddrsOf(table, host) == {e[2] : e \in {f \in table : f[1] = host}}

-----------------------------------------------------------------------------
(***************************************************************************)
(* Reconcile, up to its first call that is not a read of the cache.        *)
(***************************************************************************)
Cleanup(o) == IF ValidHostIP(o.spec) THEN "erase" ELSE "removeFinalizer"

\* Mutant: the object is applied without waiting for its finalizer.
FirstStep_Unguarded(o) ==
    CASE o = NoObject -> "idle"
      [] o # NoObject /\ o.deleting -> Cleanup(o)
      [] OTHER -> "countHosts"

FirstStep(o) ==
    CASE o = NoObject -> "idle"
      [] o # NoObject /\ o.deleting /\ o.finalizer -> Cleanup(o)
      [] o # NoObject /\ o.deleting /\ ~o.finalizer -> "idle"
      [] o # NoObject /\ ~o.deleting /\ ~o.finalizer -> "addFinalizer"
      [] OTHER -> "countHosts"

Reconcile(r) ==
    LET step == FirstStep(cache[r]) IN
    /\ Take(r, step)
    /\ stale' = IF step = "erase" THEN {cache[r].spec} ELSE {}
    /\ UNCHANGED <<routerVars, count, wanted, ops, drift>>

AddFinalizer ==
    /\ pc = "addFinalizer"
    /\ Update([rec EXCEPT !.finalizer = TRUE], FALSE)
    /\ UNCHANGED <<routerVars, count, scriptVars, ops, drift>>

(***************************************************************************)
(* The guard on the router's limit: two sessions, CountHosts and HasHost.  *)
(***************************************************************************)
CountHosts ==
    /\ pc = "countHosts"
    /\ count' = Cardinality(running)
    /\ Goto("hasHost")
    /\ UNCHANGED <<routerVars, scriptVars, ops, drift>>

\* Mutant: the test for the line the wrong way round.
LimitReached_Inverted(exists, n) == exists /\ n >= MaxHosts

LimitReached(exists, n) == ~exists /\ n >= MaxHosts

HasHost ==
    /\ pc = "hasHost"
    /\ Goto(IF LimitReached(rec.spec \in running, count)
            THEN "limitReached" ELSE "ensureHost")
    /\ count' = 0
    /\ UNCHANGED <<routerVars, scriptVars, ops, drift>>

\* Mutant: a rejected object is not tried again.
LimitStatus_NoRequeue ==
    /\ pc = "limitReached"
    /\ Update([rec EXCEPT !.applied = FALSE, !.ready = "LimitReached"], FALSE)
    /\ UNCHANGED <<routerVars, count, scriptVars, ops, drift>>

LimitStatus ==
    /\ pc = "limitReached"
    /\ Update([rec EXCEPT !.applied = FALSE, !.ready = "LimitReached"], TRUE)
    /\ UNCHANGED <<routerVars, count, scriptVars, ops, drift>>

(***************************************************************************)
(* EnsureHost: validate, list the name's lines in one session, send the    *)
(* commands that leave it exactly one in another.                          *)
(***************************************************************************)
\* Mutants: the previous lines of the name stay; the line is always re-sent.
HostCommands_AddOnly(spec, table) == [remove |-> {}, add |-> {spec} \ table]
HostCommands_Always(spec, table) ==
    [remove |-> {e \in table : e[1] = spec[1] /\ e # spec}, add |-> {spec}]

HostCommands(spec, table) ==
    [remove |-> {e \in table : e[1] = spec[1] /\ e # spec},
     add    |-> {spec} \ table]

EnsureHost ==
    LET cmds == HostCommands(rec.spec, running) IN
    /\ pc = "ensureHost"
    /\ IF ~ValidHostIP(rec.spec)
       THEN Goto("applyFailed") /\ UNCHANGED scriptVars
       ELSE /\ Goto(IF cmds.remove \union cmds.add = {} THEN "applied" ELSE "write")
            /\ stale' = cmds.remove
            /\ wanted' = cmds.add
    /\ UNCHANGED <<routerVars, count, ops, drift>>

(***************************************************************************)
(* The session of EnsureHost ("write") or DeleteHost ("erase").  The       *)
(* answers to its commands are not looked at.                              *)
(***************************************************************************)
NoIpHost ==
    /\ pc \in {"write", "erase"}
    /\ \E e \in stale : /\ running' = running \ {e}
                        /\ stale' = stale \ {e}
    /\ UNCHANGED <<runtimeVars, startup, count, wanted, ops, drift>>

IpHost ==
    /\ pc = "write" /\ stale = {} /\ wanted # {}
    /\ running' = running \union wanted
    /\ wanted' = {}
    /\ UNCHANGED <<runtimeVars, startup, count, stale, ops, drift>>

\* Mutant: DeleteHost does not save.
SaveConfiguration_WriteOnly ==
    /\ pc \in {"write", "erase"} /\ stale = {} /\ wanted = {}
    /\ startup' = IF pc = "write" THEN running ELSE startup
    /\ Goto(IF pc = "write" THEN "applied" ELSE "removeFinalizer")
    /\ UNCHANGED <<running, count, scriptVars, ops, drift>>

SaveConfiguration ==
    /\ pc \in {"write", "erase"} /\ stale = {} /\ wanted = {}
    /\ startup' = running
    /\ Goto(IF pc = "write" THEN "applied" ELSE "removeFinalizer")
    /\ UNCHANGED <<running, count, scriptVars, ops, drift>>

ApplyFailed ==
    /\ pc = "applyFailed"
    /\ Update([rec EXCEPT !.ready = "ApplyFailed"], TRUE)
    /\ UNCHANGED <<routerVars, count, scriptVars, ops, drift>>

\* Mutants: no periodic re-assertion; a status patch without resourceVersion.
Applied_NoRequeue ==
    /\ pc = "applied"
    /\ Update([rec EXCEPT !.applied = TRUE, !.observed = TRUE, !.ready = "Applied"],
              FALSE)
    /\ UNCHANGED <<routerVars, count, scriptVars, ops, drift>>
Applied_BlindPatch ==
    /\ pc = "applied"
    /\ Store(key, [obj[key] EXCEPT !.applied = TRUE, !.observed = TRUE,
                                   !.ready = "Applied"])
    /\ Return(TRUE)
    /\ UNCHANGED <<faults, routerVars, count, scriptVars, ops, drift>>

Applied ==
    /\ pc = "applied"
    /\ Update([rec EXCEPT !.applied = TRUE, !.observed = TRUE, !.ready = "Applied"],
              TRUE)
    /\ UNCHANGED <<routerVars, count, scriptVars, ops, drift>>

\* The API server drops a deleted object together with its last finalizer.
RemoveFinalizer ==
    /\ pc = "removeFinalizer"
    /\ Update(NoObject, FALSE)
    /\ UNCHANGED <<routerVars, count, scriptVars, ops, drift>>

-----------------------------------------------------------------------------
(***************************************************************************)
(* Errors.  run returns an error when the session breaks; the router may   *)
(* have carried out the command whose prompt was not seen (for the last    *)
(* one, `save`, that is a case of its own; for the others it is the same   *)
(* as breaking before the next command).                                   *)
(***************************************************************************)
\* Mutants: unsent commands survive the session; a failed cleanup is dropped.
SessionError_KeepsScript ==
    /\ IF pc \in {"ensureHost", "write"}
       THEN /\ pc' = "applyFailed"
            /\ UNCHANGED <<queueVars, key, rec, fresh>>
       ELSE Return(TRUE)
    /\ count' = 0
    /\ UNCHANGED <<clusterVars, scriptVars>>
SessionError_NoRetry ==
    /\ IF pc \in {"ensureHost", "write"}
       THEN /\ pc' = "applyFailed"
            /\ UNCHANGED <<queueVars, key, rec, fresh>>
       ELSE Return(FALSE)
    /\ count' = 0 /\ stale' = {} /\ wanted' = {}
    /\ UNCHANGED clusterVars

SessionError ==
    /\ IF pc \in {"ensureHost", "write"}
       THEN /\ pc' = "applyFailed"
            /\ UNCHANGED <<queueVars, key, rec, fresh>>
       ELSE Return(TRUE)
    /\ count' = 0 /\ stale' = {} /\ wanted' = {}
    /\ UNCHANGED clusterVars

SessionLost ==
    /\ pc \in SessionSteps
    /\ pc = "ensureHost" => ValidHostIP(rec.spec)
    /\ Fault
    /\ SessionError
    /\ startup' \in {startup} \union
          (IF pc \in {"write", "erase"} /\ stale = {} /\ wanted = {}
           THEN {running} ELSE {})
    /\ UNCHANGED <<running, ops, drift>>

Crash ==
    /\ Restart
    /\ count' = 0 /\ stale' = {} /\ wanted' = {}
    /\ UNCHANGED <<routerVars, ops, drift>>

(***************************************************************************)
(* The router's own life.  A router that reboots is away for longer than   *)
(* the dial timeout, so the session that is open, or next, fails.          *)
(***************************************************************************)
Drift == /\ drift < MaxDrift
         /\ drift' = drift + 1

RouterReboot ==
    /\ Drift
    /\ running' = startup
    /\ IF pc \in SessionSteps
       THEN SessionError /\ UNCHANGED faults
       ELSE UNCHANGED <<runtimeVars, count, scriptVars>>
    /\ UNCHANGED <<startup, ops>>

\* The router answers `ip host` with an error and adds no line.
RouterRefuses ==
    /\ pc = "write" /\ stale = {} /\ wanted # {}
    /\ Drift
    /\ wanted' = {}
    /\ UNCHANGED <<runtimeVars, routerVars, count, stale, ops>>

AdminRemove ==
    /\ Drift
    /\ \E e \in running : running' = running \ {e}
    /\ startup' \in {startup, running'}
    /\ UNCHANGED <<runtimeVars, count, scriptVars, ops>>

AdminAdd ==
    /\ Drift
    /\ Cardinality(running) < MaxHosts
    /\ \E e \in AdminEntries : running' = running \union {e}
    /\ startup' \in {startup, running'}
    /\ UNCHANGED <<runtimeVars, count, scriptVars, ops>>

\* The other controller saves, and `system configuration save` saves what there
\* is, this controller's half-finished work included.
OtherSave ==
    /\ pc \notin {"write", "erase"}
    /\ startup' = running
    /\ UNCHANGED <<runtimeVars, running, count, scriptVars, ops, drift>>

-----------------------------------------------------------------------------
(***************************************************************************)
(* The objects' owners: people with kubectl, and the Ingress controller.   *)
(***************************************************************************)
UserOp == /\ ops < MaxUserOps
          /\ ops' = ops + 1
          /\ UNCHANGED <<routerVars, count, scriptVars, drift>>

NewObject(s) == [deleting |-> FALSE, finalizer |-> FALSE, spec |-> s,
                 applied |-> FALSE, observed |-> FALSE, ready |-> "Unset"]

UserCreate(r) ==
    /\ UserOp
    /\ obj[r] = NoObject
    /\ \E s \in SpecsOf[r] : UserWrite(r, NewObject(s))

UserEdit(r) ==
    /\ UserOp
    /\ obj[r] # NoObject
    /\ \E s \in SpecsOf[r] \ {obj[r].spec} :
          UserWrite(r, [obj[r] EXCEPT !.spec = s, !.observed = FALSE])

UserDelete(r) ==
    /\ UserOp
    /\ obj[r] # NoObject /\ ~obj[r].deleting
    /\ UserWrite(r, IF obj[r].finalizer THEN [obj[r] EXCEPT !.deleting = TRUE]
                                        ELSE NoObject)

-----------------------------------------------------------------------------
Init ==
    /\ RuntimeInit
    /\ running = {} /\ startup = {}
    /\ count = 0 /\ stale = {} /\ wanted = {}
    /\ ops = 0 /\ drift = 0

Worker == \/ AddFinalizer \/ CountHosts \/ HasHost \/ LimitStatus \/ EnsureHost
          \/ NoIpHost \/ IpHost \/ SaveConfiguration
          \/ ApplyFailed \/ Applied \/ RemoveFinalizer

Watch(r) == CacheSync(r) /\ UNCHANGED <<routerVars, count, scriptVars, ops, drift>>
Timer(r) == Requeue(r) /\ UNCHANGED <<routerVars, count, scriptVars, ops, drift>>

Next ==
    \/ \E r \in Keys : \/ Reconcile(r) \/ Watch(r) \/ Timer(r)
                       \/ UserCreate(r) \/ UserEdit(r) \/ UserDelete(r)
    \/ Worker
    \/ SessionLost \/ Crash
    \/ RouterReboot \/ RouterRefuses \/ AdminRemove \/ AdminAdd \/ OtherSave

(***************************************************************************)
(* Fairness: the worker is a goroutine that does not stop; every session   *)
(* ends within sessionTimeout; watches deliver; timers run out; and the    *)
(* work queue is first-in first-out, so no key waits behind others forever.*)
(***************************************************************************)
Fairness ==
    /\ WF_vars(Worker)
    /\ \A r \in Keys : WF_vars(Watch(r)) /\ WF_vars(Timer(r)) /\ SF_vars(Reconcile(r))

Spec == Init /\ [][Next]_vars /\ Fairness

-----------------------------------------------------------------------------
Exists(r) == obj[r] # NoObject

(***************************************************************************)
(* The variables keep their types; between two reconciles the worker holds *)
(* no key, no copy and no unsent command.                                  *)
(***************************************************************************)
RuntimeOK ==
    /\ obj \in [Keys -> Object \union {NoObject}]
    /\ cache \in [Keys -> Object \union {NoObject}]
    /\ lagging \in SUBSET Keys /\ queue \in SUBSET Keys /\ delayed \in SUBSET Keys
    /\ pc \in Steps /\ fresh \in BOOLEAN /\ faults \in 0..MaxFaults
    /\ IF pc = "idle" THEN key = NoKey /\ rec = NoObject /\ ~fresh
                      ELSE key \in Keys /\ rec \in Object

RouterOK ==
    /\ running \in SUBSET Entry /\ startup \in SUBSET Entry /\ count \in Nat
    /\ stale \in SUBSET Entry /\ wanted \in SUBSET Entry
    /\ (stale # {} => pc \in {"write", "erase"}) /\ (wanted # {} => pc = "write")
    /\ ops \in 0..MaxUserOps /\ drift \in 0..MaxDrift

TypeOK == RuntimeOK /\ RouterOK

(***************************************************************************)
(* "The finalizer goes on BEFORE external state is created" (the comment   *)
(* above AddFinalizer in Reconcile): whenever a session is about to write  *)
(* for an object, the API server has that object, with the finalizer on    *)
(* it, however old the worker's copy is.                                   *)
(***************************************************************************)
WriteUnderFinalizer ==
    pc \in {"ensureHost", "write"} => Exists(key) /\ obj[key].finalizer

(***************************************************************************)
(* The guard on the router's limit counts in one session, asks in another  *)
(* and writes in a third.  The table nevertheless never outgrows MaxHosts, *)
(* except by the one line an administrator slips in between.               *)
(***************************************************************************)
Cap == MaxHosts + (IF AdminEntries = {} THEN 0 ELSE 1)

CapRespected == Cardinality(running) <= Cap

(***************************************************************************)
(* EnsureHost leaves "exactly one address" to a name: at no moment, not    *)
(* even between two commands of a session or with two objects that         *)
(* disagree about the name, does a name of the operator's have two.        *)
(***************************************************************************)
AtMostOneAddress ==
    \A h \in {g \in Hosts : AddrsOf(AdminEntries, g) = {}} :
        Cardinality(AddrsOf(running, h)) <= 1

(***************************************************************************)
(* Level-triggered: every object is on its way to another reconcile, in    *)
(* the queue, on a timer, in the worker's hands, or about to be delivered  *)
(* by the watch.  Several paths of Reconcile return without asking for a   *)
(* requeue and count on an event.                                          *)
(***************************************************************************)
NoLostWakeup ==
    \A r \in Keys : Exists(r) => r \in queue \union delayed \union lagging \union {key}

(***************************************************************************)
(* Ready=Applied with observedGeneration current tells the truth, as long  *)
(* as nobody else touches the router and no two objects share a name: the  *)
(* name has exactly the address of the spec, whatever was edited, lost or  *)
(* restarted meanwhile.                                                    *)
(***************************************************************************)
Settled(r) == obj[r].ready = "Applied" /\ obj[r].observed /\ ~obj[r].deleting

ReadyIsTrue ==
    \A r \in Keys : Exists(r) /\ Settled(r) =>
        AddrsOf(running, obj[r].spec[1]) = {obj[r].spec[2]}

(***************************************************************************)
(* "Entries are removed from the router before the object disappears": for *)
(* an object whose spec never changes, once the object is gone neither the *)
(* running nor the stored configuration has a line of it.                  *)
(***************************************************************************)
NoOrphan ==
    \A r \in Keys : ~Exists(r) => SpecsOf[r] \cap (running \union startup) = {}

(***************************************************************************)
(* The finalizer keeps its promise, for objects that do not share a line   *)
(* and whose spec never changes: whatever the worker's copy says, a line   *)
(* appears only under the finalizer, and the object goes after the line    *)
(* has gone from the running and from the stored configuration.            *)
(***************************************************************************)
Life(o) == CASE o = NoObject -> "absent"
             [] o # NoObject /\ ~o.finalizer -> "new"
             [] o # NoObject /\ o.finalizer -> IF o.deleting THEN "deleting" ELSE "guarded"

Guardian == INSTANCE Custody WITH
    Owners <- Keys,
    life <- [r \in Keys |-> Life(obj[r])],
    held <- [r \in Keys |-> SpecsOf[r] \cap (running \union startup) # {}]

KeepsCustody == Guardian!Spec

(***************************************************************************)
(* Reconcile converges: when edits, drift and faults have stopped, every   *)
(* object ends up applied and true, or rejected with the table full, or    *)
(* failed for an address that validateHostIP refuses.                      *)
(***************************************************************************)
Served(r) == Settled(r) /\ AddrsOf(running, obj[r].spec[1]) = {obj[r].spec[2]}

Rejected(r) == /\ obj[r].ready = "LimitReached" /\ ~obj[r].applied
               /\ Cardinality(running) >= MaxHosts

Invalid(r) == obj[r].ready = "ApplyFailed" /\ ~ValidHostIP(obj[r].spec)

Converges ==
    <>[](\A r \in Keys : Exists(r) => Served(r) \/ Rejected(r) \/ Invalid(r))

(***************************************************************************)
(* "Idempotent: reads the router's running-config before writing": when    *)
(* edits and drift have stopped, the periodic reconciles stop opening      *)
(* sessions that write, each of which would be a flash write on the router.*)
(***************************************************************************)
FlashGoesQuiet == <>[](pc \notin {"write", "erase"})

(***************************************************************************)
(* A deleted object goes away, whether or not its spec is valid, and       *)
(* although the router may reboot in the middle of the cleanup.            *)
(***************************************************************************)
DeletionCompletes ==
    \A r \in Keys : (Exists(r) /\ obj[r].deleting) ~> ~Exists(r)

-----------------------------------------------------------------------------
(***************************************************************************)
(* What the documentation says and the code does not keep; each is refuted *)
(* by a run of its own.                                                    *)
(***************************************************************************)
\* README: "Finalizer-based cleanup - entries are removed from the router
\* before the object disappears", for objects whose spec may be edited.
CleanupAfterEdit ==
    \A r \in Keys : ~Exists(r) /\ pc = "idle" => SpecsOf[r] \cap running = {}
=============================================================================
