------------------------------- MODULE WebApp -------------------------------
(***************************************************************************)
(* The actuator of KeeneticWebApp objects                                  *)
(* (internal/controller/keeneticwebapp_controller.go) and the sessions it  *)
(* opens (EnsureProxy, DeleteProxy of internal/keenetic/proxy.go): it      *)
(* keeps one `ip http proxy <name>` entry on the router per publication.   *)
(* Several objects may name the same entry: legally, when they publish the *)
(* same domain from several namespaces, or by collision.                   *)
(***************************************************************************)
EXTENDS ControllerRuntime, ProxyConfig

CONSTANTS Names, NoName,
          Domains, ZoneOf,  \* FQDNs, and the zone of each
          KeenDNSZone,      \* the router's own zone
          BadNames,         \* names proxyNamePattern refuses
          BadUpstreams,     \* upstreams validateProxy refuses
          BadZones,         \* zones it refuses, as of a one-label domain
          SpecsOf, MaxUserOps, MaxDrift

WebAppSpec == [name : Names, domain : Domains, ndns : BOOLEAN, upstream : Upstreams,
          level : Levels \union {Unset}, auth : BOOLEAN]

ASSUME NoNameAssumption == NoName \notin Names
ASSUME ZonesAssumption == ZoneOf \in [Domains -> Zones]
ASSUME SpecsAssumption == SpecsOf \in [Keys -> SUBSET WebAppSpec]
ASSUME BoundsAssumption == MaxUserOps \in Nat /\ MaxDrift \in Nat

VARIABLES proxies,  \* the `ip http proxy` entries of running-config
          startup,  \* and of the configuration the router boots from
          script,   \* commands the session has still to send
          refused,  \* a refusal has been printed in this session
          ops, drift

routerVars == <<proxies, startup>>
sessionVars == <<script, refused>>
vars == <<runtimeVars, routerVars, sessionVars, ops, drift>>

Reasons == {"Unset", "Applied", "NameConflict", "ApplyFailed"}

Object == [deleting : BOOLEAN, finalizer : BOOLEAN, spec : WebAppSpec, applied : BOOLEAN,
           appliedName : Names \union {NoName}, observed : BOOLEAN, ready : Reasons]

ASSUME NoObjectAssumption == NoObject \notin Object

Steps == {"idle", "addFinalizer", "checkName", "nameConflict", "release", "drop",
          "dropSave", "ensureProxy", "write", "applyFailed", "applied",
          "removeFinalizer"}

SessionSteps == {"drop", "dropSave", "ensureProxy", "write"}

ProxyFromSpec(s) ==
    [domain |-> IF s.ndns THEN NDNS ELSE ZoneOf[s.domain], upstream |-> s.upstream,
     level |-> IF s.level = Unset THEN "public" ELSE s.level,
     flags |-> Flags, auth |-> s.auth]

\* validateProxy, and the refusal to write the router's own zone as static.
Publishable(s) ==
    /\ s.name \notin BadNames /\ s.upstream \notin BadUpstreams
    /\ s.ndns \/ ZoneOf[s.domain] \notin BadZones \union {KeenDNSZone}

-----------------------------------------------------------------------------
(***************************************************************************)
(* What the worker sees of the other publications: r.List of the cache.    *)
(***************************************************************************)
\* Mutant: only objects known to be published count as claimants.
Claimants_Applied(name, self) ==
    {r \in Keys \ {self} : /\ cache[r] # NoObject /\ ~cache[r].deleting
                           /\ cache[r].appliedName = name}

Claimants(name, self) ==
    {r \in Keys \ {self} : /\ cache[r] # NoObject /\ ~cache[r].deleting
                           /\ cache[r].spec.name = name}

\* Mutant: an object that is already published is not checked again.
NameClaimedElsewhere_Unchecked(o, self) ==
    {r \in Claimants(o.spec.name, self) :
        o.appliedName = NoName /\ cache[r].spec.domain # o.spec.domain}

NameClaimedElsewhere(o, self) ==
    {r \in Claimants(o.spec.name, self) : cache[r].spec.domain # o.spec.domain}

Renamed(o) == o.appliedName \notin {NoName, o.spec.name}

\* Mutant: no fallback to the name of the spec.
ReleasedName_AppliedOnly(o) == o.appliedName

\* The entry a reconcile may have to give up: the one status.appliedName
\* records or, for a deleted object without one, the one of the spec.
ReleasedName(o) == IF o.appliedName = NoName THEN o.spec.name ELSE o.appliedName

AfterRelease(o) == IF o.deleting THEN "removeFinalizer" ELSE "ensureProxy"

\* Mutant: the object is published without waiting for its finalizer.
FirstStep_Unguarded(o) ==
    CASE o = NoObject -> "idle"
      [] o # NoObject /\ o.deleting -> IF o.finalizer THEN "release" ELSE "idle"
      [] OTHER -> "checkName"

FirstStep(o) ==
    CASE o = NoObject -> "idle"
      [] o # NoObject /\ o.deleting -> IF o.finalizer THEN "release" ELSE "idle"
      [] OTHER -> IF o.finalizer THEN "checkName" ELSE "addFinalizer"

Reconcile(r) ==
    /\ Take(r, FirstStep(cache[r]))
    /\ UNCHANGED <<routerVars, sessionVars, ops, drift>>

AddFinalizer ==
    /\ pc = "addFinalizer"
    /\ Update([rec EXCEPT !.finalizer = TRUE], FALSE)
    /\ UNCHANGED <<routerVars, sessionVars, ops, drift>>

CheckName ==
    /\ pc = "checkName"
    /\ Goto(IF NameClaimedElsewhere(rec, key) # {} THEN "nameConflict"
            ELSE IF Renamed(rec) THEN "release" ELSE "ensureProxy")
    /\ UNCHANGED <<routerVars, sessionVars, ops, drift>>

\* Mutant: a refused object is not tried again.
NameConflict_NoRequeue ==
    /\ pc = "nameConflict"
    /\ Update([rec EXCEPT !.applied = FALSE, !.ready = "NameConflict"], FALSE)
    /\ UNCHANGED <<routerVars, sessionVars, ops, drift>>

NameConflict ==
    /\ pc = "nameConflict"
    /\ Update([rec EXCEPT !.applied = FALSE, !.ready = "NameConflict"], TRUE)
    /\ UNCHANGED <<routerVars, sessionVars, ops, drift>>

(***************************************************************************)
(* releaseName, of a deleted object or of the previous name of a renamed   *)
(* one: the entry stays while others claim the name.                       *)
(***************************************************************************)
Release ==
    LET name == ReleasedName(rec) IN
    /\ pc = "release"
    /\ Goto(IF Claimants(name, key) # {} \/ name \in BadNames \union {NoName}
            THEN AfterRelease(rec) ELSE "drop")
    /\ UNCHANGED <<routerVars, sessionVars, ops, drift>>

NoIpHttpProxy ==
    /\ pc = "drop"
    /\ proxies' = [proxies EXCEPT ![ReleasedName(rec)] = NoEntry]
    /\ Goto("dropSave")
    /\ UNCHANGED <<startup, sessionVars, ops, drift>>

\* Mutant: a refused cleanup is not tried again.
DropSave_NoRetry ==
    /\ pc = "dropSave"
    /\ startup' = proxies
    /\ refused' = FALSE
    /\ IF refused
       THEN Return(FALSE) /\ UNCHANGED <<clusterVars, faults>>
       ELSE Goto(AfterRelease(rec))
    /\ UNCHANGED <<proxies, script, ops, drift>>

DropSave ==
    /\ pc = "dropSave"
    /\ startup' = proxies
    /\ refused' = FALSE
    /\ IF refused
       THEN Return(TRUE) /\ UNCHANGED <<clusterVars, faults>>
       ELSE Goto(AfterRelease(rec))
    /\ UNCHANGED <<proxies, script, ops, drift>>

(***************************************************************************)
(* EnsureProxy: validate, list in one session, rewrite in another, and     *)
(* look for a refusal in everything the router has printed.                *)
(***************************************************************************)
EnsureProxy ==
    LET want == ProxyFromSpec(rec.spec)
        cur == proxies[rec.spec.name]
        satisfied == cur # NoEntry /\ ProxySatisfied(Listed(cur), want)
    IN /\ pc = "ensureProxy"
       /\ Goto(CASE ~Publishable(rec.spec) -> "applyFailed"
                 [] Publishable(rec.spec) /\ satisfied -> "applied"
                 [] OTHER -> "write")
       /\ script' = IF pc' = "write" THEN ProxyCommands(want) ELSE <<>>
       /\ UNCHANGED <<routerVars, refused, ops, drift>>

Command ==
    /\ pc = "write" /\ script # <<>>
    /\ proxies' = [proxies EXCEPT ![rec.spec.name] = Execute(@, Head(script))]
    /\ script' = Tail(script)
    /\ UNCHANGED <<runtimeVars, startup, refused, ops, drift>>

SaveConfiguration ==
    /\ pc = "write" /\ script = <<>>
    /\ startup' = proxies
    /\ refused' = FALSE
    /\ Goto(IF refused THEN "applyFailed" ELSE "applied")
    /\ UNCHANGED <<proxies, script, ops, drift>>

\* Mutant: status.applied is left as it was.
ApplyFailed_KeepsApplied ==
    /\ pc = "applyFailed"
    /\ Update([rec EXCEPT !.ready = "ApplyFailed"], TRUE)
    /\ UNCHANGED <<routerVars, sessionVars, ops, drift>>

ApplyFailed ==
    /\ pc = "applyFailed"
    /\ Update([rec EXCEPT !.applied = FALSE, !.ready = "ApplyFailed"], TRUE)
    /\ UNCHANGED <<routerVars, sessionVars, ops, drift>>

Applied ==
    /\ pc = "applied"
    /\ Update([rec EXCEPT !.applied = TRUE, !.appliedName = rec.spec.name,
                          !.observed = TRUE, !.ready = "Applied"], TRUE)
    /\ UNCHANGED <<routerVars, sessionVars, ops, drift>>

RemoveFinalizer ==
    /\ pc = "removeFinalizer"
    /\ Update(NoObject, FALSE)
    /\ UNCHANGED <<routerVars, sessionVars, ops, drift>>

-----------------------------------------------------------------------------
(***************************************************************************)
(* Faults of the session and of the process; the router's own life.        *)
(***************************************************************************)
\* Mutant: the refusal of one session is found again in the next.
SessionError_KeepsRefusal ==
    /\ IF pc \in {"ensureProxy", "write"}
       THEN /\ pc' = "applyFailed"
            /\ UNCHANGED <<queueVars, key, rec, fresh>>
       ELSE Return(TRUE)
    /\ script' = <<>>
    /\ UNCHANGED <<clusterVars, refused>>

SessionError ==
    /\ IF pc \in {"ensureProxy", "write"}
       THEN /\ pc' = "applyFailed"
            /\ UNCHANGED <<queueVars, key, rec, fresh>>
       ELSE Return(TRUE)
    /\ script' = <<>> /\ refused' = FALSE
    /\ UNCHANGED clusterVars

SessionLost ==
    /\ pc \in SessionSteps
    /\ pc = "ensureProxy" => Publishable(rec.spec)
    /\ Fault
    /\ SessionError
    /\ startup' \in {startup} \union
          (IF pc = "dropSave" \/ (pc = "write" /\ script = <<>>) THEN {proxies} ELSE {})
    /\ UNCHANGED <<proxies, ops, drift>>

Crash ==
    /\ Restart
    /\ script' = <<>> /\ refused' = FALSE
    /\ UNCHANGED <<routerVars, ops, drift>>

Drift == /\ drift < MaxDrift
         /\ drift' = drift + 1

RouterReboot ==
    /\ Drift
    /\ proxies' = startup
    /\ IF pc \in SessionSteps
       THEN SessionError /\ UNCHANGED faults
       ELSE UNCHANGED <<runtimeVars, sessionVars>>
    /\ UNCHANGED <<startup, ops>>

\* A command is refused: it has no effect, and the router says so.  (Refusing
\* `ip http proxy` itself ends as a lost session: `exit` closes it too early.)
RouterRefuses ==
    /\ Drift
    /\ \/ pc = "write" /\ script # <<>> /\ Head(script)[1] # "proxy"
          /\ script' = Tail(script)
          /\ UNCHANGED runtimeVars
       \/ pc = "drop" /\ Goto("dropSave") /\ UNCHANGED script
    /\ refused' = TRUE
    /\ UNCHANGED <<routerVars, ops>>

\* Not while a session has the entry's context open.
AdminRemove ==
    /\ Drift
    /\ pc # "write"
    /\ \E n \in Names : /\ proxies[n] # NoEntry
                        /\ proxies' = [proxies EXCEPT ![n] = NoEntry]
    /\ startup' \in {startup, proxies'}
    /\ UNCHANGED <<runtimeVars, sessionVars, ops>>

\* The other controller's `system configuration save`.
OtherSave ==
    /\ pc \notin {"write", "drop", "dropSave"}
    /\ startup' = proxies
    /\ UNCHANGED <<runtimeVars, proxies, sessionVars, ops, drift>>

-----------------------------------------------------------------------------
UserOp == /\ ops < MaxUserOps
          /\ ops' = ops + 1
          /\ UNCHANGED <<routerVars, sessionVars, drift>>

NewObject(s) == [deleting |-> FALSE, finalizer |-> FALSE, spec |-> s,
                 applied |-> FALSE, appliedName |-> NoName, observed |-> FALSE,
                 ready |-> "Unset"]

UserCreate(r) ==
    /\ UserOp
    /\ obj[r] = NoObject
    /\ \E s \in SpecsOf[r] : UserWrite(r, NewObject(s))

UserEdit(r) ==
    /\ UserOp
    /\ obj[r] # NoObject
    /\ \E s \in SpecsOf[r] \ {obj[r].spec} :
          UserWrite(r, [obj[r] EXCEPT !.spec = s, !.observed = FALSE])

UserDelete(r) ==
    /\ UserOp
    /\ obj[r] # NoObject /\ ~obj[r].deleting
    /\ UserWrite(r, IF obj[r].finalizer THEN [obj[r] EXCEPT !.deleting = TRUE]
                                        ELSE NoObject)

-----------------------------------------------------------------------------
Init ==
    /\ RuntimeInit
    /\ proxies = [n \in Names |-> NoEntry] /\ startup = proxies
    /\ script = <<>> /\ refused = FALSE
    /\ ops = 0 /\ drift = 0

Worker == \/ AddFinalizer \/ CheckName \/ NameConflict
          \/ Release \/ NoIpHttpProxy \/ DropSave
          \/ EnsureProxy \/ Command \/ SaveConfiguration
          \/ ApplyFailed \/ Applied \/ RemoveFinalizer

Watch(r) == CacheSync(r) /\ UNCHANGED <<routerVars, sessionVars, ops, drift>>
Timer(r) == Requeue(r) /\ UNCHANGED <<routerVars, sessionVars, ops, drift>>

Next ==
    \/ \E r \in Keys : \/ Reconcile(r) \/ Watch(r) \/ Timer(r)
                       \/ UserCreate(r) \/ UserEdit(r) \/ UserDelete(r)
    \/ Worker
    \/ SessionLost \/ Crash
    \/ RouterReboot \/ RouterRefuses \/ AdminRemove \/ OtherSave

\* As in HostRecord: sessions end, watches deliver, timers run out, and the
\* work queue is first-in first-out.
Fairness ==
    /\ WF_vars(Worker)
    /\ \A r \in Keys : WF_vars(Watch(r)) /\ WF_vars(Timer(r)) /\ SF_vars(Reconcile(r))

Spec == Init /\ [][Next]_vars /\ Fairness

-----------------------------------------------------------------------------
Exists(r) == obj[r] # NoObject

\* The last reconcile of the object succeeded, and nothing has changed since.
Settled(r) == obj[r].ready = "Applied" /\ obj[r].observed /\ ~obj[r].deleting

(***************************************************************************)
(* The variables keep their types; between two reconciles the worker holds *)
(* no key, no copy and no unsent command.                                  *)
(***************************************************************************)
TypeOK ==
    /\ obj \in [Keys -> Object \union {NoObject}]
    /\ cache \in [Keys -> Object \union {NoObject}]
    /\ lagging \in SUBSET Keys /\ queue \in SUBSET Keys /\ delayed \in SUBSET Keys
    /\ pc \in Steps /\ fresh \in BOOLEAN /\ faults \in 0..MaxFaults
    /\ IF pc = "idle" THEN key = NoKey /\ rec = NoObject /\ ~fresh
                      ELSE key \in Keys /\ rec \in Object
    /\ proxies \in [Names -> RouterEntry \union {NoEntry}]
    /\ startup \in [Names -> RouterEntry \union {NoEntry}]
    /\ (script # <<>> => pc = "write") /\ (refused => pc \in {"write", "dropSave"})
    /\ ops \in 0..MaxUserOps /\ drift \in 0..MaxDrift

(***************************************************************************)
(* "The finalizer goes on BEFORE external state is created": an entry is   *)
(* written only for an object that the API server has, with its finalizer. *)
(***************************************************************************)
WriteUnderFinalizer ==
    pc \in {"ensureProxy", "write"} => Exists(key) /\ obj[key].finalizer

(***************************************************************************)
(* README: two objects asking for the same name under different domains    *)
(* "both refuse to publish rather than overwrite each other".  No session  *)
(* rewrites an entry that a settled object publishes under another domain, *)
(* although the collision is looked for in a cache that trails.            *)
(***************************************************************************)
NoOverwrite ==
    pc \in {"ensureProxy", "write"} =>
        \A r \in Keys \ {key} :
            Exists(r) /\ Settled(r) /\ obj[r].spec.name = rec.spec.name =>
                obj[r].spec.domain = rec.spec.domain

(***************************************************************************)
(* Ready=Applied tells the truth while nobody else touches the router: the *)
(* entry is there and is what the spec asks for, also while its co-owners  *)
(* in other namespaces come and go, are renamed, collide or fail ("the     *)
(* entry survives until the last of them is gone").  Of the level and of   *)
(* `auth` that holds as far as the router shows them.                      *)
(***************************************************************************)
InForce(e) == [Listed(e) EXCEPT !.domain = e.domain, !.upstream = e.upstream, !.flags = e.flags]

Published(r) == LET e == proxies[obj[r].spec.name]
                IN e # NoEntry /\ ProxySatisfied(InForce(e), ProxyFromSpec(obj[r].spec))

ReadyIsTrue == \A r \in Keys : Exists(r) /\ Settled(r) => Published(r)

(***************************************************************************)
(* For objects that share no name and whose specs do not change, every     *)
(* entry of the running and of the stored configuration belongs to an      *)
(* object that still exists, whatever fails in between.                    *)
(***************************************************************************)
NoStrandedEntry ==
    \A n \in Names : proxies[n] # NoEntry \/ startup[n] # NoEntry =>
        \E r \in Keys : Exists(r) /\ obj[r].spec.name = n

(***************************************************************************)
(* The finalizer keeps its promise, for objects that do not share an entry *)
(* and keep their name: an entry appears only under the finalizer, and the *)
(* object goes after the entry has gone from the running and from the      *)
(* stored configuration, also when its spec was edited, could not be       *)
(* published, or was refused by the router in the meantime.                *)
(***************************************************************************)
Life(o) == CASE o = NoObject -> "absent"
             [] o # NoObject /\ ~o.finalizer -> "new"
             [] o # NoObject /\ o.finalizer -> IF o.deleting THEN "deleting" ELSE "guarded"

Guardian == INSTANCE Custody WITH
    Owners <- Keys,
    life <- [r \in Keys |-> Life(obj[r])],
    held <- [r \in Keys |-> \E s \in SpecsOf[r] : {proxies[s.name], startup[s.name]} # {NoEntry}]

KeepsCustody == Guardian!Spec

(***************************************************************************)
(* When edits, drift and faults have stopped, every object ends up         *)
(* published, or refused for a rival that really is there, or for a spec   *)
(* that cannot be published.                                               *)
(***************************************************************************)
Refused(r) ==
    \/ /\ obj[r].ready = "NameConflict"
       /\ \E s \in Keys \ {r} : /\ Exists(s) /\ obj[s].spec.name = obj[r].spec.name
                                /\ obj[s].spec.domain # obj[r].spec.domain
    \/ obj[r].ready = "ApplyFailed" /\ ~Publishable(obj[r].spec)

Converges ==
    <>[](\A r \in Keys : Exists(r) => \/ Settled(r) /\ Published(r)
                                      \/ ~obj[r].applied /\ Refused(r))

(***************************************************************************)
(* The comparison before writing is lenient so that the router's flash is  *)
(* not worn: in the end the periodic reconciles write no more.             *)
(***************************************************************************)
FlashGoesQuiet == <>[](pc \notin {"write", "drop", "dropSave"})

\* A deleted object goes away.
DeletionCompletes ==
    \A r \in Keys : (Exists(r) /\ obj[r].deleting) ~> ~Exists(r)

-----------------------------------------------------------------------------
(***************************************************************************)
(* What the documentation says and the code does not keep.                 *)
(***************************************************************************)
Quiet == pc = "idle" /\ \A r \in Keys : Exists(r) => Settled(r)

\* README: with status.appliedName, a renamed entry is not "stranded on the
\* router forever".
NoEntryLeftBehind ==
    Quiet => \A n \in Names : proxies[n] # NoEntry =>
                \E r \in Keys : Exists(r) /\ obj[r].appliedName = n
=============================================================================
