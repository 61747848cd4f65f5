--------------------------- MODULE IngressSource ---------------------------
(***************************************************************************)
(* The source of the objects: the Ingress controller                       *)
(* (internal/controller/ingress_controller.go) derives from each Ingress   *)
(* one KeeneticHostRecord and, where the host is to be published, one      *)
(* KeeneticWebApp per host.  The Ingresses of a namespace that serve the   *)
(* same host own its objects together.                                     *)
(*                                                                         *)
(* Both kinds of object go through the same two loops, first the records,  *)
(* then the publications: bring what this Ingress wants to the form on     *)
(* which all Ingresses of the host agree, and give up what it owns and     *)
(* does not want.  Every request to the API server is a step, and so are   *)
(* the reads of the cache between two of them; what they showed is kept in *)
(* the worker's local variables meanwhile.                                 *)
(***************************************************************************)
EXTENDS ControllerRuntime, Publication

CONSTANTS Namespaces, NamespaceOf,  \* of the Ingresses, which are the Keys
          Addrs,
          DefaultAddress,  \* DEFAULT_INGRESS_IP, or Absent
          SpecsOf,         \* what the users make of each Ingress
          StartsWith,      \* the Ingresses there may be at first, NoObject if absent
          ByHand,          \* what users write into a child of each kind
          MaxUserOps

ASSUME NamespacesAssumption == NamespaceOf \in [Keys -> Namespaces]
ASSUME BoundsAssumption == MaxUserOps \in Nat
ASSUME SpecsAssumption == \A k \in Keys : \A s \in SpecsOf[k] :
                              s.hosts \subseteq Hosts /\ s.address \in Addrs \union {Absent}
ASSUME StartsAssumption == \A start \in StartsWith : \A k \in Keys :
                               start[k] \in SpecsOf[k] \union {NoObject}

VARIABLES child,         \* the API server's records and publications
          childCache,    \* the informers' copies
          childLagging,  \* children whose last change is not in the cache
          wake,          \* owners to be woken when it arrives
          pass,          \* the kind the worker is busy with
          keep,          \* hosts of that kind this Ingress wants
          todo,          \* those it has still to look after
          agreed,        \* the values the Ingresses of each host ask for
          listed,        \* children to give up, as the list showed them
          current,       \* children whose listed version is still current
          deferred,      \* some host has to wait for an agreement
          ops

childVars == <<child, childCache, childLagging, wake, current>>
passVars == <<pass, keep, todo, agreed, listed, deferred>>
vars == <<runtimeVars, childVars, passVars, ops>>

Kinds == {"record", "webapp"}
Children == Kinds \X Namespaces \X Hosts

(***************************************************************************)
(* A version of an Ingress has its uid and one of its specs.  A child has  *)
(* the value a user wrote, an address, or the settings of a publication.   *)
(***************************************************************************)
WithUid(spec, uid) == [uid |-> uid, hosts |-> spec.hosts, address |-> spec.address,
                       ann |-> spec.ann]
Uid == 1..(MaxUserOps + 2)
Ingress(k) == {WithUid(s, u) : s \in SpecsOf[k], u \in Uid}

SettingsFor(host) ==
    {WebAppSpec(s.ann, host, tls) : s \in {r \in UNION {SpecsOf[k] : k \in Keys} : host \in r.hosts},
                                    tls \in BOOLEAN} \ {NoSpec}
Values(c) == {ByHand[c[1]]} \union (IF c[1] = "record" THEN (Addrs \union {DefaultAddress}) \ {Absent}
                                    ELSE SettingsFor(c[3]))
Child(c) == [owners : SUBSET (Keys \X Uid), value : Values(c), deleting : BOOLEAN]

ASSUME NoSpecAssumption ==
    \A k \in Keys : \A s \in SpecsOf[k] : \A h \in s.hosts :
        NoSpec \notin [name : {Given(s.ann.name, LabelOf[h])}, domain : {h}, ndns : BOOLEAN,
                      address : {Given(s.ann.upstream, DefaultUpstream)}, port : Ports,
                      scheme : Schemes, level : Levels, auth : BOOLEAN]
ASSUME NoObjectAssumption == \A c \in Children : NoObject \notin Child(c)

\* The children of the worker's Ingress, one per host.
Mine(host) == <<pass, NamespaceOf[key], host>>

NoHost == [h \in Hosts |-> NoObject]
NoValue == [h \in Hosts |-> {}]

Ref(i, ingress) == <<i, ingress.uid>>
OwnerKeys(c) == IF c = NoObject THEN {} ELSE {ref[1] : ref \in c.owners}

\* SetOwnerReference replaces a reference to an Ingress of the same name.
AddOwner(owners, i, ingress) == {r \in owners : r[1] # i} \union {Ref(i, ingress)}
RemoveOwner(owners, i) == {r \in owners : r[1] # i}

AddressFor(ingress) == Given(ingress.address, DefaultAddress)

-----------------------------------------------------------------------------
(***************************************************************************)
(* Writes of children, by whomever: they outdate what the worker has       *)
(* listed, and their events wake the owners of both versions.              *)
(***************************************************************************)
\* Mutant: Owns without MatchEveryOwner, which wakes controllers only.
Write_WakesNobody(c, o) ==
    /\ child' = [child EXCEPT ![c] = o]
    /\ childLagging' = childLagging \union {c}
    /\ current' = current \ {c}
    /\ UNCHANGED <<childCache, wake>>

Write(c, o) ==
    /\ child' = [child EXCEPT ![c] = o]
    /\ childLagging' = childLagging \union {c}
    /\ wake' = [wake EXCEPT ![c] = @ \union OwnerKeys(child[c]) \union OwnerKeys(o)]
    /\ current' = current \ {c}
    /\ UNCHANGED childCache

\* A deleted child waits for its own controller, which removes the finalizer; a
\* child that has none yet is gone before anybody looks.
Delete(c) ==
    IF child[c] = NoObject \/ child[c].deleting
    THEN UNCHANGED childVars
    ELSE Write(c, [child[c] EXCEPT !.deleting = TRUE])

Nothing ==
    /\ pass = "record" /\ keep = {} /\ todo = {} /\ agreed = NoValue
    /\ listed = NoHost /\ deferred = FALSE
Forget ==
    /\ pass' = "record" /\ keep' = {} /\ todo' = {} /\ agreed' = NoValue
    /\ listed' = NoHost /\ deferred' = FALSE

\* Mutant: what one reconcile has listed is found again by the next.
Abort_KeepsList == Return(TRUE) /\ UNCHANGED <<clusterVars, passVars>>

\* An error ends the reconcile wherever it is.
Abort == Return(TRUE) /\ Forget /\ UNCHANGED clusterVars

\* A request whose answer may be lost, with or without its effect.
Request(effect, success) ==
    \/ effect /\ success
    \/ Fault /\ Abort /\ (effect \/ UNCHANGED childVars)

-----------------------------------------------------------------------------
\* The Ingresses of a namespace that serve a host, as the cache shows them.
Serving(namespace, host) ==
    {i \in Keys : /\ cache[i] # NoObject /\ host \in cache[i].hosts
                  /\ NamespaceOf[i] = namespace}

\* Mutant: each Ingress insists on an address of its own.
AddressesByHost_OwnOnly(k) ==
    [h \in Hosts |-> IF h \in cache[k].hosts THEN {AddressFor(cache[k])} \ {Absent} ELSE {}]

AddressesByHost(k) ==
    [h \in Hosts |-> {AddressFor(cache[i]) : i \in Serving(NamespaceOf[k], h)} \ {Absent}]

\* Not Found ends the reconcile: the garbage collector takes the children.
Reconcile(k) ==
    /\ Take(k, IF cache[k] = NoObject THEN "idle" ELSE "ensure")
    /\ IF cache[k] = NoObject
       THEN UNCHANGED <<keep, todo, agreed>>
       ELSE /\ keep' = cache[k].hosts /\ todo' = keep'
            /\ agreed' = AddressesByHost(k)
    /\ current' = {}
    /\ UNCHANGED <<child, childCache, childLagging, wake, pass, listed, deferred, ops>>

(***************************************************************************)
(* One turn of the loop: without exactly one value, an existing child is   *)
(* owned but not changed and a missing one is put off.  One that vanishes  *)
(* from the cache between the two looks at it there would be created from  *)
(* what the first one left behind, which the API server refuses.           *)
(***************************************************************************)
Settled(host) == Cardinality(agreed[host]) = 1

Desired(host) ==
    LET cur == childCache[Mine(host)] IN
    IF cur = NoObject
    THEN [owners |-> {Ref(key, rec)}, deleting |-> FALSE,
          value |-> CHOOSE v \in agreed[host] : TRUE]
    ELSE [cur EXCEPT !.owners = AddOwner(@, key, rec),
                     !.value = IF Settled(host) THEN CHOOSE v \in agreed[host] : TRUE
                               ELSE @]

NextHost(host) ==
    /\ todo' = todo \ {host}
    /\ deferred' = (deferred \/ ~Settled(host))
    /\ UNCHANGED <<pass, keep, agreed, listed>>

Postpone(host) ==
    /\ pc = "ensure" /\ host \in todo
    /\ ~Settled(host) /\ childCache[Mine(host)] = NoObject
    /\ NextHost(host)
    /\ UNCHANGED <<runtimeVars, childVars, ops>>

CreateOrUpdate(host) ==
    LET c == Mine(host)
        cur == childCache[c]
    IN /\ pc = "ensure" /\ host \in todo
       /\ Settled(host) \/ cur # NoObject
       /\ \/ /\ cur = Desired(host)
             /\ NextHost(host)
             /\ UNCHANGED <<runtimeVars, childVars>>
          \/ /\ cur # Desired(host)
             /\ IF cur = NoObject THEN child[c] = NoObject ELSE c \notin childLagging
             /\ Request(Write(c, Desired(host)),
                        NextHost(host) /\ UNCHANGED runtimeVars)
             /\ UNCHANGED clusterVars
          \/ /\ \/ cur # Desired(host)    \* AlreadyExists, Conflict, NotFound
                \/ ~Settled(host) /\ child[c] = NoObject  \* vanished
             /\ IF cur = NoObject THEN child[c] # NoObject ELSE c \in childLagging
             /\ Abort
             /\ UNCHANGED <<childVars, faults>>
       /\ UNCHANGED ops

(***************************************************************************)
(* The children to give up, and one turn of the loop that gives them up.   *)
(***************************************************************************)
Unwanted == [h \in Hosts |-> IF h \notin keep /\ key \in OwnerKeys(childCache[Mine(h)])
                              THEN childCache[Mine(h)] ELSE NoObject]

ListOwned ==
    /\ pc = "ensure" /\ todo = {} /\ Unwanted # NoHost
    /\ listed' = Unwanted
    /\ current' = {Mine(h) : h \in {g \in Hosts : listed'[g] # NoObject}} \ childLagging
    /\ agreed' = NoValue
    /\ Goto("release")
    /\ UNCHANGED <<child, childCache, childLagging, wake, ops>>
    /\ UNCHANGED <<pass, keep, todo, deferred>>

\* There is nothing, or nothing more, to give up.
LoopsDone == \/ pc = "ensure" /\ todo = {} /\ Unwanted = NoHost
             \/ pc = "release" /\ listed = NoHost

Released(host) ==
    /\ listed' = [listed EXCEPT ![host] = NoObject]
    /\ UNCHANGED <<runtimeVars, pass, keep, todo, agreed, deferred>>

\* Mutant: what others own too is left as it is.
Release_LeavesShared(host) ==
    /\ pc = "release" /\ listed[host] # NoObject
    /\ IF RemoveOwner(listed[host].owners, key) = {}
       THEN Request(Delete(Mine(host)), Released(host))
       ELSE Released(host) /\ UNCHANGED childVars
    /\ UNCHANGED <<clusterVars, ops>>

Release(host) ==
    LET c == Mine(host)
        others == RemoveOwner(listed[host].owners, key)
    IN /\ pc = "release" /\ listed[host] # NoObject
       /\ \/ /\ others = {}
             /\ Request(Delete(c), Released(host))
          \/ /\ others # {} /\ child[c] = NoObject  \* NotFound is fine
             /\ Released(host)
             /\ UNCHANGED childVars
          \/ /\ others # {} /\ child[c] # NoObject /\ c \in current
             /\ Request(Write(c, [listed[host] EXCEPT !.owners = others]), Released(host))
          \/ /\ others # {} /\ child[c] # NoObject /\ c \notin current
             /\ Abort
             /\ UNCHANGED <<childVars, faults>>
       /\ UNCHANGED <<clusterVars, ops>>

(***************************************************************************)
(* From the records to the publications, and the end.                      *)
(***************************************************************************)
HostsRequiringTLS ==
    {h \in Hosts : \E i \in Keys : /\ cache[i] # NoObject /\ h \in cache[i].hosts
                                  /\ RequiresTLS(cache[i].ann, h)}

WebAppSpecsByHost(tls) ==
    [h \in Hosts |-> {WebAppSpec(cache[i].ann, h, h \in tls) :
                        i \in {j \in Serving(NamespaceOf[key], h) : Publishes(cache[j].ann)}} \ {NoSpec}]

ReconcileWebApps ==
    LET tls == HostsRequiringTLS
        mine == {h \in rec.hosts : /\ Publishes(rec.ann)
                                   /\ WebAppSpec(rec.ann, h, h \in tls) # NoSpec}
    IN /\ LoopsDone /\ pass = "record"
       /\ pass' = "webapp"
       /\ keep' = mine /\ todo' = mine
       /\ agreed' = WebAppSpecsByHost(tls)
       /\ current' = {}
       /\ Goto("ensure")
       /\ UNCHANGED <<child, childCache, childLagging, wake, listed, deferred, ops>>

\* Mutant: a host that was put off is left to the resync.
Finish_NoRequeue ==
    /\ LoopsDone /\ pass = "webapp"
    /\ Return(FALSE)
    /\ Forget
    /\ current' = {}
    /\ UNCHANGED <<clusterVars, faults, child, childCache, childLagging, wake, ops>>

Finish ==
    /\ LoopsDone /\ pass = "webapp"
    /\ Return(deferred)
    /\ Forget
    /\ current' = {}
    /\ UNCHANGED <<clusterVars, faults, child, childCache, childLagging, wake, ops>>

-----------------------------------------------------------------------------
(***************************************************************************)
(* The rest of the cluster: watches, timers, the process, the garbage      *)
(* collector, the controllers that own the finalizers, and users.          *)
(***************************************************************************)
Watch(k) == CacheSync(k) /\ UNCHANGED <<childVars, passVars, ops>>
Timer(k) == Requeue(k) /\ UNCHANGED <<childVars, passVars, ops>>

WatchChild(c) ==
    /\ c \in childLagging
    /\ childCache' = [childCache EXCEPT ![c] = child[c]]
    /\ childLagging' = childLagging \ {c}
    /\ queue' = queue \union wake[c]
    /\ wake' = [wake EXCEPT ![c] = {}]
    /\ UNCHANGED <<child, current, passVars, ops>>
    /\ UNCHANGED <<clusterVars, delayed, workerVars, faults>>

Crash ==
    /\ Restart
    /\ childCache' = child /\ childLagging' = {} /\ wake' = [c \in Children |-> {}]
    /\ current' = {}
    /\ Forget
    /\ UNCHANGED <<child, ops>>

\* References to an Ingress that is gone, or to its predecessor.
Dangling(c) == {r \in child[c].owners : obj[r[1]] = NoObject \/ obj[r[1]].uid # r[2]}

GarbageCollect(c) ==
    /\ child[c] # NoObject
    /\ Dangling(c) # {}
    /\ IF Dangling(c) = child[c].owners
       THEN ~child[c].deleting /\ Delete(c)
       ELSE Write(c, [child[c] EXCEPT !.owners = @ \ Dangling(c)])
    /\ UNCHANGED <<runtimeVars, passVars, ops>>

FinalizerRemoved(c) ==
    /\ child[c] # NoObject /\ child[c].deleting
    /\ Write(c, NoObject)
    /\ UNCHANGED <<runtimeVars, passVars, ops>>

UserOp == /\ ops < MaxUserOps
          /\ ops' = ops + 1
          /\ UNCHANGED passVars

\* kubectl apply of a child: the documentation allows that for other hosts.
UserApplies(c) ==
    /\ UserOp /\ UNCHANGED runtimeVars
    /\ Write(c, IF child[c] = NoObject
                THEN [owners |-> {}, value |-> ByHand[c[1]], deleting |-> FALSE]
                ELSE [child[c] EXCEPT !.value = ByHand[c[1]]])

UserRemoves(c) ==
    /\ UserOp /\ UNCHANGED runtimeVars
    /\ child[c] # NoObject /\ ~child[c].deleting
    /\ Delete(c)

\* The uid tells an Ingress from its predecessors of the same name, as far as
\* anything still refers to them.
Uids(k) == {o.uid : o \in {cache[k], rec} \ {NoObject}}
           \union {r[2] : r \in UNION {o.owners : o \in
                ({child[c] : c \in Children} \union {childCache[c] : c \in Children}
                 \union {listed[h] : h \in Hosts}) \ {NoObject}}}
NewUid(k) == CHOOSE u \in Uid : u \notin Uids(k) /\ \A v \in 1..(u - 1) : v \in Uids(k)

UserCreate(k) ==
    /\ UserOp /\ UNCHANGED childVars
    /\ obj[k] = NoObject
    /\ \E s \in SpecsOf[k] : UserWrite(k, WithUid(s, NewUid(k)))

UserEdit(k) ==
    /\ UserOp /\ UNCHANGED childVars
    /\ obj[k] # NoObject
    /\ \E s \in SpecsOf[k] : /\ WithUid(s, obj[k].uid) # obj[k]
                             /\ UserWrite(k, WithUid(s, obj[k].uid))

\* kubectl replace --force: nobody need see that the Ingress was gone.
UserReplace(k) ==
    /\ UserOp /\ UNCHANGED childVars
    /\ obj[k] # NoObject
    /\ UserWrite(k, WithUid(obj[k], NewUid(k)))

UserDelete(k) ==
    /\ UserOp /\ UNCHANGED childVars
    /\ obj[k] # NoObject
    /\ UserWrite(k, NoObject)

-----------------------------------------------------------------------------
\* The operator starts on a cluster that has its Ingresses already.
First(spec) == IF spec = NoObject THEN NoObject ELSE WithUid(spec, 1)

Init ==
    /\ \E start \in StartsWith : obj = [k \in Keys |-> First(start[k])]
    /\ cache = obj
    /\ queue = {k \in Keys : obj[k] # NoObject}
    /\ lagging = {} /\ delayed = {} /\ faults = 0
    /\ pc = "idle" /\ key = NoKey /\ rec = NoObject /\ fresh = FALSE
    /\ child = [c \in Children |-> NoObject] /\ childCache = child
    /\ childLagging = {} /\ wake = [c \in Children |-> {}]
    /\ Nothing /\ current = {}
    /\ ops = 0

Worker == \/ \E h \in Hosts : Postpone(h) \/ CreateOrUpdate(h) \/ Release(h)
          \/ ListOwned \/ ReconcileWebApps \/ Finish

Next ==
    \/ \E k \in Keys : \/ Reconcile(k) \/ Watch(k) \/ Timer(k)
                       \/ UserCreate(k) \/ UserEdit(k)
                       \/ UserReplace(k) \/ UserDelete(k)
    \/ \E c \in Children : \/ WatchChild(c) \/ GarbageCollect(c) \/ FinalizerRemoved(c)
                           \/ UserApplies(c) \/ UserRemoves(c)
    \/ Worker
    \/ Crash

(***************************************************************************)
(* Fairness: as for the other controllers, and the garbage collector and   *)
(* the finalizers' owners do their work.  The ten-hour resync of the       *)
(* informers is left out: nothing here may rely on it.                     *)
(***************************************************************************)
Fairness ==
    /\ WF_vars(Worker)
    /\ \A k \in Keys : WF_vars(Timer(k)) /\ SF_vars(Reconcile(k))
    /\ WF_vars(\E k \in Keys : Watch(k))
    /\ WF_vars(\E c \in Children : WatchChild(c))
    /\ WF_vars(\E c \in Children : GarbageCollect(c))
    /\ WF_vars(\E c \in Children : FinalizerRemoved(c))

Spec == Init /\ [][Next]_vars /\ Fairness

-----------------------------------------------------------------------------
(***************************************************************************)
(* The variables keep their types; between two reconciles the worker holds *)
(* no key, no copy and no list.                                            *)
(***************************************************************************)
TypeOK ==
    /\ \A k \in Keys : {obj[k], cache[k]} \subseteq Ingress(k) \union {NoObject}
    /\ lagging \in SUBSET Keys /\ queue \in SUBSET Keys /\ delayed \in SUBSET Keys
    /\ pc \in {"idle", "ensure", "release"}
    /\ faults \in 0..MaxFaults /\ ops \in 0..MaxUserOps
    /\ DOMAIN child = Children /\ childLagging \subseteq Children
    /\ \A c \in Children : /\ child[c] \in Child(c) \union {NoObject}
                           /\ c \notin childLagging => childCache[c] = child[c]
                           /\ wake[c] \subseteq Keys /\ (wake[c] # {} => c \in childLagging)
    /\ keep \in SUBSET Hosts /\ todo \subseteq keep /\ current \in SUBSET Children
    /\ IF pc = "idle" THEN key = NoKey /\ rec = NoObject /\ Nothing
                      ELSE key \in Keys /\ rec \in Ingress(key) /\ pass \in Kinds

(***************************************************************************)
(* What ought to be: who wants a child, and what those who want it ask     *)
(* for, were every cache up to date.                                       *)
(***************************************************************************)
Living == {i \in Keys : obj[i] # NoObject}

RequiredTLS(host) ==
    \E i \in Living : host \in obj[i].hosts /\ RequiresTLS(obj[i].ann, host)

Asked(i, c) == IF c[1] = "record" THEN AddressFor(obj[i])
               ELSE WebAppSpec(obj[i].ann, c[3], RequiredTLS(c[3]))

Wanting(c) ==
    {i \in Living : /\ NamespaceOf[i] = c[2] /\ c[3] \in obj[i].hosts
                    /\ c[1] = "webapp" => Publishes(obj[i].ann) /\ Asked(i, c) # NoSpec}

AskedFor(c) == {Asked(i, c) : i \in Wanting(c)} \ {Absent}

(***************************************************************************)
(* An Ingress is on its way to another reconcile: in the queue, on a       *)
(* timer, in the worker's hands, or about to be delivered or woken.        *)
(***************************************************************************)
OnItsWay(i) == i \in queue \union delayed \union lagging \union {key}
                      \union UNION {wake[c] : c \in Children}

Owns(i, c) == child[c] # NoObject /\ Ref(i, obj[i]) \in child[c].owners

(***************************************************************************)
(* "Even without an agreed address we must be counted as an owner": every  *)
(* Ingress that wants a child owns it, or comes back to see to it, whoever *)
(* edits, shares, releases or deletes it meanwhile; so no child can go     *)
(* with its last owner while somebody wants it and does not know.          *)
(***************************************************************************)
ClaimsAreHeld == \A c \in Children : \A i \in Wanting(c) : Owns(i, c) \/ OnItsWay(i)

(***************************************************************************)
(* The other half, "we take our reference off the records that this        *)
(* Ingress does not want any more": an owner that does not want the child  *)
(* comes back to release it, over restarts and lost or conflicting updates.*)
(***************************************************************************)
ClaimsAreReleased ==
    \A c \in Children : \A i \in Living \ Wanting(c) : Owns(i, c) /\ ~child[c].deleting => OnItsWay(i)

(***************************************************************************)
(* "A typo would silently expose the service to the internet": an Ingress  *)
(* whose publish annotation cannot be understood, or says no, does not     *)
(* stay an owner of a publication, whatever PUBLISH_BY_DEFAULT says.       *)
(***************************************************************************)
NothingExposedByTypo ==
    \A c \in Children : \A i \in Living :
        c[1] = "webapp" /\ Owns(i, c) /\ ~child[c].deleting /\ obj[i].ann.publish \in {Typo, "false"} => OnItsWay(i)

(***************************************************************************)
(* What this controller derives, the other one can publish: it accepts the *)
(* settings, and the name that the router makes of the entry's name and    *)
(* its domain is the very host of the Ingress ("domain ndns ... for        *)
(* a.b.<zone> would give another host").                                   *)
(***************************************************************************)
Derived(c) == c[1] = "webapp" /\ child[c] # NoObject /\ child[c].value # ByHand[c[1]]

PublishedAsAsked ==
    \A c \in Children : Derived(c) =>
        /\ ValidProxy(child[c].value)
        /\ ServedName(child[c].value) = <<LabelOf[c[3]], ZoneOf[c[3]]>>

(***************************************************************************)
(* When users and faults have stopped: what nobody wants is gone or never  *)
(* was the Ingresses', what some want they own, and all of them, and where *)
(* they agree the child exists with the value they agree on, however often *)
(* they disagreed on the way.                                              *)
(***************************************************************************)
Refs(c) == {Ref(i, obj[i]) : i \in Wanting(c)}

InOrder(c) ==
    LET asked == AskedFor(c) IN
    CASE Wanting(c) = {} -> child[c] = NoObject \/ child[c].owners = {}
      [] Wanting(c) # {} /\ Cardinality(asked) = 1 ->
            /\ child[c] # NoObject /\ child[c].owners = Refs(c)
            /\ ~child[c].deleting /\ {child[c].value} = asked
      [] OTHER -> child[c] # NoObject => child[c].owners = Refs(c)

Converges == <>[](\A c \in Children : InOrder(c))

(***************************************************************************)
(* "Not the last one wins, but an undamped cycle, every turn of which      *)
(* reaches the router": the Ingresses, which wake each other through the   *)
(* children they share, stop rewriting them, also while they disagree.     *)
(***************************************************************************)
RewritingCeases == <>[][child' = child]_child
=============================================================================
