# keenetic-operator: a TLA+ verification project

The operator keeps a Keenetic router in step with a Kubernetes cluster: names on the LAN
(`ip host` lines, one per `KeeneticHostRecord`) and publications to the internet
(`ip http proxy` entries, one per `KeeneticWebApp`). Both kinds of object are written by
people or derived from Ingresses. The program is short, and what is hard in it is not in any
one function: it reads caches that trail, writes a router over sessions that break between
two commands, and must converge all the same. That is what the modules here model.

Paths such as `client.go:289` are files of the repository:
`internal/keenetic/client.go`, `internal/keenetic/proxy.go`,
`internal/controller/keenetichostrecord_controller.go` (*hostrecord*),
`internal/controller/keeneticwebapp_controller.go` (*webapp*),
`internal/controller/ingress_controller.go` (*ingress*), `cmd/main.go`.

## 1. Inventory

| Component | State it keeps | Operations | Interacts with |
| --- | --- | --- | --- |
| KeeneticHostRecord controller | none of its own: finalizer, `status.applied`, `status.observedGeneration` and the `Ready` condition of each object | `Reconcile` | API server (Get from the cache, Update, Status().Update), SSH client |
| KeeneticWebApp controller | the same, and `status.appliedName` | `Reconcile`, `releaseName`, `nameClaimedElsewhere`, `claimants`, `proxyFromSpec` | API server (also List of every publication), SSH client |
| SSH client, `ip host` | the router's lines | `EnsureHost`, `DeleteHost`, `HasHost`, `CountHosts`, `hostCommands` | session protocol |
| SSH client, `ip http proxy` | the router's entries | `EnsureProxy`, `DeleteProxy`, `parseProxies`, `proxySatisfied`, `proxyCommands` | session protocol |
| SSH session protocol | a mutex, one connection, the stream read so far | `run`, `readUntilPrompt`, `atPrompt`, `filterNoise` | router |
| Ingress controller | none of its own: owner references and specs of the objects it derives | `Reconcile`, `addressesByHost`, `reconcileWebApps`, `webAppSpec`, `hostsRequiringTLS`, `publishes` | API server; through the objects, the two actuators |
| Manager wiring | configuration, leader lease | `main` | everything |
| API types, CRDs | - | validation patterns, defaults | controllers |
| Metrics | counters and gauges | - | nothing reads them back |
| *outside the repository:* API server and controller-runtime | objects, caches, work queues | watch, optimistic locking, finalizers, back-off, one worker per kind | controllers |
| *outside the repository:* the router | running-config, startup-config | CLI commands, `system configuration save`, reboot | sessions |

What makes each part correct, and what makes it hard:

* **Host records.** A name has exactly one address at any time; an object that says
  `Ready=Applied` for its current generation is right; nothing is left on the router once an
  object is gone, in the stored configuration either; the table stays within the router's
  limit; deletion always ends; an object is never forgotten; and in the end the flash is
  left alone. Hard because the worker's copy is old, because the guard on the limit, the
  listing and the write are separate sessions, because a session breaks between commands,
  and because two objects may name the same line.
* **Publications.** The same, and: objects of several namespaces may share an entry (same
  domain) or collide on it (other domain), which is decided from a cached list; a rename has
  to give up the previous entry, which only `status.appliedName` remembers; a refusal by the
  router is found out only after everything was sent and saved.
* **Sessions.** Commands and answers stay in step however the stream is cut; a silent router
  does not hold the mutex for ever; two controllers share one client.
* **Ingresses.** An object lives as long as an Ingress wants it, co-owners do not rewrite
  each other, a disagreement does not wake the controller for ever, and a deferred host is
  taken up again.

`PROJECT.json` lists the hazards one by one, at their lines, with the properties that would
notice.

## 2. Modules

| Module | What it models |
| --- | --- |
| `ControllerRuntime` | What the reconcilers stand on: API server, informer cache, optimistic locking, work queue, one worker, restarts. External code, modelled from its use |
| `Custody` | The abstract promise of a finalizer: what an object has on the router appears only under the finalizer, and the object goes only when it is gone |
| `HostRecord` | The KeeneticHostRecord controller and the `ip host` part of the SSH client, with the router's tables. Extends `ControllerRuntime`, implements `Custody` |
| `ProxyConfig` | One `ip http proxy` entry: what a listing tells, when it is good enough, the commands that write it. No state |
| `WebApp` | The KeeneticWebApp controller and the `ip http proxy` part of the SSH client. Extends `ControllerRuntime` and `ProxyConfig`, implements `Custody` |
| `Publication` | What one Ingress asks for one of its hosts: `publishes`, `webAppSpec`, `ingressRequiresTLS`, `inKeenDNSZone`; and what becomes of it on the router. No state |
| `IngressSource` | The Ingress controller, with the objects it derives, their owners and the garbage collector. Extends `ControllerRuntime` and `Publication` |
| `CommandSession` | The abstract session of the SSH client, as the actuators take it: one at a time, commands in order, a success has executed them all |
| `Session` | `run`, `readUntilPrompt` and `atPrompt`: the mutex, the deadline, the stream in chunks. Implements `CommandSession` |
| `MCHostRecord`, `MCWebApp`, `MCIngressSource`, `MCSession` | The small instances of the runs: names, addresses and the sets of specs users choose from |
| `HostRecordProofs`, `HostNameProofs`, `CustodyProofs` | The theorems about `HostRecord`; the last one with the refinement of `Custody` |
| `WebAppProofs`, `WebAppReadyProofs`, `WebAppCustodyProofs` | The same about `WebApp`: types and guards; what a status claims; entries left behind and the refinement of `Custody` |
| `IngressProofs` | The theorems about `IngressSource` and `Publication` |
| `SessionProofs` | The theorems about `Session`, with the refinement of `CommandSession` |

How they compose: `IngressSource` writes the objects that `HostRecord` and `WebApp` read; to
the two actuators an Ingress is one more user (`UserCreate`, `UserEdit`, `UserDelete`), and
to `IngressSource` an actuator is whoever takes off a finalizer (`FinalizerRemoved`). Both
actuators use one client, hence `CommandSession` between `Session` and them: that sessions
do not overlap is why each actuator sees of the other only `OtherSave`, the
`system configuration save` that makes permanent what its own broken session has left.

### How state and actions correspond to the code

`obj` is the API server, `cache` the informer's copy, `lagging` the keys whose last change
has not arrived; `queue` and `delayed` are the work queue and its timers. `pc` names **the
next call of `Reconcile`**, `key` and `rec` are the request and the local variable `rec`
(`app`) of the reconcile under way, `fresh` says whether its resourceVersion is still the
object's. Every action is one API request, one router session that reads, or one command of
a session that writes; between any two of them users edit, watches arrive, sessions break,
the process dies, the router reboots.

| `HostRecord` action | Code |
| --- | --- |
| `Reconcile` / `FirstStep` | hostrecord:51-93: Get, and which branch |
| `AddFinalizer` | hostrecord:86-93; returns without a requeue |
| `CountHosts`, `HasHost`, `LimitReached`, `LimitStatus` | hostrecord:96-122, client.go:335-366: two sessions, then refuse or go on |
| `EnsureHost`, `HostCommands` | client.go:269-315: validation, listing, which commands to send |
| `NoIpHost`, `IpHost`, `SaveConfiguration` | the commands of `run` (client.go:160-169), for EnsureHost and DeleteHost alike |
| `ApplyFailed`, `Applied` | hostrecord:124-142: status update, error or five-minute requeue |
| `RemoveFinalizer` | hostrecord:66-69 |
| `SessionLost`, `SessionError` | an error of `run` and what Reconcile does about it |

| `WebApp` action | Code |
| --- | --- |
| `CheckName`, `NameConflict` | webapp:99-119 and 231-250 |
| `Release`, `ReleasedName`, `Claimants` | webapp:63-81, 121-130, 192-229, 252-270 |
| `NoIpHttpProxy`, `DropSave` | proxy.go:364-382 |
| `EnsureProxy`, `Command`, `SaveConfiguration` | proxy.go:329-362, command by command |
| `ApplyFailed`, `Applied`, `RemoveFinalizer`, `AddFinalizer` | webapp:82-97, 132-152 |
| `OtherSave` (in both) | client.go:289, proxy.go:361: a `save` by the other controller |

| `IngressSource` action | Code |
| --- | --- |
| `Reconcile` / `AddressesByHost` | ingress:83-113, 243-278: Get, and the addresses all Ingresses of the namespace ask for |
| `Postpone`, `CreateOrUpdate` / `Desired` | ingress:115-184, 310-355: the loop over wanted hosts, for records and then for publications |
| `ListOwned`, `Release` | ingress:186-222, 356-390: the loop over what is owned and not wanted: Delete for the last owner, else Update without the reference |
| `ReconcileWebApps` / `WebAppSpecsByHost`, `HostsRequiringTLS` | ingress:280-308, 395-425, 574-627 |
| `Finish` | ingress:227-241: deferred hosts are requeued |
| `WatchChild` | `Owns` with `MatchEveryOwner` (ingress:634): the owners of the old and of the new version are woken |
| `GarbageCollect`, `FinalizerRemoved`, `UserApplies`, `UserRemoves` | others that write the derived objects |

`child`, `childCache`, `childLagging` are the derived objects, the informers' copies, and
those whose last change has not arrived; `wake` gathers the owners that its arrival will
wake. `pass` is the kind the worker is busy with, `todo` and `listed` what its loop has
still to do, `agreed` the values it has read, `deferred` whether something must wait.

| `Session` action | Code |
| --- | --- |
| `Call`, `Lock`, `Unlock` | client.go:84-86 |
| `Dial`, `DialFails` | client.go:100-150 |
| `Read` / `AtPrompt`, `Keep` | client.go:201-253: a chunk of any length, the comparison of the last line, the window |
| `Send`, `Exit` | client.go:160-190 |
| `Deadline` | client.go:91, 109-119: the goroutine that closes the connection |
| `Leave`, `Close` | the deferred calls, in the reverse order |
| `RouterPrints`, `RouterTakes` | the router's shell: it discards what comes before its prompt (client.go:152) |
| `Straggle` | the router carries out, or does not, the line that was on its way |

### What is abstracted

* Names, addresses, domains and upstreams are model values; a host name stands for its
  case-folded form (`strings.ToLower`, `EqualFold`). `BadAddrs`, `BadUpstreams`, `BadNames`
  and `BadZones` are the values validation refuses. They are reachable: the CRD pattern
  accepts an octet with a leading zero, `netip.ParseAddr` does not; it accepts a host of one
  label, whose zone is empty.
* The generation enters as a Boolean: `observed` is `observedGeneration = generation`.
* UIDs: the model tells an object from its successor of the same name by the
  resourceVersion only, as the code does.
* A listing is the table itself; for publications `Listed` says what the parser makes of it.
  `Prints` is the set of settings whose lines it gets to see: firmwares differ in what they
  print, and a line the parser does not know ends the block, so that the settings after it
  come out unset (proxy.go:172-176). The instances print domain, upstream and flags, and
  differ in the level and `auth`; `AppliedIsTrue` of publications is proved for any `Prints`.
* A command whose answer was lost, and one that was never sent, are both a session that
  broke before the next command; for the last command, `save`, the two differ, and both
  happen.
* Retry delays are left out: a timer may run out at any moment, and under fairness it does.
* Metrics, logging and message texts are left out. The gauge refresh after a deletion only
  reads the router.
* `CreateOrUpdate` reads the cache and writes at once: one worker, and what the write
  meets is decided by the API server's version. For a host that is put off unless its object
  exists, the code reads twice (ingress:148 and 176, 330 and 345); when the object vanishes in
  between, it is created with an empty value, which the CRD refuses, and the reconcile ends in
  an error. `CreateOrUpdate` has that outcome. Reads of the cache that follow each other
  without a request between them are one step. The informers' ten-hour resync is left out, so
  that no liveness property can rest on it.
* A watch may skip versions of a derived object; `wake` keeps the owners of all of them, as
  the informer's queue of deltas does.
* An annotation is `Absent`, `Typo` or a value. The address of an Ingress is the first one of
  its load balancer, or `Absent`.
* The stream of `Session` consists of text, ends of lines, escape sequences and the two
  halves of a prompt. Escape sequences are atomic, and the window of `readUntilPrompt`, 128
  bytes in the code, is three symbols, just above the longest decorated prompt. Dialling,
  the handshake and the opening of the shell are one step.

### Assumptions about the surroundings

* One worker per kind (`MaxConcurrentReconciles` is not set), and operators do not overlap:
  the lease is 60 s, renewal is given up after 40 s and the process exits (main.go:77-79).
* A reboot takes the router away for longer than the 10 s dial timeout, so a session that is
  open, or about to open, fails.
* The administrator removes and adds lines by hand, with or without saving; adds one only
  where there is room for it; and does not remove a publication while a session is inside
  its context.
* The router's answers contain no line that *begins* with a prompt: if a read ended there,
  the code could not tell it from the prompt (client.go:217), and neither could any model
  of it. `Legible` (in `Session`) is this assumption made exact: with the window the client
  keeps, the last line tells the prompt of every reply from its text, at every cut; TLC evaluates it for
  the texts of the run.
* A line on its way when a session fails may be carried out after it, even during the next
  session: `Session` has that (`Straggle`, and `doubtful` in `CommandSession`). `HostRecord` and
  `WebApp` assume that such a line takes effect before the failed session has ended or not
  at all; a router that falls silent for longer than the retry takes is outside them.
* A refused `ip host` has no effect, and nobody looks at the answer. A refused command in
  the proxy context has no effect, and `refusalError` finds it.

## 3. Runs

The bounds are on user operations (`MaxUserOps`), on acts of the router and its administrator
(`MaxDrift`) and on faults: lost requests, lost sessions, restarts (`MaxFaults`). They bound
how often something *happens*, never the queue, the retries, the periodic reconciles or the
saves of the other controller, so liveness is not cut off. Three operations are create,
create, edit or delete, or create, edit, delete; four allow two objects with an edit each, or a
deletion and a re-creation. One fault at each point of every path is what the retry logic is
about. Two objects are enough for sharing, collision and rivalry, of which all conditions in
the code are pairwise. Symmetry is not used: each instance gives the objects different specs.
In the tables, 4/0/1 stands for four operations, no drift and one fault.

Deadlock is not checked: once operations, drift and faults are used up and no object is
left, the system rests; so does a client whose callers have all returned.

### Properties that hold

| Run | Properties | Instance |
| --- | --- | --- |
| `HostRecordSafety` | `TypeOK`, `WriteUnderFinalizer`, `NoLostWakeup`, `ReadyIsTrue` | one object edits its address, the other its name; room for two lines, 4/0/1; 3.1 million states |
| `HostRecordRivals` | `AtMostOneAddress`, `NoOrphan`, `KeepsCustody` | two objects give one name two addresses, a line by hand, reboots, removals and refusals, 3/1/1; 0.8 million |
| `HostRecordLiveness` | `CapRespected`, `Converges`, `FlashGoesQuiet`, `DeletionCompletes` | an address edited to an invalid one beside another object, room for one line, and an administrator who may take it at any moment, 3/1/0; 0.31 million |
| `WebAppSafety` | `WriteUnderFinalizer`, `NoOverwrite`, `ReadyIsTrue` | sharing, collision and renaming, 3/0/1; 1 million |
| `WebAppCleanup` | `TypeOK`, `NoStrandedEntry`, `KeepsCustody`, `DeletionCompletes`, `Converges` | one entry edited between `domain ndns` with authentication and a static domain in the router's own zone, which is refused; refusals and reboots, 3/1/1; 0.15 million |
| `WebAppLiveness` | `Converges`, `FlashGoesQuiet` | a collision and its resolution, an invalid upstream, firmware that prints no level, 3/0/0; 82 000 |
| `Ingress` | `TypeOK`, `ClaimsAreHeld`, `ClaimsAreReleased`, `NothingExposedByTypo`, `PublishedAsAsked`, `Converges`, `RewritingCeases` | two Ingresses that come to share a host, one of which may serve a second host as well; they start in agreement, in disagreement or with one of them alone; one operation of a user on an Ingress or on a derived object, one fault; 0.19 million |
| `Session` | `TypeOK`, `PromptIsSeen`, `SendsInTurn`, `NoStandoff`, `OneSessionAtATime`, `KeepsItsPromise`, `EveryCallReturns` | three callers, one with two lines; answers with nothing but an echo, or with a prompt in the middle of a line; every cut of the stream; 49 000 |

The router holds `MaxHosts` lines, 64 in production; one or two here, so that the guard is at
its limit in `HostRecordSafety` and `HostRecordLiveness`. `CapRespected` is checked where the
table can change between the count, the question and the write: in `HostRecordLiveness` the
administrator adds a line at any of these moments.

The `Ingress` run has one user operation, because the interesting states are the ones it
starts from: the operator comes up on the Ingresses of `Started`, with no derived object yet.
From there every edit leads to another way of sharing the host: in agreement, with different
addresses, with different settings (`Private`, `Refused`), with one that wants no publication
(`Unpublished`), or wrote something that cannot be understood (`Mistyped`). An Ingress with
`Both` hosts shares one of them and has the other to itself, so that a loop breaks off with
one host seen to and the other not. Two Ingresses that share *both* hosts are left to
`ClaimsHeld` and `ClaimsReleased`, which are proved for any number of hosts.

What they show, beyond the statement of each property:

* `WriteUnderFinalizer` and `NoOverwrite` hold *although* the cache trails. The first because
  a copy with the finalizer and no deletion, however old, is of an object that still has
  the finalizer: only this worker takes it off, and only from a copy it knows to be current
  and deleted. The second because a settled rival has the very spec that some reconcile read
  from the cache and whose status update did not conflict, so the list shows that spec.
* `ReadyIsTrue` rests on optimistic locking of the status update. Its mutant, a blind patch,
  reports `Applied` for a spec nobody has applied. It is stated for a router nobody else
  writes (`MaxDrift = 0`): a line removed by hand makes every status stale for up to five
  minutes, by design.
* `CapRespected` allows one line above the limit where an administrator adds lines by hand:
  the count and the write are different sessions, and one line can slip in. It is one however
  often he does, because from the limit on he finds no room and the operator adds none.
* `NoOrphan`, `NoStrandedEntry` and `KeepsCustody` cover the stored configuration too: the
  finalizer is removed only after a `save`, and the other controller's save does not upset
  that.
* `FlashGoesQuiet` is the README's point about flash wear: reconciles go on for ever, and
  sessions that write do not.
* `NothingExposedByTypo` is asked also where the publication was there first and another
  Ingress keeps it: the one with the typo must give up its reference.
* `ClaimsAreHeld` is why the unconditional Delete of the last owner (ingress:219) is safe
  although it works from a listing: an Ingress that became an owner meanwhile is woken by
  the deletion, and creates the object again. `ClaimsAreReleased` is the same for updates that
  conflict. Both rest on `MatchEveryOwner`: their mutant is the default, which wakes the
  controller owner alone.
* `RewritingCeases` holds while the Ingresses still disagree, on addresses or on settings. The
  mutant, in which each insists on its own address, is the cycle that the comment above
  `addressesByHost` describes.
* `PromptIsSeen` looks ahead: of what a reader has kept, what is on the wire and what the router has
  still to print, it says of every place where the next read may end whether the client will
  be at a prompt: when the prompt is complete, and nowhere before, also where the text contains one
  in the middle of a line. It is what the comparison of the whole last line is for; a
  comparison of the end of the text is its mutant.
* `SendsInTurn` holds for text that looks like a prompt, at every cut of the stream, because
  the whole last line is compared; `NoStandoff` because the window joins what was cut.

### Refinements

`KeepsCustody` (in `HostRecord` and `WebApp`) is `Custody!Spec` under the mapping

* `life` of an object: absent; `new` without the finalizer; `guarded` with it; `deleting`,
* `held`: some line (entry) of its specs is in the running or the stored configuration.

Every step of an actuator, of its users and of the router must be a step that the finalizer
allows or a stutter: nothing is acquired for an object that is new or absent, and an object
that has something does not vanish. It holds where an object keeps its name, for the reason
`NoOrphan` is stated for such objects. A deleted object may still acquire: its worker may
hold a copy from before the deletion.

`KeepsItsPromise` is `CommandSession!Spec` with `StateOf`: a session is open from the first
read until the mutex is released. It is what entitles `HostRecord` and `WebApp` to make
each command a step of its own, with `SessionLost` between any two of them.

### Where the code does otherwise than the documentation says

Each of these runs ends in a counterexample; `PROJECT.json` quotes the statement it refutes.

| Run | What happens |
| --- | --- |
| `HostRecordEditOrphan` | edit the address, delete before the next reconcile: the cleanup uses the new address, the line with the previous one stays (hostrecord:62) |
| `WebAppRename` | a rename overtakes the status update: `appliedName` never learns the first entry, which is stranded (webapp:146) |
| `WebAppAuth` | `auth` is never switched off while the comparison wants it off: a flash write at every reconcile (proxy.go:323, 249) |
| `IngressProxyName` | an Ingress names its entry by the `proxy-name` annotation, as the README advises for two hosts that collide: the router then serves that name in the zone, and not the host of the Ingress (ingress:454) |

The properties of the passing runs are stated so that they leave such cases out, by their
instance or their premise. What the premises stand for:

* `NoOrphan` is about objects whose spec never changes, because of `HostRecordEditOrphan`.
* `ReadyIsTrue` of `HostRecord` is about names of one object: the cleanup of a record does
  not ask whether another namespace claims the line (hostrecord:62), as `releaseName` does
  for publications, and the other record is put back at its next periodic reconcile.
* `NoStrandedEntry` is about names that are not shared. An entry is spared for every object
  that names it (webapp:212), also for a rival of another domain that has never published
  it, and for one that has no finalizer yet; when such an object moves to another name, or is
  deleted before its first reconcile, nobody owns the entry.
* No property asks that an applied line is in the *stored* configuration: EnsureHost saves
  only with commands it has to send (client.go:286), so a retry after a session lost between
  `ip host` and `save` leaves the line unsaved until something else saves.
* `Converges` of `HostRecord` counts as rejected an object whose edited address meets a full
  table, although replacing the line needs no room: the guard asks for the exact line
  (hostrecord:113), and the previous address stays until room is made.
* `FlashGoesQuiet` of `WebApp` is about renames to specs that can be published. A published
  object that is renamed to one that cannot fails at every retry *after* it has released the
  previous name (webapp:125), and `appliedName` is changed only by a success (webapp:146), so
  that each retry deletes and saves again.
* `Converges` of `IngressSource` is about one namespace and Ingresses without `tls` sections
  and redirects. Whether a host needs https is read from all Ingresses of the cluster
  (ingress:583), and a change of one in another namespace wakes none of those it concerns:
  they wait for the resync.
* Its hosts are valid; a host that the CRD refuses ends the reconcile at its creation
  (ingress:178), and the other hosts are served only if their turn comes before it. A host of
  one label passes the CRD, and validation refuses its publication at every retry
  (proxy.go:110): `PublishedAsAsked` is checked without, and `HostsAreServed` has it in its
  premise.
* `ReadyIsTrue` of `HostRecord` is not asked for where the router refuses `ip host`: the
  answer to that command is not looked at (client.go:289), and the object is reported applied
  until the next periodic reconcile finds the line missing.
* Publications with authentication are checked on firmware that prints `auth`. Where it
  prints neither `auth` nor `no auth`, a session lost before that command leaves an entry that
  the comparison takes for satisfied (proxy.go:249).
* A record that a user has declared is adopted by the first Ingress with its host
  (ingress:174), and deleted with it.
* No property is about `status.applied` of a record alone: a failed EnsureHost leaves it as
  it was (hostrecord:126) and reports the failure in `Ready`; the publication's controller
  clears it.

### Fairness

* `WF(Worker)`: a reconcile under way goes on. It is a goroutine; each router call ends, if
  need be by `sessionTimeout` (client.go:91, 227), each API call by its own.
* `WF(Watch)`, `WF(Timer)`: informers deliver, `RequeueAfter` and back-off run out.
* `SF(Reconcile(r))`: a queued key is taken in the end. Weak fairness would not do: taking
  one key disables taking the other. The work queue is first-in first-out, so no key waits
  behind another for ever.
* `IngressSource` also has `WF` of the garbage collector and of the actuators that take off
  finalizers (`DeletionCompletes` of the two actuators is the reason why they do). Where
  an event may be delivered for one object or another, the fairness is of the disjunction:
  that some of the pending ones is delivered; TLC checks that faster, and it is weaker.
* `Session`: `WF(Client(c))`, a goroutine goes on; `WF(Deadline(c))`, a deadline expires, on
  a session that neither goes on nor ends; `SF(Lock(c))`, which `sync.Mutex` gives: a
  waiter that has waited for a millisecond is handed the mutex. **Nothing** is assumed of
  the router: it may fall silent for good.
* Nothing is assumed about users, faults, drift, the other controller's saves or restarts:
  these need never happen.

## 4. Theorems

They hold for every set of objects, names, addresses, hosts and callers and every value of the
bounds. Assumptions, all named, in the modules that declare the constants, and evaluated by
TLC in every run: `NoKey` is no key, `NoObject`, `NoEntry`, `NoName` and `NoSpec` are no
objects, entries, names and settings, `Nobody` is no caller; the specs users choose from, and
the Ingresses the operator comes up on, are of the declared types; a publication has finitely
many flags; an annotation that is absent differs from one that is mistyped; scripts, greeting
and answers are sequences; the window is not empty; the bounds are natural numbers. Where a
theorem has a *premise* it is a hypothesis of the theorem, on the constants alone, explained
below; the run that checks the property satisfies it.

| Module | Theorem | Property | Inductive invariant |
| --- | --- | --- | --- |
| `HostRecordProofs` | `TypeCorrect` | `TypeOK` | `TypeInv`: `TypeOK` and the router's tables are finite. `CountHosts` stores a cardinality, which is a number only for a finite table |
| | `WritesAreGuarded` | `WriteUnderFinalizer` | `Protocol`, below |
| | `WakeupsAreKept` | `NoLostWakeup` | `Protocol` |
| | `LimitIsKept` | `CapRespected` | `Capped`: what has been counted bounds what is there and what the session will add, from step to step of the guard |
| `HostNameProofs` | `OneAddressAtATime` | `AtMostOneAddress` | `OneLine`: the rivals of a line to be added are among the lines to be removed first. Others may remove a line in the middle of the session, and add none with the operator's names |
| | `AppliedIsTrue` | `ReadyIsTrue` | `Ready`: `Truthful`, `Copies`, `InHand`; premises `Undisturbed`, `OwnHosts` |
| `CustodyProofs` | `NoOrphanIsLeft` | `NoOrphan` | `Custodial`: `TypeInv`, `Protocol`, `Specs` and `Keeping`, below |
| | `CustodyIsKept` | `KeepsCustody` | `Custodial` |
| `WebAppProofs` | `TypeCorrect` | `TypeOK` | `TypeInv`, with `Scripted`: the unsent commands are about the worker's own entry, and once the one that opens its context has been sent, the entry is there |
| | `WritesAreGuarded` | `WriteUnderFinalizer` | `Protocol`, as for host records, and `ObservedCached` |
| | `CollisionsAreRefused` | `NoOverwrite` | `NameClear`: since the name was checked nobody has settled on it with another domain |
| `WebAppReadyProofs` | `AppliedIsTrue` | `ReadyIsTrue` | `Ready`: `Truthful`, `Copies`, `Plain`, `InHand`; premises `Undisturbed`, `OneVoice`, `AuthByName` |
| `WebAppCustodyProofs` | `NoEntryIsStranded` | `NoStrandedEntry` | `Custodial`; premises `SameName`, `OwnNames` |
| | `CustodyIsKept` | `KeepsCustody` | `Custodial`; the same premises |
| `IngressProofs` | `TypeCorrect` | `TypeOK` | `TypeInv`: a child has a value that some Ingress of its host asks for or a user wrote, and the uids in use number less than the operations |
| | `HostsAreServed` | `PublishedAsAsked` | `TypeInv`; premise `NamedByHost` |
| | `ClaimsHeld`, `ClaimsReleased` | `ClaimsAreHeld`, `ClaimsAreReleased` | `Claims`, below; premise `ValidDefaults` |
| | `NothingExposed` | `NothingExposedByTypo` | follows from `ClaimsReleased` |
| `SessionProofs` | `MutexIsKept` | (a lemma of the next) | `MutexInv`: the caller between Lock and Unlock is the owner, and connections are the owner's |
| | `SessionsDoNotOverlap` | `OneSessionAtATime` | `MutexInv` |
| | `PromptsAreSeen`, `LinesAreSentInTurn`, `NobodyWaitsForBoth` | `PromptIsSeen`, `SendsInTurn`, `NoStandoff` | `StreamInv`, below; premise `Legible` |
| | `TypeCorrect` | `TypeOK` | `SessionInv`: `MutexInv`, `StreamInv` and `ScriptInv`; premise `Legible` |
| | `PromiseIsKept` | `KeepsItsPromise` | `SessionInv`; the same premise |

`Protocol` is what is needed about the trailing cache: a key that does not lag has its exact
copy in the cache (`CacheExact`); an object being deleted still has its finalizer, or it would
be gone (`DeletedWaits`); a cached copy with the finalizer and no deletion, however old, is of
an object that still has the finalizer (`Guarded`); the worker's copy is current when it is
fresh, and at the steps that lead to a write its object has the finalizer (`WorkerKnows`); and
no wakeup is lost. None of them is inductive alone: that the object has the finalizer at a
write follows from what the cache held when the key was taken, that from the fact that only
this worker takes finalizers off, and that from the update's conflict when the copy is not
current.

The proofs are laid out by operator: lemmas on what `Return`, `Update`, `Take`, `Goto` and
`UserWrite` of `ControllerRuntime` keep, then one lemma per group of actions, with one step
per action, then the temporal step.

### Host records

The two theorems of `CustodyProofs` are about objects that do not share a line and whose spec
never changes, with no such line kept by hand. This is their `Premise`, on the constants
alone; the instance of `HostRecordRivals` satisfies it, `HostRecordEditOrphan` shows what
happens without it. `Specs` says that copies, however old, have the spec of their object;
`Keeping` that a line which is there, or in the stored configuration, has an object with the
finalizer and a valid address (so its cleanup does open a session), and what this needs of the
worker: a cleanup has still to remove its line if it is running, and when it has saved and
comes to the finalizer the line is nowhere. The refinement is a step of two kinds
(`NextWrites`): a write to the API server is one turn of one object's life (`Turn`) and leaves
the router alone; every other step leaves the lives alone, and adds at most the line of the
object under reconcile (`NextTables`), which has the finalizer by `Protocol`.

The other controller's `OtherSave` is a step like the others: what it saves is what is
running, of which every invariant says as much as of what is stored.

`AppliedIsTrue` says that a status tells the truth although it is written after the session,
from a copy made before it. `Truthful` is the claim for all objects at once; what makes it
inductive is that no later session undoes it. For other objects that is `OwnHosts`; for the
object itself, `Copies`: a settled object is cached with the spec it was settled with and as
not deleted, so the worker, whichever old copy it takes, opens no session that would remove or
rewrite the line. `InHand` follows one session from the listing to the status. `OwnHosts` is
needed because the cleanup of a record does not ask who else claims the line; `Undisturbed`
(`MaxDrift = 0`) because a status is not looked at again for five minutes.

### Publications

`Protocol` is the one of host records, for a reconcile with two halves: `releaseName` runs for
a deleted object and for a renamed one, and `rec.deleting` tells which. `ObservedCached` is
why the collision check, which reads a trailing cache, misses nobody who matters: what a
status has observed was read from the cache, and an edit takes the observation away.
`NameClear` carries the check over all the steps between it and the first command.

The premise of `WebAppReadyProofs` is wider than that of host records, as the code is: objects
of several namespaces may share an entry, and may collide on a name. `OneVoice` asks that
those of one name and domain want the same settings (of two that disagree each rewrites the
other's, which `FlashGoesQuiet` and the hazards speak of). `AuthByName` asks that those of one
name agree on authentication, because no command switches `auth` off (`WebAppAuth`): an object
that takes a name over would find it on. `OneMind` is what is left of this for a session
under way: every object that has settled on the entry wants what its commands set. `ListedIsInForce` is the step from
what the parser makes of a listing to what is in force, for any `Prints`: a comparison that
finds nothing to do has seen the domain, the upstream and the flags as they are. `Plain` is what this gives: an entry asks for
authentication only where every spec of its name does. `Sending` is the heart of `InHand`: for
each setting, either the entry has it or its command is still to be sent, so an entry is right
when the script is empty, and lost sessions leave no status.

The premise of `WebAppCustodyProofs` is the one under which an entry has an owner: an object
keeps its name, and shares it with none. Without the first, `WebAppRename` strands an entry;
without the second, the bullet on `NoStrandedEntry` above. Everything else of a spec may
change at any time, unlike in `CustodyProofs`, because what is removed is found by name alone.

### Ingresses

`HostsAreServed` needs to look at no history: a derived publication has the settings some
Ingress of its host asks for (`TypeInv`), and `Publication` is a set of definitions about one.
Its premise, `NamedByHost`, excludes the annotation `IngressProxyName` is about, and hosts
of one label, whose publication validation refuses.

`Claims` is the argument behind both halves of ownership. `CacheExact` and `Heard`: an Ingress
whose cached copy is old, and every owner, old or new, of a child whose event has not arrived,
will be woken. `AtRest`: for every Ingress that nothing will wake, ownership is already
`Right`. `AtWork`: of the one under reconcile, unless it will be woken anyway, every host that
its loops are done with (in `keep` and not in `todo`, or not listed any more) is right, or its
claim has been put off and the Ingress comes back (`deferred`). A write of a child disturbs
`AtRest` for its owners only, and these are woken by it (`MatchEveryOwner`). `ValidDefaults`
says that the operator's own default scheme and port are among those it accepts: with others,
whether an Ingress wants a publication would hang on the `tls` sections of others, which do
not wake it.

### Sessions

`StreamInv` says where the stream is. There is always one text, the reply to the last line or
the rest of the last prompt's decoration, of which `k` symbols have been read, a window of
them kept, and `m` been printed (`Tape`): what is kept, what is on the wire and what is still
to be printed are consecutive slices of it. The stream is in one of three states: `Turn`, the
prompt has been read and nothing but decoration is left; `Asked`, one line is on its way to a
router at its prompt; `Told`, the router has said, or will say, more than has been read. A
caller that may send is in `Turn`, one that reads is in `Asked` or `Told`; the three
properties of the stream are corollaries. Lemmas on slices carry it: reading `n` symbols from
a window and keeping a window is the same as keeping a window of `k + n`, however the stream
is cut.

`Legible` is the premise, a statement on texts and window alone, and `MCSession` has it as an
`ASSUME`, so that TLC evaluates it for the texts of the run. It is not proved for a class of
texts because the last line is found with the recursive `SelectSeq`, of which the prover knows
nothing.

`ScriptInv` says what has come of each script: always a part from its beginning; for who has a
connection, all that was sent and is not on its way; all of it, if the result is success; and
a line that straggles is the next one, of a session that failed. With it every step maps to
one of `CommandSession`, or to none: `Dial` and `DialFails` to `Open`, `RouterTakes` to
`Execute`, `Unlock` to `Succeed` or `Fail`, `Straggle` to `Execute` before the mutex is
released and to `Straggle` after; the others change nothing that the callers see.

### What is not proved

Every invariant of the passing runs and the three refinements are proved, some under the
premises above. Only model-checked:

* `Converges`, `FlashGoesQuiet`, `DeletionCompletes`, `RewritingCeases` and `EveryCallReturns`:
  liveness under fairness, which the prover does not handle.
* `Legible`, as said.

## 5. Plan

Done: all the controllers and the client, with their runs; two abstract specifications and the
three refinements; every invariant proved. What is left, in this order:

1. **Weaker premises.** `NoOrphan` and `KeepsCustody` of `HostRecord` for objects that change
   their address and are not deleted before it is applied; `NoStrandedEntry` for names that are
   shared with objects that have settled on them.
2. **Legible.** A definition of `AtPrompt` without `SelectSeq`, shown equal by TLC, and
   `Legible` from a condition on single lines.
3. **Lemmas about `ControllerRuntime`**, shared by `HostRecordProofs` and `WebAppProofs`, which
   state them twice.

## 6. Not modelled

Metrics (nothing reads them), the gauge refresh after a deletion, logging and message
texts; `filterNoise`, which removes lines no decision looks at; host-key pinning (a callback
without state); RBAC, manifests and generated deep copies; the parsing of flags, environment
and annotations (it decides constants, or whether a value is a typo); scheme registration and
printer columns of the API types; back-off durations. Two objects of one domain from two
namespaces with *different* settings are outside the instances of `WebApp`: the code compares
settings within a namespace only (ingress:574), and each reconcile then rewrites the other's.
