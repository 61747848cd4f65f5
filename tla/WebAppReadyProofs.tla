------------------------- MODULE WebAppReadyProofs -------------------------
(***************************************************************************)
(* Ready=Applied of a KeeneticWebApp is true, for any bounds and firmware, *)
(* also of objects that share an entry or collide on its name, while       *)
(* nobody but the operator touches the router.                             *)
(*                                                                         *)
(* The premise: objects that publish one domain under one name want the    *)
(* same settings, and all that use a name agree on its authentication,     *)
(* which no command of the operator ever switches off.                     *)
(***************************************************************************)
EXTENDS WebAppProofs

Undisturbed == MaxDrift = 0

OneVoice ==
    \A k, j \in Keys : k # j =>
        \A s \in SpecsOf[k], t \in SpecsOf[j] :
            s.name = t.name /\ s.domain = t.domain => ProxyFromSpec(s) = ProxyFromSpec(t)

AuthByName ==
    \A k, j \in Keys : \A s \in SpecsOf[k], t \in SpecsOf[j] :
        s.name = t.name => s.auth = t.auth

Premise == Undisturbed /\ OneVoice /\ AuthByName

-----------------------------------------------------------------------------
(***************************************************************************)
(* The inductive invariant.  What settled objects ask for is there; a      *)
(* session that removes an entry finds none of them on that name, one that *)
(* writes it only such as want the same, and what it has still to send     *)
(* makes the entry what it should be.                                      *)
(***************************************************************************)
Holds(s) == LET e == proxies[s.name]
            IN e # NoEntry /\ ProxySatisfied(InForce(e), ProxyFromSpec(s))

Up(k) == obj[k] # NoObject /\ Settled(k)

Truthful == \A k \in Keys : Up(k) => Holds(obj[k].spec)

HasSpec(o, k) == o # NoObject => o.spec \in SpecsOf[k]

\* A copy of an observed object shows it as it was observed.
Copies ==
    /\ \A k \in Keys : HasSpec(obj[k], k) /\ HasSpec(cache[k], k)
    /\ pc # "idle" => /\ HasSpec(rec, key)
                      /\ obj[key] # NoObject /\ obj[key].observed =>
                            /\ rec.spec = obj[key].spec
                            /\ ~obj[key].deleting => ~rec.deleting

\* An entry asks for authentication only where the specs do.
Plain == \A k \in Keys : \A s \in SpecsOf[k] :
            proxies[s.name] # NoEntry /\ proxies[s.name].auth => s.auth

NobodyUp(name) == \A r \in Keys : Up(r) => obj[r].spec.name # name

\* Those settled on the name of a spec want what it wants.
OneMind(s) == \A r \in Keys : Up(r) /\ obj[r].spec.name = s.name =>
                  ProxyFromSpec(obj[r].spec) = ProxyFromSpec(s)

Unsent(q, c) == \E i \in 1..Len(q) : q[i] = c

Sending(q, want, e) ==
    /\ Unsent(q, <<"domain", want.domain>>) \/ (e # NoEntry /\ e.domain = want.domain)
    /\ Unsent(q, <<"upstream", want.upstream>>) \/ (e # NoEntry /\ e.upstream = want.upstream)
    /\ Unsent(q, <<"level", want.level>>) \/ (e # NoEntry /\ e.level = want.level)
    /\ \A f \in want.flags : Unsent(q, <<"flag", f>>) \/ (e # NoEntry /\ f \in e.flags)
    /\ want.auth => Unsent(q, <<"auth", TRUE>>) \/ (e # NoEntry /\ e.auth)

InHand ==
    /\ pc = "write" => /\ OneMind(rec.spec)
                       /\ Sending(script, ProxyFromSpec(rec.spec), proxies[rec.spec.name])
    /\ pc = "release" /\ ~rec.deleting => Renamed(rec)
    /\ pc = "drop" => NobodyUp(ReleasedName(rec))
    /\ pc = "applied" => Holds(rec.spec)

Ready == Truthful /\ Copies /\ Plain /\ InHand

(***************************************************************************)
(* What the commands do, and when an entry is as it should be.             *)
(***************************************************************************)
\* The entry n has what e had of want, and what the command c adds to it.
Gains(want, e, c, n) ==
    /\ n \in RouterEntry
    /\ c = <<"domain", want.domain>> \/ (e # NoEntry /\ e.domain = want.domain)
          => n.domain = want.domain
    /\ c = <<"upstream", want.upstream>> \/ (e # NoEntry /\ e.upstream = want.upstream)
          => n.upstream = want.upstream
    /\ c = <<"level", want.level>> \/ (e # NoEntry /\ e.level = want.level)
          => n.level = want.level
    /\ \A f : c = <<"flag", f>> \/ (e # NoEntry /\ f \in e.flags) => f \in n.flags
    /\ c = <<"auth", TRUE>> \/ (e # NoEntry /\ e.auth) => n.auth
    /\ n.auth => (e # NoEntry /\ e.auth) \/ want.auth
    /\ e # NoEntry => n.level \in {e.level, want.level}

LEMMA ExecuteAdds ==
  ASSUME NEW want \in Proxy, NEW e \in RouterEntry \union {NoEntry},
         NEW c \in {OpenContext} \union Settings(want), c # OpenContext => e # NoEntry,
         NEW n, n = Execute(e, c)
  PROVE  Gains(want, e, c, n)
  <1> USE DEF Gains
  <1>0. n \in RouterEntry
    BY ExecuteType
  <1>1. CASE c = OpenContext
    BY <1>0, <1>1 DEF Execute, OpenContext, Blank
  <1>2. CASE c \in Settings(want) /\ c # OpenContext
    <2>0. e \in RouterEntry /\ e # NoEntry
      BY <1>2
    <2>1. CASE c = <<"domain", want.domain>>
      <3>1. n = [e EXCEPT !.domain = want.domain]
        BY <2>1 DEF Execute
      <3> QED BY <1>0, <2>0, <2>1, <3>1 DEF RouterEntry
    <2>2. CASE c = <<"upstream", want.upstream>>
      <3>1. n = [e EXCEPT !.upstream = want.upstream]
        BY <2>2 DEF Execute
      <3> QED BY <1>0, <2>0, <2>2, <3>1 DEF RouterEntry
    <2>3. CASE c = <<"level", want.level>>
      <3>1. n = [e EXCEPT !.level = want.level]
        BY <2>3 DEF Execute
      <3> QED BY <1>0, <2>0, <2>3, <3>1 DEF RouterEntry
    <2>4. CASE \E f \in want.flags : c = <<"flag", f>>
      <3>1. PICK f \in want.flags : c = <<"flag", f>>
        BY <2>4
      <3>2. n = [e EXCEPT !.flags = e.flags \union {f}]
        BY <2>0, <3>1 DEF Execute, RouterEntry
      <3> QED BY <1>0, <2>0, <3>1, <3>2 DEF RouterEntry
    <2>5. CASE c = <<"auth", TRUE>>
      <3>1. n = [e EXCEPT !.auth = TRUE]
        BY <2>5 DEF Execute
      <3>2. want.auth
        BY <1>2, <2>5 DEF Settings
      <3> QED BY <1>0, <2>0, <2>5, <3>1, <3>2 DEF RouterEntry
    <2> QED BY <1>2, <2>1, <2>2, <2>3, <2>4, <2>5 DEF Settings
  <1> QED BY <1>1, <1>2

\* Nothing left to send: the entry is what was asked for.
LEMMA SentIsSatisfied ==
  ASSUME NEW want \in Proxy, NEW e \in RouterEntry, Sending(<<>>, want, e),
         e.auth => want.auth
  PROVE  e # NoEntry /\ ProxySatisfied(InForce(e), want)
  <1>1. \A c : ~Unsent(<<>>, c)
    BY DEF Unsent
  <1>2. /\ e # NoEntry /\ e.domain = want.domain /\ e.upstream = want.upstream
        /\ e.level = want.level /\ want.flags \subseteq e.flags /\ (want.auth => e.auth)
    BY <1>1, NoEntryAssumption DEF Sending, Proxy
  <1>3. e.auth \in BOOLEAN /\ want.auth \in BOOLEAN
    BY DEF RouterEntry, Proxy
  <1>4. /\ InForce(e).domain = e.domain /\ InForce(e).upstream = e.upstream
        /\ InForce(e).flags = e.flags /\ InForce(e).level \in {Unset, e.level}
    BY DEF InForce, Listed
  <1>5. InForce(e).authSet => InForce(e).auth = want.auth
    BY <1>2, <1>3 DEF InForce, Listed
  <1> QED BY <1>2, <1>4, <1>5 DEF ProxySatisfied, DomainSatisfied

\* No command of a rewrite spoils an entry that is as it should be.
LEMMA StaysInForce ==
  ASSUME NEW want \in Proxy, NEW e \in RouterEntry, e # NoEntry,
         ProxySatisfied(InForce(e), want),
         NEW c \in {OpenContext} \union Settings(want), NEW n, n = Execute(e, c)
  PROVE  n # NoEntry /\ ProxySatisfied(InForce(n), want)
  <1>0. Gains(want, e, c, n)
    BY ExecuteAdds
  <1>1. Gains(want, e, c, n) /\ n \in RouterEntry /\ n # NoEntry
    BY <1>0, NoEntryAssumption DEF Gains
  <1>2. /\ e.domain = want.domain /\ e.upstream = want.upstream /\ want.flags \subseteq e.flags
        /\ InForce(e).level \in {Unset, want.level}
        /\ InForce(e).authSet => InForce(e).auth = want.auth
    BY DEF ProxySatisfied, DomainSatisfied, InForce, Listed
  <1>3. n.domain = want.domain /\ n.upstream = want.upstream /\ want.flags \subseteq n.flags
    BY <1>1, <1>2 DEF Gains
  <1>4. InForce(n).level \in {Unset, want.level}
    BY <1>1, <1>2 DEF Gains, InForce, Listed
  <1>5. e.auth \in BOOLEAN /\ n.auth \in BOOLEAN /\ want.auth \in BOOLEAN
    BY <1>1 DEF RouterEntry, Proxy
  <1>6. (n.auth => e.auth \/ want.auth) /\ (e.auth => n.auth)
    BY <1>1 DEF Gains
  <1>7. InForce(n).authSet => InForce(n).auth = want.auth
    BY <1>2, <1>5, <1>6 DEF InForce, Listed
  <1>8. /\ InForce(n).domain = n.domain /\ InForce(n).upstream = n.upstream
        /\ InForce(n).flags = n.flags
    BY DEF InForce, Listed
  <1> QED BY <1>1, <1>3, <1>4, <1>7, <1>8 DEF ProxySatisfied, DomainSatisfied

\* What the listing shows to be as it should, is.
LEMMA ListedIsInForce ==
  ASSUME NEW want \in Proxy, NEW e \in RouterEntry, ProxySatisfied(Listed(e), want)
  PROVE  ProxySatisfied(InForce(e), want)
  <1>1. want.domain # Unset /\ want.upstream # Unset
    BY UnsetAssumption DEF Proxy
  <1>2. /\ Listed(e).domain = want.domain /\ Listed(e).upstream = want.upstream
        /\ Listed(e).level \in {Unset, want.level} /\ want.flags \subseteq Listed(e).flags
        /\ Listed(e).authSet => Listed(e).auth = want.auth
    BY DEF ProxySatisfied, DomainSatisfied
  <1>3. e.domain = want.domain /\ e.upstream = want.upstream /\ want.flags \subseteq e.flags
    BY <1>1, <1>2 DEF Listed
  <1>4. /\ InForce(e).domain = e.domain /\ InForce(e).upstream = e.upstream
        /\ InForce(e).flags = e.flags /\ InForce(e).level = Listed(e).level
        /\ InForce(e).authSet = Listed(e).authSet /\ InForce(e).auth = Listed(e).auth
    BY DEF InForce, Listed
  <1> QED BY <1>2, <1>3, <1>4 DEF ProxySatisfied, DomainSatisfied

-----------------------------------------------------------------------------
(***************************************************************************)
(* The steps.                                                              *)
(***************************************************************************)
LEMMA TruthfulKept ==
  ASSUME Truthful, UNCHANGED obj,
         \A k \in Keys : Up(k) => proxies'[obj[k].spec.name] = proxies[obj[k].spec.name]
  PROVE  Truthful'
  BY DEF Truthful, Up, Settled, Holds

\* Updates of the worker's copy that keep what it says of the object, or say
\* Applied when it is true.
LEMMA UpdateReady ==
  ASSUME RuntimeOK, Protocol, Ready, pc # "idle",
         NEW o \in Object \union {NoObject}, NEW again \in BOOLEAN,
         Update(o, again), UNCHANGED proxies,
         o # NoObject => /\ o.spec = rec.spec /\ o.deleting = rec.deleting
                         /\ o.ready = "Applied" /\ o.observed =>
                               \/ rec.ready = "Applied" /\ rec.observed
                               \/ Holds(rec.spec)
  PROVE  Ready'
  <1>1. pc' = "idle" /\ UNCHANGED cache
    BY DEF Update, Return, Store, clusterVars
  <1>2. InHand' /\ Plain'
    BY <1>1 DEF InHand, Ready, Plain
  <1>3. CASE UNCHANGED obj
    <2>1. Truthful'
      BY <1>3, TruthfulKept DEF Ready
    <2>2. Copies'
      BY <1>1, <1>3 DEF Ready, Copies, HasSpec
    <2> QED BY <1>2, <2>1, <2>2 DEF Ready
  <1>4. CASE fresh /\ Store(key, o)
    <2>1. /\ key \in Keys /\ rec # NoObject /\ rec = obj[key]
          /\ obj' = [obj EXCEPT ![key] = o]
      BY <1>4, NoObjectAssumption
         DEF RuntimeOK, Protocol, WorkerKnows, Store
    <2>2. obj'[key] = o /\ \A k \in Keys \ {key} : obj'[k] = obj[k]
      BY <2>1 DEF RuntimeOK
    <2>3. Truthful'
      <3> SUFFICES ASSUME NEW k \in Keys, Up(k)' PROVE Holds(obj[k].spec)'
        BY DEF Truthful
      <3>1. CASE k # key
        BY <2>2, <3>1 DEF Ready, Truthful, Up, Settled, Holds
      <3>2. CASE k = key
        <4>1. o # NoObject /\ o.ready = "Applied" /\ o.observed /\ ~o.deleting
          BY <2>2, <3>2 DEF Up, Settled
        <4>2. Holds(rec.spec)
          BY <2>1, <4>1 DEF Ready, Truthful, Up, Settled
        <4> QED BY <2>2, <3>2, <4>1, <4>2 DEF Holds
      <3> QED BY <3>1, <3>2
    <2>4. Copies'
      BY <1>1, <2>1, <2>2 DEF Ready, Copies, HasSpec
    <2> QED BY <1>2, <2>3, <2>4 DEF Ready
  <1> QED BY <1>3, <1>4 DEF Update, clusterVars

\* Steps of a session, and steps that end it.
LEMMA MoveReady ==
  ASSUME Ready, UNCHANGED <<obj, cache>>,
         pc' = "idle" \/ (pc # "idle" /\ UNCHANGED <<key, rec>>),
         Truthful', Plain', InHand'
  PROVE  Ready'
  BY DEF Ready, Copies, HasSpec

\* Nobody is settled on a name that the worker is about to give up: neither
\* another object, which would claim it in the cache, nor the object itself.
LEMMA ReleaseFindsNobody ==
  ASSUME RuntimeOK, Protocol, Ready, pc = "release",
         Claimants(ReleasedName(rec), key) = {}
  PROVE  NobodyUp(ReleasedName(rec))
  <1> SUFFICES ASSUME NEW r \in Keys, Up(r), obj[r].spec.name = ReleasedName(rec)
               PROVE  FALSE
    BY DEF NobodyUp
  <1>1. obj[r] # NoObject /\ obj[r].observed /\ ~obj[r].deleting
    BY DEF Up, Settled
  <1>2. CASE r # key
    <2>1. cache[r] # NoObject /\ cache[r].spec = obj[r].spec /\ ~cache[r].deleting
      BY <1>1 DEF Protocol, ObservedCached
    <2> QED BY <1>2, <2>1 DEF Claimants
  <1>3. CASE r = key
    <2>1. rec.spec = obj[r].spec /\ ~rec.deleting
      BY <1>1, <1>3 DEF Ready, Copies
    <2>2. Renamed(rec)
      BY <2>1 DEF Ready, InHand
    <2> QED BY <2>1, <2>2 DEF Renamed, ReleasedName
  <1> QED BY <1>2, <1>3

\* A settled object of the name that is about to be written wants the same.
LEMMA SettledAgree ==
  ASSUME OneVoice, RuntimeOK, Protocol, NameClear, Ready, pc = "ensureProxy",
         NEW r \in Keys, Up(r), obj[r].spec.name = rec.spec.name
  PROVE  ProxyFromSpec(obj[r].spec) = ProxyFromSpec(rec.spec)
  <1>1. obj[r] # NoObject /\ obj[r].observed /\ ~obj[r].deleting
    BY DEF Up, Settled
  <1>2. key \in Keys /\ rec # NoObject /\ ~rec.deleting
    BY NoObjectAssumption DEF RuntimeOK, Protocol, WorkerKnows, ApplySteps
  <1>3. CASE r = key
    BY <1>1, <1>3 DEF Ready, Copies
  <1>4. CASE r # key
    <2>1. obj[r].spec.domain = rec.spec.domain
      BY <1>1, <1>2, <1>4 DEF NameClear, CheckedSteps
    <2>2. obj[r].spec \in SpecsOf[r] /\ rec.spec \in SpecsOf[key]
      BY <1>1, <1>2 DEF Ready, Copies, HasSpec
    <2> QED BY <1>2, <1>4, <2>1, <2>2 DEF OneVoice
  <1> QED BY <1>3, <1>4

\* A new script sends everything.
LEMMA ScriptSendsAll ==
  ASSUME NEW s \in WebAppSpec, NEW e
  PROVE  Sending(ProxyCommands(ProxyFromSpec(s)), ProxyFromSpec(s), e)
  <1> DEFINE want == ProxyFromSpec(s)
             commands == ProxyCommands(want)
  <1>1. /\ commands \in Seq({OpenContext} \union Settings(want))
        /\ \A c \in Settings(want) : \E i \in 2..Len(commands) : commands[i] = c
    BY CommandList
  <1> HIDE DEF want, commands
  <1>2. \A i \in 2..Len(commands) : i \in 1..Len(commands)
    OBVIOUS
  <1>3. \A c \in Settings(want) : Unsent(commands, c)
    BY <1>1, <1>2 DEF Unsent
  <1>4. /\ <<"domain", want.domain>> \in Settings(want)
        /\ <<"upstream", want.upstream>> \in Settings(want)
        /\ <<"level", want.level>> \in Settings(want)
        /\ \A f \in want.flags : <<"flag", f>> \in Settings(want)
        /\ want.auth => <<"auth", TRUE>> \in Settings(want)
    BY DEF Settings
  <1>5. Sending(commands, want, e)
    BY <1>3, <1>4 DEF Sending
  <1> QED BY <1>5 DEF want, commands

\* One command less to send, and one setting more.
LEMMA SendingGoesOn ==
  ASSUME NEW want \in Proxy, NEW e \in RouterEntry \union {NoEntry},
         NEW q \in Seq({OpenContext} \union Settings(want)), q # <<>>,
         Head(q) # OpenContext => e # NoEntry,
         Sending(q, want, e)
  PROVE  /\ Execute(e, Head(q)) \in RouterEntry
         /\ Sending(Tail(q), want, Execute(e, Head(q)))
         /\ Execute(e, Head(q)).auth => (e # NoEntry /\ e.auth) \/ want.auth
  <1> DEFINE c == Head(q)
             n == Execute(e, c)
  <1>1. /\ c \in {OpenContext} \union Settings(want) /\ c = q[1]
        /\ Tail(q) \in Seq({OpenContext} \union Settings(want)) /\ Len(Tail(q)) = Len(q) - 1
        /\ \A i \in 1..Len(Tail(q)) : Tail(q)[i] = q[i + 1]
    BY HeadTailProperties
  <1>2. \A d : Unsent(q, d) => c = d \/ Unsent(Tail(q), d)
    <2> SUFFICES ASSUME NEW d, NEW i \in 1..Len(q), q[i] = d PROVE c = d \/ Unsent(Tail(q), d)
      BY DEF Unsent
    <2>1. Len(q) \in Nat
      BY LenProperties
    <2>2. CASE i # 1
      <3>1. i - 1 \in 1..Len(Tail(q)) /\ i = (i - 1) + 1
        BY <1>1, <2>1, <2>2
      <3>2. Tail(q)[i - 1] = d
        BY <1>1, <3>1
      <3> QED BY <3>1, <3>2 DEF Unsent
    <2> QED BY <1>1, <2>2
  <1>3. n # NoEntry /\ n \in RouterEntry
    BY <1>1, ExecuteType, NoEntryAssumption
  <1> HIDE DEF c, n
  <1>4. Gains(want, e, c, n)
    <2>1. c # OpenContext => e # NoEntry
      BY DEF c
    <2>2. n = Execute(e, c)
      BY DEF n
    <2> QED BY <1>1, <2>1, <2>2, ExecuteAdds
  <1>5. Sending(Tail(q), want, n)
    BY <1>2, <1>3, <1>4 DEF Sending, Gains
  <1> QED BY <1>3, <1>4, <1>5 DEF c, n, Gains

LEMMA StatusReady ==
  ASSUME TypeInv, Protocol, Ready,
         \/ AddFinalizer \/ NameConflict \/ ApplyFailed \/ Applied \/ RemoveFinalizer
  PROVE  Ready'
  <1>t. RuntimeOK
    BY DEF TypeInv
  <1>1. CASE AddFinalizer \/ NameConflict \/ ApplyFailed \/ Applied
    <2>1. /\ pc \in {"addFinalizer", "nameConflict", "applyFailed", "applied"}
          /\ rec \in Object /\ UNCHANGED proxies
      BY <1>1, <1>t DEF AddFinalizer, NameConflict, ApplyFailed, Applied, RuntimeOK,
                        routerVars
    <2>2. PICK o \in Object, again \in BOOLEAN :
             /\ Update(o, again) /\ o.spec = rec.spec /\ o.deleting = rec.deleting
             /\ o.ready = "Applied" /\ o.observed =>
                   (rec.ready = "Applied" /\ rec.observed) \/ pc = "applied"
      <3> DEFINE guarded == [rec EXCEPT !.finalizer = TRUE]
                 conflict == [rec EXCEPT !.applied = FALSE, !.ready = "NameConflict"]
                 failed == [rec EXCEPT !.applied = FALSE, !.ready = "ApplyFailed"]
                 done == [rec EXCEPT !.applied = TRUE, !.appliedName = rec.spec.name,
                                     !.observed = TRUE, !.ready = "Applied"]
      <3>1. guarded \in Object /\ conflict \in Object /\ failed \in Object /\ done \in Object
        BY <2>1, WrittenObjects
      <3>2. /\ \A o \in {guarded, conflict, failed, done} :
                  o.spec = rec.spec /\ o.deleting = rec.deleting
            /\ guarded.ready = rec.ready /\ guarded.observed = rec.observed
            /\ conflict.ready = "NameConflict" /\ failed.ready = "ApplyFailed"
        BY <2>1 DEF Object
      <3>3. \/ Update(guarded, FALSE) \/ Update(conflict, TRUE) \/ Update(failed, TRUE)
            \/ pc = "applied" /\ Update(done, TRUE)
        BY <1>1 DEF AddFinalizer, NameConflict, ApplyFailed, Applied
      <3> HIDE DEF guarded, conflict, failed, done
      <3> QED BY <3>1, <3>2, <3>3
    <2>3. pc = "applied" => Holds(rec.spec)
      BY DEF Ready, InHand
    <2> QED BY <1>t, <2>1, <2>2, <2>3, UpdateReady
  <1>2. CASE RemoveFinalizer
    <2>1. pc # "idle" /\ Update(NoObject, FALSE) /\ UNCHANGED proxies
      BY <1>2 DEF RemoveFinalizer, routerVars
    <2> QED BY <1>t, <2>1, UpdateReady
  <1> QED BY <1>1, <1>2

LEMMA ReleaseReady ==
  ASSUME TypeInv, Protocol, Ready,
         CheckName \/ Release \/ NoIpHttpProxy \/ DropSave
  PROVE  Ready'
  <1>t. /\ RuntimeOK /\ proxies \in Entries
        /\ pc # "idle" => key \in Keys /\ rec \in Object
    BY DEF TypeInv, RuntimeOK, EntriesOK
  <1>1. CASE CheckName
    <2>1. /\ UNCHANGED <<obj, cache, key, rec, proxies>> /\ pc # "idle"
          /\ pc' \in {"nameConflict", "release", "ensureProxy"}
          /\ pc' = "release" => Renamed(rec)
      BY <1>1 DEF CheckName, Goto, clusterVars, routerVars
    <2>2. Truthful' /\ Plain'
      BY <2>1, TruthfulKept DEF Ready, Plain
    <2>3. InHand'
      BY <2>1 DEF InHand, Renamed
    <2> QED BY <2>1, <2>2, <2>3, MoveReady
  <1>2. CASE Release
    <2>1. /\ UNCHANGED <<obj, cache, key, rec, proxies>> /\ pc = "release"
          /\ pc' \in {"removeFinalizer", "ensureProxy", "drop"}
          /\ pc' = "drop" => Claimants(ReleasedName(rec), key) = {}
      BY <1>2 DEF Release, AfterRelease, Goto, clusterVars, routerVars
    <2>2. Truthful' /\ Plain'
      BY <2>1, TruthfulKept DEF Ready, Plain
    <2>3. pc' = "drop" => NobodyUp(ReleasedName(rec))
      BY <1>t, <2>1, ReleaseFindsNobody
    <2>4. InHand'
      BY <2>1, <2>3 DEF InHand, NobodyUp, Up, Settled, ReleasedName
    <2> QED BY <2>1, <2>2, <2>4, MoveReady
  <1>3. CASE NoIpHttpProxy
    <2> DEFINE name == ReleasedName(rec)
    <2>1. /\ UNCHANGED <<obj, cache, key, rec>> /\ pc = "drop" /\ pc' = "dropSave"
          /\ proxies' = [proxies EXCEPT ![name] = NoEntry]
      BY <1>3 DEF NoIpHttpProxy, Goto, clusterVars
    <2>2. NobodyUp(name)
      BY <2>1 DEF Ready, InHand
    <2> HIDE DEF name
    <2>3. /\ name \in Names => proxies'[name] = NoEntry
          /\ \A n \in Names : n # name => proxies'[n] = proxies[n]
      BY <1>t, <2>1 DEF Entries
    <2>4. Truthful'
      <3>1. \A k \in Keys : Up(k) => obj[k].spec.name \in Names
        BY <1>t DEF Up, RuntimeOK, Object, WebAppSpec
      <3> QED BY <2>1, <2>2, <2>3, <3>1, TruthfulKept DEF Ready, NobodyUp
    <2>5. Plain'
      <3>1. \A k \in Keys : \A s \in SpecsOf[k] : s.name \in Names
        BY SpecsAssumption DEF WebAppSpec
      <3> QED BY <2>3, <3>1 DEF Ready, Plain
    <2>6. InHand'
      BY <2>1 DEF InHand
    <2> QED BY <2>1, <2>4, <2>5, <2>6, MoveReady
  <1>4. CASE DropSave
    <2>1. /\ UNCHANGED <<obj, cache, proxies>> /\ pc # "idle"
          /\ \/ pc' = "idle"
             \/ pc' \in {"removeFinalizer", "ensureProxy"} /\ UNCHANGED <<key, rec>>
      BY <1>4 DEF DropSave, AfterRelease, Goto, Return, clusterVars
    <2>2. Truthful' /\ Plain'
      BY <2>1, TruthfulKept DEF Ready, Plain
    <2>3. InHand'
      BY <2>1 DEF InHand
    <2> QED BY <2>1, <2>2, <2>3, MoveReady
  <1> QED BY <1>1, <1>2, <1>3, <1>4

LEMMA ApplyReady ==
  ASSUME OneVoice, AuthByName, TypeInv, Protocol, NameClear, Ready,
         EnsureProxy \/ Command \/ SaveConfiguration
  PROVE  Ready'
  <1> DEFINE name == rec.spec.name
             want == ProxyFromSpec(rec.spec)
             e == proxies[name]
  <1>t. /\ RuntimeOK /\ proxies \in Entries /\ pc # "idle"
        /\ key \in Keys /\ rec \in Object /\ rec # NoObject
    BY NoObjectAssumption
       DEF TypeInv, RuntimeOK, EntriesOK, EnsureProxy, Command, SaveConfiguration
  <1>n. /\ rec.spec \in WebAppSpec /\ name \in Names /\ e \in RouterEntry \union {NoEntry}
        /\ want \in Proxy /\ rec.spec \in SpecsOf[key]
    BY <1>t, ProxyOfSpec DEF Object, WebAppSpec, Entries, Ready, Copies, HasSpec
  <1>a. want.auth = rec.spec.auth
    BY DEF ProxyFromSpec
  <1> HIDE DEF name, want, e
  <1>1. CASE EnsureProxy
    <2>1. /\ UNCHANGED <<obj, cache, key, rec, proxies>> /\ pc = "ensureProxy"
          /\ pc' \in {"applyFailed", "applied", "write"}
          /\ pc' = "applied" => e # NoEntry /\ ProxySatisfied(Listed(e), want)
          /\ pc' = "write" => script' = ProxyCommands(want)
      BY <1>1 DEF EnsureProxy, Goto, clusterVars, routerVars, want, e, name
    <2>2. Truthful' /\ Plain'
      BY <2>1, TruthfulKept DEF Ready, Plain
    <2>3. CASE pc' = "applyFailed"
      BY <2>1, <2>2, <2>3, MoveReady DEF InHand
    <2>4. CASE pc' = "applied"
      <3>1. ProxySatisfied(InForce(e), want)
        BY <1>n, <2>1, <2>4, ListedIsInForce
      <3>2. InHand'
        BY <2>1, <2>4, <3>1 DEF InHand, Holds, e, name, want
      <3> QED BY <2>1, <2>2, <3>2, MoveReady
    <2>5. CASE pc' = "write"
      <3>1. OneMind(rec.spec)
        BY <1>t, <2>1, SettledAgree DEF OneMind
      <3>2. Sending(ProxyCommands(want), want, e)
        BY <1>n, ScriptSendsAll DEF want
      <3>3. Sending(script', want, e)
        BY <2>1, <2>5, <3>2
      <3>4. InHand'
        BY <2>1, <2>5, <3>1, <3>3 DEF InHand, OneMind, Up, Settled, name, want, e
      <3> QED BY <2>1, <2>2, <3>4, MoveReady
    <2> QED BY <2>1, <2>3, <2>4, <2>5
  <1>2. CASE Command
    <2> DEFINE n == Execute(e, Head(script))
    <2>1. /\ UNCHANGED <<obj, cache, pc, key, rec>> /\ pc = "write" /\ script # <<>>
          /\ proxies' = [proxies EXCEPT ![name] = n] /\ script' = Tail(script)
      BY <1>2 DEF Command, runtimeVars, clusterVars, workerVars, name, e
    <2>2. OneMind(rec.spec) /\ Sending(script, want, e)
      BY <2>1 DEF Ready, InHand, name, want, e
    <2>3. /\ script \in Seq({OpenContext} \union Settings(want))
          /\ Head(script) # OpenContext => e # NoEntry
      <3>1. /\ script \in Seq({OpenContext} \union Settings(want))
            /\ script[1] # OpenContext => e # NoEntry
        BY <2>1 DEF TypeInv, Scripted, want, name, e
      <3>2. Head(script) = script[1]
        BY <2>1, <3>1, HeadTailProperties
      <3> QED BY <3>1, <3>2
    <2>4. /\ n \in RouterEntry /\ Sending(Tail(script), want, n)
          /\ n.auth => (e # NoEntry /\ e.auth) \/ want.auth
      BY <1>n, <2>1, <2>2, <2>3, SendingGoesOn
    <2> HIDE DEF n
    <2>5. proxies'[name] = n /\ \A m \in Names : m # name => proxies'[m] = proxies[m]
      BY <1>t, <1>n, <2>1 DEF Entries
    <2>6. Truthful'
      <3>1. \A k \in Keys : Up(k) => obj[k].spec.name \in Names
        BY <1>t DEF Up, RuntimeOK, Object, WebAppSpec
      <3>2. Head(script) \in {OpenContext} \union Settings(want)
        BY <2>1, <2>3, HeadTailProperties
      <3> SUFFICES ASSUME NEW k \in Keys, Up(k)
                   PROVE  Holds(obj[k].spec)'
        BY <2>1 DEF Truthful, Up, Settled
      <3>3. Holds(obj[k].spec)
        BY DEF Ready, Truthful
      <3>4. CASE obj[k].spec.name # name
        BY <2>1, <2>5, <3>1, <3>3, <3>4 DEF Holds
      <3>5. CASE obj[k].spec.name = name
        <4>1. ProxyFromSpec(obj[k].spec) = want
          BY <2>2, <3>5 DEF OneMind, name, want
        <4>2. e # NoEntry /\ ProxySatisfied(InForce(e), want)
          BY <3>3, <3>5, <4>1 DEF Holds, e
        <4>3. n # NoEntry /\ ProxySatisfied(InForce(n), want)
          BY <1>n, <2>1, <3>2, <4>2, StaysInForce DEF n
        <4> QED BY <2>1, <2>5, <3>5, <4>1, <4>3 DEF Holds
      <3> QED BY <3>4, <3>5
    <2>7. Plain'
      <3> SUFFICES ASSUME NEW k \in Keys, NEW s \in SpecsOf[k],
                          proxies'[s.name] # NoEntry, proxies'[s.name].auth
                   PROVE  s.auth
        BY DEF Plain
      <3>1. s.name \in Names
        BY SpecsAssumption DEF WebAppSpec
      <3>2. CASE s.name # name
        BY <2>5, <3>1, <3>2 DEF Ready, Plain
      <3>3. CASE s.name = name
        <4>1. s.auth = rec.spec.auth
          BY <1>t, <1>n, <3>3 DEF AuthByName, name
        <4>2. (e # NoEntry /\ e.auth) \/ want.auth
          BY <2>4, <2>5, <3>3
        <4>3. e # NoEntry /\ e.auth => s.auth
          BY <3>3 DEF Ready, Plain, e
        <4> QED BY <1>a, <4>1, <4>2, <4>3
      <3> QED BY <3>2, <3>3
    <2>8. Sending(script', want, proxies'[name])
      BY <2>1, <2>4, <2>5
    <2>9. InHand'
      BY <2>1, <2>2, <2>8 DEF InHand, OneMind, Up, Settled, name, want
    <2> QED BY <1>t, <2>1, <2>6, <2>7, <2>9, MoveReady
  <1>3. CASE SaveConfiguration
    <2>1. /\ UNCHANGED <<obj, cache, key, rec, proxies>> /\ pc = "write" /\ script = <<>>
          /\ pc' \in {"applyFailed", "applied"}
      BY <1>3 DEF SaveConfiguration, Goto, clusterVars
    <2>2. e # NoEntry
      BY <2>1 DEF TypeInv, Scripted, e, name
    <2>3. Sending(<<>>, want, e)
      BY <2>1 DEF Ready, InHand, want, name, e
    <2>4. e.auth => want.auth
      BY <1>t, <1>n, <1>a, <2>2 DEF Ready, Plain, e, name
    <2>5. Holds(rec.spec)
      <3>1. e # NoEntry /\ ProxySatisfied(InForce(e), want)
        BY <1>n, <2>2, <2>3, <2>4, SentIsSatisfied
      <3> QED BY <3>1 DEF Holds, e, name, want
    <2>6. Truthful' /\ Plain'
      BY <2>1, TruthfulKept DEF Ready, Plain
    <2>7. InHand'
      BY <2>1, <2>5 DEF InHand, Holds
    <2> QED BY <2>1, <2>6, <2>7, MoveReady
  <1> QED BY <1>1, <1>2, <1>3

LEMMA DisturbancesReady ==
  ASSUME Undisturbed, TypeInv, Ready,
         \/ SessionLost \/ Crash \/ RouterReboot \/ RouterRefuses
         \/ AdminRemove \/ OtherSave
  PROVE  Ready'
  <1>1. ~Drift
    BY BoundsAssumption DEF Drift, Undisturbed, TypeInv, EntriesOK
  <1>2. CASE SessionLost
    <2>1. /\ pc' \in {"idle", "applyFailed"} /\ UNCHANGED <<obj, cache, proxies>>
          /\ pc' = "idle" \/ UNCHANGED <<key, rec>>
          /\ pc # "idle"
      BY <1>2, StepsFacts DEF SessionLost, SessionError, Return, clusterVars
    <2>2. Truthful' /\ Plain'
      BY <2>1, TruthfulKept DEF Ready, Plain
    <2>3. InHand'
      BY <2>1 DEF InHand
    <2> QED BY <2>1, <2>2, <2>3, MoveReady
  <1>3. CASE Crash
    <2>1. pc' = "idle" /\ cache' = obj /\ UNCHANGED <<obj, proxies>>
      BY <1>3 DEF Crash, Restart, routerVars
    <2>2. Truthful' /\ Plain'
      BY <2>1, TruthfulKept DEF Ready, Plain
    <2>3. Copies' /\ InHand'
      BY <2>1 DEF Ready, Copies, HasSpec, InHand
    <2> QED BY <2>2, <2>3 DEF Ready
  <1>4. CASE OtherSave
    <2>1. UNCHANGED <<obj, cache, pc, key, rec, proxies>> /\ pc # "write"
      BY <1>4 DEF OtherSave, runtimeVars, clusterVars, workerVars
    <2>2. Truthful' /\ Plain'
      BY <2>1, TruthfulKept DEF Ready, Plain
    <2>3. Copies' /\ InHand'
      BY <2>1 DEF Ready, Copies, HasSpec, InHand, NobodyUp, OneMind, Up, Settled, Holds, Renamed,
                  ReleasedName
    <2> QED BY <2>2, <2>3 DEF Ready
  <1> QED BY <1>1, <1>2, <1>3, <1>4 DEF RouterReboot, RouterRefuses, AdminRemove

LEMMA EventsReady ==
  ASSUME TypeInv, Protocol, Ready, NEW r \in Keys,
         \/ Reconcile(r) \/ Watch(r) \/ Timer(r)
         \/ UserCreate(r) \/ UserEdit(r) \/ UserDelete(r)
  PROVE  Ready'
  <1>t. RuntimeOK
    BY DEF TypeInv
  <1>1. CASE Reconcile(r)
    <2> DEFINE step == FirstStep(cache[r])
    <2>1. /\ UNCHANGED <<obj, cache, proxies>> /\ pc' = step
          /\ step # "idle" => key' = r /\ rec' = cache[r]
      BY <1>1, <1>t, TakeType DEF Reconcile, Take, clusterVars, routerVars
    <2>2. /\ step \in {"idle", "release", "checkName", "addFinalizer"}
          /\ step = "release" => cache[r].deleting
      BY <1>t, FirstStepType DEF RuntimeOK
    <2> HIDE DEF step
    <2>3. Truthful' /\ Plain'
      BY <2>1, TruthfulKept DEF Ready, Plain
    <2>4. InHand'
      BY <2>1, <2>2 DEF InHand
    <2>5. Copies'
      BY <2>1 DEF Ready, Copies, HasSpec, Protocol, ObservedCached
    <2> QED BY <2>3, <2>4, <2>5 DEF Ready
  <1>2. CASE Watch(r) \/ Timer(r)
    <2>1. /\ UNCHANGED <<obj, proxies, pc, key, rec, script>>
          /\ cache' = [cache EXCEPT ![r] = obj[r]] \/ UNCHANGED cache
      BY <1>2 DEF Watch, Timer, CacheSync, Requeue, clusterVars, workerVars, routerVars,
                  sessionVars
    <2>2. \A k \in Keys : cache'[k] \in {cache[k], obj[k]}
      BY <1>t, <2>1 DEF RuntimeOK
    <2>3. Truthful' /\ Plain'
      BY <2>1, TruthfulKept DEF Ready, Plain
    <2>4. InHand'
      BY <2>1 DEF Ready, InHand, NobodyUp, OneMind, Up, Settled, Holds, Renamed, ReleasedName
    <2>5. Copies'
      BY <2>1, <2>2 DEF Ready, Copies, HasSpec
    <2> QED BY <2>3, <2>4, <2>5 DEF Ready
  <1>3. CASE UserCreate(r) \/ UserEdit(r) \/ UserDelete(r)
    <2>1. DeletedWaits /\ HasSpec(obj[r], r)
      BY DEF Protocol, Ready, Copies
    <2>2. PICK o \in Object \union {NoObject} :
             /\ UserWrite(r, o) /\ HasSpec(o, r)
             /\ o # NoObject /\ o.observed => /\ obj[r] # NoObject /\ obj[r].observed
                                              /\ o.spec = obj[r].spec /\ o.deleting
      BY <1>3, <1>t, <2>1, UserWrites DEF HasSpec
    <2>3. /\ obj'[r] = o /\ \A k \in Keys \ {r} : obj'[k] = obj[k]
          /\ UNCHANGED <<cache, pc, key, rec>>
      BY <1>t, <2>2 DEF UserWrite, Store, RuntimeOK
    <2>4. UNCHANGED <<proxies, script>>
      BY <1>3 DEF UserCreate, UserEdit, UserDelete, UserOp, routerVars, sessionVars
    <2>5. \A k \in Keys : Up(k)' => Up(k) /\ obj'[k] = obj[k]
      BY <2>2, <2>3 DEF Up, Settled
    <2>6. Truthful' /\ Plain'
      BY <2>4, <2>5 DEF Ready, Truthful, Holds, Plain
    <2>7. InHand'
      BY <2>3, <2>4, <2>5 DEF Ready, InHand, NobodyUp, OneMind, Holds, Renamed, ReleasedName
    <2>8. Copies'
      BY <1>t, <2>2, <2>3 DEF Ready, Copies, HasSpec, RuntimeOK
    <2> QED BY <2>6, <2>7, <2>8 DEF Ready
  <1> QED BY <1>1, <1>2, <1>3

LEMMA ReadyInductive ==
  ASSUME Premise
  PROVE  /\ Init => Ready
         /\ TypeInv /\ Protocol /\ NameClear /\ Ready /\ [Next]_vars => Ready'
  <1>1. Init => Ready
    <2> SUFFICES ASSUME Init PROVE Ready
      OBVIOUS
    <2>1. /\ obj = [k \in Keys |-> NoObject] /\ cache = obj /\ pc = "idle"
          /\ proxies = [n \in Names |-> NoEntry]
      BY DEF Init, RuntimeInit
    <2>2. \A k \in Keys : \A s \in SpecsOf[k] : s.name \in Names
      BY SpecsAssumption DEF WebAppSpec
    <2> QED BY <2>1, <2>2 DEF Ready, Truthful, Copies, InHand, HasSpec, Up, Plain
  <1>2. ASSUME TypeInv, Protocol, NameClear, Ready, [Next]_vars PROVE Ready'
    <2>1. CASE \E r \in Keys : \/ Reconcile(r) \/ Watch(r) \/ Timer(r)
                               \/ UserCreate(r) \/ UserEdit(r) \/ UserDelete(r)
      BY <1>2, <2>1, EventsReady
    <2>2. CASE Worker
      BY <1>2, <2>2, StatusReady, ReleaseReady, ApplyReady DEF Worker, Premise
    <2>3. CASE SessionLost \/ Crash \/ RouterReboot \/ RouterRefuses
                 \/ AdminRemove \/ OtherSave
      BY <1>2, <2>3, DisturbancesReady DEF Premise
    <2>4. CASE UNCHANGED vars
      <3>1. UNCHANGED <<obj, cache, pc, key, rec, proxies, script>>
        BY <2>4 DEF vars, runtimeVars, clusterVars, workerVars, routerVars, sessionVars
      <3>2. Truthful' /\ Plain'
        BY <1>2, <3>1, TruthfulKept DEF Ready, Plain
      <3>3. Copies' /\ InHand'
        BY <1>2, <3>1 DEF Ready, Copies, HasSpec, InHand, NobodyUp, OneMind, Up, Settled, Holds,
                          Renamed, ReleasedName
      <3> QED BY <3>2, <3>3 DEF Ready
    <2> QED BY <1>2, <2>1, <2>2, <2>3, <2>4 DEF Next
  <1> QED BY <1>1, <1>2

(***************************************************************************)
(* Ready=Applied with observedGeneration current tells the truth about the *)
(* entry, also of objects that share it with co-owners in other namespaces *)
(* or fight over its name with rivals, through renames, deletions, lost    *)
(* sessions and restarts: the entry is there and satisfies the spec.       *)
(***************************************************************************)
THEOREM AppliedIsTrue ==
  ASSUME Premise
  PROVE  Spec => []ReadyIsTrue
  <1>1. Ready => ReadyIsTrue
    BY DEF Ready, Truthful, ReadyIsTrue, Up, Exists, Holds, Published
  <1> QED BY <1>1, TypeInit, TypeNext, ProtocolInductive, NameClearInductive,
             ReadyInductive, PTL DEF Spec

=============================================================================
