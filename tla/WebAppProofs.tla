---------------------------- MODULE WebAppProofs ----------------------------
(***************************************************************************)
(* Theorems of WebApp, for any objects, names, domains, firmware and       *)
(* bounds.                                                                 *)
(***************************************************************************)
EXTENDS WebApp, FiniteSetTheorems, SequenceTheorems, TLAPS

-----------------------------------------------------------------------------
(***************************************************************************)
(* The commands that write an entry.  `ip http proxy` comes first, and     *)
(* once: it opens the context in which the others run.                     *)
(***************************************************************************)
OpenContext == <<"proxy", TRUE>>

Settings(p) ==
    {<<"domain", p.domain>>, <<"upstream", p.upstream>>, <<"level", p.level>>}
    \union {<<"flag", f>> : f \in p.flags}
    \union (IF p.auth THEN {<<"auth", TRUE>>} ELSE {})

LEMMA SetToSeqOfFinite ==
  ASSUME NEW S, IsFiniteSet(S)
  PROVE  /\ SetToSeq(S) \in [1..Cardinality(S) -> S]
         /\ Cardinality(S) \in Nat
         /\ \A x \in S : \E i \in 1..Cardinality(S) : SetToSeq(S)[i] = x
  <1> DEFINE N == 1..Cardinality(S)
  <1>1. Cardinality(S) \in Nat /\ ExistsBijection(N, S)
    BY FS_CardinalityType
  <1>2. \E f \in [N -> S] : IsInjective(f)
    BY <1>1 DEF ExistsBijection, Bijection, Injection
  <1>3. SetToSeq(S) \in [N -> S] /\ IsInjective(SetToSeq(S))
    BY <1>2 DEF SetToSeq
  <1>4. SetToSeq(S) \in Injection(N, S)
    BY <1>3 DEF Injection
  <1>5. IsFiniteSet(N) /\ Cardinality(N) = Cardinality(S)
    BY <1>1, FS_Interval
  <1>6. SetToSeq(S) \in Surjection(N, S)
    BY <1>4, <1>5, FS_Injection
  <1> QED BY <1>1, <1>3, <1>6 DEF Surjection

LEMMA CommandList ==
  ASSUME NEW s \in WebAppSpec
  PROVE  LET want == ProxyFromSpec(s)
             commands == ProxyCommands(want)
         IN /\ commands \in Seq({OpenContext} \union Settings(want))
            /\ commands # <<>> /\ commands[1] = OpenContext
            /\ \A i \in 2..Len(commands) : commands[i] \in Settings(want)
            /\ \A c \in Settings(want) : \E i \in 2..Len(commands) : commands[i] = c
  <1> DEFINE want == ProxyFromSpec(s)
             All == {OpenContext} \union Settings(want)
             first == << <<"proxy", TRUE>>, <<"domain", want.domain>>,
                         <<"upstream", want.upstream>>, <<"level", want.level>> >>
             list == SetToSeq(want.flags)
             flags == [i \in DOMAIN list |-> <<"flag", list[i]>>]
             auth == IF want.auth THEN << <<"auth", TRUE>> >> ELSE <<>>
             n == Cardinality(want.flags)
  <1>1. IsFiniteSet(want.flags)
    BY FlagsAssumption DEF ProxyFromSpec
  <1>2. /\ list \in [1..n -> want.flags] /\ n \in Nat
        /\ \A f \in want.flags : \E i \in 1..n : list[i] = f
    BY <1>1, SetToSeqOfFinite
  <1>3. first \in Seq(All) /\ Len(first) = 4
    BY DEF OpenContext, Settings
  <1>4. /\ flags \in Seq(All) /\ Len(flags) = n
        /\ \A i \in 1..n : flags[i] = <<"flag", list[i]>>
    <2> HIDE DEF list, want
    <2>1. DOMAIN list = 1..n /\ \A i \in 1..n : list[i] \in want.flags
      BY <1>2
    <2>2. \A i \in 1..n : <<"flag", list[i]>> \in All
      BY <2>1 DEF Settings
    <2>3. flags = [i \in 1..n |-> <<"flag", list[i]>>]
      BY <2>1
    <2>4. flags \in [1..n -> All]
      BY <2>2, <2>3
    <2> HIDE DEF flags, n
    <2>5. flags \in Seq(All) /\ Len(flags) = n
      BY <1>2, <2>4
    <2> QED BY <2>3, <2>5 
  <1>5. auth \in Seq(All) /\ Len(auth) = IF want.auth THEN 1 ELSE 0
    <2>1. CASE want.auth
      <3>1. auth = << <<"auth", TRUE>> >> /\ <<"auth", TRUE>> \in All
        BY <2>1 DEF Settings
      <3> HIDE DEF All, want
      <3> QED BY <2>1, <3>1
    <2>2. CASE ~want.auth
      BY <2>2
    <2> QED BY <2>1, <2>2
  <1>6. want.auth => auth[1] = <<"auth", TRUE>>
    OBVIOUS
  <1>7. /\ first[1] = OpenContext /\ first[2] = <<"domain", want.domain>>
        /\ first[3] = <<"upstream", want.upstream>> /\ first[4] = <<"level", want.level>>
    BY DEF OpenContext
  <1>8. want.auth \in BOOLEAN
    BY DEF WebAppSpec, ProxyFromSpec
  <1>9. ProxyCommands(want) = (first \o flags) \o auth
    BY DEF ProxyCommands
  <1>a. \A c \in Settings(want) :
            \/ c \in {first[2], first[3], first[4]}
            \/ \E i \in 1..n : c = flags[i]
            \/ want.auth /\ c = auth[1]
    <2> HIDE DEF flags, auth, n, list, first
    <2> SUFFICES ASSUME NEW c \in Settings(want)
                 PROVE  \/ c \in {first[2], first[3], first[4]}
                        \/ \E i \in 1..n : c = flags[i]
                        \/ want.auth /\ c = auth[1]
      OBVIOUS
    <2>1. ASSUME NEW f \in want.flags, c = <<"flag", f>> PROVE \E i \in 1..n : c = flags[i]
      BY <2>1, <1>2, <1>4
    <2> HIDE DEF want
    <2> QED BY <2>1, <1>6, <1>7, <1>8 DEF Settings
  <1>b. /\ {first[2], first[3], first[4]} \subseteq Settings(want)
        /\ \A i \in 1..n : flags[i] \in Settings(want)
        /\ want.auth => auth[1] \in Settings(want)
    <2>1. {first[2], first[3], first[4]} \subseteq Settings(want)
      BY <1>7 DEF Settings
    <2>2. \A i \in 1..n : flags[i] \in Settings(want)
      <3> HIDE DEF flags, list, n, want
      <3> QED BY <1>2, <1>4 DEF Settings
    <2>3. want.auth => auth[1] \in Settings(want)
      BY <1>6 DEF Settings
    <2> QED BY <2>1, <2>2, <2>3
  <1> DEFINE commands == ProxyCommands(want)
  <1> HIDE DEF want, All, first, list, flags, auth, n
  <1> DEFINE open == first \o flags
             k == IF want.auth THEN 1 ELSE 0
  <1>c. /\ open \in Seq(All) /\ Len(open) = 4 + n
        /\ \A i \in 1..4 : open[i] = first[i]
        /\ \A i \in 1..n : open[4 + i] = flags[i]
    <2>1. /\ open \in Seq(All) /\ Len(open) = Len(first) + Len(flags)
          /\ \A i \in 1..Len(first) + Len(flags) :
                open[i] = IF i <= Len(first) THEN first[i] ELSE flags[i - Len(first)]
      BY <1>3, <1>4, ConcatProperties, Zenon
    <2> HIDE DEF open
    <2> QED BY <1>2, <1>3, <1>4, <2>1
  <1> HIDE DEF open
  <1>k. k \in {0, 1} /\ (want.auth <=> k = 1) /\ Len(auth) = k
    BY <1>5, <1>8
  <1> HIDE DEF k
  <1>d. /\ commands \in Seq(All) /\ Len(commands) = 4 + n + k
        /\ \A i \in 1..4 + n : commands[i] = open[i]
        /\ want.auth => commands[5 + n] = auth[1]
    <2>1. /\ open \o auth \in Seq(All) /\ Len(open \o auth) = Len(open) + Len(auth)
          /\ \A i \in 1..Len(open) + Len(auth) :
                (open \o auth)[i] = IF i <= Len(open) THEN open[i]
                                    ELSE auth[i - Len(open)]
      BY <1>5, <1>c, ConcatProperties, Zenon
    <2>2. commands = open \o auth
      BY <1>9 DEF open
    <2> HIDE DEF commands
    <2>3. /\ commands \in Seq(All) /\ Len(commands) = Len(open) + Len(auth)
          /\ \A i \in 1..Len(open) + Len(auth) :
                commands[i] = IF i <= Len(open) THEN open[i] ELSE auth[i - Len(open)]
      BY <2>1, <2>2
    <2> QED BY <1>2, <1>c, <1>k, <2>3
  <1>e. /\ \A i \in 1..4 : commands[i] = first[i]
        /\ \A i \in 1..n : commands[4 + i] = flags[i]
    <2> HIDE DEF commands
    <2>1. \A i \in 1..4 : i \in 1..4 + n
      BY <1>2
    <2>2. \A i \in 1..n : 4 + i \in 1..4 + n
      BY <1>2
    <2> QED BY <1>c, <1>d, <2>1, <2>2
  <1> HIDE DEF commands
  <1>f. \A i \in 2..Len(commands) : commands[i] \in Settings(want)
    <2> SUFFICES ASSUME NEW i \in 2..Len(commands) PROVE commands[i] \in Settings(want)
      OBVIOUS
    <2>1. CASE i \in 2..4
      <3>1. i \in {2, 3, 4} /\ commands[i] = first[i]
        BY <2>1, <1>e
      <3> QED BY <3>1, <1>b
    <2>2. CASE i \in 5..4 + n
      <3>1. i - 4 \in 1..n /\ i = 4 + (i - 4)
        BY <2>2, <1>2
      <3>2. commands[i] = flags[i - 4]
        BY <3>1, <1>e
      <3> QED BY <3>1, <3>2, <1>b
    <2>3. CASE i = 5 + n
      <3>1. want.auth
        BY <2>3, <1>2, <1>d, <1>k
      <3> QED BY <2>3, <3>1, <1>b, <1>d
    <2> QED BY <2>1, <2>2, <2>3, <1>2, <1>d, <1>k
  <1>g. \A c \in Settings(want) : \E i \in 2..Len(commands) : commands[i] = c
    <2> SUFFICES ASSUME NEW c \in Settings(want)
                 PROVE  \E i \in 2..Len(commands) : commands[i] = c
      OBVIOUS
    <2>0. Len(commands) >= 4 + n /\ Len(commands) \in Nat
      BY <1>2, <1>d, <1>k
    <2>1. CASE c \in {first[2], first[3], first[4]}
      BY <2>0, <2>1, <1>2, <1>e
    <2>2. CASE \E i \in 1..n : c = flags[i]
      <3>1. PICK i \in 1..n : c = flags[i]
        BY <2>2
      <3>2. 4 + i \in 2..Len(commands) /\ commands[4 + i] = c
        BY <2>0, <3>1, <1>2, <1>e
      <3> QED BY <3>2
    <2>3. CASE want.auth /\ c = auth[1]
      <3>1. 5 + n \in 2..Len(commands) /\ commands[5 + n] = c
        BY <2>3, <1>2, <1>d, <1>k
      <3> QED BY <3>1
    <2> QED BY <2>1, <2>2, <2>3, <1>a
  <1>h. commands # <<>> /\ commands[1] = OpenContext
    BY <1>2, <1>7, <1>d, <1>e, <1>k
  <1> QED BY <1>d, <1>f, <1>g, <1>h DEF commands, want, All

LEMMA ProxyOfSpec ==
  ASSUME NEW s \in WebAppSpec
  PROVE  ProxyFromSpec(s) \in Proxy /\ ProxyFromSpec(s).flags = Flags
  BY ZonesAssumption DEF WebAppSpec, ProxyFromSpec, Proxy, Levels

\* The context is opened on whatever is there; a setting needs an entry.
LEMMA ExecuteType ==
  ASSUME NEW want \in Proxy, NEW e \in RouterEntry \union {NoEntry},
         NEW c \in {OpenContext} \union Settings(want), c # OpenContext => e # NoEntry
  PROVE  Execute(e, c) \in RouterEntry
  <1>1. CASE c = OpenContext
    BY <1>1 DEF Execute, OpenContext, Blank, RouterEntry
  <1>2. CASE c \in Settings(want) /\ c # OpenContext
    <2>0. e \in RouterEntry
      BY <1>2
    <2>1. CASE c = <<"domain", want.domain>>
      <3>1. Execute(e, c) = [e EXCEPT !.domain = want.domain]
        BY <2>1 DEF Execute
      <3> QED BY <2>0, <3>1 DEF RouterEntry, Proxy
    <2>2. CASE c = <<"upstream", want.upstream>>
      <3>1. Execute(e, c) = [e EXCEPT !.upstream = want.upstream]
        BY <2>2 DEF Execute
      <3> QED BY <2>0, <3>1 DEF RouterEntry, Proxy
    <2>3. CASE c = <<"level", want.level>>
      <3>1. Execute(e, c) = [e EXCEPT !.level = want.level]
        BY <2>3 DEF Execute
      <3> QED BY <2>0, <3>1 DEF RouterEntry, Proxy
    <2>4. CASE \E f \in want.flags : c = <<"flag", f>>
      <3>1. PICK f \in want.flags : c = <<"flag", f>>
        BY <2>4
      <3>2. Execute(e, c) = [e EXCEPT !.flags = e.flags \union {f}]
        BY <2>0, <3>1 DEF Execute, RouterEntry
      <3> QED BY <2>0, <3>2 DEF RouterEntry, Proxy
    <2>5. CASE c = <<"auth", TRUE>>
      <3>1. Execute(e, c) = [e EXCEPT !.auth = TRUE]
        BY <2>5 DEF Execute
      <3> QED BY <2>0, <3>1 DEF RouterEntry, Proxy
    <2> QED BY <1>2, <2>1, <2>2, <2>3, <2>4, <2>5 DEF Settings
  <1> QED BY <1>1, <1>2

\* Sending a command that is not the opening one leaves none but such.
LEMMA SendOne ==
  ASSUME NEW A, NEW s \in Seq(A), s # <<>>,
         \A i \in 2..Len(s) : s[i] # OpenContext
  PROVE  /\ Head(s) \in A /\ Head(s) = s[1]
         /\ Tail(s) \in Seq(A)
         /\ \A i \in 1..Len(Tail(s)) : Tail(s)[i] # OpenContext
  <1>1. /\ Head(s) \in A /\ Tail(s) \in Seq(A) /\ Len(Tail(s)) = Len(s) - 1
        /\ \A i \in 1..Len(Tail(s)) : Tail(s)[i] = s[i + 1]
    BY HeadTailProperties
  <1>2. Len(s) \in Nat /\ \A i \in 1..Len(Tail(s)) : i + 1 \in 2..Len(s)
    BY <1>1, LenProperties
  <1> QED BY <1>1, <1>2

-----------------------------------------------------------------------------
(***************************************************************************)
(* Type correctness.  A command is typed only on an entry, and the entry   *)
(* stays while its context is open: that the unsent commands are those of  *)
(* the worker's object, behind the one that opens the context, is part of  *)
(* the induction.                                                          *)
(***************************************************************************)
Entries == [Names -> RouterEntry \union {NoEntry}]

RuntimeOK ==
    /\ obj \in [Keys -> Object \union {NoObject}]
    /\ cache \in [Keys -> Object \union {NoObject}]
    /\ lagging \in SUBSET Keys /\ queue \in SUBSET Keys /\ delayed \in SUBSET Keys
    /\ pc \in Steps /\ fresh \in BOOLEAN /\ faults \in 0..MaxFaults
    /\ IF pc = "idle" THEN key = NoKey /\ rec = NoObject /\ ~fresh
                      ELSE key \in Keys /\ rec \in Object

EntriesOK ==
    /\ proxies \in Entries /\ startup \in Entries
    /\ (script # <<>> => pc = "write") /\ refused \in BOOLEAN
    /\ (refused => pc \in {"write", "dropSave"})
    /\ ops \in 0..MaxUserOps /\ drift \in 0..MaxDrift

Scripted ==
    pc = "write" =>
        /\ script \in Seq({OpenContext} \union Settings(ProxyFromSpec(rec.spec)))
        /\ \A i \in 2..Len(script) : script[i] # OpenContext
        /\ script = <<>> \/ script[1] # OpenContext => proxies[rec.spec.name] # NoEntry

TypeInv == RuntimeOK /\ EntriesOK /\ Scripted

LEMMA StepsFacts == "idle" \in Steps /\ SessionSteps \subseteq Steps \ {"idle"}
  BY DEF Steps, SessionSteps

LEMMA ReturnType ==
  ASSUME NEW again \in BOOLEAN, RuntimeOK, pc # "idle", Return(again)
  PROVE  /\ queue' \in SUBSET Keys /\ delayed' \in SUBSET Keys
         /\ pc' = "idle" /\ key' = NoKey /\ rec' = NoObject /\ fresh' = FALSE
  BY DEF Return, RuntimeOK

LEMMA StoreType ==
  ASSUME NEW k \in Keys, NEW o \in Object \union {NoObject}, RuntimeOK, Store(k, o)
  PROVE  /\ obj' \in [Keys -> Object \union {NoObject}]
         /\ cache' \in [Keys -> Object \union {NoObject}]
         /\ lagging' \in SUBSET Keys
  BY DEF Store, RuntimeOK

LEMMA UpdateType ==
  ASSUME NEW o \in Object \union {NoObject}, NEW again \in BOOLEAN,
         RuntimeOK, pc # "idle", Update(o, again)
  PROVE  RuntimeOK' /\ pc' = "idle"
  <1>1. key \in Keys
    BY DEF RuntimeOK
  <1>2. Return(again) \/ Return(TRUE)
    BY DEF Update
  <1>3. /\ queue' \in SUBSET Keys /\ delayed' \in SUBSET Keys
        /\ pc' = "idle" /\ key' = NoKey /\ rec' = NoObject /\ fresh' = FALSE
    BY <1>2, ReturnType
  <1>4. Store(key, o) \/ UNCHANGED clusterVars
    BY DEF Update
  <1>5. /\ obj' \in [Keys -> Object \union {NoObject}]
        /\ cache' \in [Keys -> Object \union {NoObject}]
        /\ lagging' \in SUBSET Keys
    <2>1. CASE Store(key, o)
      BY <2>1, <1>1, StoreType
    <2>2. CASE UNCHANGED clusterVars
      BY <2>2 DEF clusterVars, RuntimeOK
    <2> QED BY <1>4, <2>1, <2>2
  <1>6. faults' \in 0..MaxFaults
    <2>1. faults \in 0..MaxFaults
      BY DEF RuntimeOK
    <2>2. faults' = faults \/ Fault
      BY DEF Update
    <2> QED BY <2>1, <2>2, MaxFaultsAssumption DEF Fault
  <1> QED BY <1>3, <1>5, <1>6, StepsFacts DEF RuntimeOK

LEMMA GotoType ==
  ASSUME NEW step \in Steps \ {"idle"}, RuntimeOK, pc # "idle", Goto(step)
  PROVE  RuntimeOK' /\ pc' = step
  BY DEF Goto, RuntimeOK, clusterVars, queueVars

LEMMA UserWriteType ==
  ASSUME NEW k \in Keys, NEW o \in Object \union {NoObject},
         RuntimeOK, UserWrite(k, o)
  PROVE  RuntimeOK' /\ UNCHANGED <<pc, rec>>
  <1>1. /\ obj' \in [Keys -> Object \union {NoObject}]
        /\ cache' \in [Keys -> Object \union {NoObject}]
        /\ lagging' \in SUBSET Keys
    BY StoreType DEF UserWrite
  <1> QED BY <1>1 DEF UserWrite, RuntimeOK, queueVars

LEMMA FirstStepType ==
  ASSUME NEW o \in Object \union {NoObject}
  PROVE  /\ FirstStep(o) \in {"idle", "release", "checkName", "addFinalizer"}
         /\ FirstStep(o) # "idle" => o \in Object
         /\ FirstStep(o) = "release" => o.deleting /\ o.finalizer
         /\ FirstStep(o) = "checkName" => ~o.deleting /\ o.finalizer
         /\ FirstStep(o) = "addFinalizer" => ~o.deleting /\ ~o.finalizer
         /\ FirstStep(o) = "idle" => o = NoObject \/ (o.deleting /\ ~o.finalizer)
  <1>1. CASE o = NoObject
    BY <1>1 DEF FirstStep
  <1>2. CASE o # NoObject
    <2>1. o \in Object
      BY <1>2
    <2>2. o.deleting \in BOOLEAN /\ o.finalizer \in BOOLEAN
      BY <2>1 DEF Object
    <2>3. FirstStep(o) = IF o.deleting THEN IF o.finalizer THEN "release" ELSE "idle"
                         ELSE IF o.finalizer THEN "checkName" ELSE "addFinalizer"
      BY <1>2, <2>2 DEF FirstStep
    <2> QED BY <2>1, <2>2, <2>3
  <1> QED BY <1>1, <1>2

LEMMA TakeType ==
  ASSUME NEW r \in Keys, RuntimeOK, Take(r, FirstStep(cache[r]))
  PROVE  RuntimeOK' /\ pc = "idle" /\ pc' = FirstStep(cache[r])
  <1> DEFINE step == FirstStep(cache[r])
  <1>1. cache[r] \in Object \union {NoObject}
    BY DEF RuntimeOK
  <1>2. step \in Steps /\ (step # "idle" => cache[r] \in Object)
    BY <1>1, FirstStepType DEF Steps
  <1>3. /\ pc = "idle" /\ UNCHANGED <<obj, cache, lagging, delayed, faults>>
        /\ queue' = queue \ {r}
        /\ IF step = "idle" THEN UNCHANGED <<pc, key, rec, fresh>>
           ELSE pc' = step /\ key' = r /\ rec' = cache[r] /\ fresh' = (r \notin lagging)
    BY DEF Take, clusterVars, workerVars
  <1> HIDE DEF step
  <1>4. RuntimeOK' /\ pc' = step
    BY <1>2, <1>3 DEF RuntimeOK
  <1> QED BY <1>3, <1>4 DEF step

LEMMA SessionErrorType ==
  ASSUME RuntimeOK, pc \in SessionSteps, SessionError, faults' \in 0..MaxFaults
  PROVE  RuntimeOK' /\ pc' \in {"idle", "applyFailed"} /\ script' = <<>> /\ refused' = FALSE
  <1>1. pc # "idle"
    BY StepsFacts
  <1>2. CASE pc \in {"ensureProxy", "write"}
    BY <1>2, <1>1 DEF SessionError, RuntimeOK, Steps, clusterVars, queueVars
  <1>3. CASE pc \notin {"ensureProxy", "write"}
    <2>1. Return(TRUE)
      BY <1>3 DEF SessionError
    <2>2. /\ queue' \in SUBSET Keys /\ delayed' \in SUBSET Keys
          /\ pc' = "idle" /\ key' = NoKey /\ rec' = NoObject /\ fresh' = FALSE
      BY <2>1, <1>1, ReturnType
    <2> QED BY <2>2, StepsFacts DEF SessionError, RuntimeOK, clusterVars
  <1> QED BY <1>2, <1>3

\* The objects the worker and the users write.
LEMMA WrittenObjects ==
  /\ \A o \in Object : /\ [o EXCEPT !.finalizer = TRUE] \in Object
                       /\ [o EXCEPT !.deleting = TRUE] \in Object
                       /\ [o EXCEPT !.applied = FALSE, !.ready = "NameConflict"] \in Object
                       /\ [o EXCEPT !.applied = FALSE, !.ready = "ApplyFailed"] \in Object
                       /\ [o EXCEPT !.applied = TRUE, !.appliedName = o.spec.name,
                                    !.observed = TRUE, !.ready = "Applied"] \in Object
                       /\ \A s \in WebAppSpec :
                             [o EXCEPT !.spec = s, !.observed = FALSE] \in Object
  /\ \A s \in WebAppSpec : NewObject(s) \in Object
  <1>1. \A o \in Object : o.spec.name \in Names
    BY DEF Object, WebAppSpec
  <1> QED BY <1>1 DEF Object, NewObject, Reasons

\* Steps outside a session leave the entries alone.
LEMMA EntriesKept ==
  ASSUME TypeInv, UNCHANGED <<routerVars, sessionVars, ops, drift>>,
         \/ UNCHANGED <<pc, rec>>
         \/ pc \notin {"write", "dropSave"} /\ pc' # "write"
  PROVE  EntriesOK' /\ Scripted'
  BY DEF TypeInv, EntriesOK, Scripted, Entries, routerVars, sessionVars

\* Reconciles that end in a write.
LEMMA StatusWrites ==
  ASSUME TypeInv, AddFinalizer \/ NameConflict \/ ApplyFailed \/ Applied \/ RemoveFinalizer
  PROVE  TypeInv'
  <1>1. /\ pc \in {"addFinalizer", "nameConflict", "applyFailed", "applied",
                   "removeFinalizer"}
        /\ UNCHANGED <<routerVars, sessionVars, ops, drift>>
    BY DEF AddFinalizer, NameConflict, ApplyFailed, Applied, RemoveFinalizer
  <1>2. RuntimeOK /\ rec \in Object
    BY <1>1 DEF TypeInv, RuntimeOK
  <1>3. PICK o \in Object \union {NoObject}, again \in BOOLEAN : Update(o, again)
    BY <1>2, WrittenObjects
       DEF AddFinalizer, NameConflict, ApplyFailed, Applied, RemoveFinalizer
  <1>4. RuntimeOK' /\ pc' = "idle"
    BY <1>1, <1>2, <1>3, UpdateType
  <1>5. EntriesOK' /\ Scripted'
    BY <1>1, <1>4, EntriesKept
  <1> QED BY <1>4, <1>5 DEF TypeInv

\* Reconciles in progress, and the commands of their sessions.
LEMMA CommandType ==
  ASSUME TypeInv, Command
  PROVE  TypeInv'
  <1> DEFINE want == ProxyFromSpec(rec.spec)
             name == rec.spec.name
  <1>1. pc = "write" /\ rec \in Object
    BY DEF Command, TypeInv, RuntimeOK
  <1>2. rec.spec \in WebAppSpec /\ name \in Names /\ want \in Proxy
    BY <1>1, ProxyOfSpec DEF Object, WebAppSpec
  <1>3. /\ proxies' = [proxies EXCEPT ![name] = Execute(proxies[name], Head(script))]
        /\ script # <<>> /\ script' = Tail(script)
        /\ UNCHANGED <<runtimeVars, startup, refused, ops, drift>>
    BY DEF Command
  <1>4. /\ script \in Seq({OpenContext} \union Settings(want))
        /\ \A i \in 2..Len(script) : script[i] # OpenContext
        /\ script[1] # OpenContext => proxies[name] # NoEntry
    BY <1>1 DEF TypeInv, Scripted
  <1> HIDE DEF want, name
  <1>5. /\ Head(script) \in {OpenContext} \union Settings(want) /\ Head(script) = script[1]
        /\ Tail(script) \in Seq({OpenContext} \union Settings(want))
        /\ \A i \in 1..Len(Tail(script)) : Tail(script)[i] # OpenContext
    BY <1>3, <1>4, SendOne
  <1>6. proxies \in Entries /\ proxies[name] \in RouterEntry \union {NoEntry}
    BY <1>2 DEF TypeInv, EntriesOK, Entries
  <1>7. Execute(proxies[name], Head(script)) \in RouterEntry
    BY <1>2, <1>4, <1>5, <1>6, ExecuteType
  <1>8. proxies' \in Entries /\ proxies'[name] # NoEntry
    BY <1>2, <1>3, <1>6, <1>7, NoEntryAssumption DEF Entries
  <1>9. RuntimeOK' /\ UNCHANGED <<pc, rec>>
    BY <1>3 DEF TypeInv, RuntimeOK, runtimeVars, clusterVars, queueVars, workerVars
  <1>a. EntriesOK'
    BY <1>1, <1>3, <1>8, <1>9 DEF TypeInv, EntriesOK
  <1>b. Scripted'
    BY <1>3, <1>5, <1>8, <1>9 DEF Scripted, want, name
  <1> QED BY <1>9, <1>a, <1>b DEF TypeInv

LEMMA SessionStepsType ==
  ASSUME TypeInv, CheckName \/ Release \/ NoIpHttpProxy \/ DropSave \/ EnsureProxy
                    \/ SaveConfiguration
  PROVE  TypeInv'
  <1> USE DEF TypeInv
  <1>r. /\ pc # "idle" /\ rec \in Object
        /\ rec.spec \in WebAppSpec /\ ReleasedName(rec) \in Names \union {NoName}
    BY DEF CheckName, Release, NoIpHttpProxy, DropSave, EnsureProxy, SaveConfiguration,
           RuntimeOK, Object, WebAppSpec, ReleasedName
  <1>1. CASE CheckName \/ Release
    <2>1. PICK step \in {"nameConflict", "release", "ensureProxy", "drop",
                         "removeFinalizer"} :
             Goto(step) /\ UNCHANGED <<routerVars, sessionVars, ops, drift>>
      BY <1>1 DEF CheckName, Release, AfterRelease
    <2>2. RuntimeOK' /\ pc' = step
      BY <2>1, <1>r, GotoType DEF Steps
    <2>3. pc \in {"checkName", "release"}
      BY <1>1 DEF CheckName, Release
    <2>4. EntriesOK' /\ Scripted'
      BY <2>1, <2>2, <2>3, EntriesKept
    <2> QED BY <2>2, <2>4
  <1>2. CASE NoIpHttpProxy
    <2>1. RuntimeOK' /\ pc' = "dropSave"
      BY <1>2, <1>r, GotoType DEF NoIpHttpProxy, Steps
    <2>2. proxies' \in Entries
      BY <1>2 DEF NoIpHttpProxy, EntriesOK, Entries
    <2>3. script = <<>> /\ ~refused
      BY <1>2 DEF NoIpHttpProxy, EntriesOK
    <2> QED BY <1>2, <2>1, <2>2, <2>3 DEF NoIpHttpProxy, EntriesOK, Scripted, sessionVars
  <1>3. CASE DropSave
    <2>1. RuntimeOK' /\ pc' \in {"idle", "removeFinalizer", "ensureProxy"}
      <3>1. CASE refused
        <4>1. /\ queue' \in SUBSET Keys /\ delayed' \in SUBSET Keys
              /\ pc' = "idle" /\ key' = NoKey /\ rec' = NoObject /\ fresh' = FALSE
          BY <1>3, <3>1, <1>r, ReturnType DEF DropSave
        <4> QED BY <1>3, <3>1, <4>1, StepsFacts DEF DropSave, RuntimeOK, clusterVars
      <3>2. CASE ~refused
        <4>1. Goto(AfterRelease(rec)) /\ AfterRelease(rec) \in {"removeFinalizer", "ensureProxy"}
          BY <1>3, <3>2 DEF DropSave, AfterRelease
        <4> QED BY <4>1, <1>r, GotoType DEF Steps
      <3> QED BY <3>1, <3>2
    <2>2. script = <<>>
      BY <1>3 DEF DropSave, EntriesOK
    <2> QED BY <1>3, <2>1, <2>2 DEF DropSave, EntriesOK, Scripted
  <1>4. CASE EnsureProxy
    <2> DEFINE want == ProxyFromSpec(rec.spec)
    <2>1. PICK step \in {"applyFailed", "applied", "write"} : Goto(step)
      BY <1>4 DEF EnsureProxy
    <2>2. RuntimeOK' /\ pc' = step /\ rec' = rec
      BY <2>1, <1>r, GotoType DEF Steps, Goto
    <2>3. /\ script' = IF step = "write" THEN ProxyCommands(want) ELSE <<>>
          /\ UNCHANGED <<proxies, startup, refused, ops, drift>> /\ ~refused
      BY <1>4, <2>2 DEF EnsureProxy, routerVars, EntriesOK
    <2>4. /\ ProxyCommands(want) \in Seq({OpenContext} \union Settings(want))
          /\ ProxyCommands(want) # <<>> /\ ProxyCommands(want)[1] = OpenContext
          /\ \A i \in 2..Len(ProxyCommands(want)) : ProxyCommands(want)[i] \in Settings(want)
      BY <1>r, CommandList
    <2>5. OpenContext \notin Settings(want)
      BY DEF OpenContext, Settings
    <2> HIDE DEF want
    <2>6. EntriesOK'
      BY <2>2, <2>3 DEF EntriesOK
    <2>7. Scripted'
      BY <2>2, <2>3, <2>4, <2>5 DEF Scripted, want
    <2> QED BY <2>2, <2>6, <2>7
  <1>5. CASE SaveConfiguration
    <2>1. PICK step \in {"applyFailed", "applied"} : Goto(step)
      BY <1>5 DEF SaveConfiguration
    <2>2. RuntimeOK' /\ pc' = step
      BY <2>1, <1>r, GotoType DEF Steps
    <2> QED BY <1>5, <2>2 DEF SaveConfiguration, EntriesOK, Scripted
  <1> QED BY <1>1, <1>2, <1>3, <1>4, <1>5

\* What happens to the worker and to the router from outside.
LEMMA DisturbancesType ==
  ASSUME TypeInv, SessionLost \/ Crash \/ RouterReboot \/ RouterRefuses
                    \/ AdminRemove \/ OtherSave
  PROVE  TypeInv'
  <1> USE DEF TypeInv
  <1>b. Drift => drift' \in 0..MaxDrift
    BY BoundsAssumption DEF Drift, EntriesOK
  <1>c. Fault => faults' \in 0..MaxFaults
    BY MaxFaultsAssumption DEF Fault, RuntimeOK
  <1>1. CASE SessionLost
    <2>1. RuntimeOK' /\ pc' # "write" /\ script' = <<>> /\ refused' = FALSE
      BY <1>1, <1>c, SessionErrorType DEF SessionLost
    <2>2. startup' \in {startup, proxies} /\ UNCHANGED <<proxies, ops, drift>>
      BY <1>1 DEF SessionLost
    <2> QED BY <2>1, <2>2 DEF EntriesOK, Scripted
  <1>2. CASE Crash
    <2>1. RuntimeOK' /\ pc' = "idle"
      BY <1>2, <1>c, StepsFacts DEF Crash, Restart, RuntimeOK
    <2> QED BY <1>2, <2>1 DEF Crash, EntriesOK, Scripted, routerVars
  <1>3. CASE RouterReboot
    <2>1. CASE pc \in SessionSteps
      <3>1. SessionError /\ UNCHANGED faults
        BY <1>3, <2>1 DEF RouterReboot
      <3>2. RuntimeOK' /\ pc' # "write" /\ script' = <<>> /\ refused' = FALSE
        BY <3>1, <2>1, SessionErrorType DEF RuntimeOK
      <3> QED BY <1>3, <1>b, <3>2 DEF RouterReboot, EntriesOK, Scripted
    <2>2. CASE pc \notin SessionSteps
      <3>1. UNCHANGED <<runtimeVars, sessionVars>> /\ pc # "write"
        BY <1>3, <2>2 DEF RouterReboot, SessionSteps
      <3> QED BY <1>3, <1>b, <3>1
              DEF RouterReboot, RuntimeOK, EntriesOK, Scripted, runtimeVars,
                  clusterVars, queueVars, workerVars, sessionVars
    <2> QED BY <2>1, <2>2
  <1>4. CASE RouterRefuses
    <2>1. /\ drift' \in 0..MaxDrift /\ refused' = TRUE
          /\ UNCHANGED <<proxies, startup, ops>>
      BY <1>4, <1>b DEF RouterRefuses, routerVars
    <2>2. CASE pc = "write" /\ script # <<>> /\ Head(script)[1] # "proxy"
                 /\ script' = Tail(script) /\ UNCHANGED runtimeVars
      <3> DEFINE want == ProxyFromSpec(rec.spec)
      <3>1. /\ script \in Seq({OpenContext} \union Settings(want))
            /\ \A i \in 2..Len(script) : script[i] # OpenContext
            /\ script[1] # OpenContext => proxies[rec.spec.name] # NoEntry
        BY <2>2 DEF Scripted
      <3> HIDE DEF want
      <3>2. /\ Head(script) = script[1]
            /\ Tail(script) \in Seq({OpenContext} \union Settings(want))
            /\ \A i \in 1..Len(Tail(script)) : Tail(script)[i] # OpenContext
        BY <2>2, <3>1, SendOne
      <3>3. script[1] # OpenContext
        <4>1. OpenContext[1] = "proxy"
          BY DEF OpenContext
        <4> QED BY <2>2, <3>2, <4>1
      <3>4. RuntimeOK' /\ UNCHANGED <<pc, rec>>
        BY <2>2 DEF RuntimeOK, runtimeVars, clusterVars, queueVars, workerVars
      <3>5. EntriesOK'
        BY <2>1, <2>2, <3>4 DEF EntriesOK
      <3>6. Scripted'
        BY <2>1, <2>2, <3>1, <3>2, <3>3, <3>4 DEF Scripted, want
      <3> QED BY <3>4, <3>5, <3>6
    <2>3. CASE pc = "drop" /\ Goto("dropSave") /\ UNCHANGED script
      <3>1. RuntimeOK' /\ pc' = "dropSave"
        BY <2>3, GotoType DEF Steps
      <3> QED BY <2>1, <2>3, <3>1 DEF EntriesOK, Scripted
    <2> QED BY <1>4, <2>2, <2>3 DEF RouterRefuses
  <1>5. CASE AdminRemove
    <2>1. PICK n \in Names : proxies' = [proxies EXCEPT ![n] = NoEntry]
      BY <1>5 DEF AdminRemove
    <2>2. proxies' \in Entries
      BY <2>1 DEF EntriesOK, Entries
    <2> QED BY <1>5, <1>b, <2>2
            DEF AdminRemove, RuntimeOK, EntriesOK, Scripted, runtimeVars, clusterVars,
                queueVars, workerVars, sessionVars
  <1>6. CASE OtherSave
    BY <1>6 DEF OtherSave, RuntimeOK, EntriesOK, Scripted, runtimeVars, clusterVars,
                queueVars, workerVars, sessionVars
  <1> QED BY <1>1, <1>2, <1>3, <1>4, <1>5, <1>6

LEMMA EventsType ==
  ASSUME TypeInv, NEW r \in Keys,
         \/ Reconcile(r) \/ Watch(r) \/ Timer(r)
         \/ UserCreate(r) \/ UserEdit(r) \/ UserDelete(r)
  PROVE  TypeInv'
  <1>t. RuntimeOK
    BY DEF TypeInv
  <1>1. CASE Reconcile(r)
    <2>1. RuntimeOK' /\ pc = "idle" /\ pc' = FirstStep(cache[r])
      BY <1>1, <1>t, TakeType DEF Reconcile
    <2>2. pc' # "write"
      BY <1>t, <2>1, FirstStepType DEF RuntimeOK
    <2>3. EntriesOK' /\ Scripted'
      BY <1>1, <2>1, <2>2, EntriesKept DEF Reconcile
    <2> QED BY <2>1, <2>3 DEF TypeInv
  <1>2. CASE Watch(r) \/ Timer(r)
    <2>1. RuntimeOK' /\ UNCHANGED <<pc, rec>>
      BY <1>2, <1>t DEF Watch, Timer, CacheSync, Requeue, RuntimeOK, clusterVars,
                        workerVars
    <2>2. EntriesOK' /\ Scripted'
      BY <1>2, <2>1, EntriesKept DEF Watch, Timer
    <2> QED BY <2>1, <2>2 DEF TypeInv
  <1>3. CASE UserCreate(r) \/ UserEdit(r) \/ UserDelete(r)
    <2>a. obj[r] # NoObject => obj[r] \in Object
      BY <1>t DEF RuntimeOK
    <2>1. PICK o \in Object \union {NoObject} : UserWrite(r, o)
      <3>1. SpecsOf[r] \subseteq WebAppSpec
        BY SpecsAssumption
      <3>2. CASE UserCreate(r)
        BY <3>1, <3>2, WrittenObjects DEF UserCreate
      <3>3. CASE UserEdit(r)
        BY <3>1, <3>3, <2>a, WrittenObjects DEF UserEdit
      <3>4. CASE UserDelete(r)
        BY <3>4, <2>a, WrittenObjects DEF UserDelete
      <3> QED BY <1>3, <3>2, <3>3, <3>4
    <2>2. RuntimeOK' /\ UNCHANGED <<pc, rec>>
      BY <2>1, <1>t, UserWriteType
    <2>3. UserOp
      BY <1>3 DEF UserCreate, UserEdit, UserDelete
    <2>4. ops' \in 0..MaxUserOps
      BY <2>3, BoundsAssumption DEF UserOp, TypeInv, EntriesOK
    <2> QED BY <2>2, <2>3, <2>4
            DEF UserOp, TypeInv, EntriesOK, Scripted, Entries, routerVars, sessionVars
  <1> QED BY <1>1, <1>2, <1>3

LEMMA TypeInit == Init => TypeInv
  <1> SUFFICES ASSUME Init PROVE TypeInv
    OBVIOUS
  <1>1. RuntimeOK
    <2>1. obj \in [Keys -> Object \union {NoObject}]
      BY DEF Init, RuntimeInit
    <2>2. cache = obj
      BY DEF Init, RuntimeInit
    <2>3. faults \in 0..MaxFaults
      BY MaxFaultsAssumption DEF Init, RuntimeInit
    <2>4. pc = "idle" /\ key = NoKey /\ rec = NoObject /\ fresh = FALSE
          /\ lagging = {} /\ queue = {} /\ delayed = {}
      BY DEF Init, RuntimeInit
    <2> QED BY <2>1, <2>2, <2>3, <2>4, StepsFacts DEF RuntimeOK
  <1>2. proxies \in Entries /\ startup \in Entries
    BY DEF Init, Entries
  <1>3. pc = "idle" /\ script = <<>> /\ refused = FALSE /\ ops = 0 /\ drift = 0
    BY DEF Init, RuntimeInit
  <1>4. 0 \in 0..MaxUserOps /\ 0 \in 0..MaxDrift
    BY BoundsAssumption
  <1>5. EntriesOK /\ Scripted
    BY <1>2, <1>3, <1>4 DEF EntriesOK, Scripted
  <1> QED BY <1>1, <1>5 DEF TypeInv

LEMMA TypeNext == TypeInv /\ [Next]_vars => TypeInv'
  <1> SUFFICES ASSUME TypeInv, [Next]_vars PROVE TypeInv'
    OBVIOUS
  <1>1. CASE \E r \in Keys : \/ Reconcile(r) \/ Watch(r) \/ Timer(r)
                             \/ UserCreate(r) \/ UserEdit(r) \/ UserDelete(r)
    BY <1>1, EventsType
  <1>2. CASE Worker
    BY <1>2, StatusWrites, SessionStepsType, CommandType DEF Worker
  <1>3. CASE SessionLost \/ Crash \/ RouterReboot \/ RouterRefuses
               \/ AdminRemove \/ OtherSave
    BY <1>3, DisturbancesType
  <1>4. CASE UNCHANGED vars
    BY <1>4 DEF TypeInv, RuntimeOK, EntriesOK, Scripted, vars, runtimeVars,
                clusterVars, queueVars, workerVars, routerVars, sessionVars
  <1> QED BY <1>1, <1>2, <1>3, <1>4 DEF Next

(***************************************************************************)
(* Every variable of WebApp keeps its type; no command is typed at an      *)
(* entry the router does not have, and the worker leaves no copy and no    *)
(* unsent command behind it.                                               *)
(***************************************************************************)
THEOREM TypeCorrect == Spec => []TypeOK
  <1>1. TypeInv => TypeOK
    BY DEF TypeInv, TypeOK, RuntimeOK, EntriesOK, Entries
  <1> QED BY <1>1, TypeInit, TypeNext, PTL DEF Spec

-----------------------------------------------------------------------------
(***************************************************************************)
(* The finalizer protocol, as in HostRecordProofs: a copy that has the     *)
(* finalizer and no deletion timestamp, however old, is a copy of an       *)
(* object that still has the finalizer (Guarded).  releaseName runs in     *)
(* both halves of a reconcile, for a deleted object and for a renamed one; *)
(* rec.deleting tells which.  And the name check of another object cannot  *)
(* miss a settled one (ObservedCached): whatever the worker has observed   *)
(* came out of the cache, and an edit takes the observation away.          *)
(***************************************************************************)
ApplySteps == {"checkName", "nameConflict", "ensureProxy", "write", "applyFailed",
               "applied"}
ReleaseSteps == {"release", "drop", "dropSave"}
GuardedSteps == ApplySteps \union ReleaseSteps \union {"removeFinalizer"}

\* A key nobody has changed since its last event is cached as it is.
CacheExact == \A k \in Keys : k \notin lagging => cache[k] = obj[k]

\* A deleted object is one that waits for its finalizer.
DeletedWaits ==
    \A k \in Keys : obj[k] # NoObject /\ obj[k].deleting => obj[k].finalizer

Guarded ==
    \A k \in Keys :
        cache[k] # NoObject /\ cache[k].finalizer /\ ~cache[k].deleting =>
            obj[k] # NoObject /\ obj[k].finalizer

ObservedCached ==
    \A k \in Keys :
        obj[k] # NoObject /\ obj[k].observed =>
            /\ cache[k] # NoObject /\ cache[k].spec = obj[k].spec
            /\ ~obj[k].deleting => ~cache[k].deleting

WorkerKnows ==
    /\ fresh => rec = obj[key] /\ key \notin lagging
    /\ pc = "addFinalizer" => ~rec.finalizer /\ ~rec.deleting
    /\ pc \in GuardedSteps => rec.finalizer
    /\ pc \in ApplySteps => ~rec.deleting
    /\ pc = "removeFinalizer" => rec.deleting
    /\ pc \in GuardedSteps /\ ~rec.deleting => obj[key] # NoObject /\ obj[key].finalizer

Protocol == CacheExact /\ DeletedWaits /\ Guarded /\ ObservedCached /\ WorkerKnows

LEMMA MoveProtocol ==
  ASSUME RuntimeOK, Protocol, UNCHANGED <<clusterVars, queueVars, key, rec, fresh>>,
         \/ pc' = pc
         \/ /\ pc \in GuardedSteps /\ pc' \in GuardedSteps
            /\ pc' \in ApplySteps => ~rec.deleting
            /\ pc' = "removeFinalizer" => rec.deleting
  PROVE  Protocol'
  <1>1. CacheExact' /\ DeletedWaits' /\ Guarded' /\ ObservedCached'
    BY DEF Protocol, CacheExact, DeletedWaits, Guarded, ObservedCached, clusterVars
  <1>2. WorkerKnows'
    BY DEF Protocol, WorkerKnows, ApplySteps, ReleaseSteps, GuardedSteps, clusterVars
  <1> QED BY <1>1, <1>2 DEF Protocol

LEMMA ReturnProtocol ==
  ASSUME RuntimeOK, Protocol, pc # "idle", Return(TRUE), UNCHANGED clusterVars
  PROVE  Protocol'
  <1>1. CacheExact' /\ DeletedWaits' /\ Guarded' /\ ObservedCached'
    BY DEF Protocol, CacheExact, DeletedWaits, Guarded, ObservedCached, clusterVars
  <1>2. WorkerKnows'
    BY DEF Return, WorkerKnows, ApplySteps, ReleaseSteps, GuardedSteps
  <1> QED BY <1>1, <1>2 DEF Protocol

LEMMA UpdateProtocol ==
  ASSUME NEW o \in Object \union {NoObject}, NEW again \in BOOLEAN,
         RuntimeOK, Protocol, pc # "idle", Update(o, again),
         o # NoObject => o.finalizer /\ o.spec = rec.spec /\ o.deleting = rec.deleting,
         o = NoObject => rec.deleting
  PROVE  Protocol'
  <1>k. key \in Keys /\ rec # NoObject
    BY NoObjectAssumption DEF RuntimeOK
  <1>1. CASE UNCHANGED clusterVars /\ Return(TRUE)
    BY <1>1, ReturnProtocol
  <1>2. CASE fresh /\ Store(key, o) /\ (Return(again) \/ Return(TRUE))
    <2>1. /\ rec = obj[key] /\ cache[key] = rec
          /\ obj' = [obj EXCEPT ![key] = o] /\ cache' = cache
          /\ lagging' = IF o = obj[key] THEN lagging ELSE lagging \union {key}
      BY <1>k, <1>2 DEF Protocol, CacheExact, WorkerKnows, Store
    <2>2. obj'[key] = o /\ \A k \in Keys \ {key} : obj'[k] = obj[k]
      BY <2>1, <1>k DEF RuntimeOK
    <2>3. CacheExact'
      BY <2>1, <2>2 DEF Protocol, CacheExact
    <2>4. DeletedWaits'
      BY <2>2 DEF Protocol, DeletedWaits
    <2>5. Guarded'
      BY <2>1, <2>2 DEF Protocol, Guarded
    <2>6. ObservedCached'
      BY <1>k, <2>1, <2>2 DEF Protocol, ObservedCached
    <2>7. WorkerKnows'
      BY <1>2 DEF Return, WorkerKnows, ApplySteps, ReleaseSteps, GuardedSteps
    <2> QED BY <2>3, <2>4, <2>5, <2>6, <2>7 DEF Protocol
  <1> QED BY <1>1, <1>2 DEF Update

LEMMA TakeProtocol ==
  ASSUME NEW r \in Keys, RuntimeOK, Protocol, Take(r, FirstStep(cache[r]))
  PROVE  Protocol'
  <1> DEFINE step == FirstStep(cache[r])
             o == cache[r]
  <1>0. o \in Object \union {NoObject}
    BY DEF RuntimeOK
  <1>a. /\ step \in {"idle", "release", "checkName", "addFinalizer"}
        /\ step # "idle" => o \in Object
        /\ step = "release" => o.deleting /\ o.finalizer
        /\ step = "checkName" => ~o.deleting /\ o.finalizer
        /\ step = "addFinalizer" => ~o.deleting /\ ~o.finalizer
    BY <1>0, FirstStepType
  <1>b. /\ pc = "idle" /\ UNCHANGED <<obj, cache, lagging, delayed, faults>>
        /\ queue' = queue \ {r}
        /\ IF step = "idle" THEN UNCHANGED <<pc, key, rec, fresh>>
           ELSE pc' = step /\ key' = r /\ rec' = o /\ fresh' = (r \notin lagging)
    BY DEF Take, clusterVars, workerVars
  <1>k. key = NoKey /\ ~fresh
    BY <1>b DEF RuntimeOK
  <1> HIDE DEF step
  <1>1. CacheExact' /\ DeletedWaits' /\ Guarded' /\ ObservedCached'
    BY <1>b DEF Protocol, CacheExact, DeletedWaits, Guarded, ObservedCached
  <1>2. WorkerKnows'
    <2>1. CASE step = "idle"
      BY <2>1, <1>b, <1>k DEF WorkerKnows, ApplySteps, ReleaseSteps, GuardedSteps
    <2>2. CASE step # "idle"
      BY <2>2, <1>a, <1>b, NoObjectAssumption
         DEF Protocol, CacheExact, Guarded, WorkerKnows, ApplySteps, ReleaseSteps,
             GuardedSteps
    <2> QED BY <2>1, <2>2
  <1> QED BY <1>1, <1>2 DEF Protocol

\* What others do to an object keeps its finalizer, and an object stays
\* observed only while its spec does.
LEMMA UserWriteProtocol ==
  ASSUME NEW k \in Keys, NEW o \in Object \union {NoObject},
         RuntimeOK, Protocol, UserWrite(k, o), o # obj[k],
         o # NoObject /\ o.deleting => o.finalizer,
         obj[k] # NoObject /\ obj[k].finalizer => o # NoObject /\ o.finalizer,
         o # NoObject /\ o.observed => /\ obj[k] # NoObject /\ obj[k].observed
                                       /\ o.spec = obj[k].spec /\ o.deleting
  PROVE  Protocol'
  <1>1. /\ obj' = [obj EXCEPT ![k] = o] /\ cache' = cache
        /\ lagging' = lagging \union {k} /\ fresh' = (fresh /\ k # key)
        /\ UNCHANGED <<queue, delayed, pc, key, rec>>
    BY DEF UserWrite, Store, queueVars
  <1>2. obj'[k] = o /\ \A j \in Keys \ {k} : obj'[j] = obj[j]
    BY <1>1 DEF RuntimeOK
  <1>3. CacheExact'
    BY <1>1, <1>2 DEF Protocol, CacheExact
  <1>4. DeletedWaits'
    BY <1>2 DEF Protocol, DeletedWaits
  <1>5. Guarded'
    BY <1>1, <1>2 DEF Protocol, Guarded
  <1>6. ObservedCached'
    BY <1>1, <1>2 DEF Protocol, ObservedCached
  <1>7. WorkerKnows'
    <2>1. CASE pc = "idle"
      BY <2>1, <1>1 DEF RuntimeOK, WorkerKnows, ApplySteps, ReleaseSteps, GuardedSteps
    <2>2. CASE pc # "idle"
      BY <2>2, <1>1, <1>2 DEF RuntimeOK, Protocol, WorkerKnows
    <2> QED BY <2>1, <2>2
  <1> QED BY <1>3, <1>4, <1>5, <1>6, <1>7 DEF Protocol

\* The writes of the users.
LEMMA UserWrites ==
  ASSUME NEW r \in Keys, RuntimeOK, DeletedWaits,
         UserCreate(r) \/ UserEdit(r) \/ UserDelete(r)
  PROVE  \E o \in Object \union {NoObject} :
            /\ UserWrite(r, o) /\ o # obj[r]
            /\ o # NoObject /\ o.deleting => o.finalizer
            /\ obj[r] # NoObject /\ obj[r].finalizer => o # NoObject /\ o.finalizer
            /\ o # NoObject /\ o.observed => /\ obj[r] # NoObject /\ obj[r].observed
                                             /\ o.spec = obj[r].spec /\ o.deleting
            /\ o # NoObject => o.spec \in SpecsOf[r] \/ (obj[r] # NoObject /\ o.spec = obj[r].spec)
  <1>o. obj[r] # NoObject => obj[r] \in Object
    BY DEF RuntimeOK
  <1>1. CASE UserCreate(r)
    <2>1. PICK s \in SpecsOf[r] : UserWrite(r, NewObject(s))
      BY <1>1 DEF UserCreate
    <2>2. NewObject(s) \in Object
      BY SpecsAssumption, WrittenObjects
    <2>3. /\ obj[r] = NoObject /\ NewObject(s) # NoObject /\ NewObject(s).spec = s
          /\ ~NewObject(s).deleting /\ ~NewObject(s).observed
      BY <1>1, <2>2, NoObjectAssumption DEF UserCreate, NewObject
    <2> QED BY <2>1, <2>2, <2>3
  <1>2. CASE UserEdit(r)
    <2>1. PICK s \in SpecsOf[r] \ {obj[r].spec} :
             UserWrite(r, [obj[r] EXCEPT !.spec = s, !.observed = FALSE])
      BY <1>2 DEF UserEdit
    <2> DEFINE o == [obj[r] EXCEPT !.spec = s, !.observed = FALSE]
    <2>2. obj[r] # NoObject /\ obj[r] \in Object
      BY <1>2, <1>o DEF UserEdit
    <2>s. s \in WebAppSpec /\ s # obj[r].spec
      BY SpecsAssumption
    <2>3. o \in Object
      BY <2>2, <2>s, WrittenObjects
    <2>4. /\ o.spec = s /\ ~o.observed
          /\ o.deleting = obj[r].deleting /\ o.finalizer = obj[r].finalizer
      BY <2>2 DEF Object
    <2>5. UserWrite(r, o)
      BY <2>1
    <2> HIDE DEF o
    <2>6. o # obj[r] /\ o # NoObject
      BY <2>s, <2>3, <2>4, NoObjectAssumption
    <2>7. o.deleting => o.finalizer
      BY <2>2, <2>4 DEF DeletedWaits
    <2> QED BY <2>3, <2>4, <2>5, <2>6, <2>7
  <1>3. CASE UserDelete(r)
    <2>1. obj[r] # NoObject /\ obj[r] \in Object /\ ~obj[r].deleting
      BY <1>3, <1>o DEF UserDelete
    <2>2. CASE obj[r].finalizer
      <3> DEFINE o == [obj[r] EXCEPT !.deleting = TRUE]
      <3>1. o \in Object
        BY <2>1, WrittenObjects
      <3>2. /\ o.deleting /\ o.finalizer /\ o.spec = obj[r].spec
            /\ o.observed = obj[r].observed
        BY <2>1, <2>2 DEF Object
      <3>3. UserWrite(r, o)
        BY <1>3, <2>2 DEF UserDelete
      <3> HIDE DEF o
      <3>4. o # obj[r] /\ o # NoObject
        BY <2>1, <3>1, <3>2, NoObjectAssumption
      <3> QED BY <2>1, <3>1, <3>2, <3>3, <3>4
    <2>3. CASE ~obj[r].finalizer
      <3>1. UserWrite(r, NoObject)
        BY <1>3, <2>3 DEF UserDelete
      <3> QED BY <2>1, <2>3, <3>1
    <2> QED BY <2>2, <2>3
  <1> QED BY <1>1, <1>2, <1>3

LEMMA EventsProtocol ==
  ASSUME RuntimeOK, Protocol, NEW r \in Keys,
         \/ Reconcile(r) \/ Watch(r) \/ Timer(r)
         \/ UserCreate(r) \/ UserEdit(r) \/ UserDelete(r)
  PROVE  Protocol'
  <1>1. CASE Reconcile(r)
    BY <1>1, TakeProtocol DEF Reconcile
  <1>2. CASE Watch(r)
    <2>1. /\ r \in lagging /\ cache' = [cache EXCEPT ![r] = obj[r]]
          /\ lagging' = lagging \ {r} /\ queue' = queue \union {r}
          /\ UNCHANGED <<obj, delayed, pc, key, rec, fresh>>
      BY <1>2 DEF Watch, CacheSync, workerVars
    <2>2. cache'[r] = obj[r] /\ \A j \in Keys \ {r} : cache'[j] = cache[j]
      BY <2>1 DEF RuntimeOK
    <2>3. CacheExact' /\ DeletedWaits' /\ Guarded' /\ ObservedCached'
      BY <2>1, <2>2 DEF Protocol, CacheExact, DeletedWaits, Guarded, ObservedCached
    <2>4. WorkerKnows'
      BY <2>1 DEF Protocol, WorkerKnows
    <2> QED BY <2>3, <2>4 DEF Protocol
  <1>3. CASE Timer(r)
    <2>1. UNCHANGED <<obj, cache, lagging, pc, key, rec, fresh>>
      BY <1>3 DEF Timer, Requeue, workerVars, clusterVars
    <2> QED BY <2>1 DEF Protocol, CacheExact, DeletedWaits, Guarded, ObservedCached,
                        WorkerKnows
  <1>4. CASE UserCreate(r) \/ UserEdit(r) \/ UserDelete(r)
    <2>1. DeletedWaits
      BY DEF Protocol
    <2> QED BY <1>4, <2>1, UserWrites, UserWriteProtocol
  <1> QED BY <1>1, <1>2, <1>3, <1>4

LEMMA WorkerProtocol ==
  ASSUME RuntimeOK, Protocol, Worker
  PROVE  Protocol'
  <1>r. pc # "idle" => rec \in Object
    BY DEF RuntimeOK
  <1>1. CASE AddFinalizer \/ NameConflict \/ ApplyFailed \/ Applied
    <2>1. /\ pc \in {"addFinalizer", "nameConflict", "applyFailed", "applied"}
          /\ rec \in Object /\ (pc # "addFinalizer" => rec.finalizer)
      BY <1>1, <1>r DEF AddFinalizer, NameConflict, ApplyFailed, Applied, Protocol,
                        WorkerKnows, GuardedSteps, ApplySteps
    <2>2. PICK o \in Object, again \in BOOLEAN :
             Update(o, again) /\ o.finalizer /\ o.spec = rec.spec /\ o.deleting = rec.deleting
      <3> DEFINE guarded == [rec EXCEPT !.finalizer = TRUE]
                 conflict == [rec EXCEPT !.applied = FALSE, !.ready = "NameConflict"]
                 failed == [rec EXCEPT !.applied = FALSE, !.ready = "ApplyFailed"]
                 done == [rec EXCEPT !.applied = TRUE, !.appliedName = rec.spec.name,
                                     !.observed = TRUE, !.ready = "Applied"]
      <3>1. guarded \in Object /\ conflict \in Object /\ failed \in Object /\ done \in Object
        BY <2>1, WrittenObjects
      <3>2. /\ guarded.finalizer /\ conflict.finalizer = rec.finalizer
            /\ failed.finalizer = rec.finalizer /\ done.finalizer = rec.finalizer
            /\ \A o \in {guarded, conflict, failed, done} :
                  o.spec = rec.spec /\ o.deleting = rec.deleting
        BY <2>1 DEF Object
      <3>3. \/ pc = "addFinalizer" /\ Update(guarded, FALSE)
            \/ pc # "addFinalizer" /\ Update(conflict, TRUE)
            \/ pc # "addFinalizer" /\ Update(failed, TRUE)
            \/ pc # "addFinalizer" /\ Update(done, TRUE)
        BY <1>1 DEF AddFinalizer, NameConflict, ApplyFailed, Applied
      <3> HIDE DEF guarded, conflict, failed, done
      <3> QED BY <2>1, <3>1, <3>2, <3>3
    <2>3. o # NoObject /\ pc # "idle"
      BY <2>1, NoObjectAssumption
    <2> QED BY <2>2, <2>3, UpdateProtocol
  <1>2. CASE RemoveFinalizer
    <2>1. rec.deleting /\ pc # "idle" /\ Update(NoObject, FALSE)
      BY <1>2 DEF RemoveFinalizer, Protocol, WorkerKnows
    <2> QED BY <2>1, UpdateProtocol
  <1>3. CASE \/ CheckName \/ Release \/ NoIpHttpProxy \/ EnsureProxy \/ SaveConfiguration
             \/ DropSave /\ ~refused
    <2>1. /\ UNCHANGED <<clusterVars, queueVars, key, rec, fresh>>
          /\ pc \in GuardedSteps /\ pc' \in GuardedSteps
          /\ pc' \in ApplySteps => pc \in ApplySteps \/ pc' = AfterRelease(rec)
          /\ pc' = "removeFinalizer" => pc' = AfterRelease(rec)
      BY <1>3 DEF CheckName, Release, NoIpHttpProxy, EnsureProxy, SaveConfiguration,
                  DropSave, AfterRelease, Goto, GuardedSteps, ApplySteps, ReleaseSteps
    <2>2. /\ pc \in ApplySteps => ~rec.deleting
          /\ AfterRelease(rec) \in ApplySteps => ~rec.deleting
          /\ AfterRelease(rec) = "removeFinalizer" => rec.deleting
      BY DEF Protocol, WorkerKnows, AfterRelease, ApplySteps
    <2> QED BY <2>1, <2>2, MoveProtocol
  <1>4. CASE DropSave /\ refused
    BY <1>4, ReturnProtocol DEF DropSave
  <1>5. CASE Command
    BY <1>5, MoveProtocol DEF Command, runtimeVars, workerVars
  <1> QED BY <1>1, <1>2, <1>3, <1>4, <1>5 DEF Worker

LEMMA SessionErrorProtocol ==
  ASSUME RuntimeOK, Protocol, pc \in SessionSteps, SessionError
  PROVE  Protocol'
  <1>1. CASE pc \in {"ensureProxy", "write"}
    <2>1. ~rec.deleting
      BY <1>1 DEF Protocol, WorkerKnows, ApplySteps
    <2> QED BY <1>1, <2>1, MoveProtocol DEF SessionError, GuardedSteps, ApplySteps
  <1>2. CASE pc \notin {"ensureProxy", "write"}
    BY <1>2, ReturnProtocol, StepsFacts DEF SessionError
  <1> QED BY <1>1, <1>2

LEMMA DisturbancesProtocol ==
  ASSUME RuntimeOK, Protocol, SessionLost \/ Crash \/ RouterReboot \/ RouterRefuses
                                \/ AdminRemove \/ OtherSave
  PROVE  Protocol'
  <1>1. CASE SessionLost
    BY <1>1, SessionErrorProtocol DEF SessionLost
  <1>2. CASE Crash
    <2>1. cache' = obj /\ obj' = obj /\ pc' = "idle" /\ fresh' = FALSE
      BY <1>2 DEF Crash, Restart
    <2>2. WorkerKnows'
      BY <2>1 DEF WorkerKnows, ApplySteps, ReleaseSteps, GuardedSteps
    <2>3. Guarded' /\ ObservedCached'
      BY <2>1 DEF Guarded, ObservedCached
    <2> QED BY <2>1, <2>2, <2>3 DEF Protocol, CacheExact, DeletedWaits
  <1>3. CASE RouterReboot
    <2>1. CASE pc \in SessionSteps
      BY <1>3, <2>1, SessionErrorProtocol DEF RouterReboot
    <2>2. CASE pc \notin SessionSteps
      BY <1>3, <2>2, MoveProtocol DEF RouterReboot, runtimeVars, workerVars
    <2> QED BY <2>1, <2>2
  <1>4. CASE RouterRefuses
    <2>1. \/ UNCHANGED runtimeVars
          \/ pc = "drop" /\ Goto("dropSave")
      BY <1>4 DEF RouterRefuses
    <2> QED BY <2>1, MoveProtocol
            DEF runtimeVars, workerVars, Goto, GuardedSteps, ReleaseSteps, ApplySteps
  <1>5. CASE AdminRemove \/ OtherSave
    BY <1>5, MoveProtocol DEF AdminRemove, OtherSave, runtimeVars, workerVars
  <1> QED BY <1>1, <1>2, <1>3, <1>4, <1>5

LEMMA ProtocolInductive ==
  /\ Init => Protocol
  /\ TypeInv /\ Protocol /\ [Next]_vars => Protocol'
  <1>1. Init => Protocol
    <2> SUFFICES ASSUME Init PROVE Protocol
      OBVIOUS
    <2>1. /\ obj = [k \in Keys |-> NoObject] /\ cache = obj
          /\ pc = "idle" /\ fresh = FALSE
      BY DEF Init, RuntimeInit
    <2>2. WorkerKnows
      BY <2>1 DEF WorkerKnows, ApplySteps, ReleaseSteps, GuardedSteps
    <2> QED BY <2>1, <2>2
            DEF Protocol, CacheExact, DeletedWaits, Guarded, ObservedCached
  <1>2. ASSUME TypeInv, Protocol, [Next]_vars PROVE Protocol'
    <2>t. RuntimeOK
      BY <1>2 DEF TypeInv
    <2>1. CASE \E r \in Keys : \/ Reconcile(r) \/ Watch(r) \/ Timer(r)
                               \/ UserCreate(r) \/ UserEdit(r) \/ UserDelete(r)
      BY <1>2, <2>t, <2>1, EventsProtocol
    <2>2. CASE Worker
      BY <1>2, <2>t, <2>2, WorkerProtocol
    <2>3. CASE SessionLost \/ Crash \/ RouterReboot \/ RouterRefuses
                 \/ AdminRemove \/ OtherSave
      BY <1>2, <2>t, <2>3, DisturbancesProtocol
    <2>4. CASE UNCHANGED vars
      BY <1>2, <2>t, <2>4, MoveProtocol DEF vars, runtimeVars, workerVars
    <2> QED BY <1>2, <2>1, <2>2, <2>3, <2>4 DEF Next
  <1> QED BY <1>1, <1>2

(***************************************************************************)
(* EnsureProxy writes only under a finalizer, however far the informer     *)
(* cache trails and whatever is lost or restarted: also for an object that *)
(* first has to give up the entry of its previous name.                    *)
(***************************************************************************)
THEOREM WritesAreGuarded == Spec => []WriteUnderFinalizer
  <1>1. Protocol => WriteUnderFinalizer
    BY DEF Protocol, WorkerKnows, ApplySteps, GuardedSteps, WriteUnderFinalizer, Exists
  <1> QED BY <1>1, TypeInit, TypeNext, ProtocolInductive, PTL DEF Spec

-----------------------------------------------------------------------------
(***************************************************************************)
(* The name check.  It reads the cache once, and the entry is written many *)
(* steps later.  It stays good meanwhile: an object that was not settled   *)
(* when the name was checked can settle only through the one worker, which *)
(* is busy, and an edit unsettles it.                                      *)
(***************************************************************************)
CheckedSteps == ReleaseSteps \union {"ensureProxy", "write"}

NameClear ==
    pc \in CheckedSteps /\ ~rec.deleting =>
        \A r \in Keys \ {key} :
            obj[r] # NoObject /\ obj[r].observed /\ ~obj[r].deleting
                /\ obj[r].spec.name = rec.spec.name =>
                    obj[r].spec.domain = rec.spec.domain

LEMMA NameClearKept ==
  ASSUME NameClear,
         \/ UNCHANGED <<obj, key, rec>> /\ (pc' \in CheckedSteps => pc \in CheckedSteps)
         \/ pc' \notin CheckedSteps
  PROVE  NameClear'
  BY DEF NameClear

LEMMA NameClearEvents ==
  ASSUME RuntimeOK, Protocol, NameClear, NEW r \in Keys,
         \/ Reconcile(r) \/ Watch(r) \/ Timer(r)
         \/ UserCreate(r) \/ UserEdit(r) \/ UserDelete(r)
  PROVE  NameClear'
  <1>1. CASE Reconcile(r)
    <2>1. /\ pc = "idle" /\ pc' = FirstStep(cache[r])
          /\ pc' # "idle" => rec' = cache[r]
      BY <1>1, TakeType DEF Reconcile, Take
    <2>2. cache[r] \in Object \union {NoObject}
      BY DEF RuntimeOK
    <2>3. /\ pc' \in {"idle", "release", "checkName", "addFinalizer"}
          /\ pc' = "release" => rec'.deleting
      BY <2>1, <2>2, FirstStepType
    <2> QED BY <2>3 DEF NameClear, CheckedSteps, ReleaseSteps
  <1>2. CASE Watch(r) \/ Timer(r)
    BY <1>2, NameClearKept DEF Watch, Timer, CacheSync, Requeue, workerVars, clusterVars
  <1>3. CASE UserCreate(r) \/ UserEdit(r) \/ UserDelete(r)
    <2>1. DeletedWaits
      BY DEF Protocol
    <2>2. PICK o \in Object \union {NoObject} :
             /\ UserWrite(r, o)
             /\ o # NoObject /\ o.observed => o.deleting
      BY <1>3, <2>1, UserWrites
    <2>3. /\ obj'[r] = o /\ \A k \in Keys \ {r} : obj'[k] = obj[k]
          /\ UNCHANGED <<pc, key, rec>>
      BY <2>2 DEF UserWrite, Store, RuntimeOK
    <2> QED BY <2>2, <2>3 DEF NameClear
  <1> QED BY <1>1, <1>2, <1>3

LEMMA NameClearWorker ==
  ASSUME RuntimeOK, Protocol, NameClear, Worker
  PROVE  NameClear'
  <1>1. CASE AddFinalizer \/ NameConflict \/ ApplyFailed \/ Applied \/ RemoveFinalizer
    <2>1. pc' = "idle"
      BY <1>1 DEF AddFinalizer, NameConflict, ApplyFailed, Applied, RemoveFinalizer,
                  Update, Return
    <2> QED BY <2>1, NameClearKept DEF CheckedSteps, ReleaseSteps
  <1>2. CASE CheckName
    <2>1. /\ UNCHANGED <<obj, key, rec>>
          /\ pc' = IF NameClaimedElsewhere(rec, key) # {} THEN "nameConflict"
                   ELSE IF Renamed(rec) THEN "release" ELSE "ensureProxy"
      BY <1>2 DEF CheckName, Goto, clusterVars
    <2>2. CASE NameClaimedElsewhere(rec, key) # {}
      BY <2>1, <2>2, NameClearKept DEF CheckedSteps, ReleaseSteps
    <2>3. CASE NameClaimedElsewhere(rec, key) = {}
      <3>1. ASSUME NEW r \in Keys \ {key}, obj[r] # NoObject, obj[r].observed,
                   ~obj[r].deleting, obj[r].spec.name = rec.spec.name
            PROVE  obj[r].spec.domain = rec.spec.domain
        <4>1. cache[r] # NoObject /\ cache[r].spec = obj[r].spec /\ ~cache[r].deleting
          BY <3>1 DEF Protocol, ObservedCached
        <4> QED BY <2>3, <3>1, <4>1 DEF NameClaimedElsewhere, Claimants
      <3> QED BY <2>1, <3>1 DEF NameClear
    <2> QED BY <2>2, <2>3
  <1>3. CASE \/ Release \/ NoIpHttpProxy \/ EnsureProxy \/ SaveConfiguration
             \/ DropSave /\ ~refused
    <2>1. UNCHANGED <<obj, key, rec>> /\ pc \in CheckedSteps
      BY <1>3 DEF Release, NoIpHttpProxy, DropSave, EnsureProxy, SaveConfiguration, Goto,
                  clusterVars, CheckedSteps, ReleaseSteps
    <2> QED BY <2>1, NameClearKept
  <1>4. CASE DropSave /\ refused
    BY <1>4, NameClearKept DEF DropSave, Return, CheckedSteps, ReleaseSteps
  <1>5. CASE Command
    BY <1>5, NameClearKept DEF Command, runtimeVars, clusterVars, workerVars
  <1> QED BY <1>1, <1>2, <1>3, <1>4, <1>5 DEF Worker

LEMMA NameClearDisturbances ==
  ASSUME RuntimeOK, NameClear, SessionLost \/ Crash \/ RouterReboot \/ RouterRefuses
                                 \/ AdminRemove \/ OtherSave
  PROVE  NameClear'
  <1>1. ASSUME SessionError PROVE pc' \notin CheckedSteps
    BY <1>1 DEF SessionError, Return, CheckedSteps, ReleaseSteps
  <1>2. CASE SessionLost
    BY <1>1, <1>2, NameClearKept DEF SessionLost
  <1>3. CASE Crash
    BY <1>3, NameClearKept DEF Crash, Restart, CheckedSteps, ReleaseSteps
  <1>4. CASE RouterReboot
    BY <1>1, <1>4, NameClearKept DEF RouterReboot, runtimeVars, clusterVars, workerVars
  <1>5. CASE RouterRefuses
    BY <1>5, NameClearKept DEF RouterRefuses, runtimeVars, clusterVars, workerVars, Goto,
                               CheckedSteps, ReleaseSteps
  <1>6. CASE AdminRemove \/ OtherSave
    BY <1>6, NameClearKept DEF AdminRemove, OtherSave, runtimeVars, clusterVars, workerVars
  <1> QED BY <1>2, <1>3, <1>4, <1>5, <1>6

LEMMA NameClearInductive ==
  /\ Init => NameClear
  /\ TypeInv /\ Protocol /\ NameClear /\ [Next]_vars => NameClear'
  <1>1. Init => NameClear
    BY DEF Init, RuntimeInit, NameClear, CheckedSteps, ReleaseSteps
  <1>2. ASSUME TypeInv, Protocol, NameClear, [Next]_vars PROVE NameClear'
    <2>t. RuntimeOK
      BY <1>2 DEF TypeInv
    <2>1. CASE \E r \in Keys : \/ Reconcile(r) \/ Watch(r) \/ Timer(r)
                               \/ UserCreate(r) \/ UserEdit(r) \/ UserDelete(r)
      BY <1>2, <2>t, <2>1, NameClearEvents
    <2>2. CASE Worker
      BY <1>2, <2>t, <2>2, NameClearWorker
    <2>3. CASE SessionLost \/ Crash \/ RouterReboot \/ RouterRefuses
                 \/ AdminRemove \/ OtherSave
      BY <1>2, <2>t, <2>3, NameClearDisturbances
    <2>4. CASE UNCHANGED vars
      BY <1>2, <2>4, NameClearKept DEF vars, runtimeVars, clusterVars, workerVars
    <2> QED BY <1>2, <2>1, <2>2, <2>3, <2>4 DEF Next
  <1> QED BY <1>1, <1>2

(***************************************************************************)
(* No session rewrites an entry that a settled object publishes under      *)
(* another domain: the collision is found in time, although it is looked   *)
(* for in a cache that trails, and long before the first command.          *)
(***************************************************************************)
THEOREM CollisionsAreRefused == Spec => []NoOverwrite
  <1>1. Protocol /\ NameClear => NoOverwrite
    BY DEF Protocol, WorkerKnows, ApplySteps, NameClear, CheckedSteps, NoOverwrite,
           Exists, Settled
  <1> QED BY <1>1, TypeInit, TypeNext, ProtocolInductive, NameClearInductive, PTL DEF Spec
=============================================================================
