--------------------------- MODULE IngressProofs ---------------------------
(***************************************************************************)
(* Theorems of IngressSource, for any Ingresses, namespaces, hosts and     *)
(* bounds: the types, whose induction bounds the uids that were ever given *)
(* out; what is published; and the two halves of ownership, from the       *)
(* writes that wake the owners up to the end of a reconcile.               *)
(***************************************************************************)
EXTENDS IngressSource, FiniteSetTheorems, WellFoundedInduction, TLAPS

-----------------------------------------------------------------------------
(***************************************************************************)
(* Type correctness.  Of the uids only as many are in use as users have    *)
(* done operations, which is why the next one can be chosen; and a child   *)
(* has no owners in another namespace than its own.                        *)
(***************************************************************************)
Issued == 1..(ops + 1)
Version(k) == {WithUid(s, u) : s \in SpecsOf[k], u \in Issued}
Partners(c) == {i \in Keys : NamespaceOf[i] = c[2]} \X Issued
Held(c) == [owners : SUBSET Partners(c), value : Values(c), deleting : BOOLEAN]

RuntimeOK ==
    /\ DOMAIN obj = Keys /\ DOMAIN cache = Keys
    /\ \A k \in Keys : /\ obj[k] \in Version(k) \union {NoObject}
                       /\ cache[k] \in Version(k) \union {NoObject}
    /\ lagging \in SUBSET Keys /\ queue \in SUBSET Keys /\ delayed \in SUBSET Keys
    /\ faults \in 0..MaxFaults /\ ops \in 0..MaxUserOps

ChildrenOK ==
    /\ DOMAIN child = Children /\ DOMAIN childCache = Children
    /\ \A c \in Children : /\ child[c] \in Held(c) \union {NoObject}
                           /\ childCache[c] \in Held(c) \union {NoObject}
    /\ childLagging \in SUBSET Children /\ wake \in [Children -> SUBSET Keys]
    /\ \A c \in Children \ childLagging : childCache[c] = child[c] /\ wake[c] = {}

Busy == /\ pc \in {"ensure", "release"} /\ key \in Keys /\ rec \in Version(key)
        /\ pass \in Kinds /\ (pc = "ensure" => listed = NoHost)
        /\ \A h \in Hosts : /\ agreed[h] \subseteq Values(Mine(h))
                            /\ listed[h] \in Held(Mine(h)) \union {NoObject}

PassOK ==
    /\ keep \in SUBSET Hosts /\ todo \in SUBSET keep /\ current \in SUBSET Children
    /\ DOMAIN listed = Hosts
    /\ (pc = "idle" /\ key = NoKey /\ rec = NoObject /\ Nothing) \/ Busy

TypeInv == RuntimeOK /\ ChildrenOK /\ PassOK

\* A step may be the one operation of a user.
MayIssue == ops' = ops \/ ops' = ops + 1

LEMMA VersionFacts ==
  ASSUME NEW k \in Keys, NEW o \in Version(k)
  PROVE  /\ o.uid \in Issued /\ o.hosts \in SUBSET Hosts
         /\ o.address \in Addrs \union {Absent}
         /\ \E s \in SpecsOf[k] : /\ o = WithUid(s, o.uid) /\ o.hosts = s.hosts
                                  /\ o.address = s.address /\ o.ann = s.ann
  <1>1. PICK s \in SpecsOf[k], u \in Issued : o = WithUid(s, u)
    BY DEF Version
  <1>2. o.uid = u /\ o.hosts = s.hosts /\ o.address = s.address /\ o.ann = s.ann
    BY <1>1 DEF WithUid
  <1> QED BY <1>1, <1>2, SpecsAssumption

LEMMA IssuedGrows ==
  ASSUME ops \in Nat, MayIssue
  PROVE  /\ Issued \subseteq Issued'
         /\ \A k \in Keys : Version(k) \subseteq Version(k)'
         /\ \A c \in Children : Held(c) \subseteq Held(c)'
  <1>1. Issued \subseteq Issued'
    BY DEF MayIssue, Issued
  <1>2. \A k \in Keys : Version(k) \subseteq Version(k)'
    BY <1>1 DEF Version
  <1>3. \A c \in Children : Partners(c) \subseteq Partners(c)'
    BY <1>1 DEF Partners
  <1>4. \A c \in Children : Held(c) \subseteq Held(c)'
    BY <1>3 DEF Held
  <1> QED BY <1>1, <1>2, <1>4

LEMMA HeldFacts ==
  ASSUME NEW c, NEW o \in Held(c)
  PROVE  /\ o.owners \in SUBSET Partners(c) /\ o.value \in Values(c) /\ o.deleting \in BOOLEAN
         /\ [o EXCEPT !.deleting = TRUE] \in Held(c)
         /\ \A s \in SUBSET Partners(c) : [o EXCEPT !.owners = s] \in Held(c)
         /\ \A v \in Values(c) : [o EXCEPT !.value = v] \in Held(c)
         /\ OwnerKeys(o) \subseteq {i \in Keys : NamespaceOf[i] = c[2]}
  <1>1. o.owners \in SUBSET Partners(c) /\ o.value \in Values(c) /\ o.deleting \in BOOLEAN
    BY DEF Held
  <1>2. OwnerKeys(o) \subseteq {i \in Keys : NamespaceOf[i] = c[2]}
    BY <1>1 DEF OwnerKeys, Partners
  <1>3. /\ [o EXCEPT !.deleting = TRUE] \in Held(c)
        /\ \A s \in SUBSET Partners(c) : [o EXCEPT !.owners = s] \in Held(c)
        /\ \A v \in Values(c) : [o EXCEPT !.value = v] \in Held(c)
    BY DEF Held
  <1> QED BY <1>1, <1>2, <1>3

LEMMA BusyFacts ==
  ASSUME TypeInv, pc # "idle"
  PROVE  Busy /\ key \in Keys /\ rec \in Version(key) /\ pass \in Kinds
  BY DEF TypeInv, PassOK, Busy

LEMMA MineFacts ==
  ASSUME TypeInv, pc # "idle", NEW h \in Hosts
  PROVE  /\ key \in Keys /\ rec \in Version(key) /\ pass \in Kinds
         /\ Mine(h) \in Children /\ Mine(h) = <<pass, NamespaceOf[key], h>>
  BY NamespacesAssumption DEF TypeInv, PassOK, Busy, Mine, Children

(***************************************************************************)
(* Writes of children keep their types, and nobody loses a wake-up.        *)
(***************************************************************************)
LEMMA WriteType ==
  ASSUME ChildrenOK, ops \in Nat, MayIssue, current \in SUBSET Children,
         NEW c \in Children, NEW o, o \in Held(c)' \union {NoObject}, Write(c, o)
  PROVE  ChildrenOK' /\ current' \in SUBSET Children
  <1>1. /\ child' = [child EXCEPT ![c] = o] /\ childCache' = childCache
        /\ childLagging' = childLagging \union {c} /\ current' = current \ {c}
        /\ wake' = [wake EXCEPT ![c] = @ \union OwnerKeys(child[c]) \union OwnerKeys(o)]
    BY DEF Write
  <1>2. \A d \in Children : Held(d) \subseteq Held(d)'
    BY IssuedGrows
  <1>3. \A d \in Children : /\ child'[d] \in Held(d)' \union {NoObject}
                            /\ childCache'[d] \in Held(d)' \union {NoObject}
    BY <1>1, <1>2 DEF ChildrenOK
  <1>4. OwnerKeys(child[c]) \subseteq Keys /\ OwnerKeys(o) \subseteq Keys
    <2>1. \A p \in Held(c) \union {NoObject} : OwnerKeys(p) \subseteq Keys
      BY HeldFacts DEF OwnerKeys
    <2>2. \A p \in (Held(c) \union {NoObject})' : OwnerKeys(p) \subseteq Keys
      <3> SUFFICES ASSUME NEW p \in Held(c)' PROVE OwnerKeys(p) \subseteq Keys
        BY DEF OwnerKeys
      <3>1. p.owners \in SUBSET (Keys \X Issued')
        BY DEF Held, Partners
      <3> QED BY <3>1 DEF OwnerKeys
    <2> QED BY <2>1, <2>2 DEF ChildrenOK
  <1>5. wake' \in [Children -> SUBSET Keys]
    BY <1>1, <1>4 DEF ChildrenOK
  <1>6. \A d \in Children \ childLagging' : childCache'[d] = child'[d] /\ wake'[d] = {}
    BY <1>1 DEF ChildrenOK
  <1> QED BY <1>1, <1>3, <1>5, <1>6 DEF ChildrenOK

LEMMA ChildrenKept ==
  ASSUME ChildrenOK, ops \in Nat, MayIssue, UNCHANGED <<child, childCache, childLagging, wake>>
  PROVE  ChildrenOK'
  BY IssuedGrows DEF ChildrenOK

LEMMA DeleteType ==
  ASSUME ChildrenOK, ops \in Nat, MayIssue, current \in SUBSET Children,
         NEW c \in Children, Delete(c)
  PROVE  ChildrenOK' /\ current' \in SUBSET Children
  <1>1. CASE child[c] = NoObject \/ child[c].deleting
    BY <1>1, ChildrenKept DEF Delete, childVars
  <1>2. CASE ~(child[c] = NoObject \/ child[c].deleting)
    <2>1. Write(c, [child[c] EXCEPT !.deleting = TRUE])
      BY <1>2 DEF Delete
    <2>2. [child[c] EXCEPT !.deleting = TRUE] \in Held(c)'
      BY <1>2, HeldFacts, IssuedGrows DEF ChildrenOK
    <2> QED BY <2>1, <2>2, WriteType
  <1> QED BY <1>1, <1>2

LEMMA PassKept ==
  ASSUME PassOK, ops \in Nat, MayIssue, current' \in SUBSET Children,
         UNCHANGED <<passVars, pc, key, rec>>
  PROVE  PassOK'
  <1> USE DEF passVars
  <1>1. CASE pc = "idle" /\ key = NoKey /\ rec = NoObject /\ Nothing
    BY <1>1 DEF PassOK, Nothing
  <1>2. CASE Busy
    <2>1. \A h \in Hosts : Mine(h)' = Mine(h) /\ Mine(h) \in Children
      BY <1>2, NamespacesAssumption DEF Mine, Busy, Children
    <2>2. \A h \in Hosts : Held(Mine(h)) \subseteq Held(Mine(h))'
      BY <2>1, IssuedGrows
    <2>3. rec' \in Version(key)'
      <3>1. PICK k \in Keys : k = key
        BY <1>2 DEF Busy
      <3>2. rec' \in Version(k)'
        BY <1>2, <3>1, IssuedGrows DEF Busy
      <3> QED BY <3>1, <3>2
    <2> QED BY <1>2, <2>1, <2>2, <2>3 DEF PassOK, Busy
  <1> QED BY <1>1, <1>2 DEF PassOK

LEMMA AbortType ==
  ASSUME TypeInv, pc # "idle", Return(TRUE), Forget, UNCHANGED clusterVars, ops' = ops,
         ChildrenOK', current' \in SUBSET Children, faults' \in 0..MaxFaults
  PROVE  TypeInv'
  <1>1. RuntimeOK'
    BY MineFacts DEF TypeInv, RuntimeOK, Return, clusterVars, PassOK, Busy, Version, Issued
  <1>2. PassOK'
    BY DEF Return, Forget, PassOK, Nothing, NoHost
  <1> QED BY <1>1, <1>2 DEF TypeInv

(***************************************************************************)
(* The uids: one more than there were operations is always free.           *)
(***************************************************************************)
LEMMA UidsInUse ==
  ASSUME TypeInv, NEW k \in Keys
  PROVE  Uids(k) \subseteq Issued
  <1>1. \A o \in {cache[k], rec} \ {NoObject} : o.uid \in Issued
    BY VersionFacts DEF TypeInv, RuntimeOK, PassOK, Busy
  <1>2. \A c \in Children : \A o \in Held(c) : \A r \in o.owners : r[2] \in Issued
    BY DEF Held, Partners
  <1>3. \A h \in Hosts : listed[h] # NoObject => \E c \in Children : listed[h] \in Held(c)
    <2>1. CASE pc = "idle"
      BY <2>1, NoKeyAssumption DEF TypeInv, PassOK, Busy, Nothing, NoHost
    <2>2. CASE pc # "idle"
      BY <2>2, MineFacts DEF TypeInv, PassOK, Busy
    <2> QED BY <2>1, <2>2
  <1> DEFINE All == ({child[c] : c \in Children} \union {childCache[c] : c \in Children}
                     \union {listed[h] : h \in Hosts}) \ {NoObject}
  <1>4. \A o \in All : \E c \in Children : o \in Held(c)
    BY <1>3 DEF TypeInv, ChildrenOK
  <1>5. \A r \in UNION {o.owners : o \in All} : r[2] \in Issued
    BY <1>4, <1>2
  <1> HIDE DEF All
  <1>6. Uids(k) = {o.uid : o \in {cache[k], rec} \ {NoObject}}
                  \union {r[2] : r \in UNION {o.owners : o \in All}}
    BY DEF Uids, All
  <1> QED BY <1>1, <1>5, <1>6

LEMMA NewUidType ==
  ASSUME TypeInv, NEW k \in Keys, ops < MaxUserOps, ops' = ops + 1
  PROVE  NewUid(k) \in Issued' /\ NewUid(k) \notin Uids(k)
  <1> DEFINE free == {u \in Nat : u >= 1 /\ u \notin Uids(k)}
             Least(u) == u \in Uid /\ u \notin Uids(k) /\ \A v \in 1..(u - 1) : v \in Uids(k)
  <1>1. ops \in Nat /\ ops + 2 \in Nat /\ MaxUserOps \in Nat
    BY BoundsAssumption DEF TypeInv, RuntimeOK
  <1>2. ops + 2 \notin Uids(k)
    BY <1>1, UidsInUse DEF Issued
  <1>3. ops + 2 \in free /\ free \subseteq Nat
    BY <1>1, <1>2
  <1>4. PICK m \in free : \A y \in free : ~(<<y, m>> \in OpToRel(<, Nat))
    <2> HIDE DEF free
    <2> QED BY <1>3, NatLessThanWellFounded, WFMin
  <1>5. \A y \in free : ~(y < m)
    BY <1>3, <1>4 DEF OpToRel
  <1>6. m <= ops + 2 /\ m \in Nat /\ m >= 1
    BY <1>1, <1>3, <1>5
  <1>7. m \in Uid
    BY <1>1, <1>6 DEF Uid
  <1>8. \A v \in 1..(m - 1) : v \in Uids(k)
    BY <1>5, <1>6
  <1>9. Least(m)
    BY <1>7, <1>8
  <1> HIDE DEF free
  <1>10. NewUid(k) = CHOOSE u \in Uid : u \notin Uids(k) /\ \A v \in 1..(u - 1) : v \in Uids(k)
    BY DEF NewUid
  <1>11. Least(NewUid(k))
    BY <1>9, <1>10
  <1>12. NewUid(k) \in Nat /\ NewUid(k) >= 1
    BY <1>11, <1>1 DEF Uid
  <1>13. NewUid(k) <= ops + 2
    BY <1>11, <1>12, <1>1, <1>2
  <1> QED BY <1>1, <1>11, <1>12, <1>13 DEF Issued

(***************************************************************************)
(* What users do.                                                          *)
(***************************************************************************)
LEMMA UserWriteType ==
  ASSUME TypeInv, NEW k \in Keys, NEW o, o \in Version(k)' \union {NoObject},
         UserWrite(k, o), UserOp, UNCHANGED childVars
  PROVE  TypeInv'
  <1>1. ops \in Nat /\ MayIssue /\ ops' \in 0..MaxUserOps
    BY BoundsAssumption DEF TypeInv, RuntimeOK, UserOp, MayIssue
  <1>2. /\ obj' = [obj EXCEPT ![k] = o] /\ UNCHANGED <<cache, queue, delayed, pc, key, rec, faults>>
        /\ lagging' \in {lagging, lagging \union {k}}
    BY DEF UserWrite, Store, queueVars
  <1>3. \A j \in Keys : Version(j) \subseteq Version(j)'
    BY <1>1, IssuedGrows
  <1>4. RuntimeOK'
    BY <1>1, <1>2, <1>3 DEF TypeInv, RuntimeOK
  <1>5. ChildrenOK' /\ current' \in SUBSET Children
    BY <1>1, ChildrenKept DEF TypeInv, childVars, PassOK
  <1>6. PassOK'
    BY <1>1, <1>2, <1>5, PassKept DEF TypeInv, UserOp
  <1> QED BY <1>4, <1>5, <1>6 DEF TypeInv

LEMMA UserIngressType ==
  ASSUME TypeInv, NEW k \in Keys,
         UserCreate(k) \/ UserEdit(k) \/ UserReplace(k) \/ UserDelete(k)
  PROVE  /\ TypeInv' /\ UserOp /\ UNCHANGED childVars
         /\ \E o : UserWrite(k, o)
  <1>1. UserOp /\ UNCHANGED childVars
    BY DEF UserCreate, UserEdit, UserReplace, UserDelete
  <1>2. ops \in Nat /\ ops < MaxUserOps /\ ops' = ops + 1 /\ MayIssue
    BY <1>1 DEF UserOp, TypeInv, RuntimeOK, MayIssue
  <1>3. \A s \in SpecsOf[k] : \A u \in Issued' : WithUid(s, u) \in Version(k)'
    BY DEF Version
  <1>4. NewUid(k) \in Issued'
    BY <1>2, NewUidType
  <1>5. obj[k] # NoObject => obj[k] \in Version(k)
    BY DEF TypeInv, RuntimeOK
  <1>6. Issued \subseteq Issued'
    BY <1>2, IssuedGrows
  <1>7. \E o \in Version(k)' \union {NoObject} : UserWrite(k, o)
    <2>1. CASE UserCreate(k)
      BY <2>1, <1>3, <1>4 DEF UserCreate
    <2>2. CASE UserEdit(k)
      <3>1. obj[k].uid \in Issued'
        BY <2>2, <1>5, <1>6, VersionFacts DEF UserEdit
      <3> QED BY <2>2, <3>1, <1>3 DEF UserEdit
    <2>3. CASE UserReplace(k)
      <3>1. PICK s \in SpecsOf[k] : obj[k].hosts = s.hosts /\ obj[k].address = s.address
                                    /\ obj[k].ann = s.ann
        BY <2>3, <1>5, VersionFacts DEF UserReplace
      <3>2. WithUid(obj[k], NewUid(k)) = WithUid(s, NewUid(k))
        BY <3>1 DEF WithUid
      <3> QED BY <2>3, <3>2, <1>3, <1>4 DEF UserReplace
    <2>4. CASE UserDelete(k)
      BY <2>4 DEF UserDelete
    <2> QED BY <2>1, <2>2, <2>3, <2>4
  <1> QED BY <1>1, <1>7, UserWriteType

LEMMA RuntimeKept ==
  ASSUME RuntimeOK, UNCHANGED runtimeVars, ops' \in 0..MaxUserOps, MayIssue
  PROVE  RuntimeOK'
  <1>1. \A k \in Keys : Version(k) \subseteq Version(k)'
    BY IssuedGrows, BoundsAssumption DEF RuntimeOK
  <1> QED BY <1>1 DEF RuntimeOK, runtimeVars, clusterVars, queueVars

LEMMA UserAppliesType ==
  ASSUME TypeInv, NEW c \in Children, UserApplies(c)
  PROVE  TypeInv'
  <1>1. ops \in Nat /\ MayIssue /\ ops' \in 0..MaxUserOps
    BY BoundsAssumption DEF TypeInv, RuntimeOK, UserApplies, UserOp, MayIssue
  <1> DEFINE o == IF child[c] = NoObject
                  THEN [owners |-> {}, value |-> ByHand[c[1]], deleting |-> FALSE]
                  ELSE [child[c] EXCEPT !.value = ByHand[c[1]]]
  <1>2. ByHand[c[1]] \in Values(c)
    BY DEF Values
  <1>3. o \in Held(c)
    <2>1. CASE child[c] = NoObject
      BY <2>1, <1>2 DEF Held
    <2>2. CASE child[c] # NoObject
      BY <2>2, <1>2, HeldFacts DEF TypeInv, ChildrenOK
    <2> QED BY <2>1, <2>2
  <1>4. o \in Held(c)'
    BY <1>1, <1>3, IssuedGrows
  <1>5. Write(c, o)
    BY DEF UserApplies
  <1> HIDE DEF o
  <1>6. ChildrenOK' /\ current' \in SUBSET Children
    BY <1>1, <1>4, <1>5, WriteType DEF TypeInv, PassOK
  <1>7. RuntimeOK' /\ PassOK'
    BY <1>1, <1>6, RuntimeKept, PassKept DEF UserApplies, UserOp, TypeInv, runtimeVars, workerVars
  <1> QED BY <1>6, <1>7 DEF TypeInv

LEMMA UserRemovesType ==
  ASSUME TypeInv, NEW c \in Children, UserRemoves(c)
  PROVE  TypeInv'
  <1>1. ops \in Nat /\ MayIssue /\ ops' \in 0..MaxUserOps
    BY BoundsAssumption DEF TypeInv, RuntimeOK, UserRemoves, UserOp, MayIssue
  <1>2. ChildrenOK' /\ current' \in SUBSET Children
    BY <1>1, DeleteType DEF TypeInv, PassOK, UserRemoves
  <1>3. RuntimeOK' /\ PassOK'
    BY <1>1, <1>2, RuntimeKept, PassKept DEF UserRemoves, UserOp, TypeInv, runtimeVars, workerVars
  <1> QED BY <1>2, <1>3 DEF TypeInv

(***************************************************************************)
(* What the Ingresses of a host ask for is what a child can hold.          *)
(***************************************************************************)
LEMMA AddressesType ==
  ASSUME TypeInv, NEW k \in Keys, NEW h \in Hosts, NEW c, c[1] = "record"
  PROVE  AddressesByHost(k)[h] \subseteq Values(c)
  <1>1. \A i \in Serving(NamespaceOf[k], h) : AddressFor(cache[i]) \in Addrs \union {DefaultAddress, Absent}
    <2> TAKE i \in Serving(NamespaceOf[k], h)
    <2>1. cache[i] \in Version(i) /\ i \in Keys
      BY DEF Serving, TypeInv, RuntimeOK
    <2>2. cache[i].address \in Addrs \union {Absent}
      BY <2>1, VersionFacts
    <2> QED BY <2>2 DEF AddressFor, Given
  <1>2. AddressesByHost(k)[h] = {AddressFor(cache[i]) : i \in Serving(NamespaceOf[k], h)} \ {Absent}
    BY DEF AddressesByHost
  <1> QED BY <1>1, <1>2 DEF Values

LEMMA SettingsType ==
  ASSUME TypeInv, NEW tls, NEW h \in Hosts, NEW c, c[1] = "webapp", c[3] = h
  PROVE  WebAppSpecsByHost(tls)[h] \subseteq Values(c)
  <1>1. \A i \in Serving(NamespaceOf[key], h) :
          WebAppSpec(cache[i].ann, h, h \in tls) \in SettingsFor(h) \union {NoSpec}
    <2> TAKE i \in Serving(NamespaceOf[key], h)
    <2>1. cache[i] \in Version(i) /\ i \in Keys /\ h \in cache[i].hosts
      BY DEF Serving, TypeInv, RuntimeOK
    <2>2. PICK s \in SpecsOf[i] : cache[i].hosts = s.hosts /\ cache[i].ann = s.ann
      BY <2>1, VersionFacts
    <2>3. s \in {r \in UNION {SpecsOf[j] : j \in Keys} : h \in r.hosts}
      BY <2>1, <2>2
    <2>4. PICK b \in BOOLEAN : b = (h \in tls)
      <3>1. (h \in tls) \in BOOLEAN
        OBVIOUS
      <3> HIDE DEF SettingsFor
      <3> QED BY <3>1, Zenon
    <2>5. WebAppSpec(s.ann, h, b) \in SettingsFor(h) \union {NoSpec}
      BY <2>3 DEF SettingsFor
    <2> QED BY <2>2, <2>4, <2>5
  <1>2. WebAppSpecsByHost(tls)[h] =
          {WebAppSpec(cache[i].ann, h, h \in tls) :
             i \in {j \in Serving(NamespaceOf[key], h) : Publishes(cache[j].ann)}} \ {NoSpec}
    BY DEF WebAppSpecsByHost
  <1> QED BY <1>1, <1>2 DEF Values

LEMMA ChosenValue ==
  ASSUME TypeInv, pc # "idle", NEW h \in Hosts, Settled(h)
  PROVE  (CHOOSE v \in agreed[h] : TRUE) \in Values(Mine(h))
  <1>1. agreed[h] # {}
    BY FS_EmptySet DEF Settled
  <1>2. agreed[h] \subseteq Values(Mine(h))
    BY DEF TypeInv, PassOK, Busy
  <1> QED BY <1>1, <1>2

LEMMA HeldIsThere ==
  ASSUME TypeInv, NEW c \in Children
  PROVE  NoObject \notin Held(c)
  <1>1. Issued \subseteq Uid
    BY BoundsAssumption DEF TypeInv, RuntimeOK, Issued, Uid
  <1>2. Held(c) \subseteq Child(c)
    BY <1>1 DEF Held, Child, Partners
  <1> QED BY <1>2, NoObjectAssumption

LEMMA DesiredType ==
  ASSUME TypeInv, pc # "idle", NEW h \in Hosts,
         Settled(h) \/ childCache[Mine(h)] # NoObject
  PROVE  /\ Desired(h) \in Held(Mine(h)) /\ Desired(h) # NoObject
         /\ Ref(key, rec) \in Desired(h).owners
  <1> DEFINE c == Mine(h)
             cur == childCache[c]
             v == CHOOSE w \in agreed[h] : TRUE
  <1>1. /\ key \in Keys /\ rec \in Version(key) /\ c \in Children
        /\ c[2] = NamespaceOf[key]
    BY MineFacts
  <1>2. Ref(key, rec) \in Partners(c)
    BY <1>1, VersionFacts DEF Ref, Partners
  <1>3. Settled(h) => v \in Values(c)
    BY ChosenValue
  <1>4. cur \in Held(c) \union {NoObject}
    BY <1>1 DEF TypeInv, ChildrenOK
  <1> HIDE DEF v, c
  <1>5. Desired(h) \in Held(c) /\ Ref(key, rec) \in Desired(h).owners
    <2>1. CASE cur = NoObject
      <3>1. Desired(h) = [owners |-> {Ref(key, rec)}, deleting |-> FALSE, value |-> v]
        BY <2>1 DEF Desired, c, v
      <3>2. v \in Values(c)
        BY <2>1, <1>3 DEF c
      <3> QED BY <3>1, <3>2, <1>2 DEF Held
    <2>2. CASE cur # NoObject
      <3> DEFINE owners == AddOwner(cur.owners, key, rec)
                 value == IF Settled(h) THEN v ELSE cur.value
      <3>1. cur \in Held(c)
        BY <2>2, <1>4
      <3>2. owners \in SUBSET Partners(c) /\ Ref(key, rec) \in owners
        BY <3>1, <1>2, HeldFacts DEF AddOwner
      <3>3. value \in Values(c)
        BY <3>1, <1>3, HeldFacts
      <3>4. Desired(h) = [cur EXCEPT !.owners = owners, !.value = value]
        BY <2>2 DEF Desired, c, v
      <3> HIDE DEF owners, value
      <3>5. Desired(h) = [owners |-> owners, value |-> value, deleting |-> cur.deleting]
        BY <3>1, <3>4 DEF Held
      <3> QED BY <3>1, <3>2, <3>3, <3>5, HeldFacts DEF Held
    <2> QED BY <2>1, <2>2
  <1> QED BY <1>1, <1>5, HeldIsThere DEF c

(***************************************************************************)
(* The worker.                                                             *)
(***************************************************************************)
LEMMA ReconcileType ==
  ASSUME TypeInv, NEW k \in Keys, Reconcile(k)
  PROVE  TypeInv'
  <1>1. /\ pc = "idle" /\ key = NoKey /\ rec = NoObject /\ Nothing
        /\ queue' = queue \ {k} /\ UNCHANGED <<clusterVars, delayed, faults>>
        /\ UNCHANGED <<child, childCache, childLagging, wake, pass, listed, deferred, ops>>
        /\ current' = {}
    BY NoKeyAssumption DEF Reconcile, Take, TypeInv, PassOK, Busy
  <1>2. MayIssue /\ ops \in Nat /\ Issued' = Issued
    BY <1>1 DEF MayIssue, TypeInv, RuntimeOK, Issued
  <1>3. RuntimeOK'
    BY <1>1, <1>2 DEF TypeInv, RuntimeOK, clusterVars, Version
  <1>4. ChildrenOK'
    BY <1>1, <1>2, ChildrenKept DEF TypeInv
  <1>5. PassOK'
    <2>1. CASE cache[k] = NoObject
      BY <2>1, <1>1 DEF Reconcile, Take, workerVars, PassOK, TypeInv, Nothing
    <2>2. CASE cache[k] # NoObject
      <3>1. /\ pc' = "ensure" /\ key' = k /\ rec' = cache[k] /\ keep' = cache[k].hosts
            /\ todo' = keep' /\ agreed' = AddressesByHost(k)
        BY <2>2 DEF Reconcile, Take
      <3>2. cache[k] \in Version(k) /\ cache[k].hosts \in SUBSET Hosts
        BY <2>2, VersionFacts DEF TypeInv, RuntimeOK
      <3>3. rec' \in Version(key)'
        BY <3>1, <3>2, <1>2 DEF Version
      <3>4. pass' = "record" /\ listed' = NoHost
        BY <1>1 DEF Nothing
      <3>5. \A h \in Hosts : agreed'[h] \subseteq Values(Mine(h))'
        BY <3>1, <3>4, AddressesType DEF Mine
      <3>6. \A h \in Hosts : listed'[h] = NoObject
        BY <3>4 DEF NoHost
      <3>7. Busy'
        BY <3>1, <3>3, <3>4, <3>5, <3>6 DEF Busy, Kinds
      <3> QED BY <3>1, <3>2, <3>4, <3>7, <1>1 DEF PassOK, NoHost
    <2> QED BY <2>1, <2>2
  <1> QED BY <1>3, <1>4, <1>5 DEF TypeInv

\* A step of the worker that keeps its Ingress and its copy of it.
LEMMA WorkerKept ==
  ASSUME TypeInv, pc # "idle", UNCHANGED runtimeVars, UNCHANGED ops
  PROVE  /\ RuntimeOK' /\ pc' # "idle" /\ key' = key /\ rec' \in Version(key)'
         /\ \A c : Held(c)' = Held(c)
  <1>1. ops \in 0..MaxUserOps /\ MayIssue /\ Issued' = Issued
    BY DEF TypeInv, RuntimeOK, MayIssue, Issued
  <1>2. RuntimeOK'
    BY <1>1, RuntimeKept DEF TypeInv
  <1> QED BY <1>1, <1>2, MineFacts DEF runtimeVars, workerVars, Version, Held, Partners,
                                      TypeInv, PassOK, Busy

LEMMA NextHostType ==
  ASSUME TypeInv, pc = "ensure", NEW h \in Hosts, NextHost(h), UNCHANGED runtimeVars,
         UNCHANGED ops, ChildrenOK', current' \in SUBSET Children
  PROVE  TypeInv'
  <1>1. RuntimeOK' /\ key' = key /\ rec' \in Version(key)' /\ \A c : Held(c)' = Held(c)
    BY WorkerKept
  <1>2. Busy
    BY DEF TypeInv, PassOK
  <1>3. UNCHANGED <<pc, pass, agreed, listed, keep>> /\ todo' = todo \ {h}
    BY DEF NextHost, runtimeVars, workerVars
  <1>4. \A g \in Hosts : Mine(g)' = Mine(g)
    BY <1>1, <1>3 DEF Mine
  <1>5. Busy'
    BY <1>1, <1>2, <1>3, <1>4 DEF Busy
  <1> QED BY <1>1, <1>3, <1>5 DEF TypeInv, PassOK

LEMMA PostponeType ==
  ASSUME TypeInv, NEW h \in Hosts, Postpone(h)
  PROVE  TypeInv'
  <1>1. ChildrenOK' /\ current' \in SUBSET Children
    BY ChildrenKept DEF Postpone, TypeInv, PassOK, childVars, RuntimeOK, MayIssue
  <1> QED BY <1>1, NextHostType DEF Postpone

LEMMA CreateOrUpdateType ==
  ASSUME TypeInv, NEW h \in Hosts, CreateOrUpdate(h)
  PROVE  TypeInv'
  <1>c. PICK c \in Children : c = Mine(h)
    BY MineFacts DEF CreateOrUpdate
  <1>1. /\ pc = "ensure" /\ pc # "idle" /\ UNCHANGED ops
        /\ Settled(h) \/ childCache[Mine(h)] # NoObject
    BY DEF CreateOrUpdate
  <1>2. ops \in Nat /\ MayIssue /\ current \in SUBSET Children /\ faults \in 0..MaxFaults
    BY <1>1 DEF TypeInv, RuntimeOK, PassOK, MayIssue
  <1>3. Desired(h) \in Held(c)'
    BY <1>1, <1>2, <1>c, DesiredType, IssuedGrows
  <1>o. PICK o \in Held(c)' : o = Desired(h)
    BY <1>3
  <1>4. UNCHANGED childVars \/ Write(c, o)
    BY <1>c, <1>o DEF CreateOrUpdate, Request, childVars
  <1>5. ChildrenOK' /\ current' \in SUBSET Children
    <2>1. CASE UNCHANGED childVars
      BY <2>1, <1>2, ChildrenKept DEF TypeInv, childVars
    <2>2. CASE Write(c, o)
      BY <2>2, <1>2, WriteType DEF TypeInv
    <2> QED BY <1>4, <2>1, <2>2
  <1>6. \/ NextHost(h) /\ UNCHANGED runtimeVars
        \/ Return(TRUE) /\ Forget /\ UNCHANGED clusterVars /\ (Fault \/ UNCHANGED faults)
    BY DEF CreateOrUpdate, Request, Abort
  <1>7. Fault => faults' \in 0..MaxFaults
    BY <1>2, MaxFaultsAssumption DEF Fault
  <1> QED BY <1>1, <1>2, <1>5, <1>6, <1>7, NextHostType, AbortType

LEMMA ListOwnedType ==
  ASSUME TypeInv, ListOwned
  PROVE  TypeInv'
  <1>1. /\ pc = "ensure" /\ pc # "idle" /\ pc' = "release" /\ listed' = Unwanted
        /\ UNCHANGED <<clusterVars, queueVars, key, rec, faults, ops>>
        /\ UNCHANGED <<child, childCache, childLagging, wake, pass, keep, todo, deferred>>
        /\ agreed' = NoValue
    BY DEF ListOwned, Goto
  <1>2. ops \in Nat /\ MayIssue /\ Issued' = Issued /\ ops \in 0..MaxUserOps
    BY <1>1 DEF TypeInv, RuntimeOK, MayIssue, Issued
  <1>3. RuntimeOK'
    BY <1>1, <1>2 DEF TypeInv, RuntimeOK, clusterVars, queueVars, Version
  <1>4. ChildrenOK'
    BY <1>1, <1>2, ChildrenKept DEF TypeInv
  <1>5. \A h \in Hosts : Mine(h) \in Children /\ Mine(h)' = Mine(h)
    BY <1>1, MineFacts DEF Mine
  <1>6. current' \in SUBSET Children
    <2>1. current' = {Mine(h) : h \in {g \in Hosts : listed'[g] # NoObject}} \ childLagging
      BY DEF ListOwned
    <2> QED BY <2>1, <1>5
  <1>7. \A h \in Hosts : listed'[h] \in Held(Mine(h)) \union {NoObject}
    BY <1>1, <1>5 DEF Unwanted, TypeInv, ChildrenOK
  <1>8. \A c : Held(c)' = Held(c)
    BY <1>2 DEF Held, Partners
  <1>9. rec' \in Version(key)'
    BY <1>1, <1>2, BusyFacts DEF Version
  <1>10. Busy'
    BY <1>1, <1>5, <1>7, <1>8, <1>9, BusyFacts DEF Busy, NoValue
  <1> QED BY <1>1, <1>3, <1>4, <1>6, <1>10 DEF TypeInv, PassOK, Unwanted

LEMMA ReleasedType ==
  ASSUME TypeInv, pc = "release", NEW h \in Hosts, Released(h), UNCHANGED ops,
         ChildrenOK', current' \in SUBSET Children
  PROVE  TypeInv'
  <1>1. RuntimeOK' /\ key' = key /\ rec' \in Version(key)' /\ \A c : Held(c)' = Held(c)
    BY WorkerKept DEF Released
  <1>2. Busy /\ DOMAIN listed = Hosts
    BY DEF TypeInv, PassOK
  <1>3. UNCHANGED <<pc, pass, agreed, keep, todo>> /\ listed' = [listed EXCEPT ![h] = NoObject]
    BY DEF Released, runtimeVars, workerVars
  <1>4. \A g \in Hosts : Mine(g)' = Mine(g)
    BY <1>1, <1>3 DEF Mine
  <1>5. Busy'
    BY <1>1, <1>2, <1>3, <1>4 DEF Busy
  <1> QED BY <1>1, <1>2, <1>3, <1>5 DEF TypeInv, PassOK

LEMMA ReleaseType ==
  ASSUME TypeInv, NEW h \in Hosts, Release(h)
  PROVE  TypeInv'
  <1>c. PICK c \in Children : c = Mine(h)
    BY MineFacts DEF Release
  <1> DEFINE others == RemoveOwner(listed[h].owners, key)
  <1>1. /\ pc = "release" /\ pc # "idle" /\ UNCHANGED ops /\ UNCHANGED clusterVars
        /\ listed[h] # NoObject
    BY DEF Release
  <1>2. ops \in Nat /\ MayIssue /\ current \in SUBSET Children /\ faults \in 0..MaxFaults
    BY <1>1 DEF TypeInv, RuntimeOK, PassOK, MayIssue
  <1>3. listed[h] \in Held(c)
    BY <1>1, <1>c DEF TypeInv, PassOK, Busy
  <1>4. [listed[h] EXCEPT !.owners = others] \in Held(c)
    BY <1>3, HeldFacts DEF RemoveOwner
  <1>o. PICK o \in Held(c)' : o = [listed[h] EXCEPT !.owners = others]
    BY <1>2, <1>4, IssuedGrows
  <1>5. UNCHANGED childVars \/ Delete(c) \/ Write(c, o)
    BY <1>c, <1>o DEF Release, Request
  <1>6. ChildrenOK' /\ current' \in SUBSET Children
    <2>1. CASE UNCHANGED childVars
      BY <2>1, <1>2, ChildrenKept DEF TypeInv, childVars
    <2>2. CASE Delete(c)
      BY <2>2, <1>2, DeleteType DEF TypeInv
    <2>3. CASE Write(c, o)
      BY <2>3, <1>2, WriteType DEF TypeInv
    <2> QED BY <1>5, <2>1, <2>2, <2>3
  <1>7. \/ Released(h)
        \/ Return(TRUE) /\ Forget /\ UNCHANGED clusterVars /\ (Fault \/ UNCHANGED faults)
    BY DEF Release, Request, Abort
  <1>8. Fault => faults' \in 0..MaxFaults
    BY <1>2, MaxFaultsAssumption DEF Fault
  <1> QED BY <1>1, <1>2, <1>6, <1>7, <1>8, ReleasedType, AbortType

LEMMA ReconcileWebAppsType ==
  ASSUME TypeInv, ReconcileWebApps
  PROVE  TypeInv'
  <1>1. /\ pc # "idle" /\ pc' = "ensure" /\ pass' = "webapp"
        /\ UNCHANGED <<clusterVars, queueVars, key, rec, faults, ops>>
        /\ UNCHANGED <<child, childCache, childLagging, wake, listed, deferred>>
        /\ agreed' = WebAppSpecsByHost(HostsRequiringTLS) /\ current' = {}
        /\ keep' \in SUBSET rec.hosts /\ todo' = keep' /\ LoopsDone
    BY DEF ReconcileWebApps, Goto, LoopsDone
  <1>2. ops \in Nat /\ MayIssue /\ Issued' = Issued /\ ops \in 0..MaxUserOps
    BY <1>1 DEF TypeInv, RuntimeOK, MayIssue, Issued
  <1>3. RuntimeOK'
    BY <1>1, <1>2 DEF TypeInv, RuntimeOK, clusterVars, queueVars, Version
  <1>4. ChildrenOK'
    BY <1>1, <1>2, ChildrenKept DEF TypeInv
  <1>5. rec.hosts \in SUBSET Hosts
    BY <1>1, BusyFacts, VersionFacts
  <1>6. \A h \in Hosts : agreed'[h] \subseteq Values(Mine(h))'
    BY <1>1, SettingsType DEF Mine
  <1>7. rec' \in Version(key)'
    BY <1>1, <1>2, BusyFacts DEF Version
  <1>8. listed' = NoHost
    BY <1>1, BusyFacts DEF LoopsDone, Busy
  <1>9. Busy'
    BY <1>1, <1>6, <1>7, <1>8, BusyFacts DEF Busy, Kinds, NoHost
  <1> QED BY <1>1, <1>3, <1>4, <1>5, <1>9 DEF TypeInv, PassOK

LEMMA FinishType ==
  ASSUME TypeInv, Finish
  PROVE  TypeInv'
  <1>1. /\ pc # "idle" /\ UNCHANGED <<clusterVars, faults, ops>> /\ current' = {}
        /\ UNCHANGED <<child, childCache, childLagging, wake>> /\ Forget /\ Return(deferred)
    BY DEF Finish, LoopsDone
  <1>2. MayIssue /\ ops \in Nat /\ Issued' = Issued
    BY <1>1 DEF MayIssue, TypeInv, RuntimeOK, Issued
  <1>3. RuntimeOK'
    BY <1>1, <1>2, BusyFacts DEF TypeInv, RuntimeOK, clusterVars, Version, Return
  <1>4. ChildrenOK'
    BY <1>1, <1>2, ChildrenKept DEF TypeInv
  <1>5. PassOK'
    BY <1>1 DEF PassOK, Return, Forget, Nothing, NoHost
  <1> QED BY <1>3, <1>4, <1>5 DEF TypeInv

(***************************************************************************)
(* The rest of the cluster.                                                *)
(***************************************************************************)
LEMMA RuntimeStepType ==
  ASSUME TypeInv, NEW k \in Keys, Watch(k) \/ Timer(k)
  PROVE  TypeInv'
  <1>1. /\ UNCHANGED <<obj, pc, key, rec, faults, ops>> /\ UNCHANGED childVars
        /\ UNCHANGED passVars /\ queue' = queue \union {k}
        /\ delayed' \in SUBSET delayed /\ lagging' \in SUBSET lagging
        /\ cache' = cache \/ cache' = [cache EXCEPT ![k] = obj[k]]
    BY DEF Watch, Timer, CacheSync, Requeue, workerVars, clusterVars
  <1>2. MayIssue /\ ops \in Nat /\ Issued' = Issued
    BY <1>1 DEF MayIssue, TypeInv, RuntimeOK, Issued
  <1>3. RuntimeOK'
    BY <1>1, <1>2 DEF TypeInv, RuntimeOK, Version
  <1>4. ChildrenOK' /\ current' \in SUBSET Children
    BY <1>1, <1>2, ChildrenKept DEF TypeInv, childVars, PassOK
  <1>5. PassOK'
    BY <1>1, <1>2, <1>4, PassKept DEF TypeInv
  <1> QED BY <1>3, <1>4, <1>5 DEF TypeInv

LEMMA WatchChildType ==
  ASSUME TypeInv, NEW c \in Children, WatchChild(c)
  PROVE  TypeInv'
  <1>1. /\ UNCHANGED <<clusterVars, delayed, pc, key, rec, faults, ops, child, current>>
        /\ UNCHANGED passVars /\ queue' = queue \union wake[c]
        /\ childCache' = [childCache EXCEPT ![c] = child[c]]
        /\ childLagging' = childLagging \ {c} /\ wake' = [wake EXCEPT ![c] = {}]
    BY DEF WatchChild, workerVars
  <1>2. MayIssue /\ ops \in Nat /\ Issued' = Issued /\ \A d : Held(d)' = Held(d)
    BY <1>1 DEF MayIssue, TypeInv, RuntimeOK, Issued, Held, Partners
  <1>3. RuntimeOK'
    BY <1>1, <1>2 DEF TypeInv, RuntimeOK, ChildrenOK, Version, clusterVars
  <1>4. ChildrenOK' /\ current' \in SUBSET Children
    BY <1>1, <1>2 DEF TypeInv, ChildrenOK, PassOK
  <1>5. PassOK'
    BY <1>1, <1>2, <1>4, PassKept DEF TypeInv
  <1> QED BY <1>3, <1>4, <1>5 DEF TypeInv

LEMMA ChildStepType ==
  ASSUME TypeInv, NEW c \in Children, GarbageCollect(c) \/ FinalizerRemoved(c)
  PROVE  TypeInv'
  <1>1. UNCHANGED <<runtimeVars, passVars, ops>> /\ child[c] # NoObject
    BY DEF GarbageCollect, FinalizerRemoved
  <1>2. MayIssue /\ ops \in Nat /\ ops' \in 0..MaxUserOps
    BY <1>1 DEF MayIssue, TypeInv, RuntimeOK
  <1>3. child[c] \in Held(c)
    BY <1>1 DEF TypeInv, ChildrenOK
  <1>4. \A s : [child[c] EXCEPT !.owners = @ \ s] \in Held(c)'
    BY <1>2, <1>3, HeldFacts, IssuedGrows
  <1>5. Delete(c) \/ \E o \in Held(c)' \union {NoObject} : Write(c, o)
    BY <1>4 DEF GarbageCollect, FinalizerRemoved
  <1>6. ChildrenOK' /\ current' \in SUBSET Children
    BY <1>2, <1>5, DeleteType, WriteType DEF TypeInv, PassOK
  <1>7. RuntimeOK' /\ PassOK'
    BY <1>1, <1>2, <1>6, RuntimeKept, PassKept DEF TypeInv, runtimeVars, workerVars
  <1> QED BY <1>6, <1>7 DEF TypeInv

LEMMA CrashType ==
  ASSUME TypeInv, Crash
  PROVE  TypeInv'
  <1>1. /\ cache' = obj /\ lagging' = {} /\ delayed' = {} /\ UNCHANGED <<obj, ops, child>>
        /\ queue' = {k \in Keys : obj[k] # NoObject} /\ Fault
        /\ pc' = "idle" /\ key' = NoKey /\ rec' = NoObject /\ Forget
        /\ childCache' = child /\ childLagging' = {} /\ wake' = [c \in Children |-> {}]
        /\ current' = {}
    BY DEF Crash, Restart
  <1>2. Issued' = Issued /\ (\A d : Held(d)' = Held(d)) /\ (\A k : Version(k)' = Version(k))
    BY <1>1 DEF Issued, Held, Partners, Version
  <1>3. RuntimeOK'
    BY <1>1, <1>2, MaxFaultsAssumption DEF TypeInv, RuntimeOK, Fault
  <1>4. ChildrenOK'
    BY <1>1, <1>2 DEF TypeInv, ChildrenOK
  <1>5. PassOK'
    BY <1>1 DEF PassOK, Forget, Nothing, NoHost
  <1> QED BY <1>3, <1>4, <1>5 DEF TypeInv

LEMMA InitType ==
  ASSUME Init
  PROVE  TypeInv
  <1>1. /\ ops = 0 /\ faults = 0 /\ cache = obj /\ lagging = {} /\ delayed = {}
        /\ queue = {k \in Keys : obj[k] # NoObject} /\ DOMAIN obj = Keys
        /\ \E start \in StartsWith : obj = [k \in Keys |-> First(start[k])]
        /\ pc = "idle" /\ key = NoKey /\ rec = NoObject /\ Nothing /\ current = {}
        /\ child = [c \in Children |-> NoObject] /\ childCache = child
        /\ childLagging = {} /\ wake = [c \in Children |-> {}]
    BY DEF Init
  <1>2. 1 \in Issued
    BY <1>1 DEF Issued
  <1>3. \A k \in Keys : obj[k] \in Version(k) \union {NoObject}
    <2>1. PICK start \in StartsWith : obj = [k \in Keys |-> First(start[k])]
      BY <1>1
    <2>2. \A k \in Keys : start[k] \in SpecsOf[k] \union {NoObject}
      BY StartsAssumption
    <2> QED BY <1>2, <2>1, <2>2 DEF First, Version
  <1>4. RuntimeOK
    BY <1>1, <1>3, MaxFaultsAssumption, BoundsAssumption DEF RuntimeOK
  <1>5. ChildrenOK
    BY <1>1 DEF ChildrenOK
  <1>6. PassOK
    BY <1>1 DEF PassOK, Nothing, NoHost
  <1> QED BY <1>4, <1>5, <1>6 DEF TypeInv

LEMMA StutterType ==
  ASSUME TypeInv, UNCHANGED vars
  PROVE  TypeInv'
  <1>1. /\ UNCHANGED runtimeVars /\ UNCHANGED <<childVars, passVars, ops>>
        /\ UNCHANGED <<pc, key, rec>>
    BY DEF vars, runtimeVars, workerVars
  <1>2. MayIssue /\ ops \in Nat /\ ops' \in 0..MaxUserOps
    BY <1>1 DEF MayIssue, TypeInv, RuntimeOK
  <1>3. ChildrenOK' /\ current' \in SUBSET Children
    BY <1>1, <1>2, ChildrenKept DEF TypeInv, childVars, PassOK
  <1>4. RuntimeOK' /\ PassOK'
    BY <1>1, <1>2, <1>3, RuntimeKept, PassKept DEF TypeInv
  <1> QED BY <1>3, <1>4 DEF TypeInv

LEMMA StepType ==
  ASSUME TypeInv, [Next]_vars
  PROVE  TypeInv'
  <1>1. ASSUME NEW k \in Keys, Reconcile(k) \/ Watch(k) \/ Timer(k)
        PROVE  TypeInv'
    BY <1>1, ReconcileType, RuntimeStepType
  <1>2. ASSUME NEW k \in Keys, UserCreate(k) \/ UserEdit(k) \/ UserReplace(k) \/ UserDelete(k)
        PROVE  TypeInv'
    BY <1>2, UserIngressType
  <1>3. ASSUME NEW c \in Children, WatchChild(c) \/ GarbageCollect(c) \/ FinalizerRemoved(c)
                                  \/ UserApplies(c) \/ UserRemoves(c)
        PROVE  TypeInv'
    BY <1>3, WatchChildType, ChildStepType, UserAppliesType, UserRemovesType
  <1>4. CASE Worker
    BY <1>4, PostponeType, CreateOrUpdateType, ReleaseType, ListOwnedType,
       ReconcileWebAppsType, FinishType DEF Worker
  <1> QED BY <1>1, <1>2, <1>3, <1>4, CrashType, StutterType DEF Next

LEMMA TypesAreKept == Spec => []TypeInv
  BY InitType, StepType, PTL DEF Spec

LEMMA TypeInvImplies == TypeInv => TypeOK
  <1> SUFFICES ASSUME TypeInv PROVE TypeOK
    OBVIOUS
  <1>1. Issued \subseteq Uid
    BY BoundsAssumption DEF TypeInv, RuntimeOK, Issued, Uid
  <1>2. \A k \in Keys : Version(k) \subseteq Ingress(k)
    BY <1>1 DEF Version, Ingress
  <1>3. \A c \in Children : Held(c) \subseteq Child(c)
    BY <1>1 DEF Held, Child, Partners
  <1>4. \A c \in Children : /\ child[c] \in Child(c) \union {NoObject}
                            /\ c \notin childLagging => childCache[c] = child[c]
                            /\ wake[c] \subseteq Keys /\ (wake[c] # {} => c \in childLagging)
    BY <1>3 DEF TypeInv, ChildrenOK
  <1>5. IF pc = "idle" THEN key = NoKey /\ rec = NoObject /\ Nothing
        ELSE key \in Keys /\ rec \in Ingress(key) /\ pass \in Kinds
    BY <1>2 DEF TypeInv, PassOK, Busy
  <1>6. pc \in {"idle", "ensure", "release"}
    BY DEF TypeInv, PassOK, Busy
  <1>7. \A k \in Keys : {obj[k], cache[k]} \subseteq Ingress(k) \union {NoObject}
    BY <1>2 DEF TypeInv, RuntimeOK
  <1>8. /\ lagging \in SUBSET Keys /\ queue \in SUBSET Keys /\ delayed \in SUBSET Keys
        /\ faults \in 0..MaxFaults /\ ops \in 0..MaxUserOps
        /\ DOMAIN child = Children /\ childLagging \subseteq Children
        /\ keep \in SUBSET Hosts /\ todo \subseteq keep /\ current \in SUBSET Children
    BY DEF TypeInv, RuntimeOK, ChildrenOK, PassOK
  <1> QED BY <1>4, <1>5, <1>6, <1>7, <1>8 DEF TypeOK

(***************************************************************************)
(* Every variable keeps its type, whatever the Ingresses ask for: a child  *)
(* holds what a user wrote, an address that some Ingress asks for, or the  *)
(* settings that some Ingress of its host asks for, and between two        *)
(* reconciles the worker keeps nothing of what it had listed.              *)
(***************************************************************************)
THEOREM TypeCorrect == Spec => []TypeOK
  BY TypesAreKept, TypeInvImplies, PTL

-----------------------------------------------------------------------------
(***************************************************************************)
(* What is published.  A child's settings are those of some Ingress that   *)
(* serves its host, so that it is enough to look at what one of them gives. *)
(* The premise is what makes the name come out right: no annotation calls  *)
(* the entry anything but the first label of the host, and every host has  *)
(* a zone to be published in.                                              *)
(***************************************************************************)
NamedByHost ==
    /\ \A k \in Keys : \A s \in SpecsOf[k] : \A h \in s.hosts :
          s.ann.name \in {Absent, LabelOf[h]}
    /\ \A h \in Hosts : ZoneOf[h] \notin BadZones \union {Absent}

LEMMA SpecFacts ==
  ASSUME NEW ann, NEW h, NEW tls \in BOOLEAN, NEW v, v = WebAppSpec(ann, h, tls), v # NoSpec
  PROVE  /\ v.name = Given(ann.name, LabelOf[h]) /\ v.domain = h /\ v.ndns = InKeenDNSZone(h)
         /\ v.name \notin BadNames /\ v.address \notin BadUpstreams \union {Absent}
         /\ v.port \in Ports /\ v.scheme \in Schemes /\ v.level \in Levels
  BY DEF WebAppSpec

LEMMA SettingsServe ==
  ASSUME NamedByHost, NEW h \in Hosts, NEW v \in SettingsFor(h)
  PROVE  ValidProxy(v) /\ ServedName(v) = <<LabelOf[h], ZoneOf[h]>>
  <1>1. PICK s \in UNION {SpecsOf[k] : k \in Keys}, tls \in BOOLEAN :
               h \in s.hosts /\ v = WebAppSpec(s.ann, h, tls) /\ v # NoSpec
    BY DEF SettingsFor
  <1>2. /\ v.name = Given(s.ann.name, LabelOf[h]) /\ v.domain = h /\ v.ndns = InKeenDNSZone(h)
        /\ v.name \notin BadNames /\ v.address \notin BadUpstreams \union {Absent}
        /\ v.port \in Ports /\ v.scheme \in Schemes /\ v.level \in Levels
    BY <1>1, SpecFacts
  <1>3. v.name = LabelOf[h]
    BY <1>1, <1>2 DEF NamedByHost, Given
  <1>4. ZoneOf[h] \notin BadZones \union {Absent}
    BY DEF NamedByHost
  <1>5. CASE InKeenDNSZone(h)
    BY <1>2, <1>3, <1>5 DEF ValidProxy, ServedName, InKeenDNSZone
  <1>6. CASE ~InKeenDNSZone(h)
    <2>1. ZoneOf[h] # KeenDNSZone
      BY <1>4, <1>6 DEF InKeenDNSZone
    <2> QED BY <1>2, <1>3, <1>4, <1>6, <2>1 DEF ValidProxy, ServedName
  <1> QED BY <1>5, <1>6

(***************************************************************************)
(* Where no annotation names the entry, whatever else the Ingresses ask    *)
(* for and however users edit the children meanwhile: every publication    *)
(* that this controller has derived passes the other one's validation, and *)
(* the router makes the very host of the Ingress of it.                    *)
(***************************************************************************)
THEOREM HostsAreServed == ASSUME NamedByHost PROVE Spec => []PublishedAsAsked
  <1>1. TypeInv => PublishedAsAsked
    <2> SUFFICES ASSUME TypeInv, NEW c \in Children, Derived(c)
                 PROVE  /\ ValidProxy(child[c].value)
                        /\ ServedName(child[c].value) = <<LabelOf[c[3]], ZoneOf[c[3]]>>
      BY DEF PublishedAsAsked
    <2>1. child[c] \in Held(c)
      BY DEF Derived, TypeInv, ChildrenOK
    <2>2. child[c].value \in Values(c) /\ c[3] \in Hosts
      BY <2>1, HeldFacts DEF Children
    <2>3. child[c].value \in SettingsFor(c[3])
      BY <2>2 DEF Values, Derived
    <2> QED BY <2>2, <2>3, SettingsServe
  <1> QED BY <1>1, TypesAreKept, PTL

-----------------------------------------------------------------------------
(***************************************************************************)
(* Ownership.  Whether an Ingress wants a publication must not hang on the *)
(* tls sections of others, whose changes do not wake it: the premise is    *)
(* that the operator's own defaults are settings it accepts.               *)
(***************************************************************************)
ValidDefaults == DefaultScheme \in Schemes \union {Absent} /\ DefaultPort \in Ports \union {0}

Wants(kind, o) ==
    {h \in o.hosts : kind = "webapp" => Publishes(o.ann) /\ WebAppSpec(o.ann, h, FALSE) # NoSpec}

LEMMA PortsAndSchemes ==
  ASSUME ValidDefaults, NEW ann
  PROVE  /\ UpstreamPort(ann, TRUE) \in Ports <=> UpstreamPort(ann, FALSE) \in Ports
         /\ UpstreamScheme(ann, TRUE) \in Schemes <=> UpstreamScheme(ann, FALSE) \in Schemes
  <1>1. 80 \in Ports /\ 443 \in Ports
    <2>1. PICK n \in Nat : n = 65535
      OBVIOUS
    <2>2. Ports = 1..n
      BY <2>1 DEF Ports
    <2> QED BY <2>1, <2>2
  <1>2. UpstreamPort(ann, TRUE) \in Ports <=> UpstreamPort(ann, FALSE) \in Ports
    BY <1>1 DEF ValidDefaults, UpstreamPort, Given, Redirected
  <1>3. UpstreamScheme(ann, TRUE) \in Schemes <=> UpstreamScheme(ann, FALSE) \in Schemes
    BY DEF ValidDefaults, UpstreamScheme, Given, Redirected, Schemes
  <1> QED BY <1>2, <1>3

LEMMA TLSDecidesNothing ==
  ASSUME ValidDefaults, NEW k \in Keys, NEW s \in SpecsOf[k], NEW h \in s.hosts,
         NEW tls \in BOOLEAN
  PROVE  WebAppSpec(s.ann, h, tls) # NoSpec <=> WebAppSpec(s.ann, h, FALSE) # NoSpec
  <1> DEFINE name == Given(s.ann.name, LabelOf[h])
             address == Given(s.ann.upstream, DefaultUpstream)
             level == Given(s.ann.level, Given(DefaultLevel, "public"))
             Accepted(t) == /\ name \notin BadNames
                            /\ address \notin BadUpstreams \union {Absent}
                            /\ UpstreamPort(s.ann, t) \in Ports
                            /\ UpstreamScheme(s.ann, t) \in Schemes /\ level \in Levels
                            /\ s.ann.auth # Typo
  <1>1. ASSUME NEW t \in BOOLEAN PROVE WebAppSpec(s.ann, h, t) # NoSpec <=> Accepted(t)
    <2> DEFINE spec == [name |-> name, domain |-> h, ndns |-> InKeenDNSZone(h),
                        address |-> address, port |-> UpstreamPort(s.ann, t),
                        scheme |-> UpstreamScheme(s.ann, t), level |-> level,
                        auth |-> s.ann.auth = "true"]
    <2>1. WebAppSpec(s.ann, h, t) = IF Accepted(t) THEN spec ELSE NoSpec
      BY DEF WebAppSpec
    <2>2. InKeenDNSZone(h) \in BOOLEAN /\ (s.ann.auth = "true") \in BOOLEAN
      BY DEF InKeenDNSZone
    <2>3. ASSUME Accepted(t) PROVE spec # NoSpec
      <3> DEFINE auth == s.ann.auth = "true"
                 ndns == InKeenDNSZone(h)
                 port == UpstreamPort(s.ann, t)
                 scheme == UpstreamScheme(s.ann, t)
      <3>1. /\ port \in Ports /\ scheme \in Schemes /\ level \in Levels
            /\ auth \in BOOLEAN /\ ndns \in BOOLEAN
        BY <2>2, <2>3
      <3>2. NoSpec \notin [name : {name}, domain : {h}, ndns : BOOLEAN, address : {address},
                          port : Ports, scheme : Schemes, level : Levels, auth : BOOLEAN]
        BY NoSpecAssumption
      <3>3. spec = [name |-> name, domain |-> h, ndns |-> ndns, address |-> address,
                    port |-> port, scheme |-> scheme, level |-> level, auth |-> auth]
        OBVIOUS
      <3> HIDE DEF name, address, level, auth, ndns, port, scheme, spec
      <3> QED BY <3>1, <3>2, <3>3
    <2> HIDE DEF spec, Accepted
    <2> QED BY <2>1, <2>3
  <1>2. Accepted(tls) <=> Accepted(FALSE)
    BY PortsAndSchemes
  <1> HIDE DEF Accepted
  <1> QED BY <1>1, <1>2

LEMMA WantsFacts ==
  ASSUME ValidDefaults, NEW k \in Keys, NEW o \in Version(k)
  PROVE  /\ Wants("record", o) = o.hosts
         /\ \A h \in o.hosts : \A tls \in BOOLEAN :
               h \in Wants("webapp", o) <=> Publishes(o.ann) /\ WebAppSpec(o.ann, h, tls) # NoSpec
  <1>1. PICK s \in SpecsOf[k] : o.hosts = s.hosts /\ o.ann = s.ann
    BY VersionFacts
  <1>2. \A h \in o.hosts : \A tls \in BOOLEAN :
          WebAppSpec(o.ann, h, tls) # NoSpec <=> WebAppSpec(o.ann, h, FALSE) # NoSpec
    BY <1>1, TLSDecidesNothing
  <1> QED BY <1>2 DEF Wants

(***************************************************************************)
(* Events.  A change of an Ingress is on its way to the cache, one of a    *)
(* child wakes the owners it has and had, and nobody's turn gets lost.     *)
(***************************************************************************)
Stirred(i) == i \in queue \union delayed \union lagging \union UNION {wake[c] : c \in Children}

CacheExact == \A k \in Keys \ lagging : cache[k] = obj[k]

Heard == \A c \in childLagging : OwnerKeys(child[c]) \union OwnerKeys(childCache[c]) \subseteq wake[c]

Waking == \A c \in Children :
             child'[c] = child[c] \/ OwnerKeys(child[c]) \union OwnerKeys(child'[c]) \subseteq wake'[c]

Noticed == \A k \in Keys : obj'[k] = obj[k] \/ k \in lagging'

MovesOn == /\ queue \subseteq queue' /\ delayed \subseteq delayed' \union queue'
           /\ lagging \subseteq lagging' \union queue'
           /\ \A c \in Children : wake[c] \subseteq wake'[c] \union queue'

ChildWrites == \/ UNCHANGED <<child, childCache, childLagging, wake>>
               \/ \E c \in Children : \E o : Write(c, o)

LEMMA WriteWakes ==
  ASSUME ChildrenOK, Heard, ChildWrites
  PROVE  Heard' /\ Waking /\ \A c \in Children : wake[c] \subseteq wake'[c]
  <1>1. CASE UNCHANGED <<child, childCache, childLagging, wake>>
    BY <1>1 DEF Heard, Waking
  <1>2. ASSUME NEW c \in Children, NEW o, Write(c, o)
        PROVE  Heard' /\ Waking /\ \A d \in Children : wake[d] \subseteq wake'[d]
    <2>1. /\ child' = [child EXCEPT ![c] = o] /\ childCache' = childCache
          /\ childLagging' = childLagging \union {c}
          /\ wake' = [wake EXCEPT ![c] = @ \union OwnerKeys(child[c]) \union OwnerKeys(o)]
      BY <1>2 DEF Write
    <2>2. \A d \in Children : d # c => child'[d] = child[d] /\ wake'[d] = wake[d]
      BY <2>1 DEF ChildrenOK
    <2>3. child'[c] = o /\ wake'[c] = wake[c] \union OwnerKeys(child[c]) \union OwnerKeys(o)
      BY <2>1 DEF ChildrenOK
    <2>4. OwnerKeys(childCache[c]) \subseteq wake'[c]
      BY <2>3 DEF Heard, ChildrenOK
    <2>5. childLagging \subseteq Children
      BY DEF ChildrenOK
    <2> QED BY <2>1, <2>2, <2>3, <2>4, <2>5 DEF Heard, Waking
  <1> QED BY <1>1, <1>2 DEF ChildWrites

LEMMA DeleteWrites ==
  ASSUME NEW c \in Children, Delete(c)
  PROVE  ChildWrites
  BY DEF Delete, ChildWrites, childVars

LEMMA WorkerEvents ==
  ASSUME TypeInv, Worker
  PROVE  /\ pc # "idle" /\ ChildWrites /\ UNCHANGED <<clusterVars, queue>>
         /\ delayed \subseteq delayed'
  <1>1. ASSUME NEW h \in Hosts, Postpone(h)
        PROVE  /\ pc # "idle" /\ ChildWrites /\ UNCHANGED <<clusterVars, queueVars>>
    BY <1>1 DEF Postpone, ChildWrites, childVars, runtimeVars
  <1>2. ASSUME NEW h \in Hosts, CreateOrUpdate(h)
        PROVE  /\ pc # "idle" /\ ChildWrites /\ UNCHANGED clusterVars
               /\ UNCHANGED queueVars \/ Return(TRUE)
    <2>1. pc # "idle" /\ UNCHANGED clusterVars /\ (UNCHANGED queueVars \/ Return(TRUE))
      BY <1>2 DEF CreateOrUpdate, Request, Abort, runtimeVars
    <2>2. Mine(h) \in Children
      BY <2>1, MineFacts
    <2>3. UNCHANGED childVars \/ Write(Mine(h), Desired(h))
      BY <1>2 DEF CreateOrUpdate, Request, childVars
    <2> QED BY <2>1, <2>2, <2>3 DEF ChildWrites, childVars
  <1>3. ASSUME NEW h \in Hosts, Release(h)
        PROVE  /\ pc # "idle" /\ ChildWrites /\ UNCHANGED clusterVars
               /\ UNCHANGED queueVars \/ Return(TRUE)
    <2>1. pc # "idle" /\ UNCHANGED clusterVars /\ (UNCHANGED queueVars \/ Return(TRUE))
      BY <1>3 DEF Release, Request, Abort, Released, runtimeVars
    <2>2. Mine(h) \in Children
      BY <2>1, MineFacts
    <2>3. UNCHANGED childVars \/ Delete(Mine(h)) \/ \E o : Write(Mine(h), o)
      BY <1>3 DEF Release, Request
    <2> QED BY <2>1, <2>2, <2>3, DeleteWrites DEF ChildWrites, childVars
  <1>4. ASSUME ListOwned \/ ReconcileWebApps
        PROVE  /\ pc # "idle" /\ ChildWrites /\ UNCHANGED <<clusterVars, queueVars>>
    BY <1>4 DEF ListOwned, ReconcileWebApps, LoopsDone, Goto, ChildWrites
  <1>5. ASSUME Finish
        PROVE  /\ pc # "idle" /\ ChildWrites /\ UNCHANGED clusterVars /\ Return(deferred)
    BY <1>5 DEF Finish, LoopsDone, ChildWrites
  <1> QED BY <1>1, <1>2, <1>3, <1>4, <1>5 DEF Worker, Return, queueVars

\* Steps of anybody but the worker, which leave what it is doing alone.
LEMMA OtherEvents ==
  ASSUME TypeInv, CacheExact, Heard,
         \/ \E k \in Keys : \/ Watch(k) \/ Timer(k) \/ UserCreate(k) \/ UserEdit(k)
                            \/ UserReplace(k) \/ UserDelete(k)
         \/ \E c \in Children : \/ WatchChild(c) \/ GarbageCollect(c) \/ FinalizerRemoved(c)
                                \/ UserApplies(c) \/ UserRemoves(c)
         \/ UNCHANGED vars
  PROVE  /\ CacheExact' /\ Heard' /\ Waking /\ Noticed /\ MovesOn
         /\ UNCHANGED <<pc, key, rec, passVars>>
  <1>1. ASSUME NEW k \in Keys, Watch(k) \/ Timer(k)
        PROVE  /\ CacheExact' /\ Heard' /\ Waking /\ Noticed /\ MovesOn
               /\ UNCHANGED <<pc, key, rec, passVars>>
    <2>1. /\ UNCHANGED <<child, childCache, childLagging, wake>> /\ UNCHANGED <<pc, key, rec, passVars>>
          /\ UNCHANGED obj
      BY <1>1 DEF Watch, Timer, CacheSync, Requeue, childVars, workerVars, clusterVars
    <2>2. Heard' /\ Waking /\ Noticed
      BY <2>1 DEF Heard, Waking, Noticed
    <2>3. MovesOn
      BY <1>1, <2>1 DEF Watch, Timer, CacheSync, Requeue, MovesOn, clusterVars
    <2>4. CacheExact'
      BY <1>1 DEF CacheExact, Watch, Timer, CacheSync, Requeue, clusterVars, TypeInv, RuntimeOK
    <2> QED BY <2>1, <2>2, <2>3, <2>4
  <1>2. ASSUME NEW k \in Keys, UserCreate(k) \/ UserEdit(k) \/ UserReplace(k) \/ UserDelete(k)
        PROVE  /\ CacheExact' /\ Heard' /\ Waking /\ Noticed /\ MovesOn
               /\ UNCHANGED <<pc, key, rec, passVars>>
    <2>1. PICK o : UserWrite(k, o)
      BY <1>2, UserIngressType
    <2>2. UNCHANGED childVars /\ UNCHANGED passVars
      BY <1>2, UserIngressType DEF UserOp
    <2>3. /\ obj' = [obj EXCEPT ![k] = o] /\ UNCHANGED <<cache, queue, delayed, pc, key, rec>>
          /\ lagging' = IF o = obj[k] THEN lagging ELSE lagging \union {k}
      BY <2>1 DEF UserWrite, Store, queueVars
    <2>4. Heard' /\ Waking /\ MovesOn
      BY <2>2, <2>3 DEF Heard, Waking, MovesOn, childVars
    <2>5. CacheExact' /\ Noticed
      BY <2>3 DEF CacheExact, Noticed, TypeInv, RuntimeOK
    <2> QED BY <2>2, <2>3, <2>4, <2>5
  <1>3. ASSUME NEW c \in Children, GarbageCollect(c) \/ FinalizerRemoved(c)
                                   \/ UserApplies(c) \/ UserRemoves(c)
        PROVE  /\ CacheExact' /\ Heard' /\ Waking /\ Noticed /\ MovesOn
               /\ UNCHANGED <<pc, key, rec, passVars>>
    <2>1. UNCHANGED runtimeVars /\ UNCHANGED passVars
      BY <1>3 DEF GarbageCollect, FinalizerRemoved, UserApplies, UserRemoves, UserOp
    <2>2. Delete(c) \/ \E o : Write(c, o)
      BY <1>3 DEF GarbageCollect, FinalizerRemoved, UserApplies, UserRemoves
    <2>3. Heard' /\ Waking /\ \A d \in Children : wake[d] \subseteq wake'[d]
      <3>1. ChildWrites
        BY <2>2, DeleteWrites DEF ChildWrites
      <3> QED BY <3>1, WriteWakes DEF TypeInv
    <2> QED BY <2>1, <2>3 DEF runtimeVars, clusterVars, queueVars, workerVars, CacheExact,
                              Noticed, MovesOn
  <1>4. ASSUME NEW c \in Children, WatchChild(c)
        PROVE  /\ CacheExact' /\ Heard' /\ Waking /\ Noticed /\ MovesOn
               /\ UNCHANGED <<pc, key, rec, passVars>>
    <2>1. /\ UNCHANGED <<clusterVars, delayed, pc, key, rec, child>>
          /\ UNCHANGED passVars /\ queue' = queue \union wake[c]
          /\ childCache' = [childCache EXCEPT ![c] = child[c]]
          /\ childLagging' = childLagging \ {c} /\ wake' = [wake EXCEPT ![c] = {}]
      BY <1>4 DEF WatchChild, workerVars
    <2>2. \A d \in Children \ {c} : wake'[d] = wake[d] /\ childCache'[d] = childCache[d]
      BY <2>1 DEF TypeInv, ChildrenOK
    <2>3. Heard'
      BY <2>1, <2>2 DEF Heard, TypeInv, ChildrenOK
    <2>4. MovesOn
      BY <2>1, <2>2 DEF MovesOn, clusterVars
    <2> QED BY <2>1, <2>3, <2>4 DEF CacheExact, Waking, Noticed, clusterVars
  <1>5. ASSUME UNCHANGED vars
        PROVE  /\ CacheExact' /\ Heard' /\ Waking /\ Noticed /\ MovesOn
               /\ UNCHANGED <<pc, key, rec, passVars>>
    BY <1>5 DEF vars, runtimeVars, clusterVars, queueVars, workerVars, childVars,
                CacheExact, Heard, Waking, Noticed, MovesOn
  <1> QED BY <1>1, <1>2, <1>3, <1>4, <1>5

LEMMA StepEvents ==
  ASSUME TypeInv, CacheExact, Heard, [Next]_vars
  PROVE  /\ CacheExact' /\ Heard' /\ Waking /\ Noticed
         /\ \/ MovesOn /\ (Worker \/ UNCHANGED <<pc, key, rec, passVars>>)
            \/ Crash
            \/ \E k \in Keys : Reconcile(k)
  <1>1. ASSUME NEW k \in Keys, Reconcile(k)
        PROVE  CacheExact' /\ Heard' /\ Waking /\ Noticed
    BY <1>1 DEF Reconcile, Take, clusterVars, CacheExact, Heard, Waking, Noticed
  <1>2. ASSUME Crash PROVE CacheExact' /\ Heard' /\ Waking /\ Noticed
    BY <1>2 DEF Crash, Restart, CacheExact, Heard, Waking, Noticed
  <1>3. ASSUME Worker PROVE CacheExact' /\ Heard' /\ Waking /\ Noticed /\ MovesOn
    <2>1. Heard' /\ Waking /\ \A c \in Children : wake[c] \subseteq wake'[c]
      BY <1>3, WorkerEvents, WriteWakes DEF TypeInv
    <2>2. UNCHANGED <<obj, cache, lagging, queue>> /\ delayed \subseteq delayed'
      BY <1>3, WorkerEvents DEF clusterVars
    <2> QED BY <2>1, <2>2 DEF CacheExact, Noticed, MovesOn
  <1>4. \/ \E k \in Keys : Reconcile(k)
        \/ Crash \/ Worker
        \/ \E k \in Keys : \/ Watch(k) \/ Timer(k) \/ UserCreate(k) \/ UserEdit(k)
                           \/ UserReplace(k) \/ UserDelete(k)
        \/ \E c \in Children : \/ WatchChild(c) \/ GarbageCollect(c) \/ FinalizerRemoved(c)
                               \/ UserApplies(c) \/ UserRemoves(c)
        \/ UNCHANGED vars
    BY DEF Next
  <1> QED BY <1>1, <1>2, <1>3, <1>4, OtherEvents

\* An Ingress that nothing is on its way to stays what it was and owns what
\* it owned.
Yielded(i, c) == Owns(i, c) => child[c].deleting

LEMMA Steady ==
  ASSUME TypeInv, TypeInv', Waking, Noticed, NEW i \in Keys, ~Stirred(i)'
  PROVE  /\ obj'[i] = obj[i]
         /\ \A c \in Children : (Owns(i, c)' <=> Owns(i, c)) /\ (Yielded(i, c) => Yielded(i, c)')
  <1>1. obj'[i] = obj[i] /\ \A c \in Children : i \notin wake'[c]
    BY DEF Stirred, Noticed
  <1>2. ASSUME NEW c \in Children
        PROVE  (Owns(i, c)' <=> Owns(i, c)) /\ (Yielded(i, c) => Yielded(i, c)')
    <2>1. CASE child'[c] = child[c]
      BY <1>1, <2>1 DEF Owns, Yielded
    <2>2. CASE i \notin OwnerKeys(child[c]) /\ i \notin OwnerKeys(child'[c])
      <3>1. \A o : o # NoObject /\ <<i, obj[i].uid>> \in o.owners => i \in OwnerKeys(o)
        BY DEF OwnerKeys
      <3>2. ~Owns(i, c) /\ ~Owns(i, c)'
        BY <1>1, <2>2, <3>1 DEF Owns, Ref
      <3> QED BY <3>2 DEF Yielded
    <2> QED BY <1>1, <2>1, <2>2 DEF Waking
  <1> QED BY <1>1, <1>2

LEMMA StaysStirred ==
  ASSUME MovesOn, NEW i, Stirred(i)
  PROVE  Stirred(i)'
  BY DEF MovesOn, Stirred

(***************************************************************************)
(* The inductive invariant.  An Ingress that is not in the worker's hands  *)
(* and that nothing is on its way to has what it wants and no more.  In    *)
(* the worker's hands, the same holds of the hosts that are done with,     *)
(* except that a claim may have been put off until the next reconcile.     *)
(***************************************************************************)
Place(k, kind, h) == <<kind, NamespaceOf[k], h>>
Sought(k, kind, h) == deferred \/ Owns(k, Place(k, kind, h))
Spared(k, kind, h) == Yielded(k, Place(k, kind, h))

Right(i, c) == IF NamespaceOf[i] = c[2] /\ c[3] \in Wants(c[1], obj[i]) THEN Owns(i, c)
               ELSE Yielded(i, c)

AtRest == \A i \in Keys \ {key} :
             obj[i] # NoObject /\ ~Stirred(i) => \A c \in Children : Right(i, c)

InHand(k) ==
    /\ rec = obj[k]
    /\ \A h \in keep \ todo : Sought(k, pass, h)
    /\ pc = "release" => \A h \in Hosts \ keep : listed[h] = NoObject => Spared(k, pass, h)
    /\ pass = "webapp" => \A h \in Hosts : IF h \in Wants("record", rec)
                                            THEN Sought(k, "record", h) ELSE Spared(k, "record", h)

Busily(k) == /\ keep = Wants(pass, rec) /\ (pc = "release" => todo = {})
             /\ ~Stirred(k) => InHand(k)

AtWork == pc # "idle" => Busily(key)

Claims == CacheExact /\ Heard /\ AtRest /\ AtWork

\* What the informer shows of an Ingress's children is then so.
LEMMA CacheTells ==
  ASSUME TypeInv, Heard, NEW i \in Keys, ~Stirred(i), NEW c \in Children
  PROVE  /\ i \in OwnerKeys(child[c]) \/ i \in OwnerKeys(childCache[c]) => child[c] = childCache[c]
         /\ i \notin OwnerKeys(childCache[c]) => Yielded(i, c)
  <1>1. i \notin wake[c]
    BY DEF Stirred
  <1>2. i \in OwnerKeys(child[c]) \/ i \in OwnerKeys(childCache[c]) => child[c] = childCache[c]
    BY <1>1 DEF Heard, TypeInv, ChildrenOK
  <1>3. Owns(i, c) => i \in OwnerKeys(child[c])
    BY DEF Owns, Ref, OwnerKeys
  <1> QED BY <1>2, <1>3 DEF Yielded

\* At the end of a pass the Ingress has what it wants of that kind, and no more.
LEMMA PassEnds ==
  ASSUME TypeInv, Heard, pc # "idle", NEW k \in Keys, k = key, Busily(k), ~Stirred(k),
         LoopsDone, NEW h \in Hosts
  PROVE  IF h \in Wants(pass, rec) THEN Sought(k, pass, h) ELSE Spared(k, pass, h)
  <1>1. Mine(h) = Place(k, pass, h) /\ Place(k, pass, h) \in Children
    BY MineFacts DEF Mine, Place
  <1>2. keep = Wants(pass, rec) /\ InHand(k)
    BY DEF Busily
  <1>3. CASE pc = "ensure" /\ todo = {} /\ Unwanted = NoHost
    <2>1. h \in keep => Sought(k, pass, h)
      BY <1>2, <1>3 DEF InHand
    <2>2. ASSUME h \notin keep PROVE Spared(k, pass, h)
      <3>1. Unwanted[h] = NoObject
        BY <1>3 DEF NoHost
      <3>2. k \notin OwnerKeys(childCache[Mine(h)])
        BY <2>2, <3>1 DEF Unwanted, OwnerKeys
      <3> QED BY <1>1, <3>2, CacheTells DEF Spared
    <2> QED BY <1>2, <2>1, <2>2
  <1>4. CASE pc = "release" /\ listed = NoHost
    BY <1>2, <1>4 DEF InHand, Busily, NoHost
  <1> QED BY <1>3, <1>4 DEF LoopsDone

(***************************************************************************)
(* The steps of the worker.                                                *)
(***************************************************************************)
LEMMA StartOfWork ==
  ASSUME ValidDefaults, TypeInv, Claims, NEW k \in Keys, Reconcile(k), cache[k] # NoObject
  PROVE  Busily(k)'
  <1>1. /\ pc' = "ensure" /\ rec' = cache[k] /\ keep' = rec'.hosts /\ todo' = keep'
        /\ pass' = pass /\ UNCHANGED <<obj, cache, lagging>>
    BY DEF Reconcile, Take, clusterVars
  <1>2. pass = "record"
    BY NoKeyAssumption DEF Reconcile, Take, TypeInv, PassOK, Busy, Nothing
  <1>3. keep' = Wants("record", rec')
    BY <1>1, WantsFacts DEF TypeInv, RuntimeOK
  <1>4. ~Stirred(k)' => rec' = obj'[k]
    BY <1>1 DEF Stirred, Claims, CacheExact
  <1> QED BY <1>1, <1>2, <1>3, <1>4 DEF Busily, InHand

\* What holds of an Ingress that nothing is on its way to goes on holding.
LEMMA Carried ==
  ASSUME TypeInv, TypeInv', Waking, Noticed, MovesOn, NEW k \in Keys, ~Stirred(k)',
         deferred => deferred'
  PROVE  /\ ~Stirred(k) /\ obj'[k] = obj[k]
         /\ \A kind \in Kinds, g \in Hosts :
               (Sought(k, kind, g) => Sought(k, kind, g)') /\ (Spared(k, kind, g) => Spared(k, kind, g)')
  <1>1. ~Stirred(k)
    BY StaysStirred
  <1>2. /\ obj'[k] = obj[k]
        /\ \A c \in Children : (Owns(k, c)' <=> Owns(k, c)) /\ (Yielded(k, c) => Yielded(k, c)')
    BY Steady
  <1>3. \A kind \in Kinds, g \in Hosts : Place(k, kind, g) \in Children
    BY NamespacesAssumption DEF Place, Children
  <1>4. \A kind \in Kinds, g \in Hosts :
           (Sought(k, kind, g) => Sought(k, kind, g)') /\ (Spared(k, kind, g) => Spared(k, kind, g)')
    BY <1>2, <1>3 DEF Sought, Spared, Place
  <1> QED BY <1>1, <1>2, <1>4

LEMMA WorkKept ==
  ASSUME TypeInv, TypeInv', Claims, Waking, Noticed, MovesOn, NEW k \in Keys, k = key, pc # "idle",
         UNCHANGED <<pc, rec, passVars>>
  PROVE  Busily(k)'
  <1>1. Busily(k) /\ pass \in Kinds /\ keep \subseteq Hosts
    BY BusyFacts DEF Claims, AtWork, TypeInv, PassOK
  <1>2. UNCHANGED <<pc, rec, pass, keep, todo, listed, deferred>>
    BY DEF passVars
  <1>3. ASSUME ~Stirred(k)' PROVE InHand(k)'
    <2>1. /\ InHand(k) /\ obj'[k] = obj[k]
          /\ \A kind \in Kinds, g \in Hosts :
               (Sought(k, kind, g) => Sought(k, kind, g)') /\ (Spared(k, kind, g) => Spared(k, kind, g)')
      BY <1>1, <1>2, <1>3, Carried DEF Busily
    <2>2. \A g \in keep' \ todo' : Sought(k, pass, g)'
      BY <1>1, <1>2, <2>1 DEF InHand
    <2>3. pc = "release" => \A g \in Hosts \ keep : listed[g] = NoObject => Spared(k, pass, g)'
      BY <1>1, <1>2, <2>1 DEF InHand
    <2>4. pass = "webapp" => \A g \in Hosts : IF g \in Wants("record", rec)
                        THEN Sought(k, "record", g)' ELSE Spared(k, "record", g)'
      BY <2>1 DEF InHand, Kinds
    <2> QED BY <1>2, <2>1, <2>2, <2>3, <2>4 DEF InHand
  <1> QED BY <1>1, <1>2, <1>3 DEF Busily

LEMMA NextHostKeeps ==
  ASSUME TypeInv, TypeInv', Claims, Waking, Noticed, MovesOn, NEW k \in Keys, k = key,
         NEW h \in Hosts, pc = "ensure", NextHost(h), UNCHANGED runtimeVars,
         ~Stirred(k)' => Sought(k, pass, h)'
  PROVE  Busily(k)'
  <1>1. /\ UNCHANGED <<pc, key, rec, pass, keep, listed>> /\ todo' = todo \ {h}
        /\ (deferred => deferred')
    BY DEF NextHost, runtimeVars, workerVars
  <1>2. Busily(k) /\ pass \in Kinds /\ keep \subseteq Hosts
    BY BusyFacts DEF Claims, AtWork, TypeInv, PassOK
  <1>3. ASSUME ~Stirred(k)' PROVE InHand(k)'
    <2>1. /\ InHand(k) /\ obj'[k] = obj[k]
          /\ \A kind \in Kinds, g \in Hosts :
               (Sought(k, kind, g) => Sought(k, kind, g)') /\ (Spared(k, kind, g) => Spared(k, kind, g)')
      BY <1>1, <1>2, <1>3, Carried DEF Busily
    <2>2. \A g \in keep' \ todo' : Sought(k, pass, g)'
      BY <1>1, <1>2, <1>3, <2>1 DEF InHand
    <2>3. pass = "webapp" => \A g \in Hosts : IF g \in Wants("record", rec)
                        THEN Sought(k, "record", g)' ELSE Spared(k, "record", g)'
      BY <2>1 DEF InHand, Kinds
    <2> QED BY <1>1, <2>1, <2>2, <2>3 DEF InHand
  <1> QED BY <1>1, <1>2, <1>3 DEF Busily

LEMMA ReleasedKeeps ==
  ASSUME TypeInv, TypeInv', Claims, Waking, Noticed, MovesOn, NEW k \in Keys, k = key,
         NEW h \in Hosts, pc = "release", Released(h), Spared(k, pass, h)'
  PROVE  Busily(k)'
  <1>1. /\ UNCHANGED <<pc, key, rec, pass, keep, todo, deferred>>
        /\ listed' = [listed EXCEPT ![h] = NoObject] /\ DOMAIN listed = Hosts
    BY DEF Released, runtimeVars, workerVars, TypeInv, PassOK
  <1>2. Busily(k) /\ pass \in Kinds /\ keep \subseteq Hosts
    BY BusyFacts DEF Claims, AtWork, TypeInv, PassOK
  <1>3. ASSUME ~Stirred(k)' PROVE InHand(k)'
    <2>1. /\ InHand(k) /\ obj'[k] = obj[k]
          /\ \A kind \in Kinds, g \in Hosts :
               (Sought(k, kind, g) => Sought(k, kind, g)') /\ (Spared(k, kind, g) => Spared(k, kind, g)')
      BY <1>1, <1>2, <1>3, Carried DEF Busily
    <2>2. \A g \in keep' \ todo' : Sought(k, pass, g)'
      BY <1>1, <1>2, <2>1 DEF InHand
    <2>3. \A g \in Hosts \ keep : listed'[g] = NoObject => Spared(k, pass, g)'
      BY <1>1, <1>2, <2>1 DEF InHand
    <2>4. pass = "webapp" => \A g \in Hosts : IF g \in Wants("record", rec)
                        THEN Sought(k, "record", g)' ELSE Spared(k, "record", g)'
      BY <2>1 DEF InHand, Kinds
    <2> QED BY <1>1, <2>1, <2>2, <2>3, <2>4 DEF InHand
  <1> QED BY <1>1, <1>2, <1>3 DEF Busily

LEMMA PostponeKeeps ==
  ASSUME TypeInv, TypeInv', Claims, Waking, Noticed, MovesOn, NEW k \in Keys, k = key,
         NEW h \in Hosts, Postpone(h)
  PROVE  Busily(k)'
  <1>1. pc = "ensure" /\ NextHost(h) /\ UNCHANGED runtimeVars /\ deferred'
    BY DEF Postpone, NextHost
  <1>2. Sought(k, pass, h)'
    BY <1>1 DEF Sought
  <1> QED BY <1>1, <1>2, NextHostKeeps

LEMMA CreateOrUpdateKeeps ==
  ASSUME TypeInv, TypeInv', Claims, Waking, Noticed, MovesOn, NEW k \in Keys, k = key,
         NEW h \in Hosts, CreateOrUpdate(h)
  PROVE  Busily(k)' \/ (pc' = "idle" /\ key' = NoKey /\ k \in delayed')
  <1>c. PICK c \in Children : c = Mine(h) /\ c = Place(k, pass, h)
    BY MineFacts DEF CreateOrUpdate, Mine, Place
  <1>o. PICK o : o = Desired(h)
    OBVIOUS
  <1>1. pc = "ensure" /\ pc # "idle" /\ (Settled(h) \/ childCache[c] # NoObject)
    BY <1>c DEF CreateOrUpdate
  <1>2. o # NoObject /\ Ref(k, rec) \in o.owners
    BY <1>1, <1>c, <1>o, DesiredType
  <1>3. k \in OwnerKeys(o)
    BY <1>2 DEF OwnerKeys, Ref
  <1>4. Busily(k)
    BY <1>1 DEF Claims, AtWork
  <1>5. ASSUME childCache[c] = o, NextHost(h), UNCHANGED runtimeVars, UNCHANGED childVars
        PROVE  Busily(k)'
    <2>1. ASSUME ~Stirred(k)' PROVE Sought(k, pass, h)'
      <3>1. ~Stirred(k) /\ rec = obj[k]
        BY <2>1, <1>4, StaysStirred DEF Busily, InHand
      <3>2. child[c] = o
        BY <1>3, <1>5, <3>1, CacheTells DEF Claims
      <3>3. Owns(k, c)
        BY <1>2, <3>1, <3>2 DEF Owns
      <3>4. Owns(k, c)'
        BY <2>1, <3>3, Steady
      <3>5. Place(k, pass, h)' = c
        BY <1>5, <1>c DEF Place, NextHost
      <3> QED BY <3>4, <3>5 DEF Sought
    <2> QED BY <1>1, <1>5, <2>1, NextHostKeeps
  <1>6. ASSUME Write(c, o), NextHost(h), UNCHANGED runtimeVars
        PROVE  Busily(k)'
    <2>1. k \in wake'[c]
      BY <1>3, <1>6 DEF Write, TypeInv, ChildrenOK
    <2>2. Stirred(k)'
      BY <2>1 DEF Stirred
    <2> QED BY <1>1, <1>6, <2>2, NextHostKeeps
  <1>7. Abort => pc' = "idle" /\ key' = NoKey /\ k \in delayed'
    BY DEF Abort, Return
  <1>8. \/ childCache[c] = o /\ NextHost(h) /\ UNCHANGED runtimeVars /\ UNCHANGED childVars
        \/ Write(c, o) /\ NextHost(h) /\ UNCHANGED runtimeVars
        \/ Abort
    BY <1>c, <1>o DEF CreateOrUpdate, Request
  <1> QED BY <1>5, <1>6, <1>7, <1>8

LEMMA ListOwnedKeeps ==
  ASSUME TypeInv, TypeInv', Claims, Waking, Noticed, MovesOn, NEW k \in Keys, k = key, ListOwned
  PROVE  Busily(k)'
  <1>1. /\ pc = "ensure" /\ pc # "idle" /\ pc' = "release" /\ todo = {} /\ listed' = Unwanted
        /\ UNCHANGED <<key, rec, pass, keep, todo, deferred>>
    BY DEF ListOwned, Goto
  <1>2. Busily(k) /\ pass \in Kinds /\ keep \subseteq Hosts
    BY <1>1, BusyFacts DEF Claims, AtWork, TypeInv, PassOK
  <1>3. ASSUME ~Stirred(k)' PROVE InHand(k)'
    <2>1. /\ InHand(k) /\ obj'[k] = obj[k] /\ ~Stirred(k)
          /\ \A kind \in Kinds, g \in Hosts :
               (Sought(k, kind, g) => Sought(k, kind, g)') /\ (Spared(k, kind, g) => Spared(k, kind, g)')
      BY <1>1, <1>2, <1>3, Carried DEF Busily
    <2>2. \A g \in keep' \ todo' : Sought(k, pass, g)'
      BY <1>1, <1>2, <2>1 DEF InHand
    <2>3. ASSUME NEW g \in Hosts \ keep, listed'[g] = NoObject PROVE Spared(k, pass, g)'
      <3>1. Mine(g) \in Children /\ Mine(g) = Place(k, pass, g)
        BY <1>1, MineFacts DEF Place
      <3>2. k \notin OwnerKeys(childCache[Mine(g)])
        BY <1>1, <2>3 DEF Unwanted, OwnerKeys
      <3>3. Spared(k, pass, g)
        BY <2>1, <3>1, <3>2, CacheTells DEF Spared, Claims
      <3> QED BY <1>1, <1>2, <2>1, <3>3
    <2>4. pass = "webapp" => \A g \in Hosts : IF g \in Wants("record", rec)
                        THEN Sought(k, "record", g)' ELSE Spared(k, "record", g)'
      BY <2>1 DEF InHand, Kinds
    <2> QED BY <1>1, <2>1, <2>2, <2>3, <2>4 DEF InHand
  <1> QED BY <1>1, <1>2, <1>3 DEF Busily

LEMMA ReleaseKeeps ==
  ASSUME TypeInv, TypeInv', Claims, Waking, Noticed, MovesOn, NEW k \in Keys, k = key,
         NEW h \in Hosts, Release(h)
  PROVE  Busily(k)' \/ (pc' = "idle" /\ key' = NoKey /\ k \in delayed')
  <1>c. PICK c \in Children : c = Mine(h) /\ c = Place(k, pass, h)
    BY MineFacts DEF Release, Mine, Place
  <1>o. PICK o : o = [listed[h] EXCEPT !.owners = RemoveOwner(listed[h].owners, key)]
    OBVIOUS
  <1>1. pc = "release" /\ pc # "idle" /\ listed[h] # NoObject /\ UNCHANGED clusterVars
    BY DEF Release
  <1>2. \A u : <<k, u>> \notin o.owners
    <2>1. listed[h] \in Held(c)
      BY <1>1, <1>c DEF TypeInv, PassOK, Busy
    <2>2. o.owners = RemoveOwner(listed[h].owners, key)
      BY <1>o, <2>1 DEF Held
    <2> QED BY <2>2 DEF RemoveOwner
  <1>3. ASSUME Released(h), Yielded(k, c)'
        PROVE  Busily(k)'
    <2>1. Place(k, pass, h)' = c
      BY <1>3, <1>c DEF Place, Released
    <2>2. Spared(k, pass, h)'
      BY <1>3, <2>1 DEF Spared
    <2> QED BY <1>1, <1>3, <2>2, ReleasedKeeps
  <1>4. child[c] \in Held(c) \union {NoObject} /\ c \in DOMAIN child
    BY DEF TypeInv, ChildrenOK
  <1>5. Delete(c) => Yielded(k, c)'
    BY <1>4, HeldFacts DEF Delete, Write, childVars, Yielded, Owns, Held
  <1>6. child[c] = NoObject /\ UNCHANGED childVars => Yielded(k, c)'
    BY DEF childVars, Yielded, Owns
  <1>7. Write(c, o) => Yielded(k, c)'
    BY <1>2, <1>4 DEF Write, Yielded, Owns, Ref
  <1>8. Abort => pc' = "idle" /\ key' = NoKey /\ k \in delayed'
    BY DEF Abort, Return
  <1>9. \/ Released(h) /\ (Delete(c) \/ (child[c] = NoObject /\ UNCHANGED childVars) \/ Write(c, o))
        \/ Abort
    BY <1>c, <1>o DEF Release, Request
  <1> QED BY <1>3, <1>5, <1>6, <1>7, <1>8, <1>9

LEMMA ReconcileWebAppsKeeps ==
  ASSUME ValidDefaults, TypeInv, TypeInv', Claims, Waking, Noticed, MovesOn,
         NEW k \in Keys, k = key, ReconcileWebApps
  PROVE  Busily(k)'
  <1>1. /\ pc # "idle" /\ pc' = "ensure" /\ LoopsDone /\ pass = "record" /\ pass' = "webapp"
        /\ UNCHANGED <<key, rec, deferred>> /\ todo' = keep'
    BY DEF ReconcileWebApps, LoopsDone, Goto
  <1>2. Busily(k) /\ rec \in Version(k)
    BY <1>1, BusyFacts DEF Claims, AtWork
  <1>3. keep' = Wants("webapp", rec)
    <2>1. keep' = {h \in rec.hosts : /\ Publishes(rec.ann)
                                     /\ WebAppSpec(rec.ann, h, h \in HostsRequiringTLS) # NoSpec}
      BY DEF ReconcileWebApps
    <2>2. ASSUME NEW h \in rec.hosts
          PROVE  h \in Wants("webapp", rec) <=>
                   Publishes(rec.ann) /\ WebAppSpec(rec.ann, h, h \in HostsRequiringTLS) # NoSpec
      <3> DEFINE tls == h \in HostsRequiringTLS
      <3>1. tls \in BOOLEAN
        OBVIOUS
      <3> HIDE DEF tls
      <3>2. h \in Wants("webapp", rec) <=> Publishes(rec.ann) /\ WebAppSpec(rec.ann, h, tls) # NoSpec
        BY <1>2, <3>1, WantsFacts
      <3> QED BY <3>2 DEF tls
    <2>3. Wants("webapp", rec) \subseteq rec.hosts
      BY DEF Wants
    <2> QED BY <2>1, <2>2, <2>3
  <1>4. ASSUME ~Stirred(k)' PROVE InHand(k)'
    <2>1. /\ InHand(k) /\ obj'[k] = obj[k] /\ ~Stirred(k)
          /\ \A kind \in Kinds, g \in Hosts :
               (Sought(k, kind, g) => Sought(k, kind, g)') /\ (Spared(k, kind, g) => Spared(k, kind, g)')
      BY <1>1, <1>2, <1>4, Carried DEF Busily
    <2>2. \A g \in Hosts : IF g \in Wants("record", rec)
                           THEN Sought(k, "record", g) ELSE Spared(k, "record", g)
      BY <1>1, <1>2, <2>1, PassEnds DEF Claims
    <2>3. \A g \in Hosts : IF g \in Wants("record", rec)
                           THEN Sought(k, "record", g)' ELSE Spared(k, "record", g)'
      BY <2>1, <2>2 DEF Kinds
    <2> QED BY <1>1, <2>1, <2>3 DEF InHand
  <1> QED BY <1>1, <1>3, <1>4 DEF Busily

(***************************************************************************)
(* The end of a reconcile: what was put off comes back, and all the rest   *)
(* is as the Ingress wants it.                                             *)
(***************************************************************************)
LEMMA FinishLeaves ==
  ASSUME TypeInv, Claims, NEW k \in Keys, k = key, Finish, ~deferred, ~Stirred(k),
         NEW c \in Children
  PROVE  Right(k, c)
  <1>1. pc # "idle" /\ LoopsDone /\ pass = "webapp"
    BY DEF Finish, LoopsDone
  <1>2. Busily(k) /\ InHand(k) /\ rec = obj[k]
    BY <1>1 DEF Claims, AtWork, Busily, InHand
  <1>3. PICK kind \in Kinds, n \in Namespaces, h \in Hosts : c = <<kind, n, h>>
    BY DEF Children
  <1>4. c[1] = kind /\ c[2] = n /\ c[3] = h
    BY <1>3
  <1>5. CASE n # NamespaceOf[k]
    <2>1. child[c] # NoObject => OwnerKeys(child[c]) \subseteq {i \in Keys : NamespaceOf[i] = c[2]}
      BY HeldFacts DEF TypeInv, ChildrenOK
    <2>2. Owns(k, c) => child[c] # NoObject /\ k \in OwnerKeys(child[c])
      BY DEF Owns, Ref, OwnerKeys
    <2> QED BY <1>4, <1>5, <2>1, <2>2 DEF Right, Yielded
  <1>6. CASE n = NamespaceOf[k]
    <2>1. c = Place(k, kind, h)
      BY <1>3, <1>6 DEF Place
    <2>2. IF h \in Wants(kind, rec) THEN Sought(k, kind, h) ELSE Spared(k, kind, h)
      BY <1>1, <1>2, PassEnds DEF Claims, InHand, Kinds
    <2>3. IF h \in Wants(kind, rec) THEN Owns(k, c) ELSE Yielded(k, c)
      BY <2>1, <2>2 DEF Sought, Spared
    <2> QED BY <1>2, <1>4, <1>6, <2>3 DEF Right
  <1> QED BY <1>5, <1>6

LEMMA WorkerKeeps ==
  ASSUME ValidDefaults, TypeInv, TypeInv', Claims, Waking, Noticed, MovesOn, Worker,
         NEW k \in Keys, k = key
  PROVE  \/ pc' # "idle" /\ key' = k /\ Busily(k)'
         \/ pc' = "idle" /\ key' = NoKey /\ (k \in delayed' \/ (~Stirred(k) => \A c \in Children : Right(k, c)))
  <1>1. CASE UNCHANGED key
    <2>1. pc' # "idle"
      BY <1>1, NoKeyAssumption DEF TypeInv, PassOK, Busy
    <2> QED BY <1>1, <2>1, PostponeKeeps, CreateOrUpdateKeeps, ReleaseKeeps, ListOwnedKeeps,
               ReconcileWebAppsKeeps, NoKeyAssumption DEF Worker, Finish, Return
  <1>2. CASE key' # key
    <2>1. ASSUME Finish
          PROVE  pc' = "idle" /\ key' = NoKey /\ (k \in delayed' \/ ~deferred)
      BY <2>1 DEF Finish, Return
    <2>2. ASSUME NEW h \in Hosts, CreateOrUpdate(h) \/ Release(h)
          PROVE  pc' = "idle" /\ key' = NoKey /\ k \in delayed'
      BY <1>2, <2>2 DEF CreateOrUpdate, Release, Request, Abort, Return, NextHost, Released,
                   runtimeVars, workerVars
    <2>3. (\A h \in Hosts : ~Postpone(h)) /\ ~ListOwned /\ ~ReconcileWebApps
      BY <1>2 DEF Postpone, ListOwned, ReconcileWebApps, Goto, runtimeVars, workerVars
    <2> QED BY <2>1, <2>2, <2>3, FinishLeaves DEF Worker
  <1> QED BY <1>1, <1>2

(***************************************************************************)
(* Each step keeps the invariant.                                          *)
(***************************************************************************)
LEMMA RightStays ==
  ASSUME TypeInv, TypeInv', Waking, Noticed, NEW i \in Keys, ~Stirred(i)',
         \A c \in Children : Right(i, c)
  PROVE  \A c \in Children : Right(i, c)'
  <1>1. /\ obj'[i] = obj[i]
        /\ \A c \in Children : (Owns(i, c)' <=> Owns(i, c)) /\ (Yielded(i, c) => Yielded(i, c)')
    BY Steady
  <1>2. \A kind : Wants(kind, obj[i])' = Wants(kind, obj[i])
    BY <1>1 DEF Wants
  <1> QED BY <1>1, <1>2 DEF Right

LEMMA RestStays ==
  ASSUME TypeInv, TypeInv', Claims, Waking, Noticed, MovesOn, NEW i \in Keys, i # key,
         obj'[i] # NoObject, ~Stirred(i)'
  PROVE  \A c \in Children : Right(i, c)'
  <1>1. ~Stirred(i) /\ obj'[i] = obj[i]
    BY StaysStirred, Steady
  <1>2. \A c \in Children : Right(i, c)
    BY <1>1 DEF Claims, AtRest
  <1> QED BY <1>2, RightStays

LEMMA QuietStep ==
  ASSUME TypeInv, TypeInv', Claims, Waking, Noticed, MovesOn, UNCHANGED <<pc, key, rec, passVars>>
  PROVE  AtRest' /\ AtWork'
  <1>1. AtRest'
    BY RestStays DEF AtRest
  <1>2. ASSUME pc # "idle" PROVE Busily(key)'
    <2>1. PICK k \in Keys : k = key
      BY <1>2, BusyFacts
    <2>2. Busily(k)'
      BY <1>2, <2>1, WorkKept
    <2> QED BY <2>1, <2>2 DEF Busily, InHand
  <1> QED BY <1>1, <1>2 DEF AtWork

LEMMA WorkerStep ==
  ASSUME ValidDefaults, TypeInv, TypeInv', Claims, Waking, Noticed, MovesOn, Worker
  PROVE  AtRest' /\ AtWork'
  <1>1. PICK k \in Keys : k = key
    BY WorkerEvents, BusyFacts
  <1>2. CASE pc' # "idle" /\ key' = k /\ Busily(k)'
    <2>1. AtRest'
      BY <1>1, <1>2, RestStays DEF AtRest
    <2>2. Busily(key)'
      BY <1>2
    <2> QED BY <2>1, <2>2 DEF AtWork
  <1>3. CASE /\ pc' = "idle" /\ key' = NoKey
             /\ k \in delayed' \/ (~Stirred(k) => \A c \in Children : Right(k, c))
    <2>1. ASSUME ~Stirred(k)' PROVE \A c \in Children : Right(k, c)'
      <3>1. ~Stirred(k) /\ k \notin delayed'
        BY <2>1, StaysStirred DEF Stirred
      <3> QED BY <1>3, <2>1, <3>1, RightStays
    <2>2. AtRest'
      BY <1>1, <2>1, RestStays DEF AtRest
    <2> QED BY <1>3, <2>2 DEF AtWork
  <1> QED BY <1>1, <1>2, <1>3, WorkerKeeps

LEMMA ReconcileStep ==
  ASSUME ValidDefaults, TypeInv, TypeInv', Claims, Waking, Noticed, NEW k \in Keys, Reconcile(k)
  PROVE  AtRest' /\ AtWork'
  <1>1. /\ pc = "idle" /\ key = NoKey /\ queue' = queue \ {k}
        /\ UNCHANGED <<obj, cache, lagging, delayed, wake>>
    BY NoKeyAssumption DEF Reconcile, Take, clusterVars, TypeInv, PassOK, Busy
  <1>2. ASSUME NEW i \in Keys, i # k, obj'[i] # NoObject, ~Stirred(i)'
        PROVE  \A c \in Children : Right(i, c)'
    <2>1. ~Stirred(i) /\ obj[i] # NoObject /\ i # key
      BY <1>1, <1>2, NoKeyAssumption DEF Stirred
    <2>2. \A c \in Children : Right(i, c)
      BY <2>1 DEF Claims, AtRest
    <2> QED BY <1>2, <2>2, RightStays
  <1>3. CASE cache[k] # NoObject
    <2>1. pc' # "idle" /\ key' = k
      BY <1>3 DEF Reconcile, Take
    <2>2. AtRest'
      BY <1>2, <2>1 DEF AtRest
    <2>3. Busily(k)'
      BY <1>3, StartOfWork
    <2>4. Busily(key)'
      BY <2>1, <2>3
    <2> QED BY <2>2, <2>4 DEF AtWork
  <1>4. CASE cache[k] = NoObject
    <2>1. pc' = "idle"
      BY <1>1, <1>4 DEF Reconcile, Take, workerVars
    <2>2. obj'[k] # NoObject => Stirred(k)'
      BY <1>1, <1>4 DEF Claims, CacheExact, Stirred
    <2> QED BY <1>2, <2>1, <2>2 DEF AtRest, AtWork
  <1> QED BY <1>3, <1>4

LEMMA CrashStep ==
  ASSUME Crash
  PROVE  AtRest' /\ AtWork'
  <1>1. pc' = "idle" /\ obj' = obj /\ queue' = {k \in Keys : obj[k] # NoObject}
    BY DEF Crash, Restart
  <1>2. \A i \in Keys : obj'[i] # NoObject => Stirred(i)'
    BY <1>1 DEF Stirred
  <1> QED BY <1>1, <1>2 DEF AtRest, AtWork

LEMMA InitClaims ==
  ASSUME Init
  PROVE  Claims
  <1>1. /\ pc = "idle" /\ cache = obj /\ childLagging = {}
        /\ queue = {k \in Keys : obj[k] # NoObject}
    BY DEF Init
  <1> QED BY <1>1 DEF Claims, CacheExact, Heard, AtRest, AtWork, Stirred

LEMMA StepClaims ==
  ASSUME ValidDefaults, TypeInv, TypeInv', Claims, [Next]_vars
  PROVE  Claims'
  <1>1. /\ CacheExact' /\ Heard' /\ Waking /\ Noticed
        /\ \/ MovesOn /\ (Worker \/ UNCHANGED <<pc, key, rec, passVars>>)
           \/ Crash
           \/ \E k \in Keys : Reconcile(k)
    BY StepEvents DEF Claims
  <1>2. AtRest' /\ AtWork'
    BY <1>1, QuietStep, WorkerStep, ReconcileStep, CrashStep
  <1> QED BY <1>1, <1>2 DEF Claims

LEMMA ClaimsAreKept == ASSUME ValidDefaults PROVE Spec => [](TypeInv /\ Claims)
  <1>1. Init => TypeInv /\ Claims
    BY InitType, InitClaims
  <1>2. TypeInv /\ Claims /\ [Next]_vars => (TypeInv /\ Claims)'
    BY StepType, StepClaims
  <1> QED BY <1>1, <1>2, PTL DEF Spec

\* Who wants a child, were the tls sections of others up to date.
LEMMA WantingFacts ==
  ASSUME ValidDefaults, TypeInv, NEW c \in Children, NEW i \in Living
  PROVE  i \in Wanting(c) <=> NamespaceOf[i] = c[2] /\ c[3] \in Wants(c[1], obj[i])
  <1>1. i \in Keys /\ obj[i] \in Version(i)
    BY DEF Living, TypeInv, RuntimeOK
  <1>2. c[1] \in Kinds
    BY DEF Children
  <1>3. CASE c[1] = "record"
    BY <1>1, <1>3, WantsFacts DEF Wanting
  <1>4. CASE c[1] = "webapp"
    <2> DEFINE tls == RequiredTLS(c[3])
    <2>1. tls \in BOOLEAN
      BY DEF RequiredTLS
    <2>2. Asked(i, c) = WebAppSpec(obj[i].ann, c[3], tls)
      BY <1>4 DEF Asked
    <2>3. Wants(c[1], obj[i]) \subseteq obj[i].hosts
      BY DEF Wants
    <2> HIDE DEF tls
    <2>4. c[3] \in obj[i].hosts =>
            (c[3] \in Wants("webapp", obj[i]) <=> Publishes(obj[i].ann) /\ WebAppSpec(obj[i].ann, c[3], tls) # NoSpec)
      BY <1>1, <2>1, WantsFacts
    <2> QED BY <1>4, <2>2, <2>3, <2>4 DEF Wanting
  <1> QED BY <1>2, <1>3, <1>4 DEF Kinds

LEMMA OnItsWayFacts == ASSUME NEW i, ~OnItsWay(i) PROVE ~Stirred(i) /\ i # key
  BY DEF OnItsWay, Stirred

\* What the invariant says of an Ingress that nothing is on its way to.
LEMMA SettledClaims ==
  ASSUME ValidDefaults, TypeInv, Claims, NEW c \in Children, NEW i \in Living, ~OnItsWay(i)
  PROVE  IF i \in Wanting(c) THEN Owns(i, c) ELSE Yielded(i, c)
  <1>1. i \in Keys /\ obj[i] # NoObject /\ i # key /\ ~Stirred(i)
    BY OnItsWayFacts DEF Living
  <1>2. Right(i, c)
    BY <1>1 DEF Claims, AtRest
  <1> QED BY <1>2, WantingFacts DEF Right

(***************************************************************************)
(* Whoever edits, shares, releases or deletes a child, and wherever a      *)
(* reconcile fails, conflicts or is cut off by a restart: an Ingress that  *)
(* wants a child owns it or comes back to see to it, also one whose        *)
(* address or settings the others do not agree with.                       *)
(***************************************************************************)
THEOREM ClaimsHeld == ASSUME ValidDefaults PROVE Spec => []ClaimsAreHeld
  <1>1. TypeInv /\ Claims => ClaimsAreHeld
    BY SettledClaims DEF ClaimsAreHeld, Wanting
  <1> QED BY <1>1, ClaimsAreKept, PTL

(***************************************************************************)
(* The same for what an Ingress does not want any more: it does not stay   *)
(* an owner, through edits, restarts and lost or conflicting updates,      *)
(* without coming back to take its reference off.                          *)
(***************************************************************************)
THEOREM ClaimsReleased == ASSUME ValidDefaults PROVE Spec => []ClaimsAreReleased
  <1>1. TypeInv /\ Claims => ClaimsAreReleased
    BY SettledClaims DEF ClaimsAreReleased, Yielded
  <1> QED BY <1>1, ClaimsAreKept, PTL

(***************************************************************************)
(* An annotation that says no, or cannot be understood, never publishes:   *)
(* such an Ingress does not stay an owner of any publication, whatever the *)
(* default is and whichever host the publication is for.                   *)
(***************************************************************************)
THEOREM NothingExposed == ASSUME ValidDefaults PROVE Spec => []NothingExposedByTypo
  <1>1. ASSUME ClaimsAreReleased PROVE NothingExposedByTypo
    <2> SUFFICES ASSUME NEW c \in Children, NEW i \in Living, c[1] = "webapp", Owns(i, c),
                        ~child[c].deleting, obj[i].ann.publish \in {Typo, "false"}
                 PROVE  OnItsWay(i)
      BY DEF NothingExposedByTypo
    <2>1. ~Publishes(obj[i].ann)
      BY AnnotationsAssumption DEF Publishes
    <2>2. i \notin Wanting(c)
      BY <2>1 DEF Wanting
    <2> QED BY <1>1, <2>2 DEF ClaimsAreReleased
  <1> QED BY <1>1, ClaimsReleased, PTL

=============================================================================
