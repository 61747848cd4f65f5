---------------------------- MODULE SessionProofs ----------------------------
(***************************************************************************)
(* Theorems of Session, for any callers, scripts, answers and window: a    *)
(* mutual exclusion, in which what is protected is open for a part of the  *)
(* time only that the mutex is held.                                       *)
(***************************************************************************)
EXTENDS Session, FiniteSetTheorems, SequenceTheorems, TLAPS

Locs == {"idle", "lock", "dial", "read", "send", "exit", "close", "unlock", "done"}

\* Where a caller holds the mutex, and where it may have a connection.
Holding == {"dial", "read", "send", "exit", "close", "unlock"}
Connected == {"read", "send", "exit", "close"}

(***************************************************************************)
(* The caller at these places is the owner of the mutex, and so the only   *)
(* one; who has a connection is at some of them.                           *)
(***************************************************************************)
MutexInv ==
    /\ pc \in [Callers -> Locs]
    /\ \A c \in Callers : pc[c] \in Holding <=> mutex = c
    /\ conns \subseteq {c \in Callers : pc[c] \in Connected}

LEMMA InitMutex == Init => MutexInv
  BY NobodyAssumption DEF Init, MutexInv, Locs, Holding

-----------------------------------------------------------------------------
(***************************************************************************)
(* A caller goes from one place to another; the mutex and the connections  *)
(* change as they must.                                                    *)
(***************************************************************************)
LEMMA MoveKeeps ==
  ASSUME MutexInv, NEW c \in Callers, NEW to \in Locs,
         pc' = [pc EXCEPT ![c] = to],
         pc[c] \in Holding <=> to \in Holding, UNCHANGED mutex,
         conns' \subseteq conns \union {c}, to \notin Connected => c \notin conns'
  PROVE  MutexInv'
  <1>1. pc' \in [Callers -> Locs]
    BY DEF MutexInv
  <1>2. ASSUME NEW d \in Callers
        PROVE  pc'[d] \in Holding <=> mutex' = d
    BY <1>2 DEF MutexInv
  <1>3. ASSUME NEW d \in conns'
        PROVE  d \in Callers /\ pc'[d] \in Connected
    <2>1. CASE d = c
      BY <2>1, <1>3 DEF MutexInv
    <2>2. CASE d # c
      BY <2>2, <1>3 DEF MutexInv
    <2> QED BY <2>1, <2>2
  <1> QED BY <1>1, <1>2, <1>3 DEF MutexInv

LEMMA LockKeeps ==
  ASSUME MutexInv, NEW c \in Callers, Lock(c)
  PROVE  MutexInv'
  <1>1. /\ pc[c] = "lock" /\ pc' = [pc EXCEPT ![c] = "dial"]
        /\ mutex = Nobody /\ mutex' = c /\ conns' = conns
    BY DEF Lock, Step
  <1>2. pc' \in [Callers -> Locs]
    BY <1>1 DEF MutexInv, Locs
  <1>3. ASSUME NEW d \in Callers
        PROVE  pc'[d] \in Holding <=> mutex' = d
    BY <1>1, <1>3, NobodyAssumption DEF MutexInv, Holding
  <1>4. \A d \in conns : d # c
    BY <1>1 DEF MutexInv, Connected
  <1> QED BY <1>1, <1>2, <1>3, <1>4 DEF MutexInv

LEMMA UnlockKeeps ==
  ASSUME MutexInv, NEW c \in Callers, Unlock(c)
  PROVE  MutexInv'
  <1>1. /\ pc[c] = "unlock" /\ pc' = [pc EXCEPT ![c] = "done"]
        /\ mutex' = Nobody /\ conns' = conns
    BY DEF Unlock, Step
  <1>2. pc' \in [Callers -> Locs]
    BY <1>1 DEF MutexInv, Locs
  <1>3. mutex = c
    BY <1>1 DEF MutexInv, Holding
  <1>4. ASSUME NEW d \in Callers
        PROVE  pc'[d] \in Holding <=> mutex' = d
    BY <1>1, <1>3, <1>4, NobodyAssumption DEF MutexInv, Holding
  <1>5. \A d \in conns : d # c
    BY <1>1 DEF MutexInv, Connected
  <1> QED BY <1>1, <1>2, <1>4, <1>5 DEF MutexInv

(***************************************************************************)
(* run returns, by whichever way: its connection is still to be closed.    *)
(***************************************************************************)
LEMMA LeaveKeeps ==
  ASSUME MutexInv, NEW c \in Callers, NEW r, pc[c] \in Holding,
         Leave(c, r), UNCHANGED conns
  PROVE  MutexInv'
  <1>1. "close" \in Locs /\ "close" \in Holding /\ "close" \in Connected
    BY DEF Locs, Holding, Connected
  <1> QED BY <1>1, MoveKeeps DEF Leave

LEMMA ClientKeeps ==
  ASSUME MutexInv, NEW c \in Callers, Client(c)
  PROVE  MutexInv'
  <1> USE DEF Locs, Holding, Connected
  <1>1. CASE Dial(c)
    BY <1>1, MoveKeeps DEF Dial, Step
  <1>2. CASE DialFails(c)
    BY <1>2, LeaveKeeps DEF DialFails
  <1>3. CASE Read(c)
    <2>1. UNCHANGED <<mutex, conns>> /\ pc[c] = "read"
      BY <1>3 DEF Read
    <2>2. UNCHANGED pc \/ \E to \in {"send", "exit"} : pc' = [pc EXCEPT ![c] = to]
      BY <1>3 DEF Read
    <2>3. CASE UNCHANGED pc
      BY <2>1, <2>3 DEF MutexInv
    <2>4. CASE \E to \in {"send", "exit"} : pc' = [pc EXCEPT ![c] = to]
      BY <2>1, <2>4, MoveKeeps
    <2> QED BY <2>2, <2>3, <2>4
  <1>4. CASE Send(c)
    BY <1>4, MoveKeeps DEF Send, Step
  <1>5. CASE Exit(c)
    BY <1>5, LeaveKeeps DEF Exit
  <1>6. CASE Close(c)
    BY <1>6, MoveKeeps DEF Close, Step
  <1>7. CASE Unlock(c)
    BY <1>7, UnlockKeeps
  <1> QED BY <1>1, <1>2, <1>3, <1>4, <1>5, <1>6, <1>7 DEF Client

LEMMA NextKeepsMutex == MutexInv /\ [Next]_vars => MutexInv'
  <1> SUFFICES ASSUME MutexInv, [Next]_vars
               PROVE  MutexInv'
    OBVIOUS
  <1>1. ASSUME NEW c \in Callers, Call(c)
        PROVE  MutexInv'
    <2>1. c \notin conns
      BY <1>1 DEF Call, Step, MutexInv, Connected
    <2> QED BY <1>1, <2>1, MoveKeeps DEF Call, Step, Locs, Holding, Connected
  <1>2. ASSUME NEW c \in Callers, Lock(c)
        PROVE  MutexInv'
    BY <1>2, LockKeeps
  <1>3. ASSUME NEW c \in Callers, Client(c)
        PROVE  MutexInv'
    BY <1>3, ClientKeeps
  <1>4. ASSUME NEW c \in Callers, Deadline(c)
        PROVE  MutexInv'
    BY <1>4, LeaveKeeps DEF Deadline, Holding
  <1>5. ASSUME \/ \E c \in Callers : Straggle(c)
               \/ RouterPrints
               \/ RouterTakes
        PROVE  MutexInv'
    BY <1>5 DEF Straggle, RouterPrints, RouterTakes, clientVars, MutexInv
  <1>6. CASE UNCHANGED vars
    BY <1>6 DEF vars, clientVars, MutexInv
  <1> QED BY <1>1, <1>2, <1>3, <1>4, <1>5, <1>6 DEF Next

\* The caller between `c.mu.Lock` and the deferred unlock is the owner of the
\* mutex, and the only one there; connections are open nowhere else.
THEOREM MutexIsKept == Spec => []MutexInv
  BY InitMutex, NextKeepsMutex, PTL DEF Spec

(***************************************************************************)
(* OneSessionAtATime: the connections are the owner's, who is one.         *)
(***************************************************************************)
LEMMA OwnersConnection == MutexInv => OneSessionAtATime
  <1> SUFFICES ASSUME MutexInv
               PROVE  Cardinality(conns) <= 1
    BY DEF OneSessionAtATime
  <1>1. conns \subseteq {mutex}
    BY DEF MutexInv, Connected, Holding
  <1>2. IsFiniteSet({mutex}) /\ Cardinality({mutex}) = 1
    BY FS_Singleton
  <1> QED BY <1>1, <1>2, FS_Subset

\* The client serialises its sessions, for any number of callers and whatever
\* the router says, or does not say.
THEOREM SessionsDoNotOverlap == Spec => []OneSessionAtATime
  BY MutexIsKept, OwnersConnection, PTL

-----------------------------------------------------------------------------
(***************************************************************************)
(* Slices of a sequence, also empty ones.                                  *)
(***************************************************************************)
LEMMA Slice ==
  ASSUME NEW S, NEW s \in Seq(S), NEW i \in Nat \ {0}, NEW j \in 0..Len(s)
  PROVE  /\ SubSeq(s, i, j) \in Seq(S)
         /\ Len(SubSeq(s, i, j)) = IF i <= j THEN j - i + 1 ELSE 0
         /\ \A x \in 1..j - i + 1 : SubSeq(s, i, j)[x] = s[i + x - 1]
  <1>1. Len(s) \in Nat
    BY LenProperties
  <1>2. \A x \in i..j : s[x] \in S
    BY <1>1, ElementOfSeq
  <1> QED BY <1>1, <1>2, SubSeqProperties

LEMMA SliceOfSlice ==
  ASSUME NEW S, NEW s \in Seq(S), NEW i \in Nat \ {0}, NEW j \in 0..Len(s), i <= j + 1,
         NEW m \in Nat \ {0}, NEW n \in 0..j - i + 1
  PROVE  SubSeq(SubSeq(s, i, j), m, n) = SubSeq(s, i + m - 1, i + n - 1)
  <1> DEFINE whole == SubSeq(s, i, j)
             left == SubSeq(whole, m, n)
             right == SubSeq(s, i + m - 1, i + n - 1)
  <1>1. Len(s) \in Nat /\ i + m - 1 \in Nat \ {0} /\ i + n - 1 \in 0..Len(s)
    BY LenProperties
  <1>2. /\ whole \in Seq(S) /\ Len(whole) = j - i + 1
        /\ \A x \in 1..j - i + 1 : whole[x] = s[i + x - 1]
    BY <1>1, Slice
  <1> HIDE DEF whole
  <1>3. /\ left \in Seq(S) /\ Len(left) = IF m <= n THEN n - m + 1 ELSE 0
        /\ \A x \in 1..n - m + 1 : left[x] = whole[m + x - 1]
    BY <1>1, <1>2, Slice
  <1>4. /\ right \in Seq(S) /\ Len(right) = IF m <= n THEN n - m + 1 ELSE 0
        /\ \A x \in 1..n - m + 1 : right[x] = s[i + m - 1 + x - 1]
    <2>1. /\ right \in Seq(S)
          /\ Len(right) = IF i + m - 1 <= i + n - 1 THEN (i + n - 1) - (i + m - 1) + 1 ELSE 0
          /\ \A x \in 1..(i + n - 1) - (i + m - 1) + 1 : right[x] = s[(i + m - 1) + x - 1]
      BY <1>1, Slice
    <2> HIDE DEF right
    <2> QED BY <1>1, <2>1
  <1> HIDE DEF left, right
  <1>5. \A x \in 1..n - m + 1 : left[x] = right[x]
    <2> SUFFICES ASSUME NEW x \in 1..n - m + 1 PROVE left[x] = right[x]
      OBVIOUS
    <2>1. m + x - 1 \in 1..j - i + 1
      BY <1>1
    <2>2. whole[m + x - 1] = s[i + (m + x - 1) - 1]
      BY <1>2, <2>1
    <2>3. i + (m + x - 1) - 1 = i + m - 1 + x - 1
      BY <1>1
    <2> QED BY <1>3, <1>4, <2>2, <2>3
  <1>6. Len(left) = Len(right) /\ \A x \in 1..Len(left) : left[x] = right[x]
    BY <1>1, <1>3, <1>4, <1>5
  <1> QED BY <1>3, <1>4, <1>6, SeqEqual DEF left, right, whole

LEMMA SliceOfConcat ==
  ASSUME NEW S, NEW s \in Seq(S), NEW t \in Seq(S),
         NEW i \in Nat \ {0}, NEW j \in 0..Len(s)
  PROVE  SubSeq(s \o t, i, j) = SubSeq(s, i, j)
  <1>1. Len(s) \in Nat
    BY LenProperties
  <1>2. CASE i > j
    BY <1>1, <1>2, SubSeqEmpty
  <1>3. CASE i <= j
    <2>1. i \in 1..Len(s) /\ j \in 1..Len(s)
      BY <1>1, <1>3
    <2> QED BY <2>1, SubSeqOfConcat1
  <1> QED BY <1>1, <1>2, <1>3

LEMMA RestOfConcat ==
  ASSUME NEW S, NEW s \in Seq(S), NEW t \in Seq(S), NEW m \in 0..Len(s)
  PROVE  SubSeq(s \o t, m + 1, Len(s \o t)) = SubSeq(s, m + 1, Len(s)) \o t
  <1> DEFINE st == s \o t
  <1>1. Len(s) \in Nat /\ Len(t) \in Nat
    BY LenProperties
  <1>2. st \in Seq(S) /\ Len(st) = Len(s) + Len(t)
    BY ConcatProperties
  <1>3. SubSeq(st, Len(s) + 1, Len(st)) = t
    <2>1. CASE t = <<>>
      <3>1. Len(st) < Len(s) + 1
        BY <1>1, <1>2, <2>1
      <3> HIDE DEF st
      <3> QED BY <1>1, <1>2, <2>1, <3>1, SubSeqEmpty
    <2>2. CASE t # <<>>
      <3>1. Len(t) > 0
        BY <1>1, <2>2, EmptySeq
      <3>2. Len(s) + 1 \in Len(s) + 1..Len(s) + Len(t) /\ Len(st) \in Len(s) + 1..Len(s) + Len(t)
        BY <1>1, <1>2, <3>1
      <3>3. SubSeq(s \o t, Len(s) + 1, Len(st))
               = SubSeq(t, (Len(s) + 1) - Len(s), Len(st) - Len(s))
        BY <3>2, SubSeqOfConcat2
      <3>4. (Len(s) + 1) - Len(s) = 1 /\ Len(st) - Len(s) = Len(t)
        BY <1>1, <1>2
      <3>5. SubSeq(t, 1, Len(t)) = t
        BY SubSeqFull
      <3> QED BY <3>3, <3>4, <3>5
    <2> QED BY <2>1, <2>2
  <1>4. SubSeq(st, m + 1, Len(s)) \o SubSeq(st, Len(s) + 1, Len(st)) = SubSeq(st, m + 1, Len(st))
    <2>1. /\ m + 1 \in 1..Len(st) + 1 /\ Len(s) \in (m + 1) - 1..Len(st)
          /\ Len(st) \in Len(s)..Len(st)
      BY <1>1, <1>2
    <2> HIDE DEF st
    <2> QED BY <1>2, <2>1, ConcatAdjacentSubSeq
  <1>5. SubSeq(st, m + 1, Len(s)) = SubSeq(s, m + 1, Len(s))
    <2>1. m + 1 \in Nat \ {0} /\ Len(s) \in 0..Len(s)
      BY <1>1
    <2> QED BY <2>1, SliceOfConcat
  <1> QED BY <1>3, <1>4, <1>5

\* One more symbol.
LEMMA SliceGrows ==
  ASSUME NEW S, NEW s \in Seq(S), NEW i \in Nat \ {0}, NEW j \in 0..Len(s),
         i <= j + 1, j < Len(s)
  PROVE  /\ s[j + 1] \in S
         /\ Append(SubSeq(s, i, j), s[j + 1]) = SubSeq(s, i, j + 1)
         /\ SubSeq(s, j + 1, Len(s)) # <<>>
         /\ Head(SubSeq(s, j + 1, Len(s))) = s[j + 1]
         /\ Tail(SubSeq(s, j + 1, Len(s))) = SubSeq(s, j + 2, Len(s))
  <1>1. Len(s) \in Nat /\ j + 1 \in 1..Len(s)
    BY LenProperties
  <1>2. s[j + 1] \in S
    BY <1>1, ElementOfSeq
  <1>3. SubSeq(s, i, j) \in Seq(S)
    BY Slice
  <1>4. Append(SubSeq(s, i, j), s[j + 1]) = SubSeq(s, i, j) \o <<s[j + 1]>>
    BY <1>2, <1>3, AppendIsConcat
  <1>5. SubSeq(s, i, j + 1) = SubSeq(s, i, (j + 1) - 1) \o <<s[j + 1]>>
    <2>1. i \in 1..Len(s) /\ j + 1 \in i..Len(s)
      BY <1>1
    <2> QED BY <2>1, SubSeqRecursiveSecond
  <1>6. (j + 1) - 1 = j
    BY <1>1
  <1>7. /\ Head(SubSeq(s, j + 1, Len(s))) = s[j + 1]
        /\ Tail(SubSeq(s, j + 1, Len(s))) = SubSeq(s, (j + 1) + 1, Len(s))
    <2>1. Len(s) \in j + 1..Len(s)
      BY <1>1
    <2> QED BY <1>1, <2>1, HeadTailOfSubSeq
  <1>8. (j + 1) + 1 = j + 2
    BY <1>1
  <1>9. SubSeq(s, j + 1, Len(s)) # <<>>
    <2>1. j + 1 \in Nat \ {0} /\ Len(s) \in 0..Len(s)
      BY <1>1
    <2>2. Len(SubSeq(s, j + 1, Len(s))) = Len(s) - (j + 1) + 1
      BY <1>1, <2>1, Slice
    <2>3. Len(SubSeq(s, j + 1, Len(s))) # 0
      <3>1. Len(s) - (j + 1) + 1 # 0
        BY <1>1
      <3> QED BY ONLY <2>2, <3>1
    <2>4. \A rest : Len(rest) # 0 => rest # <<>>
      OBVIOUS
    <2> QED BY ONLY <2>3, <2>4
  <1> QED BY <1>2, <1>4, <1>5, <1>6, <1>7, <1>8, <1>9

-----------------------------------------------------------------------------
(***************************************************************************)
(* The stream of a session.  There is one text s, the reply to the last    *)
(* command or what is left of the decoration of the last prompt, of which  *)
(* k symbols have been read, a window of them kept, and m been printed.    *)
(***************************************************************************)
Tape(s, k, m) ==
    /\ tail = SubSeq(s, First(k), k)
    /\ wire = SubSeq(s, k + 1, m)
    /\ printing = SubSeq(s, m + 1, Len(s))

Quiet == tail = <<>> /\ input = <<>> /\ wire = <<>> /\ printing = <<>>

\* The prompt has been read: all there may be is its decoration.
Turn == \E s \in Leads : \E m \in 0..Len(s) : Tape(s, 0, m) /\ input = <<>>

\* A line has been sent: the router, at its prompt, will take it.
Asked(c) ==
    /\ \E s \in Leads : \E k \in 0..Len(s) : \E m \in k..Len(s) : Tape(s, k, m)
    /\ sent \in 1..Len(Script[c]) /\ input = <<Script[c][sent]>>

\* The router has something to say, and the client has not read all of it.
Told ==
    /\ \E s \in Replies : \E k \in 0..Len(s) - 2 : \E m \in k..Len(s) : Tape(s, k, m)
    /\ input = <<>>

\* Where the caller with the connection is, and where the stream is.
InTurn(c) ==
    /\ Turn \/ Asked(c) \/ Told
    /\ sent \in 0..Len(Script[c])
    /\ pc[c] = "read" => Asked(c) \/ Told
    /\ pc[c] = "send" => Turn /\ sent < Len(Script[c])
    /\ pc[c] = "exit" => Turn /\ sent = Len(Script[c])

Talking == {"read", "send", "exit"}

StreamInv ==
    /\ conns = {} => Quiet
    /\ \A c \in Callers : pc[c] \in Talking => c \in conns
    /\ \A c \in conns : InTurn(c)

LEMMA Texts ==
  /\ Replies \union Leads \subseteq Seq(Symbols)
  /\ \A s \in Replies : Len(s) \in Nat /\ Len(s) >= 3
  /\ \A s \in Leads : Len(s) \in {0, 1} /\ \A i \in 1..Len(s) : s[i] = "e"
  /\ \A s \in Leads, a \in Answers : s \o Reply(a) \in Replies
  /\ Reply(Greeting) \in Replies
  <1> DEFINE end == Prompt \o <<"e">>
  <1>1. end \in Seq(Symbols) /\ Len(end) = 3
    BY DEF Prompt, Symbols
  <1>2. \A s \in Leads : /\ s \in Seq(Symbols) /\ Len(s) \in {0, 1}
                         /\ \A i \in 1..Len(s) : s[i] = "e"
    <2>1. <<>> \in Seq(Symbols) /\ Len(<<>>) = 0
      OBVIOUS
    <2>2. <<"e">> \in Seq(Symbols) /\ Len(<<"e">>) = 1 /\ <<"e">>[1] = "e"
      BY DEF Symbols
    <2> SUFFICES ASSUME NEW s \in Leads
                 PROVE  /\ s \in Seq(Symbols) /\ Len(s) \in {0, 1}
                        /\ \A i \in 1..Len(s) : s[i] = "e"
      OBVIOUS
    <2>3. CASE s = <<>>
      BY <2>1, <2>3
    <2>4. CASE s = <<"e">>
      <3>1. Len(s) = 1 /\ s[1] = "e" /\ s \in Seq(Symbols)
        BY <2>2, <2>4
      <3> QED BY <3>1
    <2> QED BY <2>3, <2>4 DEF Leads
  <1> HIDE DEF end
  <1>3. ASSUME NEW text \in Seq(Symbols)
        PROVE  /\ Reply(text) \in Seq(Symbols)
               /\ Len(Reply(text)) \in Nat /\ Len(Reply(text)) >= 3
    <2>1. Reply(text) = text \o end
      BY DEF Reply, end
    <2>2. Len(text) \in Nat
      BY LenProperties
    <2>3. text \o end \in Seq(Symbols) /\ Len(text \o end) = Len(text) + Len(end)
      BY <1>1, ConcatProperties
    <2> QED BY <1>1, <2>1, <2>2, <2>3
  <1>4. ASSUME NEW s \in Leads, NEW a \in Answers
        PROVE  /\ s \o Reply(a) \in Seq(Symbols)
               /\ Len(s \o Reply(a)) \in Nat /\ Len(s \o Reply(a)) >= 3
    <2>1. s \in Seq(Symbols) /\ Reply(a) \in Seq(Symbols)
      BY <1>2, <1>3, TextsAssumption
    <2>2. s \o Reply(a) \in Seq(Symbols) /\ Len(s \o Reply(a)) = Len(s) + Len(Reply(a))
      BY <2>1, ConcatProperties
    <2>3. Len(s) \in Nat /\ Len(Reply(a)) \in Nat /\ Len(Reply(a)) >= 3
      BY <1>2, <1>3, TextsAssumption
    <2> QED BY <2>2, <2>3
  <1>5. ASSUME NEW s \in Replies
        PROVE  s \in Seq(Symbols) /\ Len(s) \in Nat /\ Len(s) >= 3
    <2>1. CASE s = Reply(Greeting)
      BY <1>3, <2>1, TextsAssumption
    <2>2. CASE \E lead \in Leads, answer \in Answers : s = lead \o Reply(answer)
      BY <1>4, <2>2
    <2> QED BY <2>1, <2>2 DEF Replies
  <1>6. \A s \in Leads, a \in Answers : s \o Reply(a) \in Replies
    BY DEF Replies
  <1>7. Reply(Greeting) \in Replies
    BY DEF Replies
  <1>8. Replies \union Leads \subseteq Seq(Symbols)
    BY <1>2, <1>5
  <1> QED BY <1>2, <1>5, <1>6, <1>7, <1>8

\* The decoration of a prompt does not keep the router from its prompt.
LEMMA LeadsWait ==
  ASSUME NEW s \in Leads, NEW k \in 0..Len(s), NEW m \in k..Len(s), Tape(s, k, m)
  PROVE  Waiting /\ \A i \in DOMAIN wire : wire[i] = "e"
  <1>1. s \in Seq(Symbols) /\ Len(s) \in {0, 1} /\ \A i \in 1..Len(s) : s[i] = "e"
    BY Texts
  <1>2. k + 1 \in Nat \ {0} /\ m + 1 \in Nat \ {0} /\ m \in 0..Len(s) /\ Len(s) \in 0..Len(s)
    BY <1>1
  <1>3. /\ wire \in Seq(Symbols) /\ \A x \in 1..m - (k + 1) + 1 : wire[x] = s[(k + 1) + x - 1]
        /\ Len(wire) = IF k + 1 <= m THEN m - (k + 1) + 1 ELSE 0
    <2>1. wire = SubSeq(s, k + 1, m)
      BY DEF Tape
    <2> QED BY <1>1, <1>2, <2>1, Slice
  <1>4. /\ printing \in Seq(Symbols)
        /\ \A x \in 1..Len(s) - (m + 1) + 1 : printing[x] = s[(m + 1) + x - 1]
        /\ Len(printing) = IF m + 1 <= Len(s) THEN Len(s) - (m + 1) + 1 ELSE 0
    <2>1. printing = SubSeq(s, m + 1, Len(s))
      BY DEF Tape
    <2> QED BY <1>1, <1>2, <2>1, Slice
  <1>5. DOMAIN wire = 1..Len(wire) /\ DOMAIN printing = 1..Len(printing)
    BY <1>3, <1>4, LenProperties
  <1>6. \A x \in 1..Len(wire) : wire[x] = "e"
    <2> SUFFICES ASSUME NEW x \in 1..Len(wire) PROVE wire[x] = "e"
      OBVIOUS
    <2>1. x \in 1..m - (k + 1) + 1 /\ (k + 1) + x - 1 \in 1..Len(s)
      BY <1>1, <1>2, <1>3
    <2> QED BY <1>1, <1>3, <2>1
  <1>7. \A x \in 1..Len(printing) : printing[x] = "e"
    <2> SUFFICES ASSUME NEW x \in 1..Len(printing) PROVE printing[x] = "e"
      OBVIOUS
    <2>1. x \in 1..Len(s) - (m + 1) + 1 /\ (m + 1) + x - 1 \in 1..Len(s)
      BY <1>1, <1>2, <1>4
    <2> QED BY <1>1, <1>4, <2>1
  <1> QED BY <1>5, <1>6, <1>7 DEF Waiting

\* A reply ends in a prompt and its decoration.
LEMMA Decoration ==
  ASSUME NEW s \in Replies, NEW j \in Len(s) - 1..Len(s)
  PROVE  SubSeq(s, j + 1, Len(s)) \in Leads
  <1> DEFINE end == Prompt \o <<"e">>
  <1>1. end \in Seq(Symbols) /\ Len(end) = 3 /\ end[3] = "e"
    BY DEF Prompt, Symbols
  <1> HIDE DEF end
  <1>2. ASSUME NEW text \in Seq(Symbols)
        PROVE  /\ Reply(text) \in Seq(Symbols) /\ Len(Reply(text)) \in Nat \ {0}
               /\ Reply(text)[Len(Reply(text))] = "e"
    <2>1. Reply(text) = text \o end
      BY DEF Reply, end
    <2>2. Len(text) \in Nat
      BY LenProperties
    <2>3. /\ text \o end \in Seq(Symbols) /\ Len(text \o end) = Len(text) + Len(end)
          /\ \A i \in 1..Len(text) + Len(end) : (text \o end)[i] =
                 IF i <= Len(text) THEN text[i] ELSE end[i - Len(text)]
      BY <1>1, ConcatProperties
    <2>4. /\ Len(text) + 3 \in 1..Len(text) + Len(end)
          /\ ~(Len(text) + 3 <= Len(text)) /\ (Len(text) + 3) - Len(text) = 3
      BY <1>1, <2>2
    <2>5. (text \o end)[Len(text) + 3] = end[3]
      BY <2>3, <2>4
    <2> QED BY <1>1, <2>1, <2>2, <2>3, <2>5
  <1>3. s \in Seq(Symbols) /\ Len(s) \in Nat \ {0} /\ s[Len(s)] = "e"
    <2>1. CASE s = Reply(Greeting)
      BY <1>2, <2>1, TextsAssumption
    <2>2. CASE \E lead \in Leads, answer \in Answers : s = lead \o Reply(answer)
      <3>1. PICK lead \in Leads, answer \in Answers : s = lead \o Reply(answer)
        BY <2>2
      <3> DEFINE said == Reply(answer)
      <3>2. said \in Seq(Symbols) /\ Len(said) \in Nat \ {0} /\ said[Len(said)] = "e"
        BY <1>2, TextsAssumption
      <3>3. lead \in Seq(Symbols) /\ Len(lead) \in Nat
        BY Texts, LenProperties
      <3> HIDE DEF said
      <3>4. /\ lead \o said \in Seq(Symbols) /\ Len(lead \o said) = Len(lead) + Len(said)
            /\ \A i \in 1..Len(lead) + Len(said) : (lead \o said)[i] =
                   IF i <= Len(lead) THEN lead[i] ELSE said[i - Len(lead)]
        BY <3>2, <3>3, ConcatProperties
      <3>5. /\ Len(lead) + Len(said) \in 1..Len(lead) + Len(said)
            /\ ~(Len(lead) + Len(said) <= Len(lead))
            /\ (Len(lead) + Len(said)) - Len(lead) = Len(said)
            /\ Len(lead) + Len(said) \in Nat \ {0}
        BY <3>2, <3>3
      <3>6. (lead \o said)[Len(lead) + Len(said)] = said[Len(said)]
        BY <3>4, <3>5
      <3>7. s = lead \o said
        BY <3>1 DEF said
      <3> QED BY <3>2, <3>4, <3>5, <3>6, <3>7
    <2> QED BY <2>1, <2>2 DEF Replies
  <1>4. CASE j = Len(s)
    <2>1. Len(s) < j + 1 /\ j + 1 \in Nat
      BY <1>3, <1>4
    <2>2. SubSeq(s, j + 1, Len(s)) = <<>>
      BY <1>3, <2>1, SubSeqEmpty
    <2> QED BY <2>2 DEF Leads
  <1>5. CASE j = Len(s) - 1
    <2> DEFINE rest == SubSeq(s, j + 1, Len(s))
    <2>1. j + 1 = Len(s) /\ j + 1 \in Nat \ {0} /\ Len(s) \in 0..Len(s)
      BY <1>3, <1>5
    <2>2. /\ rest \in Seq(Symbols)
          /\ Len(rest) = IF j + 1 <= Len(s) THEN Len(s) - (j + 1) + 1 ELSE 0
          /\ \A x \in 1..Len(s) - (j + 1) + 1 : rest[x] = s[(j + 1) + x - 1]
      BY <1>3, <2>1, Slice
    <2> HIDE DEF rest
    <2>3. Len(s) - (j + 1) + 1 = 1 /\ (j + 1) + 1 - 1 = Len(s) /\ 1 \in 1..1
      BY <1>3, <2>1
    <2>4. Len(rest) = 1
      BY <1>3, <2>1, <2>2
    <2>5. rest[1] = "e"
      BY <1>3, <2>2, <2>3
    <2>6. rest = <<"e">>
      <3>1. <<"e">> \in Seq(Symbols) /\ Len(<<"e">>) = 1 /\ <<"e">>[1] = "e"
        BY DEF Symbols
      <3>2. \A i \in 1..Len(rest) : rest[i] = <<"e">>[i]
        BY <2>4, <2>5, <3>1
      <3> QED BY <2>2, <2>4, <3>1, <3>2, SeqEqual
    <2> QED BY <2>6 DEF rest, Leads
  <1>6. j = Len(s) \/ j = Len(s) - 1
    BY <1>3
  <1> QED BY <1>4, <1>5, <1>6

-----------------------------------------------------------------------------
(***************************************************************************)
(* What the steps do to the tape.                                          *)
(***************************************************************************)
LEMMA FirstKept ==
  ASSUME NEW k \in Nat
  PROVE  /\ First(k) \in Nat \ {0} /\ First(k) <= k + 1
         /\ k - First(k) + 1 <= PromptWindow
  BY WindowAssumption DEF First

LEMMA ReadOn ==
  ASSUME NEW size \in Nat, NEW k \in 0..size, NEW m \in k..size, NEW n \in Nat,
         k + n \in k + 1..m
  PROVE  /\ k + n \in k + 1..size /\ k + n \in 0..size /\ m \in k + n..size
         /\ size \in {0, 1} => k = 0 /\ n = 1 /\ size = 1
  <1>1. k \in Int /\ m \in Int /\ k >= 0 /\ k + 1 <= k + n /\ k + n <= m /\ m <= size
    OBVIOUS
  <1> QED BY <1>1

LEMMA KeepSlice ==
  ASSUME NEW s \in Seq(Symbols), NEW a \in Nat \ {0}, NEW b \in 0..Len(s), a <= b
  PROVE  Keep(SubSeq(s, a, b))
            = SubSeq(s, IF b - a + 1 > PromptWindow THEN b - PromptWindow + 1 ELSE a, b)
  <1> DEFINE read == SubSeq(s, a, b)
  <1>1. Len(s) \in Nat /\ b \in Nat /\ a <= b + 1 /\ PromptWindow \in Nat \ {0}
    BY LenProperties, WindowAssumption
  <1>2. Len(read) = IF a <= b THEN b - a + 1 ELSE 0
    BY Slice
  <1>3. Len(read) = b - a + 1
    BY <1>2
  <1>4. CASE b - a + 1 > PromptWindow
    <2> DEFINE from == b - a + 1 - PromptWindow + 1
    <2>1. Keep(read) = SubSeq(read, from, b - a + 1)
      <3>1. Keep(read) = SubSeq(read, Len(read) - PromptWindow + 1, Len(read))
        BY <1>3, <1>4 DEF Keep
      <3>2. Len(read) - PromptWindow + 1 = from
        BY <1>1, <1>3
      <3> QED BY <1>3, <3>1, <3>2
    <2>2. from \in Nat \ {0} /\ b - a + 1 \in 0..b - a + 1
      BY <1>1, <1>4
    <2>3. a + from - 1 = b - PromptWindow + 1 /\ a + (b - a + 1) - 1 = b
      BY <1>1
    <2>4. SubSeq(SubSeq(s, a, b), from, b - a + 1)
             = SubSeq(s, a + from - 1, a + (b - a + 1) - 1)
      <3> HIDE DEF from
      <3> QED BY <1>1, <2>2, SliceOfSlice
    <2> QED BY <1>4, <2>1, <2>3, <2>4
  <1>5. CASE ~(b - a + 1 > PromptWindow)
    <2>1. Keep(read) = SubSeq(read, 1, b - a + 1)
      BY <1>3, <1>5 DEF Keep
    <2>2. 1 \in Nat \ {0} /\ b - a + 1 \in 0..b - a + 1
      BY <1>1
    <2>3. a + 1 - 1 = a /\ a + (b - a + 1) - 1 = b
      BY <1>1
    <2>4. SubSeq(SubSeq(s, a, b), 1, b - a + 1) = SubSeq(s, a + 1 - 1, a + (b - a + 1) - 1)
      BY <1>1, <2>2, SliceOfSlice
    <2> QED BY <1>5, <2>1, <2>3, <2>4
  <1> QED BY <1>4, <1>5

LEMMA ReadTape ==
  ASSUME NEW s \in Seq(Symbols), NEW k \in 0..Len(s), NEW m \in k..Len(s), Tape(s, k, m),
         NEW n \in DOMAIN wire
  PROVE  /\ n \in Nat /\ k + n \in k + 1..m
         /\ tail \o SubSeq(wire, 1, n) = SubSeq(s, First(k), k + n)
         /\ SubSeq(wire, n + 1, Len(wire)) = SubSeq(s, k + n + 1, m)
         /\ Keep(SubSeq(s, First(k), k + n)) = SubSeq(s, First(k + n), k + n)
  <1>1. Len(s) \in Nat /\ k \in Nat /\ m \in 0..Len(s) /\ k + 1 \in Nat \ {0}
    BY LenProperties
  <1>2. wire = SubSeq(s, k + 1, m) /\ tail = SubSeq(s, First(k), k)
    BY DEF Tape
  <1>3. wire \in Seq(Symbols) /\ Len(wire) = IF k + 1 <= m THEN m - (k + 1) + 1 ELSE 0
    BY <1>1, <1>2, Slice
  <1>4. DOMAIN wire = 1..Len(wire)
    BY <1>3, LenProperties
  <1>5. n \in Nat /\ n \in 1..m - k /\ k + n \in k + 1..m /\ Len(wire) = m - k
    BY <1>1, <1>3, <1>4
  <1>6. /\ First(k) \in Nat \ {0} /\ First(k) <= k + 1
        /\ k + n \in Nat /\ m \in Nat /\ PromptWindow \in Nat \ {0}
    BY <1>1, <1>5, FirstKept, WindowAssumption
  <1>7. tail \o SubSeq(wire, 1, n) = SubSeq(s, First(k), k + n)
    <2>1. SubSeq(wire, 1, n) = SubSeq(s, k + 1, k + n)
      <3>1. k + 1 <= m + 1 /\ 1 \in Nat \ {0} /\ n \in 0..m - (k + 1) + 1
        BY <1>1, <1>5
      <3>2. SubSeq(SubSeq(s, k + 1, m), 1, n) = SubSeq(s, (k + 1) + 1 - 1, (k + 1) + n - 1)
        BY <1>1, <3>1, SliceOfSlice
      <3>3. (k + 1) + 1 - 1 = k + 1 /\ (k + 1) + n - 1 = k + n
        BY <1>1, <1>5
      <3> QED BY <1>2, <3>2, <3>3
    <2>2. SubSeq(s, First(k), k) \o SubSeq(s, k + 1, k + n) = SubSeq(s, First(k), k + n)
      <3>1. First(k) \in 1..Len(s) + 1 /\ k \in First(k) - 1..Len(s) /\ k + n \in k..Len(s)
        BY <1>1, <1>5, <1>6
      <3> QED BY <3>1, ConcatAdjacentSubSeq
    <2> QED BY <1>2, <2>1, <2>2
  <1>8. SubSeq(wire, n + 1, Len(wire)) = SubSeq(s, k + n + 1, m)
    <2> DEFINE size == m - k
    <2>1. k \in Int /\ m \in Int /\ n \in Int
      BY <1>1, <1>5, <1>6
    <2>2. /\ k + 1 <= m + 1 /\ n + 1 \in Nat \ {0}
          /\ size \in 0..m - (k + 1) + 1
      BY <1>1, <1>5, <1>6
    <2>3. (k + 1) + size - 1 = m
      BY ONLY <2>1
    <2>4. (k + 1) + (n + 1) - 1 = k + n + 1
      BY ONLY <2>1
    <2>5. SubSeq(wire, n + 1, Len(wire)) = SubSeq(SubSeq(s, k + 1, m), n + 1, size)
      BY <1>2, <1>5
    <2>6. SubSeq(SubSeq(s, k + 1, m), n + 1, size)
            = SubSeq(s, (k + 1) + (n + 1) - 1, (k + 1) + size - 1)
      <3> DEFINE a == k + 1
                 b == n + 1
      <3>1. /\ a \in Nat \ {0} /\ m \in 0..Len(s) /\ a <= m + 1 /\ b \in Nat \ {0}
            /\ size \in 0..m - a + 1
        BY <1>1, <2>2
      <3> HIDE DEF a, b, size
      <3>2. SubSeq(SubSeq(s, a, m), b, size) = SubSeq(s, a + b - 1, a + size - 1)
        BY <3>1, SliceOfSlice
      <3> QED BY <3>2 DEF a, b
    <2> HIDE DEF size
    <2> QED BY <2>3, <2>4, <2>5, <2>6
  <1>9. Keep(SubSeq(s, First(k), k + n)) = SubSeq(s, First(k + n), k + n)
    <2>1. k + n \in 0..Len(s) /\ First(k) <= k + n
      BY <1>1, <1>5, <1>6
    <2>2. Keep(SubSeq(s, First(k), k + n))
            = SubSeq(s, IF (k + n) - First(k) + 1 > PromptWindow
                        THEN (k + n) - PromptWindow + 1 ELSE First(k), k + n)
      BY <1>6, <2>1, KeepSlice
    <2>3. (IF (k + n) - First(k) + 1 > PromptWindow
           THEN (k + n) - PromptWindow + 1 ELSE First(k)) = First(k + n)
      <3>1. k \in Nat /\ n \in Nat \ {0}
        BY <1>1, <1>5
      <3>2. CASE k > PromptWindow
        <4>1. First(k) = k - PromptWindow + 1
          BY <3>2 DEF First
        <4>2. k + n > PromptWindow /\ (k + n) - (k - PromptWindow + 1) + 1 > PromptWindow
          BY <3>1, <3>2, <1>6
        <4> QED BY <4>1, <4>2 DEF First
      <3>3. CASE ~(k > PromptWindow)
        <4>1. First(k) = 1
          BY <3>3 DEF First
        <4>2. (k + n) - 1 + 1 = k + n
          BY <3>1
        <4> QED BY <4>1, <4>2 DEF First
      <3> QED BY <3>2, <3>3
    <2> QED BY <2>2, <2>3
  <1> QED BY <1>5, <1>7, <1>8, <1>9

LEMMA PrintTape ==
  ASSUME NEW s \in Seq(Symbols), NEW k \in 0..Len(s), NEW m \in k..Len(s), Tape(s, k, m),
         printing # <<>>
  PROVE  /\ m + 1 \in k..Len(s)
         /\ Append(wire, Head(printing)) = SubSeq(s, k + 1, m + 1)
         /\ Tail(printing) = SubSeq(s, (m + 1) + 1, Len(s))
  <1>1. Len(s) \in Nat /\ k \in Nat /\ m \in 0..Len(s) /\ k + 1 \in Nat \ {0}
    BY LenProperties
  <1>2. printing = SubSeq(s, m + 1, Len(s)) /\ wire = SubSeq(s, k + 1, m)
    BY DEF Tape
  <1>3. m < Len(s)
    <2> SUFFICES ASSUME ~(m < Len(s)) PROVE FALSE
      OBVIOUS
    <2>1. Len(s) < m + 1 /\ m + 1 \in Nat
      BY <1>1
    <2>2. SubSeq(s, m + 1, Len(s)) = <<>>
      BY <1>1, <2>1, SubSeqEmpty
    <2> QED BY <1>2, <2>2
  <1>4. k + 1 <= m + 1
    BY <1>1
  <1>5. /\ Append(SubSeq(s, k + 1, m), s[m + 1]) = SubSeq(s, k + 1, m + 1)
        /\ Head(SubSeq(s, m + 1, Len(s))) = s[m + 1]
        /\ Tail(SubSeq(s, m + 1, Len(s))) = SubSeq(s, m + 2, Len(s))
    BY <1>1, <1>3, <1>4, SliceGrows
  <1>6. (m + 1) + 1 = m + 2 /\ m + 1 \in k..Len(s)
    BY <1>1, <1>3
  <1> QED BY <1>2, <1>5, <1>6

\* The router answers: its text comes after everything it had to print.
LEMMA AnswerTape ==
  ASSUME NEW s \in Seq(Symbols), NEW k \in 0..Len(s), NEW m \in k..Len(s), Tape(s, k, m),
         NEW t \in Seq(Symbols)
  PROVE  /\ tail = SubSeq(s \o t, First(k), k)
         /\ wire = SubSeq(s \o t, k + 1, m)
         /\ printing \o t = SubSeq(s \o t, m + 1, Len(s \o t))
  <1>1. Len(s) \in Nat /\ k \in Nat /\ m \in 0..Len(s) /\ k + 1 \in Nat \ {0}
    BY LenProperties
  <1>2. First(k) \in Nat \ {0}
    BY <1>1, FirstKept
  <1>3. SubSeq(s \o t, First(k), k) = SubSeq(s, First(k), k)
    BY <1>2, SliceOfConcat
  <1>4. SubSeq(s \o t, k + 1, m) = SubSeq(s, k + 1, m)
    BY <1>1, SliceOfConcat
  <1>5. SubSeq(s \o t, m + 1, Len(s \o t)) = SubSeq(s, m + 1, Len(s)) \o t
    BY <1>1, RestOfConcat
  <1> QED BY <1>3, <1>4, <1>5 DEF Tape

\* The text begins where the client has read to.
LEMMA NewTape ==
  ASSUME NEW s \in Seq(Symbols), NEW j \in 0..Len(s), NEW m \in j..Len(s)
  PROVE  LET rest == SubSeq(s, j + 1, Len(s)) IN
         /\ m - j \in 0..Len(rest)
         /\ <<>> = SubSeq(rest, First(0), 0)
         /\ SubSeq(s, j + 1, m) = SubSeq(rest, 0 + 1, m - j)
         /\ SubSeq(s, m + 1, Len(s)) = SubSeq(rest, (m - j) + 1, Len(rest))
  <1> DEFINE rest == SubSeq(s, j + 1, Len(s))
  <1>1. Len(s) \in Nat /\ j \in Nat /\ m \in Nat /\ m - j \in Nat /\ j + 1 \in Nat \ {0}
        /\ Len(s) \in 0..Len(s) /\ j + 1 <= Len(s) + 1 /\ m - j + 1 \in Nat \ {0}
    BY LenProperties
  <1>2. rest \in Seq(Symbols) /\ Len(rest) = IF j + 1 <= Len(s) THEN Len(s) - (j + 1) + 1 ELSE 0
    BY <1>1, Slice
  <1>3. Len(rest) = Len(s) - j
    BY <1>1, <1>2
  <1>4. SubSeq(SubSeq(s, j + 1, Len(s)), 1, m - j) = SubSeq(s, (j + 1) + 1 - 1, (j + 1) + (m - j) - 1)
    <2>1. 1 \in Nat \ {0} /\ m - j \in 0..Len(s) - (j + 1) + 1
      BY <1>1
    <2> QED BY <1>1, <2>1, SliceOfSlice
  <1>5. (j + 1) + 1 - 1 = j + 1 /\ (j + 1) + (m - j) - 1 = m
    BY <1>1
  <1>6. SubSeq(SubSeq(s, j + 1, Len(s)), m - j + 1, Len(s) - j)
           = SubSeq(s, (j + 1) + (m - j + 1) - 1, (j + 1) + (Len(s) - j) - 1)
    <2>1. Len(s) - j \in 0..Len(s) - (j + 1) + 1
      BY <1>1
    <2> QED BY <1>1, <2>1, SliceOfSlice
  <1>7. (j + 1) + (m - j + 1) - 1 = m + 1 /\ (j + 1) + (Len(s) - j) - 1 = Len(s) /\ 0 + 1 = 1
    BY <1>1
  <1>8. <<>> = SubSeq(rest, First(0), 0)
    <2>1. First(0) \in Nat \ {0}
      BY FirstKept
    <2>2. 0 < First(0) /\ 0 \in Nat
      BY <2>1
    <2> HIDE DEF rest
    <2> QED BY <1>2, <2>1, <2>2, SubSeqEmpty
  <1>9. m - j \in 0..Len(rest)
    BY <1>1, <1>3
  <1> QED BY <1>3, <1>4, <1>5, <1>6, <1>7, <1>8, <1>9

-----------------------------------------------------------------------------
(***************************************************************************)
(* StreamInv is inductive, where a prompt is legible.                      *)
(***************************************************************************)
stream == <<conns, sent, tail, input, printing, wire>>

LEMMA InitStream == Init => StreamInv
  BY DEF Init, StreamInv, Quiet, Talking

\* Only the owner of the mutex has a connection.
LEMMA OneConnection ==
  ASSUME MutexInv, NEW c \in Callers, pc[c] \in Holding
  PROVE  /\ conns \subseteq {c} /\ \A d \in Callers : pc[d] \in Talking => d = c
  BY DEF MutexInv, Holding, Connected, Talking

\* Nothing happens on the connection, and who is not talking does not begin to.
LEMMA ElsewhereKeeps ==
  ASSUME StreamInv, UNCHANGED stream,
         \A c \in Callers : pc'[c] \in Talking => pc'[c] = pc[c],
         conns \subseteq Callers
  PROVE  StreamInv'
  <1>1. /\ Turn' <=> Turn
        /\ Told' <=> Told
        /\ Quiet' <=> Quiet
        /\ \A c \in Callers : Asked(c)' <=> Asked(c)
    BY DEF stream, Turn, Told, Asked, Quiet, Tape
  <1>2. ASSUME NEW c \in conns
        PROVE  InTurn(c)'
    <2>1. InTurn(c) /\ c \in Callers
      BY DEF StreamInv
    <2>2. pc'[c] \in Talking => pc'[c] = pc[c]
      BY <2>1
    <2> QED BY <1>1, <2>1, <2>2 DEF InTurn, Talking, stream
  <1>3. conns' = conns
    BY DEF stream
  <1> QED BY <1>1, <1>2, <1>3 DEF StreamInv

LEMMA DialStream ==
  ASSUME MutexInv, StreamInv, NEW c \in Callers, Dial(c)
  PROVE  StreamInv'
  <1>1. /\ pc[c] = "dial" /\ pc' = [pc EXCEPT ![c] = "read"] /\ conns' = conns \union {c}
        /\ sent' = 0 /\ tail' = <<>> /\ input' = <<>>
        /\ printing' = Reply(Greeting) /\ wire' = <<>>
    BY DEF Dial, Step
  <1>2. conns' = {c} /\ \A d \in Callers : pc[d] \in Talking => d = c
    BY <1>1, OneConnection DEF Holding
  <1>3. \A d \in Callers : pc'[d] \in Talking => d = c
    BY <1>1, <1>2 DEF MutexInv
  <1>4. pc'[c] = "read"
    BY <1>1 DEF MutexInv
  <1>5. Told'
    <2> DEFINE s == Reply(Greeting)
    <2>1. s \in Replies /\ s \in Seq(Symbols) /\ Len(s) \in Nat /\ Len(s) >= 3
      BY Texts
    <2> HIDE DEF s
    <2>2. 0 \in 0..Len(s) - 2 /\ 0 \in 0..Len(s) /\ First(0) \in Nat \ {0}
      BY <2>1, FirstKept
    <2>3. SubSeq(s, First(0), 0) = <<>>
      <3>1. 0 < First(0) /\ 0 \in Nat
        BY <2>2
      <3> QED BY <2>1, <2>2, <3>1, SubSeqEmpty
    <2>4. SubSeq(s, 0 + 1, 0) = <<>>
      <3>1. 0 < 0 + 1 /\ 0 \in Nat /\ 0 + 1 \in Nat
        OBVIOUS
      <3> QED BY <2>1, <3>1, SubSeqEmpty
    <2>5. SubSeq(s, 0 + 1, Len(s)) = s
      <3>1. 0 + 1 = 1
        OBVIOUS
      <3> QED BY <2>1, <3>1, SubSeqFull
    <2>6. printing' = s
      BY <1>1 DEF s
    <2>7. Tape(s, 0, 0)'
      BY <1>1, <2>3, <2>4, <2>5, <2>6 DEF Tape
    <2> QED BY <1>1, <2>1, <2>2, <2>7 DEF Told
  <1>6. sent' \in 0..Len(Script[c])
    <2>1. Script[c] \in Seq(Lines)
      BY ScriptAssumption
    <2>2. Len(Script[c]) \in Nat
      BY <2>1, LenProperties
    <2> QED BY <1>1, <2>2
  <1>7. InTurn(c)'
    BY <1>4, <1>5, <1>6 DEF InTurn
  <1> QED BY <1>2, <1>3, <1>7 DEF StreamInv

(***************************************************************************)
(* The client reads.  The decoration of the last prompt is no prompt; of a *)
(* reply the client has either less than the prompt, and keeps a window of *)
(* it, or all of it, and what comes next is decoration.                    *)
(***************************************************************************)
LEMMA ReadStream ==
  ASSUME Legible, MutexInv, StreamInv, NEW c \in Callers, Read(c)
  PROVE  StreamInv'
  <1>1. pc[c] = "read" /\ c \in conns /\ conns' = conns /\ sent' = sent
        /\ input' = input /\ printing' = printing
    BY DEF Read, StreamInv, Talking
  <1>2. conns = {c} /\ \A d \in Callers : pc[d] \in Talking => d = c
    BY <1>1, OneConnection DEF Holding
  <1>3. (Asked(c) \/ Told) /\ sent \in 0..Len(Script[c])
    BY <1>1 DEF StreamInv, InTurn
  <1>4. PICK n \in DOMAIN wire :
          /\ wire' = SubSeq(wire, n + 1, Len(wire))
          /\ IF AtPrompt(tail \o SubSeq(wire, 1, n))
             THEN /\ tail' = <<>>
                  /\ pc' = [pc EXCEPT ![c] = IF sent < Len(Script[c]) THEN "send" ELSE "exit"]
             ELSE tail' = Keep(tail \o SubSeq(wire, 1, n)) /\ pc' = pc
    BY DEF Read
  <1>5. \A d \in Callers : pc'[d] \in Talking => d = c
    BY <1>1, <1>2, <1>4 DEF MutexInv
  <1>6. ASSUME InTurn(c)'
        PROVE  StreamInv'
    BY <1>1, <1>2, <1>5, <1>6 DEF StreamInv
  <1>7. CASE Asked(c)
    <2>1. PICK s \in Leads : \E k \in 0..Len(s) : \E m \in k..Len(s) : Tape(s, k, m)
      BY <1>7 DEF Asked
    <2>2. PICK k \in 0..Len(s) : \E m \in k..Len(s) : Tape(s, k, m)
      BY <2>1
    <2>3. PICK m \in k..Len(s) : Tape(s, k, m)
      BY <2>2
    <2>4. s \in Seq(Symbols) /\ Len(s) \in {0, 1}
      BY Texts
    <2>5. /\ n \in Nat /\ k + n \in k + 1..m
          /\ tail \o SubSeq(wire, 1, n) = SubSeq(s, First(k), k + n)
          /\ SubSeq(wire, n + 1, Len(wire)) = SubSeq(s, k + n + 1, m)
          /\ Keep(SubSeq(s, First(k), k + n)) = SubSeq(s, First(k + n), k + n)
      BY <2>3, <2>4, ReadTape
    <2>6. k = 0 /\ n = 1 /\ Len(s) = 1
      <3>1. Len(s) \in Nat
        BY <2>4
      <3> QED BY <2>4, <2>5, <3>1, ReadOn
    <2>7. s = <<"e">>
      BY <2>6 DEF Leads
    <2>8. SubSeq(s, First(k), k + n) = <<"e">>
      <3>1. First(k) = 1 /\ k + n = Len(s)
        BY <2>6, WindowAssumption DEF First
      <3> QED BY <2>4, <2>7, <3>1, SubSeqFull
    <2>9. tail' = SubSeq(s, First(k + n), k + n) /\ pc' = pc
      BY <1>4, <2>5, <2>8 DEF Legible, AtPrompt
    <2>10. Tape(s, k + n, m)'
      BY <1>1, <1>4, <2>3, <2>5, <2>9 DEF Tape
    <2>11. k + n \in 0..Len(s) /\ m \in k + n..Len(s)
      <3>1. Len(s) \in Nat
        BY <2>4
      <3> QED BY <2>5, <3>1, ReadOn
    <2>12. Asked(c)'
      BY <1>1, <1>7, <2>10, <2>11 DEF Asked
    <2>13. InTurn(c)'
      BY <1>1, <1>3, <2>9, <2>12 DEF InTurn
    <2> QED BY <1>6, <2>13
  <1>8. CASE Told
    <2>1. PICK s \in Replies : \E k \in 0..Len(s) - 2 : \E m \in k..Len(s) : Tape(s, k, m)
      BY <1>8 DEF Told
    <2>2. PICK k \in 0..Len(s) - 2 : \E m \in k..Len(s) : Tape(s, k, m)
      BY <2>1
    <2>3. PICK m \in k..Len(s) : Tape(s, k, m)
      BY <2>2
    <2>4. s \in Seq(Symbols) /\ Len(s) \in Nat /\ Len(s) >= 3 /\ k \in 0..Len(s) /\ k \in Nat
      BY Texts
    <2>5. /\ n \in Nat /\ k + n \in k + 1..m
          /\ tail \o SubSeq(wire, 1, n) = SubSeq(s, First(k), k + n)
          /\ SubSeq(wire, n + 1, Len(wire)) = SubSeq(s, k + n + 1, m)
          /\ Keep(SubSeq(s, First(k), k + n)) = SubSeq(s, First(k + n), k + n)
      BY <2>3, <2>4, ReadTape
    <2>6. k + n \in k + 1..Len(s) /\ k + n \in 0..Len(s) /\ m \in k + n..Len(s)
      BY <2>4, <2>5, ReadOn
    <2>7. AtPrompt(SubSeq(s, First(k), k + n)) <=> k + n >= Len(s) - 1
      BY <2>6 DEF Legible, AtPrompt
    <2>8. CASE k + n >= Len(s) - 1
      <3> DEFINE rest == SubSeq(s, k + n + 1, Len(s))
      <3>1. /\ tail' = <<>>
            /\ pc' = [pc EXCEPT ![c] = IF sent < Len(Script[c]) THEN "send" ELSE "exit"]
        BY <1>4, <2>5, <2>7, <2>8
      <3>2. rest \in Leads
        <4>1. k + n \in Len(s) - 1..Len(s)
          BY <2>4, <2>6, <2>8
        <4> QED BY <4>1, Decoration
      <3>3. /\ m - (k + n) \in 0..Len(rest)
            /\ <<>> = SubSeq(rest, First(0), 0)
            /\ SubSeq(s, k + n + 1, m) = SubSeq(rest, 0 + 1, m - (k + n))
            /\ SubSeq(s, m + 1, Len(s)) = SubSeq(rest, (m - (k + n)) + 1, Len(rest))
        BY <2>4, <2>6, NewTape
      <3> HIDE DEF rest
      <3>4. Tape(rest, 0, m - (k + n))'
        BY <1>1, <1>4, <2>3, <2>5, <3>1, <3>3 DEF Tape
      <3>5. Turn'
        BY <1>1, <1>8, <3>2, <3>3, <3>4 DEF Turn, Told
      <3>6. pc'[c] = IF sent < Len(Script[c]) THEN "send" ELSE "exit"
        BY <3>1 DEF MutexInv
      <3>7. sent' < Len(Script[c]) \/ sent' = Len(Script[c])
        <4>1. Script[c] \in Seq(Lines)
          BY ScriptAssumption
        <4>2. Len(Script[c]) \in Nat
          BY <4>1, LenProperties
        <4> QED BY <1>1, <1>3, <4>2
      <3>8. InTurn(c)'
        <4>1. CASE sent < Len(Script[c])
          BY <1>1, <1>3, <3>5, <3>6, <4>1 DEF InTurn
        <4>2. CASE ~(sent < Len(Script[c]))
          BY <1>1, <1>3, <3>5, <3>6, <3>7, <4>2 DEF InTurn
        <4> QED BY <4>1, <4>2
      <3> QED BY <1>6, <3>8
    <2>9. CASE ~(k + n >= Len(s) - 1)
      <3>1. tail' = SubSeq(s, First(k + n), k + n) /\ pc' = pc
        BY <1>4, <2>5, <2>7, <2>9
      <3>2. Tape(s, k + n, m)'
        BY <1>1, <1>4, <2>3, <2>5, <3>1 DEF Tape
      <3>3. k + n \in 0..Len(s) - 2
        BY <2>4, <2>6, <2>9
      <3>4. Told'
        BY <1>1, <1>8, <2>6, <3>2, <3>3 DEF Told
      <3>5. InTurn(c)'
        BY <1>1, <1>3, <3>1, <3>4 DEF InTurn
      <3> QED BY <1>6, <3>5
    <2> QED BY <2>8, <2>9
  <1> QED BY <1>3, <1>7, <1>8

LEMMA SendStream ==
  ASSUME MutexInv, StreamInv, NEW c \in Callers, Send(c)
  PROVE  StreamInv'
  <1>1. /\ pc[c] = "send" /\ pc' = [pc EXCEPT ![c] = "read"] /\ conns' = conns
        /\ sent' = sent + 1 /\ input' = Append(input, Script[c][sent + 1])
        /\ tail' = tail /\ printing' = printing /\ wire' = wire
    BY DEF Send, Step
  <1>2. c \in conns
    BY <1>1 DEF StreamInv, Talking
  <1>3. Turn /\ sent < Len(Script[c]) /\ sent \in 0..Len(Script[c])
    BY <1>1, <1>2 DEF StreamInv, InTurn
  <1>4. conns = {c} /\ \A d \in Callers : pc[d] \in Talking => d = c
    BY <1>1, <1>2, OneConnection DEF Holding
  <1>5. \A d \in Callers : pc'[d] \in Talking => d = c
    BY <1>1, <1>4 DEF MutexInv
  <1>6. pc'[c] = "read"
    BY <1>1 DEF MutexInv
  <1>7. sent' \in 1..Len(Script[c]) /\ sent' \in 0..Len(Script[c])
    <2>1. Script[c] \in Seq(Lines)
      BY ScriptAssumption
    <2>2. Len(Script[c]) \in Nat
      BY <2>1, LenProperties
    <2> QED BY <1>1, <1>3, <2>2
  <1>8. input' = <<Script[c][sent']>>
    <2>1. input = <<>>
      BY <1>3 DEF Turn
    <2> QED BY <1>1, <2>1
  <1>9. PICK s \in Leads : \E m \in 0..Len(s) : Tape(s, 0, m)
    BY <1>3 DEF Turn
  <1>10. PICK m \in 0..Len(s) : Tape(s, 0, m)
    BY <1>9
  <1>11. Tape(s, 0, m)' /\ 0 \in 0..Len(s)
    <2>1. Len(s) \in {0, 1}
      BY Texts
    <2> QED BY <1>1, <1>10, <2>1 DEF Tape
  <1>12. Asked(c)'
    BY <1>7, <1>8, <1>10, <1>11 DEF Asked
  <1>13. InTurn(c)'
    BY <1>6, <1>7, <1>12 DEF InTurn
  <1> QED BY <1>1, <1>4, <1>5, <1>13 DEF StreamInv

LEMMA CloseStream ==
  ASSUME MutexInv, StreamInv, NEW c \in Callers, Close(c)
  PROVE  StreamInv'
  <1>1. /\ pc[c] = "close" /\ pc' = [pc EXCEPT ![c] = "unlock"] /\ conns' = conns \ {c}
        /\ tail' = <<>> /\ input' = <<>> /\ printing' = <<>> /\ wire' = <<>>
    BY DEF Close, Step
  <1>2. conns' = {} /\ \A d \in Callers : pc[d] \in Talking => d = c
    BY <1>1, OneConnection DEF Holding
  <1>3. \A d \in Callers : pc'[d] \notin Talking
    BY <1>1, <1>2 DEF MutexInv, Talking
  <1> QED BY <1>1, <1>2, <1>3 DEF StreamInv, Quiet

(***************************************************************************)
(* The router prints, or takes the line it has been sent, at its prompt.   *)
(* It has nothing to print, and nothing to take, without a connection.     *)
(***************************************************************************)
LEMMA PrintStream ==
  ASSUME StreamInv, conns \subseteq Callers, RouterPrints
  PROVE  StreamInv'
  <1>1. /\ printing # <<>> /\ wire' = Append(wire, Head(printing)) /\ printing' = Tail(printing)
        /\ pc' = pc /\ conns' = conns /\ sent' = sent /\ tail' = tail /\ input' = input
    BY DEF RouterPrints, clientVars
  <1>2. ASSUME NEW s \in Seq(Symbols), NEW k \in 0..Len(s), NEW m \in k..Len(s), Tape(s, k, m)
        PROVE  m + 1 \in k..Len(s) /\ Tape(s, k, m + 1)'
    <2>1. /\ m + 1 \in k..Len(s)
          /\ Append(wire, Head(printing)) = SubSeq(s, k + 1, m + 1)
          /\ Tail(printing) = SubSeq(s, (m + 1) + 1, Len(s))
      BY <1>1, <1>2, PrintTape
    <2> QED BY <1>1, <1>2, <2>1 DEF Tape
  <1>3. Turn => Turn'
    <2> SUFFICES ASSUME Turn PROVE Turn'
      OBVIOUS
    <2>1. PICK s \in Leads : \E m \in 0..Len(s) : Tape(s, 0, m)
      BY DEF Turn
    <2>2. PICK m \in 0..Len(s) : Tape(s, 0, m)
      BY <2>1
    <2>3. s \in Seq(Symbols) /\ 0 \in 0..Len(s)
      BY Texts
    <2>4. m + 1 \in 0..Len(s) /\ Tape(s, 0, m + 1)'
      BY <1>2, <2>2, <2>3
    <2> QED BY <1>1, <2>4 DEF Turn
  <1>4. ASSUME NEW c \in Callers, Asked(c)
        PROVE  Asked(c)'
    <2>1. PICK s \in Leads : \E k \in 0..Len(s) : \E m \in k..Len(s) : Tape(s, k, m)
      BY <1>4 DEF Asked
    <2>2. PICK k \in 0..Len(s) : \E m \in k..Len(s) : Tape(s, k, m)
      BY <2>1
    <2>3. PICK m \in k..Len(s) : Tape(s, k, m)
      BY <2>2
    <2>4. m + 1 \in k..Len(s) /\ Tape(s, k, m + 1)'
      BY <1>2, <2>3, Texts
    <2> QED BY <1>1, <1>4, <2>4 DEF Asked
  <1>5. Told => Told'
    <2> SUFFICES ASSUME Told PROVE Told'
      OBVIOUS
    <2>1. PICK s \in Replies : \E k \in 0..Len(s) - 2 : \E m \in k..Len(s) : Tape(s, k, m)
      BY DEF Told
    <2>2. PICK k \in 0..Len(s) - 2 : \E m \in k..Len(s) : Tape(s, k, m)
      BY <2>1
    <2>3. PICK m \in k..Len(s) : Tape(s, k, m)
      BY <2>2
    <2>4. s \in Seq(Symbols) /\ k \in 0..Len(s)
      BY Texts
    <2>5. m + 1 \in k..Len(s) /\ Tape(s, k, m + 1)'
      BY <1>2, <2>3, <2>4
    <2> QED BY <1>1, <2>5 DEF Told
  <1>6. conns # {}
    BY <1>1 DEF StreamInv, Quiet
  <1>7. ASSUME NEW c \in conns
        PROVE  InTurn(c)'
    <2>1. InTurn(c) /\ c \in Callers
      BY DEF StreamInv
    <2> QED BY <1>1, <1>3, <1>4, <1>5, <2>1 DEF InTurn
  <1> QED BY <1>1, <1>6, <1>7 DEF StreamInv

LEMMA TakeStream ==
  ASSUME MutexInv, StreamInv, RouterTakes
  PROVE  StreamInv'
  <1>1. /\ input # <<>> /\ input' = Tail(input) /\ wire' = wire
        /\ pc' = pc /\ conns' = conns /\ sent' = sent /\ tail' = tail
    BY DEF RouterTakes, clientVars
  <1>2. PICK c \in conns, answer \in Answers :
           Waiting => printing' = printing \o Reply(answer)
    BY DEF RouterTakes
  <1>3. c \in Callers /\ pc[c] \in Holding
    BY <1>2 DEF MutexInv, Connected, Holding
  <1>4. InTurn(c) /\ Asked(c) /\ pc[c] \notin {"send", "exit"}
    BY <1>1, <1>2 DEF StreamInv, InTurn, Turn, Told
  <1>5. PICK s \in Leads : \E k \in 0..Len(s) : \E m \in k..Len(s) : Tape(s, k, m)
    BY <1>4 DEF Asked
  <1>6. PICK k \in 0..Len(s) : \E m \in k..Len(s) : Tape(s, k, m)
    BY <1>5
  <1>7. PICK m \in k..Len(s) : Tape(s, k, m)
    BY <1>6
  <1>8. Waiting
    BY <1>7, LeadsWait
  <1> DEFINE all == s \o Reply(answer)
  <1>9. /\ all \in Replies /\ s \in Seq(Symbols) /\ Reply(answer) \in Seq(Symbols)
        /\ Len(s) \in {0, 1}
    <2>1. <<>> \in Leads
      BY DEF Leads
    <2>2. Reply(answer) \in Seq(Symbols)
      <3>1. answer \in Seq(Symbols)
        BY TextsAssumption
      <3>2. Prompt \o <<"e">> \in Seq(Symbols)
        BY DEF Prompt, Symbols
      <3> QED BY <3>1, <3>2, ConcatProperties DEF Reply
    <2> QED BY <2>2, Texts
  <1>10. Len(all) \in Nat /\ Len(all) = Len(s) + Len(Reply(answer)) /\ Len(Reply(answer)) \in Nat
    BY <1>9, ConcatProperties, LenProperties
  <1>11. /\ tail = SubSeq(all, First(k), k)
         /\ wire = SubSeq(all, k + 1, m)
         /\ printing \o Reply(answer) = SubSeq(all, m + 1, Len(all))
    BY <1>7, <1>9, AnswerTape
  <1>12. Len(Reply(answer)) >= 3
    <2>1. Reply(answer) = answer \o (Prompt \o <<"e">>)
      BY DEF Reply
    <2>2. Prompt \o <<"e">> \in Seq(Symbols) /\ Len(Prompt \o <<"e">>) = 3
      BY DEF Prompt, Symbols
    <2>3. answer \in Seq(Symbols)
      BY TextsAssumption
    <2>4. Len(answer) \in Nat
      BY <2>3, LenProperties
    <2>5. Len(answer \o (Prompt \o <<"e">>)) = Len(answer) + Len(Prompt \o <<"e">>)
      BY <2>2, <2>3, ConcatProperties
    <2> QED BY <2>1, <2>2, <2>4, <2>5
  <1>13. k \in 0..Len(all) - 2 /\ m \in k..Len(all)
    BY <1>9, <1>10, <1>12
  <1> HIDE DEF all
  <1>14. Tape(all, k, m)'
    BY <1>1, <1>2, <1>8, <1>11 DEF Tape
  <1>15. input' = <<>>
    BY <1>1, <1>4 DEF Asked
  <1>16. Told'
    BY <1>9, <1>13, <1>14, <1>15 DEF Told
  <1>17. InTurn(c)'
    BY <1>1, <1>4, <1>16 DEF InTurn
  <1>18. conns = {c}
    BY <1>2, <1>3, OneConnection
  <1> QED BY <1>1, <1>17, <1>18 DEF StreamInv

LEMMA NextKeepsStream == Legible /\ MutexInv /\ StreamInv /\ [Next]_vars => StreamInv'
  <1> SUFFICES ASSUME Legible, MutexInv, StreamInv, [Next]_vars
               PROVE  StreamInv'
    OBVIOUS
  <1>1. conns \subseteq Callers /\ pc \in [Callers -> Locs]
    BY DEF MutexInv
  <1>2. ASSUME NEW c \in Callers, NEW to \in Locs \ Talking,
               pc' = [pc EXCEPT ![c] = to], UNCHANGED stream
        PROVE  StreamInv'
    BY <1>1, <1>2, ElsewhereKeeps
  <1>3. ASSUME NEW c \in Callers, Call(c) \/ Lock(c) \/ DialFails(c) \/ Exit(c) \/ Unlock(c)
                                  \/ Deadline(c)
        PROVE  StreamInv'
    <2>1. {"lock", "dial", "close", "done"} \subseteq Locs \ Talking
      BY DEF Locs, Talking
    <2> QED BY <1>2, <1>3, <2>1
          DEF Call, Lock, DialFails, Exit, Unlock, Deadline, Leave, Step, stream, routerVars
  <1>4. ASSUME NEW c \in Callers, Dial(c) \/ Read(c) \/ Send(c) \/ Close(c)
        PROVE  StreamInv'
    BY <1>4, DialStream, ReadStream, SendStream, CloseStream
  <1>5. CASE RouterPrints \/ RouterTakes
    BY <1>1, <1>5, PrintStream, TakeStream
  <1>6. ASSUME UNCHANGED vars \/ \E c \in Callers : Straggle(c)
        PROVE  StreamInv'
    BY <1>1, <1>6, ElsewhereKeeps DEF Straggle, vars, clientVars, routerVars, stream
  <1> QED BY <1>3, <1>4, <1>5, <1>6 DEF Next, Client

LEMMA StreamIsKept ==
  ASSUME Legible
  PROVE  Spec => []StreamInv
  <1>1. MutexInv /\ StreamInv /\ [Next]_vars => StreamInv'
    BY NextKeepsStream
  <1> QED BY <1>1, InitStream, MutexIsKept, PTL DEF Spec

(***************************************************************************)
(* SendsInTurn: a line is sent where the stream holds nothing but what may *)
(* decorate the prompt that has been read.                                 *)
(***************************************************************************)
LEMMA TurnIsHis == StreamInv => SendsInTurn
  <1> SUFFICES ASSUME StreamInv, NEW c \in Callers, pc[c] \in {"send", "exit"}
               PROVE  Waiting /\ \A i \in DOMAIN wire : wire[i] = "e"
    BY DEF SendsInTurn
  <1>1. Turn
    BY DEF StreamInv, InTurn, Talking
  <1>2. PICK s \in Leads : \E m \in 0..Len(s) : Tape(s, 0, m)
    BY <1>1 DEF Turn
  <1>3. PICK m \in 0..Len(s) : Tape(s, 0, m)
    BY <1>2
  <1>4. 0 \in 0..Len(s)
    BY Texts
  <1> QED BY <1>3, <1>4, LeadsWait

\* "Everything that is sent earlier is silently thrown away": where a prompt
\* is legible, whatever the router says and however the stream is cut, a line
\* is sent only when everything before it has been read (atPrompt and
\* readUntilPrompt).
THEOREM LinesAreSentInTurn ==
  ASSUME Legible
  PROVE  Spec => []SendsInTurn
  BY StreamIsKept, TurnIsHis, PTL

(***************************************************************************)
(* NoStandoff: who reads has asked something the router has not looked at, *)
(* or has not been told all of it.                                         *)
(***************************************************************************)
LEMMA SomebodyGoesOn == StreamInv => NoStandoff
  <1> SUFFICES ASSUME StreamInv, NEW c \in Callers, c \in conns, pc[c] = "read",
                      wire = <<>>, printing = <<>>, input = <<>>
               PROVE  FALSE
    BY DEF NoStandoff
  <1>1. Asked(c) \/ Told
    BY DEF StreamInv, InTurn
  <1>2. ~Asked(c)
    BY DEF Asked
  <1>3. PICK s \in Replies : \E k \in 0..Len(s) - 2 : \E m \in k..Len(s) : Tape(s, k, m)
    BY <1>1, <1>2 DEF Told
  <1>4. PICK k \in 0..Len(s) - 2 : \E m \in k..Len(s) : Tape(s, k, m)
    BY <1>3
  <1>5. PICK m \in k..Len(s) : Tape(s, k, m)
    BY <1>4
  <1>6. s \in Seq(Symbols) /\ Len(s) \in Nat /\ Len(s) >= 3 /\ k \in Nat /\ m \in 0..Len(s)
    BY Texts
  <1>7. /\ Len(SubSeq(s, k + 1, m)) = IF k + 1 <= m THEN m - (k + 1) + 1 ELSE 0
        /\ Len(SubSeq(s, m + 1, Len(s))) = IF m + 1 <= Len(s) THEN Len(s) - (m + 1) + 1 ELSE 0
    <2>1. k + 1 \in Nat \ {0} /\ m + 1 \in Nat \ {0} /\ Len(s) \in 0..Len(s)
      BY <1>6
    <2> QED BY <1>6, <2>1, Slice
  <1>8. SubSeq(s, k + 1, m) = <<>> /\ SubSeq(s, m + 1, Len(s)) = <<>> /\ Len(<<>>) = 0
    BY <1>5 DEF Tape
  <1>9. (IF k + 1 <= m THEN m - (k + 1) + 1 ELSE 0) = 0
    BY <1>7, <1>8
  <1>10. (IF m + 1 <= Len(s) THEN Len(s) - (m + 1) + 1 ELSE 0) = 0
    BY <1>7, <1>8
  <1> QED BY <1>6, <1>9, <1>10

\* Client and router never wait for each other, although a prompt may come in
\* pieces and its decoration late.
THEOREM NobodyWaitsForBoth ==
  ASSUME Legible
  PROVE  Spec => []NoStandoff
  BY StreamIsKept, SomebodyGoesOn, PTL

(***************************************************************************)
(* PromptIsSeen: what is kept, on the wire and still to be printed is a    *)
(* slice of one reply, or the decoration of the last prompt.               *)
(***************************************************************************)
LEMMA AheadTape ==
  ASSUME NEW s \in Seq(Symbols), NEW k \in 0..Len(s), NEW m \in k..Len(s), Tape(s, k, m)
  PROVE  /\ tail \o wire \o printing = SubSeq(s, First(k), Len(s))
         /\ Len(tail) = k - First(k) + 1
         /\ Len(tail \o wire \o printing) = Len(s) - First(k) + 1
  <1>1. Len(s) \in Nat /\ k \in Nat /\ m \in 0..Len(s) /\ m \in Nat
    BY LenProperties
  <1>2. First(k) \in Nat \ {0} /\ First(k) <= k + 1
    BY <1>1, FirstKept
  <1>3. SubSeq(s, First(k), k) \o SubSeq(s, k + 1, m) = SubSeq(s, First(k), m)
    <2>1. First(k) \in 1..Len(s) + 1 /\ k \in First(k) - 1..Len(s) /\ m \in k..Len(s)
      BY <1>1, <1>2
    <2> QED BY <2>1, ConcatAdjacentSubSeq
  <1>4. SubSeq(s, First(k), m) \o SubSeq(s, m + 1, Len(s)) = SubSeq(s, First(k), Len(s))
    <2>1. First(k) \in 1..Len(s) + 1 /\ m \in First(k) - 1..Len(s) /\ Len(s) \in m..Len(s)
      BY <1>1, <1>2
    <2> QED BY <2>1, ConcatAdjacentSubSeq
  <1>5. Len(SubSeq(s, First(k), k)) = IF First(k) <= k THEN k - First(k) + 1 ELSE 0
    BY <1>2, Slice
  <1>6. (IF First(k) <= k THEN k - First(k) + 1 ELSE 0) = k - First(k) + 1
    BY <1>1, <1>2
  <1>7. Len(SubSeq(s, First(k), Len(s))) = IF First(k) <= Len(s) THEN Len(s) - First(k) + 1 ELSE 0
    <2>1. Len(s) \in 0..Len(s)
      BY <1>1
    <2> QED BY <1>2, <2>1, Slice
  <1>8. (IF First(k) <= Len(s) THEN Len(s) - First(k) + 1 ELSE 0) = Len(s) - First(k) + 1
    BY <1>1, <1>2
  <1> QED BY <1>3, <1>4, <1>5, <1>6, <1>7, <1>8 DEF Tape

LEMMA ReadersSee == Legible /\ StreamInv => PromptIsSeen
  <1> DEFINE ahead == tail \o wire \o printing
  <1> SUFFICES ASSUME Legible, StreamInv, NEW c \in conns, pc[c] = "read",
                      NEW j \in Len(tail) + 1..Len(ahead)
               PROVE  AtPrompt(SubSeq(ahead, 1, j)) <=> input = <<>> /\ j >= Len(ahead) - 1
    BY DEF PromptIsSeen
  <1>1. Asked(c) \/ Told
    BY DEF StreamInv, InTurn
  <1>2. ASSUME NEW s \in Seq(Symbols), NEW k \in 0..Len(s), NEW m \in k..Len(s), Tape(s, k, m)
        PROVE  \E i \in k + 1..Len(s) :
                  /\ SubSeq(ahead, 1, j) = SubSeq(s, First(k), i)
                  /\ (i >= Len(s) - 1 <=> j >= Len(ahead) - 1)
    <2>1. /\ ahead = SubSeq(s, First(k), Len(s)) /\ Len(tail) = k - First(k) + 1
          /\ Len(ahead) = Len(s) - First(k) + 1
      BY <1>2, AheadTape
    <2>2. Len(s) \in Nat /\ k \in Nat
      BY LenProperties
    <2>3. First(k) \in Nat \ {0} /\ First(k) <= k + 1
      BY <2>2, FirstKept
    <2> DEFINE f == First(k)
               i == f + j - 1
    <2> HIDE DEF ahead
    <2>4. f \in Nat \ {0} /\ f <= k + 1 /\ j \in k - f + 1 + 1..Len(s) - f + 1
          /\ Len(ahead) = Len(s) - f + 1 /\ ahead = SubSeq(s, f, Len(s))
      BY <2>1, <2>3
    <2> HIDE DEF f
    <2>5. /\ j \in Nat \ {0} /\ i \in k + 1..Len(s)
          /\ (i >= Len(s) - 1 <=> j >= Len(ahead) - 1)
          /\ j \in 0..Len(s) - f + 1 /\ f <= Len(s) + 1
          /\ 1 \in Nat \ {0} /\ Len(s) \in 0..Len(s) /\ f + 1 - 1 = f
      BY <2>2, <2>4
    <2>6. SubSeq(SubSeq(s, f, Len(s)), 1, j) = SubSeq(s, f + 1 - 1, f + j - 1)
      BY <2>4, <2>5, SliceOfSlice
    <2>7. SubSeq(ahead, 1, j) = SubSeq(s, First(k), i)
      BY <2>4, <2>5, <2>6 DEF f
    <2> QED BY <2>5, <2>7
  <1> HIDE DEF ahead
  <1>3. CASE Asked(c)
    <2>1. PICK s \in Leads : \E k \in 0..Len(s) : \E m \in k..Len(s) : Tape(s, k, m)
      BY <1>3 DEF Asked
    <2>2. PICK k \in 0..Len(s) : \E m \in k..Len(s) : Tape(s, k, m)
      BY <2>1
    <2>3. PICK m \in k..Len(s) : Tape(s, k, m)
      BY <2>2
    <2>4. s \in Seq(Symbols) /\ Len(s) \in {0, 1}
      BY Texts
    <2>5. PICK i \in k + 1..Len(s) : SubSeq(ahead, 1, j) = SubSeq(s, First(k), i)
      BY <1>2, <2>3, <2>4
    <2>6. k = 0 /\ i = 1 /\ Len(s) = 1
      <3> DEFINE n == Len(s)
      <3>1. n = 0 \/ n = 1
        BY <2>4
      <3>2. k \in 0..n /\ i \in k + 1..n
        OBVIOUS
      <3> HIDE DEF n
      <3>3. n = 1
        BY <3>1, <3>2
      <3>4. k = 0 /\ i = 1
        BY <3>2, <3>3
      <3> QED BY <3>3, <3>4 DEF n
    <2>7. s = <<"e">>
      <3>1. s # <<>>
        <4>1. Len(<<>>) = 0 /\ Len(s) # 0
          BY <2>6
        <4> QED BY <4>1
      <3> QED BY <3>1 DEF Leads
    <2>8. First(k) = 1
      BY <2>6, WindowAssumption DEF First
    <2>9. SubSeq(ahead, 1, j) = <<"e">>
      <3>1. SubSeq(s, 1, Len(s)) = s
        BY <2>4, SubSeqFull
      <3> QED BY <2>5, <2>6, <2>7, <2>8, <3>1
    <2>10. input # <<>>
      BY <1>3 DEF Asked
    <2> QED BY <2>9, <2>10 DEF Legible, AtPrompt
  <1>4. CASE Told
    <2>1. PICK s \in Replies : \E k \in 0..Len(s) - 2 : \E m \in k..Len(s) : Tape(s, k, m)
      BY <1>4 DEF Told
    <2>2. PICK k \in 0..Len(s) - 2 : \E m \in k..Len(s) : Tape(s, k, m)
      BY <2>1
    <2>3. PICK m \in k..Len(s) : Tape(s, k, m)
      BY <2>2
    <2>4. s \in Seq(Symbols) /\ k \in 0..Len(s)
      BY Texts
    <2>5. PICK i \in k + 1..Len(s) : /\ SubSeq(ahead, 1, j) = SubSeq(s, First(k), i)
                                     /\ (i >= Len(s) - 1 <=> j >= Len(ahead) - 1)
      BY <1>2, <2>3, <2>4
    <2>6. AtPrompt(SubSeq(s, First(k), i)) <=> i >= Len(s) - 1
      BY DEF Legible, AtPrompt
    <2>7. input = <<>>
      BY <1>4 DEF Told
    <2> QED BY <2>5, <2>6, <2>7
  <1> QED BY <1>1, <1>3, <1>4

\* Whatever has been read, and wherever the next read ends: a prompt is taken
\* for one when it is complete, and nothing else is (readUntilPrompt).
THEOREM PromptsAreSeen ==
  ASSUME Legible
  PROVE  Spec => []PromptIsSeen
  BY StreamIsKept, ReadersSee, PTL

-----------------------------------------------------------------------------
(***************************************************************************)
(* What has come of the lines of each caller.  The router has executed a   *)
(* part of the script from its beginning: for who has a connection, all    *)
(* that has been sent and is not on its way; all of it, if the session     *)
(* succeeds; and not yet the line that straggles.                          *)
(***************************************************************************)
CarriedOut(c, n) == executed[c] = SubSeq(Script[c], 1, n)

Progress(c) ==
    /\ pc[c] \in {"idle", "lock", "dial"} => executed[c] = <<>>
    /\ pc[c] \in {"idle", "lock", "dial", "read", "send", "exit"} => result[c] = "none"
    /\ pc[c] \in {"close", "unlock", "done"} => result[c] \in {"ok", "failed"}
    /\ c \in straggler => pc[c] \in {"unlock", "done"}
    /\ result[c] = "ok" => executed[c] = Script[c] /\ c \notin straggler
    /\ \E n \in 0..Len(Script[c]) :
          CarriedOut(c, n) /\ (c \in straggler => n < Len(Script[c]))
    /\ c \in conns => /\ CarriedOut(c, sent - Len(input))
                      /\ result[c] = "ok" => input = <<>>

ScriptInv ==
    /\ mutex \in Callers \union {Nobody}
    /\ result \in [Callers -> {"none", "ok", "failed"}]
    /\ executed \in [Callers -> Seq(Lines)]
    /\ straggler \subseteq Callers
    /\ \A c \in Callers : Progress(c)

LEMMA Scripts ==
  ASSUME NEW c \in Callers
  PROVE  /\ Script[c] \in Seq(Lines) /\ Len(Script[c]) \in Nat
         /\ SubSeq(Script[c], 1, 0) = <<>>
         /\ SubSeq(Script[c], 1, Len(Script[c])) = Script[c]
  <1>1. Script[c] \in Seq(Lines)
    BY ScriptAssumption
  <1>2. SubSeq(Script[c], 1, 0) = <<>>
    <2>1. 0 < 1 /\ 0 \in Nat /\ 1 \in Nat
      OBVIOUS
    <2> QED BY <1>1, <2>1, SubSeqEmpty
  <1> QED BY <1>1, <1>2, LenProperties, SubSeqFull

\* The next line of a script.
LEMMA NextLine ==
  ASSUME NEW c \in Callers, NEW n \in 0..Len(Script[c]), n < Len(Script[c]), CarriedOut(c, n)
  PROVE  /\ Len(executed[c]) = n /\ n + 1 \in 0..Len(Script[c])
         /\ Script[c][n + 1] \in Lines
         /\ Append(executed[c], Script[c][n + 1]) = SubSeq(Script[c], 1, n + 1)
  <1>1. Script[c] \in Seq(Lines) /\ Len(Script[c]) \in Nat /\ 1 \in Nat \ {0} /\ n \in Nat
    BY Scripts
  <1>2. Len(SubSeq(Script[c], 1, n)) = IF 1 <= n THEN n - 1 + 1 ELSE 0
    BY <1>1, Slice
  <1>3. /\ Script[c][n + 1] \in Lines
        /\ Append(SubSeq(Script[c], 1, n), Script[c][n + 1]) = SubSeq(Script[c], 1, n + 1)
    <2>1. 1 <= n + 1
      BY <1>1
    <2> QED BY <1>1, <2>1, SliceGrows
  <1>4. (IF 1 <= n THEN n - 1 + 1 ELSE 0) = n /\ n + 1 \in 0..Len(Script[c])
    BY <1>1
  <1> QED BY <1>2, <1>3, <1>4 DEF CarriedOut

\* Part of a script, and the types that go with it.
LEMMA CarriedType ==
  ASSUME NEW c \in Callers, NEW n \in 0..Len(Script[c])
  PROVE  SubSeq(Script[c], 1, n) \in Seq(Lines)
  <1>1. Script[c] \in Seq(Lines) /\ 1 \in Nat \ {0}
    BY Scripts
  <1> QED BY <1>1, Slice

LEMMA InitScript == Init => ScriptInv
  <1> SUFFICES ASSUME Init
               PROVE  ScriptInv
    OBVIOUS
  <1>1. ASSUME NEW c \in Callers
        PROVE  Progress(c)
    <2>1. 0 \in 0..Len(Script[c])
      BY Scripts
    <2>2. /\ executed[c] = <<>> /\ result[c] = "none" /\ pc[c] = "idle"
          /\ c \notin straggler /\ c \notin conns
      BY DEF Init
    <2>3. CarriedOut(c, 0)
      BY <2>2, Scripts DEF CarriedOut
    <2> QED BY <2>1, <2>2, <2>3 DEF Progress
  <1>2. executed \in [Callers -> Seq(Lines)]
    BY DEF Init
  <1> QED BY <1>1, <1>2 DEF Init, ScriptInv

\* What has come of the lines of a caller another one does not change.
LEMMA OthersProgress ==
  ASSUME NEW d \in Callers, Progress(d),
         pc'[d] = pc[d], result'[d] = result[d], executed'[d] = executed[d],
         d \in straggler' <=> d \in straggler,
         d \in conns' => d \in conns /\ sent' = sent /\ input' = input
  PROVE  Progress(d)'
  BY DEF Progress, CarriedOut

(***************************************************************************)
(* One caller goes on, and the router does nothing for anybody.            *)
(***************************************************************************)
LEMMA OneGoesOn ==
  ASSUME ScriptInv, MutexInv, NEW c \in Callers, NEW to \in Locs, NEW r \in {"none", "ok", "failed"},
         pc' = [pc EXCEPT ![c] = to], result' = [result EXCEPT ![c] = r],
         executed' = executed, straggler' \subseteq straggler \union {c},
         straggler \subseteq straggler',
         mutex' \in Callers \union {Nobody},
         \A d \in Callers \ {c} : d \in conns' => d \in conns /\ sent' = sent /\ input' = input,
         Progress(c)'
  PROVE  ScriptInv'
  <1>1. ASSUME NEW d \in Callers
        PROVE  Progress(d)'
    <2>1. CASE d = c
      BY <2>1
    <2>2. CASE d # c
      <3>1. pc'[d] = pc[d] /\ result'[d] = result[d]
        BY <2>2 DEF MutexInv, ScriptInv
      <3> QED BY <2>2, <3>1, OthersProgress DEF ScriptInv
    <2> QED BY <2>1, <2>2
  <1> QED BY <1>1 DEF ScriptInv

\* The variables that change when a caller goes on without the connection.
LEMMA SameResult ==
  ASSUME ScriptInv, NEW c \in Callers
  PROVE  result = [result EXCEPT ![c] = result[c]] /\ result[c] \in {"none", "ok", "failed"}
  BY DEF ScriptInv

(***************************************************************************)
(* A caller that goes on without a word on the connection: it calls, takes *)
(* the mutex, or leaves with a result, good only from where it says exit.  *)
(***************************************************************************)
LEMMA SilentScript ==
  ASSUME ScriptInv, MutexInv, StreamInv, NEW c \in Callers,
         \/ Call(c) \/ Lock(c) \/ DialFails(c) \/ Exit(c) \/ Deadline(c) \/ Unlock(c)
  PROVE  ScriptInv'
  <1>1. UNCHANGED <<conns, sent, tail, input, printing, wire, executed, straggler>>
    BY DEF Call, Lock, DialFails, Exit, Deadline, Unlock, routerVars
  <1>2. Progress(c)
    BY DEF ScriptInv
  <1>3. mutex' \in Callers \union {Nobody}
    BY DEF Call, Lock, DialFails, Exit, Deadline, Unlock, Leave, ScriptInv
  <1>4. ASSUME NEW to \in Locs, NEW r \in {"none", "ok", "failed"},
               pc' = [pc EXCEPT ![c] = to], result' = [result EXCEPT ![c] = r], Progress(c)'
        PROVE  ScriptInv'
    BY <1>1, <1>3, <1>4, OneGoesOn
  <1>5. /\ pc \in [Callers -> Locs] /\ result \in [Callers -> {"none", "ok", "failed"}]
        /\ result = [result EXCEPT ![c] = result[c]] /\ result[c] \in {"none", "ok", "failed"}
    BY SameResult DEF MutexInv, ScriptInv
  <1>6. ASSUME NEW to \in Locs, pc' = [pc EXCEPT ![c] = to], result' = result, Progress(c)'
        PROVE  ScriptInv'
    BY <1>4, <1>5, <1>6
  <1>7. CASE Call(c) \/ Lock(c)
    <2>1. PICK to \in {"lock", "dial"} : pc' = [pc EXCEPT ![c] = to] /\ result' = result
      BY <1>7 DEF Call, Lock, Step
    <2>2. pc'[c] \in {"lock", "dial"} /\ pc[c] \in {"idle", "lock"} /\ to \in Locs
      BY <1>5, <1>7, <2>1 DEF Call, Lock, Step, Locs
    <2>3. Progress(c)'
      BY <1>1, <1>2, <2>1, <2>2 DEF Progress, CarriedOut
    <2> QED BY <1>6, <2>1, <2>2, <2>3
  <1>8. CASE DialFails(c) \/ Deadline(c)
    <2>1. /\ pc' = [pc EXCEPT ![c] = "close"] /\ result' = [result EXCEPT ![c] = "failed"]
          /\ pc[c] \in {"dial", "read", "send", "exit"}
      BY <1>8 DEF DialFails, Deadline, Leave
    <2>2. pc'[c] = "close" /\ result'[c] = "failed" /\ "close" \in Locs
      BY <1>5, <2>1 DEF Locs
    <2>3. c \notin straggler
      BY <1>2, <2>1 DEF Progress
    <2>4. Progress(c)'
      BY <1>1, <1>2, <2>2, <2>3 DEF Progress, CarriedOut
    <2> QED BY <1>4, <2>1, <2>2, <2>4
  <1>9. CASE Exit(c)
    <2>1. /\ pc' = [pc EXCEPT ![c] = "close"] /\ result' = [result EXCEPT ![c] = "ok"]
          /\ pc[c] = "exit"
      BY <1>9 DEF Exit, Leave
    <2>2. pc'[c] = "close" /\ result'[c] = "ok" /\ "close" \in Locs
      BY <1>5, <2>1 DEF Locs
    <2>3. c \notin straggler
      BY <1>2, <2>1 DEF Progress
    <2>4. c \in conns /\ sent = Len(Script[c]) /\ input = <<>>
      BY <2>1 DEF StreamInv, InTurn, Talking, Turn
    <2>5. executed[c] = Script[c]
      <3>1. sent - Len(input) = Len(Script[c])
        BY <2>4, Scripts
      <3> QED BY <1>2, <2>4, <3>1, Scripts DEF Progress, CarriedOut
    <2>6. Progress(c)'
      BY <1>1, <1>2, <2>2, <2>3, <2>4, <2>5 DEF Progress, CarriedOut
    <2> QED BY <1>4, <2>1, <2>2, <2>6
  <1>10. CASE Unlock(c)
    <2>1. pc' = [pc EXCEPT ![c] = "done"] /\ pc[c] = "unlock" /\ result' = result
      BY <1>10 DEF Unlock, Step
    <2>2. pc'[c] = "done" /\ "done" \in Locs
      BY <1>5, <2>1 DEF Locs
    <2>3. Progress(c)'
      BY <1>1, <1>2, <2>1, <2>2 DEF Progress, CarriedOut
    <2> QED BY <1>6, <2>1, <2>2, <2>3
  <1> QED BY <1>7, <1>8, <1>9, <1>10

LEMMA DialScript ==
  ASSUME ScriptInv, MutexInv, NEW c \in Callers, Dial(c)
  PROVE  ScriptInv'
  <1>1. /\ pc[c] = "dial" /\ pc' = [pc EXCEPT ![c] = "read"] /\ conns' = conns \union {c}
        /\ sent' = 0 /\ input' = <<>> /\ result' = result /\ executed' = executed
        /\ straggler' = straggler /\ mutex' = mutex
    BY DEF Dial, Step
  <1>2. Progress(c) /\ mutex \in Callers \union {Nobody}
    BY DEF ScriptInv
  <1>3. pc'[c] = "read" /\ "read" \in Locs
    BY <1>1 DEF MutexInv, Locs
  <1>4. executed[c] = <<>> /\ result[c] = "none" /\ c \notin straggler
    BY <1>1, <1>2 DEF Progress
  <1>5. (CarriedOut(c, sent - Len(input)))'
    <2>1. sent' - Len(input') = 0
      <3>1. Len(input') = 0 /\ sent' = 0
        BY <1>1
      <3> QED BY <3>1
    <2> QED BY <1>1, <1>4, <2>1, Scripts DEF CarriedOut
  <1>6. Progress(c)'
    BY <1>1, <1>2, <1>3, <1>4, <1>5 DEF Progress, CarriedOut
  <1>7. conns' = {c}
    BY <1>1, OneConnection DEF Holding
  <1> QED BY <1>1, <1>2, <1>3, <1>6, <1>7, SameResult, OneGoesOn

LEMMA ReadScript ==
  ASSUME ScriptInv, MutexInv, NEW c \in Callers, Read(c)
  PROVE  ScriptInv'
  <1>1. /\ pc[c] = "read" /\ conns' = conns /\ sent' = sent /\ input' = input
        /\ result' = result /\ executed' = executed /\ straggler' = straggler /\ mutex' = mutex
    BY DEF Read
  <1>2. Progress(c) /\ mutex \in Callers \union {Nobody}
    BY DEF ScriptInv
  <1>3. \E to \in {"read", "send", "exit"} : pc' = [pc EXCEPT ![c] = to]
    <2>1. pc = [pc EXCEPT ![c] = "read"]
      BY <1>1 DEF MutexInv
    <2> QED BY <2>1 DEF Read
  <1>4. PICK to \in {"read", "send", "exit"} : pc' = [pc EXCEPT ![c] = to]
    BY <1>3
  <1>5. pc'[c] = to /\ to \in Locs
    BY <1>4 DEF MutexInv, Locs
  <1>6. Progress(c)'
    BY <1>1, <1>2, <1>5 DEF Progress, CarriedOut
  <1> QED BY <1>1, <1>2, <1>4, <1>5, <1>6, SameResult, OneGoesOn

LEMMA SendScript ==
  ASSUME ScriptInv, MutexInv, StreamInv, NEW c \in Callers, Send(c)
  PROVE  ScriptInv'
  <1>1. /\ pc[c] = "send" /\ pc' = [pc EXCEPT ![c] = "read"] /\ conns' = conns
        /\ sent' = sent + 1 /\ input' = Append(input, Script[c][sent + 1])
        /\ result' = result /\ executed' = executed /\ straggler' = straggler /\ mutex' = mutex
    BY DEF Send, Step
  <1>2. Progress(c) /\ mutex \in Callers \union {Nobody}
    BY DEF ScriptInv
  <1>3. pc'[c] = "read" /\ "read" \in Locs
    BY <1>1 DEF MutexInv, Locs
  <1>4. c \in conns /\ input = <<>> /\ sent \in 0..Len(Script[c]) /\ result[c] = "none"
    BY <1>1, <1>2 DEF StreamInv, InTurn, Talking, Turn, Progress
  <1>5. sent' - Len(input') = sent - Len(input)
    BY <1>1, <1>4, Scripts
  <1>6. Progress(c)'
    BY <1>1, <1>2, <1>3, <1>4, <1>5 DEF Progress, CarriedOut
  <1>7. conns' = {c}
    BY <1>1, <1>4, OneConnection DEF Holding
  <1> QED BY <1>1, <1>2, <1>3, <1>6, <1>7, SameResult, OneGoesOn

\* The line that the router has not looked at when the connection is closed.
LEMMA CloseScript ==
  ASSUME ScriptInv, MutexInv, StreamInv, NEW c \in Callers, Close(c)
  PROVE  ScriptInv'
  <1>1. /\ pc[c] = "close" /\ pc' = [pc EXCEPT ![c] = "unlock"] /\ conns' = conns \ {c}
        /\ result' = result /\ executed' = executed /\ mutex' = mutex
        /\ straggler' = straggler \/ (input # <<>> /\ straggler' = straggler \union {c})
    BY DEF Close, Step
  <1>2. Progress(c) /\ mutex \in Callers \union {Nobody}
    BY DEF ScriptInv
  <1>3. pc'[c] = "unlock" /\ "unlock" \in Locs
    BY <1>1 DEF MutexInv, Locs
  <1>4. conns' = {} /\ conns \subseteq {c}
    BY <1>1, OneConnection DEF Holding
  <1>5. c \notin straggler
    BY <1>1, <1>2 DEF Progress
  <1>6. CASE straggler' = straggler
    <2>1. Progress(c)'
      BY <1>1, <1>2, <1>3, <1>4, <1>5, <1>6 DEF Progress, CarriedOut
    <2> QED BY <1>1, <1>2, <1>3, <1>4, <1>6, <2>1, SameResult, OneGoesOn
  <1>7. CASE input # <<>> /\ straggler' = straggler \union {c}
    <2>1. c \in conns
      BY <1>4, <1>7 DEF StreamInv, Quiet
    <2>2. sent \in 1..Len(Script[c]) /\ Len(input) = 1
      BY <1>7, <2>1 DEF StreamInv, InTurn, Turn, Told, Asked
    <2>3. CarriedOut(c, sent - 1) /\ result[c] # "ok"
      BY <1>2, <1>7, <2>1, <2>2 DEF Progress
    <2>4. sent - 1 \in 0..Len(Script[c]) /\ sent - 1 < Len(Script[c])
      BY <2>2, Scripts
    <2>5. \E n \in 0..Len(Script[c]) : CarriedOut(c, n)' /\ n < Len(Script[c])
      BY <1>1, <2>3, <2>4 DEF CarriedOut
    <2>6. Progress(c)'
      BY <1>1, <1>2, <1>3, <1>4, <2>3, <2>5 DEF Progress
    <2> QED BY <1>1, <1>2, <1>3, <1>4, <1>7, <2>6, SameResult, OneGoesOn
  <1> QED BY <1>1, <1>6, <1>7

\* The router takes the line that the caller with the connection has sent.
LEMMA TakeScript ==
  ASSUME ScriptInv, MutexInv, StreamInv, RouterTakes
  PROVE  ScriptInv'
  <1>1. /\ input # <<>> /\ input' = Tail(input) /\ straggler' = straggler
        /\ pc' = pc /\ conns' = conns /\ sent' = sent /\ result' = result /\ mutex' = mutex
    BY DEF RouterTakes, clientVars
  <1>2. PICK c \in conns :
           Waiting => executed' = [executed EXCEPT ![c] = Append(executed[c], Head(input))]
    BY DEF RouterTakes
  <1>3. c \in Callers /\ pc[c] \in Connected /\ conns = {c}
    BY <1>2, OneConnection DEF MutexInv, Connected, Holding
  <1>4. Asked(c)
    BY <1>1, <1>2 DEF StreamInv, InTurn, Turn, Told
  <1>5. Waiting
    <2>1. PICK s \in Leads : \E k \in 0..Len(s) : \E m \in k..Len(s) : Tape(s, k, m)
      BY <1>4 DEF Asked
    <2>2. PICK k \in 0..Len(s) : \E m \in k..Len(s) : Tape(s, k, m)
      BY <2>1
    <2>3. PICK m \in k..Len(s) : Tape(s, k, m)
      BY <2>2
    <2> QED BY <2>3, LeadsWait
  <1>6. /\ sent \in 1..Len(Script[c]) /\ input = <<Script[c][sent]>>
        /\ Head(input) = Script[c][sent] /\ Len(input) = 1 /\ input' = <<>>
    BY <1>1, <1>4 DEF Asked
  <1>7. Progress(c) /\ executed \in [Callers -> Seq(Lines)]
    BY <1>3 DEF ScriptInv
  <1>8. CarriedOut(c, sent - 1) /\ result[c] # "ok" /\ c \notin straggler
    BY <1>1, <1>2, <1>3, <1>6, <1>7 DEF Progress, Connected
  <1>9. /\ sent - 1 \in 0..Len(Script[c]) /\ sent - 1 < Len(Script[c]) /\ (sent - 1) + 1 = sent
        /\ sent \in 0..Len(Script[c])
    BY <1>3, <1>6, Scripts
  <1>10. /\ Script[c][sent] \in Lines
         /\ Append(executed[c], Script[c][sent]) = SubSeq(Script[c], 1, sent)
    <2> DEFINE n == sent - 1
    <2>1. n \in 0..Len(Script[c]) /\ n < Len(Script[c]) /\ n + 1 = sent /\ CarriedOut(c, n)
      BY <1>8, <1>9
    <2> HIDE DEF n
    <2>2. /\ Script[c][n + 1] \in Lines
          /\ Append(executed[c], Script[c][n + 1]) = SubSeq(Script[c], 1, n + 1)
      BY <1>3, <2>1, NextLine
    <2> QED BY <2>1, <2>2
  <1>11. executed' = [executed EXCEPT ![c] = SubSeq(Script[c], 1, sent)]
    <2>1. Append(executed[c], Head(input)) = SubSeq(Script[c], 1, sent)
      BY <1>6, <1>10
    <2>2. executed' = [executed EXCEPT ![c] = Append(executed[c], Head(input))]
      BY <1>2, <1>5
    <2> QED BY ONLY <2>1, <2>2
  <1>12. executed'[c] = SubSeq(Script[c], 1, sent) /\ \A d \in Callers \ {c} : executed'[d] = executed[d]
    BY <1>3, <1>7, <1>11
  <1>13. executed' \in [Callers -> Seq(Lines)]
    <2>1. SubSeq(Script[c], 1, sent) \in Seq(Lines)
      BY <1>3, <1>9, CarriedType
    <2> QED BY <1>7, <1>11, <2>1
  <1>14. Progress(c)'
    <2>1. CarriedOut(c, sent)'
      BY <1>1, <1>12 DEF CarriedOut
    <2>2. sent' - Len(input') = sent
      <3>1. Len(input') = 0 /\ sent' = sent /\ sent \in Nat
        BY <1>1, <1>3, <1>6, Scripts
      <3> QED BY <3>1
    <2>3. pc[c] \notin {"idle", "lock", "dial"}
      BY <1>3 DEF Connected
    <2>4. CarriedOut(c, sent - Len(input))'
      BY <1>12, <2>2 DEF CarriedOut
    <2>5. \E n \in 0..Len(Script[c]) : CarriedOut(c, n)' /\ (c \in straggler' => n < Len(Script[c]))
      BY <1>1, <1>8, <1>9, <1>12 DEF CarriedOut
    <2> QED BY <1>1, <1>7, <1>8, <2>3, <2>4, <2>5 DEF Progress
  <1>15. ASSUME NEW d \in Callers
         PROVE  Progress(d)'
    <2>1. CASE d # c
      <3>1. d \notin conns'
        BY <1>1, <1>3, <2>1
      <3> QED BY <1>1, <1>12, <2>1, <3>1, OthersProgress DEF ScriptInv
    <2> QED BY <1>14, <2>1
  <1> QED BY <1>1, <1>13, <1>15 DEF ScriptInv

\* A line is carried out, or lost, after its session has ended.
LEMMA StraggleScript ==
  ASSUME ScriptInv, MutexInv, NEW c \in Callers, Straggle(c)
  PROVE  ScriptInv'
  <1>1. /\ c \in straggler /\ straggler' = straggler \ {c} /\ input' = input
        /\ pc' = pc /\ conns' = conns /\ sent' = sent /\ result' = result /\ mutex' = mutex
        /\ \/ executed' = [executed EXCEPT ![c] = Append(@, Script[c][Len(@) + 1])]
           \/ executed' = executed
    BY DEF Straggle, clientVars
  <1>2. Progress(c) /\ executed \in [Callers -> Seq(Lines)]
    BY DEF ScriptInv
  <1>3. pc[c] \in {"unlock", "done"} /\ result[c] # "ok" /\ c \notin conns
    BY <1>1, <1>2 DEF Progress, MutexInv, Connected
  <1>4. PICK n \in 0..Len(Script[c]) : CarriedOut(c, n) /\ n < Len(Script[c])
    BY <1>1, <1>2 DEF Progress
  <1>5. /\ Len(executed[c]) = n /\ n + 1 \in 0..Len(Script[c]) /\ Script[c][n + 1] \in Lines
        /\ Append(executed[c], Script[c][n + 1]) = SubSeq(Script[c], 1, n + 1)
    BY <1>4, NextLine
  <1>6. PICK k \in 0..Len(Script[c]) : executed' = [executed EXCEPT ![c] = SubSeq(Script[c], 1, k)]
    <2>1. CASE executed' = executed
      <3>1. executed' = [executed EXCEPT ![c] = SubSeq(Script[c], 1, n)]
        BY <1>2, <1>4, <2>1 DEF CarriedOut
      <3> QED BY <3>1
    <2>2. CASE executed' # executed
      <3>1. executed' = [executed EXCEPT ![c] = SubSeq(Script[c], 1, n + 1)]
        BY <1>1, <1>5, <2>2
      <3> QED BY <1>5, <3>1
    <2> QED BY <2>1, <2>2
  <1>7. executed'[c] = SubSeq(Script[c], 1, k) /\ \A d \in Callers \ {c} : executed'[d] = executed[d]
    BY <1>2, <1>6
  <1>8. executed' \in [Callers -> Seq(Lines)]
    <2>1. SubSeq(Script[c], 1, k) \in Seq(Lines)
      BY CarriedType
    <2> QED BY <1>2, <1>6, <2>1
  <1>9. Progress(c)'
    <2>1. CarriedOut(c, k)' /\ c \notin straggler'
      BY <1>1, <1>7 DEF CarriedOut
    <2> QED BY <1>1, <1>2, <1>3, <2>1 DEF Progress
  <1>10. ASSUME NEW d \in Callers
         PROVE  Progress(d)'
    <2>1. CASE d # c
      BY <1>1, <1>7, <2>1, OthersProgress DEF ScriptInv
    <2> QED BY <1>9, <2>1
  <1> QED BY <1>1, <1>8, <1>10 DEF ScriptInv

LEMMA NextKeepsScript == MutexInv /\ StreamInv /\ ScriptInv /\ [Next]_vars => ScriptInv'
  <1> SUFFICES ASSUME MutexInv, StreamInv, ScriptInv, [Next]_vars
               PROVE  ScriptInv'
    OBVIOUS
  <1>1. ASSUME NEW c \in Callers, \/ Call(c) \/ Lock(c) \/ DialFails(c) \/ Exit(c)
                                  \/ Deadline(c) \/ Unlock(c)
        PROVE  ScriptInv'
    BY <1>1, SilentScript
  <1>2. ASSUME NEW c \in Callers, Dial(c) \/ Read(c) \/ Send(c) \/ Close(c) \/ Straggle(c)
        PROVE  ScriptInv'
    BY <1>2, DialScript, ReadScript, SendScript, CloseScript, StraggleScript
  <1>3. CASE RouterTakes
    BY <1>3, TakeScript
  <1>4. CASE RouterPrints \/ UNCHANGED vars
    <2>1. /\ UNCHANGED <<mutex, pc, result, conns, sent, input, executed, straggler>>
      BY <1>4 DEF RouterPrints, vars, clientVars, routerVars
    <2>2. ASSUME NEW d \in Callers
          PROVE  Progress(d)'
      BY <2>1, OthersProgress DEF ScriptInv
    <2> QED BY <2>1, <2>2 DEF ScriptInv
  <1> QED BY <1>1, <1>2, <1>3, <1>4 DEF Next, Client

-----------------------------------------------------------------------------
(***************************************************************************)
(* All of it together.                                                     *)
(***************************************************************************)
SessionInv == MutexInv /\ StreamInv /\ ScriptInv

LEMMA SessionIsKept ==
  ASSUME Legible
  PROVE  Spec => []SessionInv
  <1>1. Init => SessionInv
    BY InitMutex, InitStream, InitScript DEF SessionInv
  <1>2. SessionInv /\ [Next]_vars => SessionInv'
    BY NextKeepsMutex, NextKeepsStream, NextKeepsScript DEF SessionInv
  <1> QED BY <1>1, <1>2, PTL DEF Spec

LEMMA WindowIsBounded ==
  ASSUME NEW s \in Seq(Symbols), NEW k \in 0..Len(s), NEW m, Tape(s, k, m)
  PROVE  Len(tail) <= PromptWindow
  <1>1. k \in Nat /\ PromptWindow \in Nat \ {0}
    BY WindowAssumption, LenProperties
  <1>2. First(k) \in Nat \ {0} /\ k - First(k) + 1 <= PromptWindow
    BY <1>1, FirstKept
  <1>3. Len(SubSeq(s, First(k), k)) = IF First(k) <= k THEN k - First(k) + 1 ELSE 0
    BY <1>2, Slice
  <1>4. (IF First(k) <= k THEN k - First(k) + 1 ELSE 0) <= PromptWindow
    BY <1>1, <1>2
  <1> QED BY <1>3, <1>4 DEF Tape

LEMMA InvariantTypes == SessionInv => TypeOK
  <1> SUFFICES ASSUME MutexInv, StreamInv, ScriptInv
               PROVE  TypeOK
    BY DEF SessionInv
  <1>1. \A c \in Callers : (pc[c] \notin {"idle", "lock", "done"}) <=> mutex = c
    BY DEF MutexInv, Holding, Locs
  <1>2. conns \in SUBSET Callers
    BY DEF MutexInv
  <1>3. Len(tail) <= PromptWindow /\ Len(input) <= 1
    <2>1. CASE conns = {}
      <3>1. Len(tail) = 0 /\ Len(input) = 0
        BY <2>1 DEF StreamInv, Quiet
      <3> QED BY <3>1, WindowAssumption
    <2>2. ASSUME NEW c \in conns
          PROVE  Len(tail) <= PromptWindow /\ Len(input) <= 1
      <3>1. Turn \/ Asked(c) \/ Told
        BY <2>2 DEF StreamInv, InTurn
      <3>2. Len(input) <= 1
        <4>1. Len(input) = 0 \/ Len(input) = 1
          BY <3>1 DEF Turn, Asked, Told
        <4>2. 0 <= 1 /\ 1 <= 1
          OBVIOUS
        <4> QED BY ONLY <4>1, <4>2
      <3>3. \E s \in Seq(Symbols) : \E k \in 0..Len(s) : \E m : Tape(s, k, m)
        <4>1. CASE Turn
          <5>1. \A s \in Leads : s \in Seq(Symbols) /\ 0 \in 0..Len(s)
            BY Texts
          <5> QED BY <4>1, <5>1 DEF Turn
        <4>2. CASE Asked(c)
          BY <4>2, Texts DEF Asked
        <4>3. CASE Told
          <5>1. \A s \in Replies : s \in Seq(Symbols) /\ \A k \in 0..Len(s) - 2 : k \in 0..Len(s)
            BY Texts
          <5> QED BY <4>3, <5>1 DEF Told
        <4> QED BY <3>1, <4>1, <4>2, <4>3
      <3> QED BY <3>2, <3>3, WindowIsBounded
    <2> QED BY <2>1, <2>2
  <1> QED BY <1>1, <1>2, <1>3 DEF TypeOK, MutexInv, ScriptInv, Locs

\* The variables keep their types: above all, the client keeps no more than a
\* window of what it has read, and no more than one line is on its way.
THEOREM TypeCorrect ==
  ASSUME Legible
  PROVE  Spec => []TypeOK
  BY SessionIsKept, InvariantTypes, PTL

-----------------------------------------------------------------------------
(***************************************************************************)
(* Session implements CommandSession.                                      *)
(***************************************************************************)
Said == [c \in Callers |-> StateOf(c)]

Opened == {"read", "send", "exit", "close", "unlock"}

\* A step of one caller, as the others' callers see it.
LEMMA OneState ==
  ASSUME MutexInv, NEW c \in Callers,
         \A d \in Callers \ {c} : /\ pc'[d] = pc[d] /\ result'[d] = result[d]
                                  /\ d \in straggler' <=> d \in straggler
  PROVE  Said' = [Said EXCEPT ![c] = StateOf(c)']
  <1>1. ASSUME NEW d \in Callers \ {c}
        PROVE  StateOf(d)' = StateOf(d)
    <2>1. pc'[d] = pc[d] /\ result'[d] = result[d]
      OBVIOUS
    <2>2. CASE d \in straggler
      <3>1. d \in straggler'
        BY <2>2
      <3> QED BY ONLY <2>1, <2>2, <3>1 DEF StateOf
    <2>3. CASE d \notin straggler
      <3>1. d \notin straggler'
        BY <2>3
      <3> QED BY ONLY <2>1, <2>3, <3>1 DEF StateOf
    <2> QED BY <2>2, <2>3
  <1> QED BY <1>1 DEF Said

\* Nothing that the callers see.
LEMMA NothingSeen ==
  ASSUME NEW c \in Callers, Said' = [Said EXCEPT ![c] = StateOf(c)'], StateOf(c)' = StateOf(c),
         executed' = executed
  PROVE  [Promise!Next]_<<Said, executed>>
  <1>1. Said' = Said
    BY DEF Said
  <1> QED BY <1>1

LEMMA PromiseInit == Init => Promise!Init
  BY DEF Init, Promise!Init, StateOf

LEMMA OpenStep ==
  ASSUME SessionInv, NEW c \in Callers, Dial(c) \/ DialFails(c)
  PROVE  [Promise!Next]_<<Said, executed>>
  <1> USE DEF SessionInv
  <1>1. /\ pc[c] = "dial" /\ executed' = executed /\ straggler' = straggler
        /\ \E to \in {"read", "close"} : pc' = [pc EXCEPT ![c] = to]
        /\ \/ result' = result
           \/ result' = [result EXCEPT ![c] = "failed"]
    BY DEF Dial, DialFails, Leave, Step, routerVars
  <1>2. /\ \A d \in Callers \ {c} : pc'[d] = pc[d] /\ result'[d] = result[d]
        /\ pc'[c] \in {"read", "close"}
    BY <1>1 DEF MutexInv, ScriptInv
  <1>3. StateOf(c) = "none" /\ StateOf(c)' = "open"
    BY <1>1, <1>2 DEF StateOf
  <1>4. \A d \in Callers : StateOf(d) # "open"
    <2> SUFFICES ASSUME NEW d \in Callers, StateOf(d) = "open" PROVE FALSE
      OBVIOUS
    <2>1. pc[d] \in Opened
      <3>1. result[d] \in {"none", "ok", "failed"}
        BY DEF ScriptInv
      <3> QED BY <3>1 DEF StateOf, Opened
    <2>2. mutex = d /\ mutex = c
      BY <1>1, <2>1 DEF MutexInv, Holding, Opened
    <2> QED BY <1>1, <2>1, <2>2 DEF Opened
  <1>5. Said' = [Said EXCEPT ![c] = StateOf(c)']
    BY <1>1, <1>2, OneState
  <1>6. Promise!Open(c)
    BY <1>1, <1>3, <1>4, <1>5 DEF Promise!Open, Said
  <1> QED BY <1>6 DEF Promise!Next

LEMMA HiddenStep ==
  ASSUME SessionInv, NEW c \in Callers,
         \/ Call(c) \/ Lock(c) \/ Read(c) \/ Send(c) \/ Exit(c) \/ Deadline(c) \/ Close(c)
  PROVE  [Promise!Next]_<<Said, executed>>
  <1> USE DEF SessionInv
  <1>1. /\ executed' = executed
        /\ \E to \in Locs : pc' = [pc EXCEPT ![c] = to]
        /\ \/ result' = result
           \/ \E r \in {"ok", "failed"} : result' = [result EXCEPT ![c] = r]
        /\ \/ straggler' = straggler
           \/ straggler' = straggler \union {c}
    <2>1. CASE Read(c)
      <3>1. pc = [pc EXCEPT ![c] = pc[c]] /\ pc[c] \in Locs
        BY DEF MutexInv
      <3> QED BY <2>1, <3>1 DEF Read, Locs
    <2>2. CASE Call(c) \/ Lock(c) \/ Send(c) \/ Close(c)
      BY <2>2 DEF Call, Lock, Send, Close, Step, routerVars, Locs
    <2>3. CASE Exit(c) \/ Deadline(c)
      BY <2>3 DEF Exit, Deadline, Leave, routerVars, Locs
    <2> QED BY <2>1, <2>2, <2>3
  <1>2. \A d \in Callers \ {c} : /\ pc'[d] = pc[d] /\ result'[d] = result[d]
                                 /\ d \in straggler' <=> d \in straggler
    BY <1>1 DEF MutexInv, ScriptInv
  <1>3. StateOf(c)' = StateOf(c)
    <2>1. \/ pc[c] \in {"idle", "lock"} /\ pc'[c] \in {"lock", "dial"}
          \/ pc[c] \in Opened /\ pc'[c] \in Opened
      <3>1. pc \in [Callers -> Locs]
        BY DEF MutexInv
      <3>2. CASE Call(c) \/ Lock(c)
        BY <3>1, <3>2 DEF Call, Lock, Step
      <3>3. CASE Send(c) \/ Close(c)
        BY <3>1, <3>3 DEF Send, Close, Step, Opened
      <3>4. CASE Exit(c) \/ Deadline(c)
        BY <3>1, <3>4 DEF Exit, Deadline, Leave, Opened
      <3>5. CASE Read(c)
        BY <3>1, <3>5 DEF Read, Opened
      <3> QED BY <3>2, <3>3, <3>4, <3>5
    <2> QED BY <2>1 DEF StateOf, Opened
  <1>4. Said' = [Said EXCEPT ![c] = StateOf(c)']
    BY <1>2, OneState
  <1> QED BY <1>1, <1>3, <1>4, NothingSeen

\* The session ends for its callers when the mutex is released.
LEMMA EndStep ==
  ASSUME SessionInv, NEW c \in Callers, Unlock(c)
  PROVE  [Promise!Next]_<<Said, executed>>
  <1> USE DEF SessionInv
  <1>1. /\ pc[c] = "unlock" /\ pc' = [pc EXCEPT ![c] = "done"]
        /\ executed' = executed /\ straggler' = straggler /\ result' = result
    BY DEF Unlock, Step, routerVars
  <1>2. pc'[c] = "done" /\ \A d \in Callers \ {c} : pc'[d] = pc[d]
    BY <1>1 DEF MutexInv
  <1>3. Progress(c) /\ result[c] \in {"ok", "failed"}
    BY <1>1 DEF ScriptInv, Progress
  <1>4. Said' = [Said EXCEPT ![c] = StateOf(c)']
    BY <1>1, <1>2, OneState
  <1>5. StateOf(c) = "open" /\ Said[c] = "open"
    BY <1>1 DEF StateOf, Said
  <1>6. CASE result[c] = "ok"
    <2>1. StateOf(c)' = "ok"
      BY <1>1, <1>2, <1>6 DEF StateOf
    <2>2. executed[c] = Script[c]
      BY <1>3, <1>6 DEF Progress
    <2>3. Promise!Succeed(c)
      BY <1>1, <1>4, <1>5, <2>1, <2>2 DEF Promise!Succeed, Said
    <2> QED BY <2>3 DEF Promise!Next
  <1>7. CASE result[c] = "failed"
    <2>1. StateOf(c)' \in {"failed", "doubtful"}
      BY <1>1, <1>2, <1>7 DEF StateOf
    <2>2. Promise!Fail(c)
      BY <1>1, <1>4, <1>5, <2>1 DEF Promise!Fail, Said
    <2> QED BY <2>2 DEF Promise!Next
  <1> QED BY <1>3, <1>6, <1>7

\* The router executes the next line of the script, and no other.
LEMMA TakeStep ==
  ASSUME SessionInv, RouterTakes
  PROVE  [Promise!Next]_<<Said, executed>>
  <1> USE DEF SessionInv
  <1>1. input # <<>> /\ UNCHANGED <<pc, result, straggler>>
    BY DEF RouterTakes, clientVars
  <1>2. Said' = Said
    BY <1>1 DEF Said, StateOf
  <1>3. CASE executed' = executed
    BY <1>2, <1>3
  <1>4. CASE executed' # executed
    <2>1. PICK c \in conns : executed' = [executed EXCEPT ![c] = Append(executed[c], Head(input))]
      BY <1>4 DEF RouterTakes
    <2>2. c \in Callers /\ pc[c] \in Connected
      BY <2>1 DEF MutexInv
    <2>3. /\ sent \in 1..Len(Script[c]) /\ Head(input) = Script[c][sent] /\ Len(input) = 1
      BY <1>1, <2>1 DEF StreamInv, InTurn, Turn, Told, Asked
    <2> DEFINE n == sent - 1
    <2>4. n \in 0..Len(Script[c]) /\ n < Len(Script[c]) /\ n + 1 = sent
      BY <2>2, <2>3, Scripts
    <2>5. CarriedOut(c, n)
      BY <2>1, <2>2, <2>3 DEF ScriptInv, Progress
    <2> HIDE DEF n
    <2>6. Len(executed[c]) = n
      BY <2>2, <2>4, <2>5, NextLine
    <2>7. executed' = [executed EXCEPT ![c] = Append(executed[c], Script[c][Len(executed[c]) + 1])]
      <3>1. Head(input) = Script[c][Len(executed[c]) + 1]
        BY <2>3, <2>4, <2>6
      <3> QED BY ONLY <2>1, <3>1
    <2>8. Len(executed[c]) < Len(Script[c])
      BY <2>4, <2>6
    <2>9. Said[c] = "open"
      BY <2>2 DEF Said, StateOf, Connected
    <2>10. Promise!NextCommand(c)
      BY <2>7, <2>8 DEF Promise!NextCommand
    <2>11. Promise!Execute(c)
      BY <1>2, <2>9, <2>10 DEF Promise!Execute, Said
    <2> QED BY <2>2, <2>11 DEF Promise!Next
  <1> QED BY <1>3, <1>4

LEMMA StraggleStep ==
  ASSUME SessionInv, NEW c \in Callers, Straggle(c)
  PROVE  [Promise!Next]_<<Said, executed>>
  <1> USE DEF SessionInv
  <1>1. /\ c \in straggler /\ straggler' = straggler \ {c} /\ pc' = pc /\ result' = result
        /\ \/ executed' = [executed EXCEPT ![c] = Append(@, Script[c][Len(@) + 1])]
           \/ executed' = executed
    BY DEF Straggle, clientVars
  <1>2. Progress(c) /\ result[c] \in {"none", "ok", "failed"}
    BY DEF ScriptInv
  <1>3. pc[c] \in {"unlock", "done"} /\ result[c] = "failed"
    BY <1>1, <1>2 DEF Progress
  <1>4. Said' = [Said EXCEPT ![c] = StateOf(c)']
    BY <1>1, OneState
  <1>5. Promise!NextCommand(c) \/ executed' = executed
    <2>1. PICK n \in 0..Len(Script[c]) : CarriedOut(c, n) /\ n < Len(Script[c])
      BY <1>1, <1>2 DEF Progress
    <2>2. Len(executed[c]) < Len(Script[c])
      BY <2>1, NextLine
    <2> QED BY <1>1, <2>2 DEF Promise!NextCommand
  <1>6. CASE pc[c] = "unlock"
    <2>1. StateOf(c) = "open" /\ StateOf(c)' = "open"
      BY <1>1, <1>6 DEF StateOf
    <2>2. CASE executed' = executed
      BY <1>4, <2>1, <2>2, NothingSeen
    <2>3. CASE Promise!NextCommand(c)
      <3>1. Said' = Said /\ Said[c] = "open"
        BY <1>4, <2>1 DEF Said
      <3>2. Promise!Execute(c)
        BY <2>3, <3>1 DEF Promise!Execute, Said
      <3> QED BY <3>2 DEF Promise!Next
    <2> QED BY <1>5, <2>2, <2>3
  <1>7. CASE pc[c] = "done"
    <2>1. StateOf(c) = "doubtful" /\ StateOf(c)' = "failed"
      BY <1>1, <1>3, <1>7 DEF StateOf
    <2>2. Said[c] = "doubtful"
      BY <2>1 DEF Said
    <2>3. Promise!Straggle(c)
      BY <1>4, <1>5, <2>1, <2>2 DEF Promise!Straggle, Said
    <2> QED BY <2>3 DEF Promise!Next
  <1> QED BY <1>3, <1>6, <1>7

LEMMA PromiseStep ==
  ASSUME SessionInv, [Next]_vars
  PROVE  [Promise!Next]_<<Said, executed>>
  <1>1. ASSUME NEW c \in Callers, Dial(c) \/ DialFails(c)
        PROVE  [Promise!Next]_<<Said, executed>>
    BY <1>1, OpenStep
  <1>2. ASSUME NEW c \in Callers, \/ Call(c) \/ Lock(c) \/ Read(c) \/ Send(c) \/ Exit(c)
                                  \/ Deadline(c) \/ Close(c)
        PROVE  [Promise!Next]_<<Said, executed>>
    BY <1>2, HiddenStep
  <1>3. ASSUME NEW c \in Callers, Unlock(c)
        PROVE  [Promise!Next]_<<Said, executed>>
    BY <1>3, EndStep
  <1>4. ASSUME NEW c \in Callers, Straggle(c)
        PROVE  [Promise!Next]_<<Said, executed>>
    BY <1>4, StraggleStep
  <1>5. CASE RouterTakes
    BY <1>5, TakeStep
  <1>6. CASE RouterPrints \/ UNCHANGED vars
    <2>1. UNCHANGED <<pc, result, straggler, executed>>
      BY <1>6 DEF RouterPrints, vars, clientVars, routerVars
    <2> QED BY <2>1 DEF Said, StateOf
  <1> QED BY <1>1, <1>2, <1>3, <1>4, <1>5, <1>6 DEF Next, Client

(***************************************************************************)
(* The session keeps what its callers rely on (run): its lines are         *)
(* executed in their order, none twice and none left out; a session that   *)
(* succeeds has executed them all, and one that fails leaves no more than  *)
(* the line it had just sent in doubt.                                     *)
(***************************************************************************)
THEOREM PromiseIsKept ==
  ASSUME Legible
  PROVE  Spec => KeepsItsPromise
  <1>1. SessionInv /\ [Next]_vars => [Promise!Next]_<<Said, executed>>
    BY PromiseStep
  <1> QED BY <1>1, PromiseInit, SessionIsKept, PTL DEF Spec, KeepsItsPromise, Promise!Spec, Said
=============================================================================
