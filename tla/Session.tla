------------------------------- MODULE Session -------------------------------
(***************************************************************************)
(* One session of the SSH client (run, readUntilPrompt and atPrompt of     *)
(* internal/keenetic/client.go).  The callers, one goroutine per           *)
(* controller, take turns by a mutex.  The router's shell discards what    *)
(* it is sent before it has printed its prompt, so the client reads up to  *)
(* a prompt before every command.  What it reads is a stream, cut          *)
(* anywhere, in which a prompt is told from text that merely looks like    *)
(* one by comparing the whole last line.                                   *)
(*                                                                         *)
(* The stream consists of symbols: text "t", the end of a line "n", an     *)
(* escape sequence "e", and the two halves of a prompt, "p" and "q".       *)
(***************************************************************************)
EXTENDS Naturals, Sequences, SequencesExt, FiniteSets

CONSTANTS Callers, Nobody,
          Script,        \* the lines each caller wants to send
          Greeting,      \* what the router prints before its first prompt
          Answers,       \* what it prints before the prompt that follows a command
          PromptWindow   \* promptWindow

ASSUME NobodyAssumption == Nobody \notin Callers
Symbols == {"t", "n", "e", "p", "q"}
Lines == UNION {{Script[c][i] : i \in DOMAIN Script[c]} : c \in Callers}

ASSUME WindowAssumption == PromptWindow \in Nat \ {0}
ASSUME ScriptAssumption == Script \in [Callers -> Seq(Lines)]
ASSUME TextsAssumption == Greeting \in Seq(Symbols) /\ Answers \subseteq Seq(Symbols)

VARIABLES mutex,      \* Client.mu
          pc,         \* what each caller does next
          result,     \* what run returns
          conns,      \* callers with an open connection
          sent,       \* how many lines of the script have been sent
          tail,       \* what readUntilPrompt keeps of earlier chunks
          input,      \* lines the router has not looked at
          printing,   \* symbols it has still to print
          wire,       \* symbols printed and not yet read
          executed,   \* lines of each script that have been executed
          straggler   \* callers whose last line is still on its way

clientVars == <<mutex, pc, result, conns, sent, tail>>
routerVars == <<input, printing, wire, executed, straggler>>
vars == <<clientVars, routerVars>>

Prompt == <<"p", "q">>

Reply(text) == text \o (Prompt \o <<"e">>)

\* The prompt has been printed, possibly except what decorates it.
Waiting == \A i \in DOMAIN printing : printing[i] = "e"

-----------------------------------------------------------------------------
(***************************************************************************)
(* atPrompt: the last line, without escape sequences and trailing blanks,  *)
(* is a prompt.                                                            *)
(***************************************************************************)
NoEscapes(window) == SelectSeq(window, LAMBDA x : x # "e")

TrimRight(s) == SubSeq(s, 1, Max({0} \union {i \in DOMAIN s : s[i] # "n"}))

LastLine(s) == SubSeq(s, 1 + Max({0} \union {i \in DOMAIN s : s[i] = "n"}), Len(s))

Shown(window) == LastLine(TrimRight(NoEscapes(window)))

\* Mutant: a prompt at the end of whatever has been read.
AtPrompt_Suffix(window) == IsSuffix(Prompt, TrimRight(NoEscapes(window)))

AtPrompt(window) == Shown(window) = Prompt

\* Mutant: every chunk is looked at for itself.
Keep_Nothing(combined) == <<>>

Keep(combined) ==
    SubSeq(combined, IF Len(combined) > PromptWindow
                     THEN Len(combined) - PromptWindow + 1 ELSE 1, Len(combined))

-----------------------------------------------------------------------------
Step(c, from, to) == pc[c] = from /\ pc' = [pc EXCEPT ![c] = to]

Call(c) ==
    /\ Step(c, "idle", "lock")
    /\ UNCHANGED <<mutex, result, conns, sent, tail, routerVars>>

Lock(c) ==
    /\ Step(c, "lock", "dial")
    /\ mutex = Nobody
    /\ mutex' = c
    /\ UNCHANGED <<result, conns, sent, tail, routerVars>>

\* Mutant: the deferred calls the other way round.
Leave_UnlockFirst(c, r) ==
    /\ pc' = [pc EXCEPT ![c] = "close"]
    /\ result' = [result EXCEPT ![c] = r]
    /\ mutex' = Nobody

\* run returns; its deferred calls come in the reverse order, the mutex last.
Leave(c, r) ==
    /\ pc' = [pc EXCEPT ![c] = "close"]
    /\ result' = [result EXCEPT ![c] = r]
    /\ UNCHANGED mutex

Dial(c) ==
    /\ Step(c, "dial", "read")
    /\ conns' = conns \union {c}
    /\ sent' = 0 /\ tail' = <<>>
    /\ input' = <<>> /\ printing' = Reply(Greeting) /\ wire' = <<>>
    /\ UNCHANGED <<mutex, result, executed, straggler>>

DialFails(c) ==
    /\ pc[c] = "dial"
    /\ Leave(c, "failed")
    /\ UNCHANGED <<conns, sent, tail, routerVars>>

\* Read returns at least one symbol of what has been printed.
Read(c) ==
    /\ pc[c] = "read" /\ wire # <<>>
    /\ \E n \in DOMAIN wire :
          LET combined == tail \o SubSeq(wire, 1, n) IN
          /\ wire' = SubSeq(wire, n + 1, Len(wire))
          /\ IF AtPrompt(combined)
             THEN /\ tail' = <<>>
                  /\ pc' = [pc EXCEPT ![c] = IF sent < Len(Script[c]) THEN "send"
                                             ELSE "exit"]
             ELSE tail' = Keep(combined) /\ UNCHANGED pc
    /\ UNCHANGED <<mutex, result, conns, sent, input, printing, executed, straggler>>

\* Mutant: all the lines at once.
Send_Blindly(c) ==
    /\ Step(c, "send", "read")
    /\ sent' = Len(Script[c])
    /\ input' = input \o SubSeq(Script[c], sent + 1, Len(Script[c]))
    /\ UNCHANGED <<mutex, result, conns, tail, printing, wire, executed, straggler>>

Send(c) ==
    /\ Step(c, "send", "read")
    /\ sent' = sent + 1
    /\ input' = Append(input, Script[c][sent + 1])
    /\ UNCHANGED <<mutex, result, conns, tail, printing, wire, executed, straggler>>

\* `exit`, and Wait, whose error is only logged.
Exit(c) ==
    /\ pc[c] = "exit"
    /\ Leave(c, "ok")
    /\ UNCHANGED <<conns, sent, tail, routerVars>>

\* Mutant: the deadline stops the writes, not a read that is waiting.
Deadline_NotWhileReading(c) ==
    /\ pc[c] \in {"send", "exit"}
    /\ Leave(c, "failed")
    /\ UNCHANGED <<conns, sent, tail, routerVars>>

(***************************************************************************)
(* The deadline of the session, the cancellation of the caller's context,  *)
(* and a connection that breaks all close the connection, and the read or  *)
(* write under way returns an error.                                       *)
(***************************************************************************)
Deadline(c) ==
    /\ pc[c] \in {"read", "send", "exit"}
    /\ Leave(c, "failed")
    /\ UNCHANGED <<conns, sent, tail, routerVars>>

\* A line the router has not read yet is lost, or carried out later.
Close(c) ==
    /\ Step(c, "close", "unlock")
    /\ conns' = conns \ {c}
    /\ input' = <<>> /\ printing' = <<>> /\ wire' = <<>>
    /\ straggler' \in {straggler} \union (IF input = <<>> THEN {}
                                          ELSE {straggler \union {c}})
    /\ tail' = <<>>
    /\ UNCHANGED <<mutex, result, sent, executed>>

Unlock(c) ==
    /\ Step(c, "unlock", "done")
    /\ mutex' = Nobody
    /\ UNCHANGED <<result, conns, sent, tail, routerVars>>

-----------------------------------------------------------------------------
(***************************************************************************)
(* The router's shell.                                                     *)
(***************************************************************************)
RouterPrints ==
    /\ printing # <<>>
    /\ wire' = Append(wire, Head(printing))
    /\ printing' = Tail(printing)
    /\ UNCHANGED <<clientVars, input, executed, straggler>>

\* What has arrived before the prompt is printed is discarded.
RouterTakes ==
    /\ input # <<>>
    /\ input' = Tail(input)
    /\ \E c \in conns, answer \in Answers :
          IF Waiting
          THEN /\ executed' = [executed EXCEPT ![c] = Append(@, Head(input))]
               /\ printing' = printing \o Reply(answer)
          ELSE UNCHANGED <<executed, printing>>
    /\ UNCHANGED <<clientVars, wire, straggler>>

Straggle(c) ==
    /\ c \in straggler
    /\ straggler' = straggler \ {c}
    /\ \/ executed' = [executed EXCEPT ![c] = Append(@, Script[c][Len(@) + 1])]
       \/ UNCHANGED executed
    /\ UNCHANGED <<clientVars, input, printing, wire>>

-----------------------------------------------------------------------------
Init ==
    /\ mutex = Nobody
    /\ pc = [c \in Callers |-> "idle"] /\ result = [c \in Callers |-> "none"]
    /\ conns = {} /\ sent = 0 /\ tail = <<>>
    /\ input = <<>> /\ printing = <<>> /\ wire = <<>>
    /\ executed = [c \in Callers |-> <<>>] /\ straggler = {}

Client(c) == \/ Dial(c) \/ DialFails(c) \/ Read(c) \/ Send(c) \/ Exit(c)
             \/ Close(c) \/ Unlock(c)

Next ==
    \/ \E c \in Callers : Call(c) \/ Lock(c) \/ Client(c) \/ Deadline(c) \/ Straggle(c)
    \/ RouterPrints \/ RouterTakes

(***************************************************************************)
(* Fairness: a goroutine goes on, a deadline expires, and a mutex that is  *)
(* free again and again is handed to everyone who waits.  The router owes  *)
(* nothing: it may fall silent at any moment, for good.                    *)
(***************************************************************************)
Fairness == \A c \in Callers : /\ WF_vars(Client(c)) /\ WF_vars(Deadline(c))
                               /\ SF_vars(Lock(c))

Spec == Init /\ [][Next]_vars /\ Fairness

-----------------------------------------------------------------------------
\* The variables keep their types, and only the mutex's owner has a session.
TypeOK ==
    /\ mutex \in Callers \union {Nobody}
    /\ pc \in [Callers -> {"idle", "lock", "dial", "read", "send", "exit",
                           "close", "unlock", "done"}]
    /\ result \in [Callers -> {"none", "ok", "failed"}]
    /\ \A c \in Callers : (pc[c] \notin {"idle", "lock", "done"}) <=> mutex = c
    /\ conns \in SUBSET Callers /\ straggler \in SUBSET Callers
    /\ Len(tail) <= PromptWindow /\ Len(input) <= 1

(***************************************************************************)
(* What the properties of the stream ask of greeting, answers and window   *)
(* (client.go:217 and the length of the window): of a reply, behind the    *)
(* decoration of the prompt before it if that has not been read yet, k     *)
(* symbols have been read and at most a window of them kept; with what     *)
(* comes next the last line is a prompt exactly when the reply's prompt    *)
(* is complete.  A decoration alone is no prompt.                          *)
(***************************************************************************)
Leads == {<<>>, <<"e">>}
Replies == {Reply(Greeting)} \union {lead \o Reply(answer) : lead \in Leads, answer \in Answers}

First(k) == IF k > PromptWindow THEN k - PromptWindow + 1 ELSE 1

Legible ==
    /\ Shown(<<"e">>) # Prompt
    /\ \A s \in Replies : \A k \in 0..Len(s) - 2 : \A j \in k + 1..Len(s) :
          Shown(SubSeq(s, First(k), j)) = Prompt <=> j >= Len(s) - 1

(***************************************************************************)
(* A prompt is told from text that looks like one, at every cut of the     *)
(* stream: of what a reader has kept and what is still to come, wherever   *)
(* its next read ends, it takes the prompt for one when it is complete,    *)
(* and nothing else; and before the router has looked at the line it was   *)
(* sent, nothing at all.                                                   *)
(***************************************************************************)
PromptIsSeen ==
    \A c \in conns : pc[c] = "read" =>
        LET ahead == tail \o wire \o printing IN
        \A j \in Len(tail) + 1..Len(ahead) :
            AtPrompt(SubSeq(ahead, 1, j)) <=> input = <<>> /\ j >= Len(ahead) - 1

(***************************************************************************)
(* "Everything that is sent earlier is silently thrown away": a line is    *)
(* sent only to a router that waits at its prompt, and after everything it *)
(* had to say, so that no line is lost and each answer belongs to the line *)
(* before it, wherever the stream was cut and whatever text it contains.   *)
(***************************************************************************)
SendsInTurn ==
    \A c \in Callers : pc[c] \in {"send", "exit"} =>
        Waiting /\ \A i \in DOMAIN wire : wire[i] = "e"

(***************************************************************************)
(* Client and router never wait for each other: when the router has        *)
(* printed its prompt and all of it has been read, the client does not     *)
(* want to read any more, although the prompt may have come in pieces.     *)
(***************************************************************************)
NoStandoff ==
    \A c \in Callers : c \in conns /\ pc[c] = "read" =>
        wire # <<>> \/ printing # <<>> \/ input # <<>>

(***************************************************************************)
(* The client serialises its sessions: a connection is closed before the   *)
(* next one is opened, also after errors and deadlines.                    *)
(***************************************************************************)
OneSessionAtATime == Cardinality(conns) <= 1

(***************************************************************************)
(* "A silent router would otherwise hold the reconcile forever": every     *)
(* call returns, also that of the caller who waits behind a session with a *)
(* router that has fallen silent.                                          *)
(***************************************************************************)
EveryCallReturns == \A c \in Callers : pc[c] = "lock" ~> pc[c] = "done"

(***************************************************************************)
(* The session keeps what its callers rely on.                             *)
(***************************************************************************)
StateOf(c) ==
    CASE pc[c] \in {"idle", "lock", "dial"} -> "none"
      [] pc[c] \in {"read", "send", "exit", "close", "unlock"} -> "open"
      [] OTHER -> IF result[c] = "failed" /\ c \in straggler THEN "doubtful"
                  ELSE result[c]

Promise == INSTANCE CommandSession WITH state <- [c \in Callers |-> StateOf(c)]

KeepsItsPromise == Promise!Spec
=============================================================================
