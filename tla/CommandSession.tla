--------------------------- MODULE CommandSession ---------------------------
(***************************************************************************)
(* What the callers of the SSH client rely on (run in                      *)
(* internal/keenetic/client.go), and how HostRecord and WebApp use it: one *)
(* session at a time; its commands are executed in their order, none of    *)
(* them twice or left out; a session that succeeds has executed them all;  *)
(* one that fails has executed some, and for the command it had just sent  *)
(* nobody knows whether and when.                                          *)
(***************************************************************************)
EXTENDS Naturals, Sequences

CONSTANTS Callers, Script

VARIABLES state,     \* of each caller's session
          executed   \* the commands of it that the router has executed

States == {"none", "open", "ok", "failed", "doubtful"}

Init ==
    /\ state = [c \in Callers |-> "none"]
    /\ executed = [c \in Callers |-> <<>>]

Open(c) ==
    /\ state[c] = "none"
    /\ \A d \in Callers : state[d] # "open"
    /\ state' = [state EXCEPT ![c] = "open"]
    /\ UNCHANGED executed

NextCommand(c) ==
    /\ Len(executed[c]) < Len(Script[c])
    /\ executed' = [executed EXCEPT ![c] = Append(@, Script[c][Len(@) + 1])]

Execute(c) ==
    /\ state[c] = "open"
    /\ NextCommand(c)
    /\ UNCHANGED state

Succeed(c) ==
    /\ state[c] = "open" /\ executed[c] = Script[c]
    /\ state' = [state EXCEPT ![c] = "ok"]
    /\ UNCHANGED executed

Fail(c) ==
    /\ state[c] = "open"
    /\ \E s \in {"failed", "doubtful"} : state' = [state EXCEPT ![c] = s]
    /\ UNCHANGED executed

\* The command that had been sent comes to an end, one way or the other.
Straggle(c) ==
    /\ state[c] = "doubtful"
    /\ state' = [state EXCEPT ![c] = "failed"]
    /\ NextCommand(c) \/ UNCHANGED executed

Next == \E c \in Callers : \/ Open(c) \/ Execute(c)
                           \/ Succeed(c) \/ Fail(c) \/ Straggle(c)

Spec == Init /\ [][Next]_<<state, executed>>
=============================================================================
