------------------------------ MODULE Custody ------------------------------
(***************************************************************************)
(* What a finalizer promises, whichever controller keeps it: something of  *)
(* an object is on the router, in the running or in the stored             *)
(* configuration, only while the API server has the object with the        *)
(* finalizer on it; and the object goes only when nothing of it is left.   *)
(* HostRecord and WebApp implement it.                                     *)
(***************************************************************************)
CONSTANT Owners

VARIABLES life,  \* of each object, as the API server has it
          held   \* whether the router holds something of it

vars == <<life, held>>

Lives == {"absent", "new", "guarded", "deleting"}

Init ==
    /\ life = [o \in Owners |-> "absent"]
    /\ held = [o \in Owners |-> FALSE]

Become(o, from, to) ==
    /\ life[o] = from
    /\ life' = [life EXCEPT ![o] = to]
    /\ UNCHANGED held

Create(o) == Become(o, "absent", "new")
Guard(o) == Become(o, "new", "guarded")
Delete(o) == Become(o, "new", "absent") \/ Become(o, "guarded", "deleting")
Vanish(o) == ~held[o] /\ Become(o, "deleting", "absent")

\* A deleted object may still be written once more, from an older copy of it.
Acquire(o) ==
    /\ life[o] \in {"guarded", "deleting"}
    /\ held' = [held EXCEPT ![o] = TRUE]
    /\ UNCHANGED life

\* By its controller, or because the router has lost something: several
\* objects may lose what they have there in one reboot.
Lose ==
    /\ \E O \in SUBSET Owners : held' = [o \in Owners |-> held[o] /\ o \notin O]
    /\ UNCHANGED life

Next == \/ \E o \in Owners : Create(o) \/ Guard(o) \/ Delete(o) \/ Vanish(o) \/ Acquire(o)
        \/ Lose

Spec == Init /\ [][Next]_vars
=============================================================================
