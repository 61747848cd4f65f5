------------------------------ MODULE MCWebApp ------------------------------
(***************************************************************************)
(* Small instances of WebApp for TLC.  The objects r1, r2 live in two      *)
(* namespaces; n1, n2 are entry names; d1 and d2 are hosts with the same   *)
(* first label in the zones z1 and z2; zk is the router's own zone and dk  *)
(* a host in it; u1 and bad are upstreams, bad one validateProxy refuses.  *)
(***************************************************************************)
EXTENDS WebApp

CONSTANTS r1, r2, n1, n2, d1, d2, dk, z1, z2, zk, u1, bad, f1

Zone == [d \in Domains |-> CASE d = d1 -> z1 [] d = d2 -> z2 [] d = dk -> zk]

Web(n, d) == [name |-> n, domain |-> d, ndns |-> FALSE, upstream |-> u1,
              level |-> Unset, auth |-> FALSE]
WithAuth(s) == [s EXCEPT !.auth = TRUE]

\* The two objects can share an entry, collide on it, or keep apart.
SharedNames == [r \in Keys |-> IF r = r1 THEN {Web(n1, d1)}
                               ELSE {Web(n1, d1), Web(n1, d2), Web(n2, d2)}]

\* A collision that one of the objects can resolve, while the other may be
\* edited to an upstream that is refused.
Collision == [r \in Keys |-> IF r = r1 THEN {Web(n1, d1), [Web(n1, d1) EXCEPT !.upstream = bad]}
                             ELSE {Web(n1, d2), Web(n2, d2)}]

\* One object that keeps its name and is edited otherwise, also into a static
\* entry of the router's own zone.
OneName == [r \in Keys |-> {Web(n1, dk), WithAuth([Web(n1, dk) EXCEPT !.ndns = TRUE])}]

\* One object that is renamed.
Renames == [r \in Keys |-> {Web(n1, d1), Web(n2, d1)}]

\* One object whose authentication is switched.
AuthSwitch == [r \in Keys |-> {Web(n1, d1), WithAuth(Web(n1, d1))}]
=============================================================================
