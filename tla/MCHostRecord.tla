---------------------------- MODULE MCHostRecord ----------------------------
(***************************************************************************)
(* Small instances of HostRecord for TLC.  The objects r1, r2 live in two  *)
(* namespaces; h1, h2, h3 are names the operator publishes, h3 is also one *)
(* that the administrator keeps by hand; a1, a2 are addresses, bad one     *)
(* that validateHostIP refuses.                                            *)
(***************************************************************************)
EXTENDS HostRecord

CONSTANTS r1, r2, h1, h2, h3, a1, a2, bad

\* One object whose address is edited, and one whose name is.
EditedSpecs == [r \in Keys |-> IF r = r1 THEN {<<h1, a1>>, <<h1, a2>>}
                                         ELSE {<<h2, a1>>, <<h3, a1>>}]

\* One object whose address is edited to an invalid one.
BadSpecs == [r \in Keys |-> IF r = r1 THEN {<<h1, a1>>, <<h1, bad>>}
                                      ELSE {<<h2, a1>>}]

\* The same name in two namespaces, with two addresses.
RivalSpecs == [r \in Keys |-> IF r = r1 THEN {<<h1, a1>>} ELSE {<<h1, a2>>}]

\* What the administrator adds to the router by hand.
ByHand == {<<h3, a1>>}
NothingByHand == {}
=============================================================================
