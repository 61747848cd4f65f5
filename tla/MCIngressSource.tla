-------------------------- MODULE MCIngressSource --------------------------
(***************************************************************************)
(* Small instances of IngressSource for TLC.  i1, i2 are Ingresses of the  *)
(* namespace ns; zk is the router's own zone and z2 a zone below it; g is  *)
(* a host in zk and h one in z2, with the first labels n2 and n1; a1, a2   *)
(* are addresses of load balancers, u1 the address the publications go to, *)
(* bad one that is refused.                                                *)
(***************************************************************************)
EXTENDS IngressSource

CONSTANTS i1, i2, ns, h, g, n1, n2, zk, z2, a1, a2, u1, bad, byHand

SameNamespace == [k \in Keys |-> ns]
Label == [x \in Hosts |-> IF x = h THEN n1 ELSE n2]
OwnZone == [x \in Hosts |-> zk]
SubZone == [x \in Hosts |-> IF x = h THEN z2 ELSE zk]

Plain == [publish |-> Absent, name |-> Absent, upstream |-> Absent, port |-> Absent,
          scheme |-> Absent, level |-> Absent, auth |-> Absent,
          forceRedirect |-> Absent, redirect |-> Absent, tls |-> {}]

Serve(hosts, a, ann) == [hosts |-> hosts, address |-> a, ann |-> ann]
Empty == Serve({}, Absent, Plain)

\* The host h, to be published as usual, for members only, to an upstream that
\* is refused; with an address of its own and no publication, because of a
\* typo or on purpose; and both hosts.
Usual == Serve({h}, Absent, Plain)
Private == Serve({h}, Absent, [Plain EXCEPT !.level = "private"])
Refused == Serve({h}, Absent, [Plain EXCEPT !.upstream = bad])
Mistyped == Serve({h}, a1, [Plain EXCEPT !.publish = Typo])
Unpublished == Serve({h}, a2, [Plain EXCEPT !.publish = "false"])
Both == Serve({h, g}, Absent, Plain)

\* Two Ingresses that come to share a host: they may agree on it, ask for
\* different addresses or settings, for nothing, or for nothing that can be
\* understood.
Sharing == [k \in Keys |-> IF k = i1 THEN {Usual, Mistyped, Both}
                           ELSE {Usual, Private, Refused, Unpublished, Empty}]

From(first, second) == [k \in Keys |-> IF k = i1 THEN first ELSE second]

Started == {From(Usual, Usual), From(Mistyped, Unpublished),
            From(Mistyped, NoObject), From(Both, NoObject)}

\* An Ingress that names its entry.
Named == [k \in Keys |-> {Serve({h}, a1, [Plain EXCEPT !.name = n2])}]
NamedAtFirst == {[k \in Keys |-> CHOOSE s \in Named[k] : TRUE]}

HandMade == [kind \in Kinds |-> byHand]
=============================================================================
