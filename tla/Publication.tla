---------------------------- MODULE Publication ----------------------------
(***************************************************************************)
(* What the Ingress controller derives from one Ingress and one of its     *)
(* hosts: whether the host is published, with which settings, and whether  *)
(* the router has to go upstream by https                                  *)
(* (internal/controller/ingress_controller.go, from publishes on).         *)
(*                                                                         *)
(* An annotation is Absent, Typo if its parser refuses it, or its value.   *)
(***************************************************************************)
EXTENDS Naturals

CONSTANTS Hosts, Names,
          LabelOf,      \* the first label of a host
          ZoneOf,       \* and the rest of it
          KeenDNSZone,  \* KEENDNS_ZONE, Absent if it is not set
          BadNames,     \* names proxyNamePattern refuses
          BadUpstreams, \* upstreams that are not IPv4 addresses
          BadZones,     \* zones hostnamePattern refuses, as of a one-label host
          DefaultUpstream, DefaultPort, DefaultScheme, DefaultLevel,
          PublishByDefault,
          Absent, Typo, NoSpec

ASSUME LabelsAssumption == LabelOf \in [Hosts -> Names]
ASSUME HostsAssumption == DOMAIN ZoneOf = Hosts
ASSUME AnnotationsAssumption == /\ Absent # Typo
                                /\ {Absent, Typo} \intersect {"true", "false"} = {}

Schemes == {"http", "https"}
Levels == {"public", "private"}
Ports == 1..65535

Given(annotation, default) == IF annotation = Absent THEN default ELSE annotation

\* Mutant: a value that cannot be parsed counts as absent.
Publishes_TypoIsDefault(ann) ==
    IF ann.publish \in {Absent, Typo} THEN PublishByDefault ELSE ann.publish = "true"

Publishes(ann) ==
    IF ann.publish = Absent THEN PublishByDefault ELSE ann.publish = "true"

\* Mutant: any host below the zone, not just those one label below it.
InKeenDNSZone_Suffix(host) == KeenDNSZone # Absent /\ ZoneOf[host] # Absent

InKeenDNSZone(host) == KeenDNSZone # Absent /\ ZoneOf[host] = KeenDNSZone

(***************************************************************************)
(* ingressRequiresTLS: an annotation of ingress-nginx decides, the forcing *)
(* one before the other; else a tls section that covers the host.          *)
(***************************************************************************)
RequiresTLS(ann, host) ==
    IF ann.forceRedirect \in {"true", "false"} THEN ann.forceRedirect = "true"
    ELSE IF ann.redirect \in {"true", "false"} THEN ann.redirect = "true"
    ELSE host \in ann.tls

(***************************************************************************)
(* The router must not follow a redirection to https back to itself: it    *)
(* goes upstream by https where the host needs it, unless told otherwise.  *)
(***************************************************************************)
Redirected(ann, tlsRequired) == ann.scheme = Absent /\ tlsRequired

UpstreamPort(ann, tlsRequired) ==
    Given(ann.port, IF Redirected(ann, tlsRequired) THEN 443
                    ELSE IF DefaultPort = 0 THEN 80 ELSE DefaultPort)

UpstreamScheme(ann, tlsRequired) ==
    IF Redirected(ann, tlsRequired) THEN "https"
    ELSE Given(ann.scheme, Given(DefaultScheme, "http"))

(***************************************************************************)
(* webAppSpec: the publication of one host, or NoSpec if there is nothing  *)
(* that could be published, or a setting the rest of the operator would    *)
(* refuse.                                                                 *)
(***************************************************************************)
WebAppSpec(ann, host, tlsRequired) ==
    LET spec == [name |-> Given(ann.name, LabelOf[host]),
                 domain |-> host,
                 ndns |-> InKeenDNSZone(host),
                 address |-> Given(ann.upstream, DefaultUpstream),
                 port |-> UpstreamPort(ann, tlsRequired),
                 scheme |-> UpstreamScheme(ann, tlsRequired),
                 level |-> Given(ann.level, Given(DefaultLevel, "public")),
                 auth |-> ann.auth = "true"]
    IN IF /\ spec.name \notin BadNames
          /\ spec.address \notin BadUpstreams \union {Absent}
          /\ spec.port \in Ports
          /\ spec.scheme \in Schemes /\ spec.level \in Levels
          /\ ann.auth # Typo
       THEN spec ELSE NoSpec

(***************************************************************************)
(* What the publication's own controller does with the spec.               *)
(***************************************************************************)
\* validateProxy, and the refusal to write the router's own zone as static.
ValidProxy(spec) ==
    /\ spec.name \notin BadNames /\ spec.address \notin BadUpstreams \union {Absent}
    /\ spec.ndns \/ ZoneOf[spec.domain] \notin BadZones \union {KeenDNSZone}
    /\ spec.port \in Ports /\ spec.scheme \in Schemes /\ spec.level \in Levels

\* The router builds the name it serves from the entry's name and its domain:
\* `domain ndns` is the router's own zone, `domain static` the zone given.
ServedName(spec) ==
    <<spec.name, IF spec.ndns THEN KeenDNSZone ELSE ZoneOf[spec.domain]>>
=============================================================================
