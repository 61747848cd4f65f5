---------------------------- MODULE ProxyConfig ----------------------------
(***************************************************************************)
(* One `ip http proxy` entry of the router and the part of                 *)
(* internal/keenetic/proxy.go that reads and writes it: what a listing     *)
(* tells, when an entry is good enough to be left alone, and the commands  *)
(* that bring it to the desired form.                                      *)
(***************************************************************************)
EXTENDS Naturals, SequencesExt

CONSTANTS Zones, Upstreams, Flags,
          NDNS,     \* `domain ndns`, as opposed to a static zone
          Unset,    \* a setting the entry does not have, or does not show
          NoEntry,  \* the router has no entry of that name
          Prints    \* settings whose lines the parser gets to see

Levels == {"public", "private"}

ASSUME PrintsAssumption ==
    Prints \subseteq {"domain", "upstream", "flags", "level", "auth", "no auth"}

Proxy == [domain : Zones \union {NDNS}, upstream : Upstreams, level : Levels,
          flags : SUBSET Flags, auth : BOOLEAN]

\* An entry may lack settings: the commands arrive one at a time.
RouterEntry == [domain : Zones \union {NDNS, Unset}, upstream : Upstreams \union {Unset},
                level : Levels \union {Unset}, flags : SUBSET Flags, auth : BOOLEAN]

ASSUME FlagsAssumption == IsFiniteSet(Flags)
ASSUME UnsetAssumption == Unset \notin Zones \union {NDNS} \union Upstreams
ASSUME NoEntryAssumption == NoEntry \notin RouterEntry

Blank == [domain |-> Unset, upstream |-> Unset, level |-> Unset, flags |-> {},
          auth |-> FALSE]

(***************************************************************************)
(* `show running-config` and parseProxies: a setting comes out unset where *)
(* the firmware does not print it, and where its line comes after one that *)
(* the parser does not know, which ends the block for it.                  *)
(***************************************************************************)
Listed(e) ==
    [domain |-> IF "domain" \in Prints THEN e.domain ELSE Unset,
     upstream |-> IF "upstream" \in Prints THEN e.upstream ELSE Unset,
     flags |-> IF "flags" \in Prints THEN e.flags ELSE {},
     level |-> IF "level" \in Prints THEN e.level ELSE Unset,
     auth |-> e.auth /\ "auth" \in Prints,
     authSet |-> (IF e.auth THEN "auth" ELSE "no auth") \in Prints]

DomainSatisfied(cur, want) == cur.domain = want.domain

\* Mutant: a setting that is not printed counts as a difference.
ProxySatisfied_Strict(cur, want) ==
    /\ DomainSatisfied(cur, want)
    /\ cur.upstream = want.upstream
    /\ cur.level = want.level
    /\ cur.authSet => cur.auth = want.auth
    /\ want.flags \subseteq cur.flags

ProxySatisfied(cur, want) ==
    /\ DomainSatisfied(cur, want)
    /\ cur.upstream = want.upstream
    /\ cur.level \in {Unset, want.level}
    /\ cur.authSet => cur.auth = want.auth
    /\ want.flags \subseteq cur.flags

(***************************************************************************)
(* The commands of a rewrite, in the order of proxyCommands.  Flags and    *)
(* `auth` are only ever switched on.                                       *)
(***************************************************************************)
ProxyCommands(p) ==
    << <<"proxy", TRUE>>, <<"domain", p.domain>>, <<"upstream", p.upstream>>,
       <<"level", p.level>> >>
    \o [i \in DOMAIN SetToSeq(p.flags) |-> <<"flag", SetToSeq(p.flags)[i]>>]
    \o (IF p.auth THEN << <<"auth", TRUE>> >> ELSE <<>>)

\* What a command does to the entry; all but the first run in its context.
Execute(e, cmd) ==
    CASE cmd[1] = "proxy" -> IF e = NoEntry THEN Blank ELSE e
      [] cmd[1] = "flag" -> [e EXCEPT !.flags = @ \union {cmd[2]}]
      [] OTHER -> [e EXCEPT ![cmd[1]] = cmd[2]]
=============================================================================
