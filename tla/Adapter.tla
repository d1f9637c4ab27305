-------------------------------- MODULE Adapter -------------------------------
(***************************************************************************)
(* The Windows adapter of crates/wgclient/src/lib.rs: win::open runs one   *)
(* command after the other and remembers how to undo those that need it;   *)
(* Drop runs the undo list backwards.  Every command may fail.  A command  *)
(* is kept to its effect on the system: a route, a name resolution rule, a *)
(* setting of the adapter.                                                 *)
(*                                                                         *)
(* Windows itself is external: of the routes that fit a host the longest   *)
(* prefix wins, then the lower metric; what belongs to the adapter goes    *)
(* away with it, and the adapter goes when nobody holds its session.       *)
(***************************************************************************)
EXTENDS Integers, Sequences, FiniteSets, SequencesExt

CONSTANTS
  Confs,    \* client configurations: tunnel network, resolvers, allowed_ips
  Table,    \* the rows of `route print -4`: [dest, gw, link, metric]
  V6Rows,   \* destinations of the physical links' IPv6 routes
  Server,   \* the address of the server
  Subnets,  \* destinations that can be a LAN: no host route, loopback or multicast
  V4,       \* the IPv4 resolvers of the configurations
  Rank,     \* the prefix length of every destination, as a rank
  Within,   \* the destinations each host is in
  MaxFails  \* model bound: commands of one undo that fail

OnLink == "on-link"
Default4 == "0/0"

VARIABLES
  conf,     \* the configuration
  phase,    \* of the Adapter: "opening", "open", "dropping", "closed"
  at,       \* the next command of open
  undo,     \* Adapter::undo, as the effects it undoes
  dns,      \* Adapter::dns
  inPlace,  \* effects of commands that are in place on the system
  before,   \* those an earlier process had left when open began
  kept      \* those whose undo has failed

adapterVars == <<conf, phase, at, undo, dns, inPlace, before, kept>>

-----------------------------------------------------------------------------

\* The best default route, the first of equals, and the LANs on its link.
\* Without a default route the command that prints the table has failed.
Defaults == {i \in DOMAIN Table : Table[i].dest = Default4 /\ Table[i].gw # OnLink}
Best ==
  Table[CHOOSE i \in Defaults : \A j \in Defaults :
          Table[i].metric < Table[j].metric \/ (Table[i].metric = Table[j].metric /\ i <= j)]
ASSUME HasDefault == Defaults # {}

Lan(r) == r.link = Best.link /\ r.gw = OnLink /\ r.dest \in Subnets

-----------------------------------------------------------------------------

Effect(what, dest, via) == [what |-> what, dest |-> dest, via |-> via]
Setting(what) == Effect(what, "-", "-")
IsRoute(e) == e.what = "route"

\* A command that leaves its effect behind, one that open can undo, and one
\* that has no effect of its own.
Sets(what) == [effect |-> Setting(what), undone |-> FALSE]
Does(what) == [effect |-> Setting(what), undone |-> TRUE]
Adds(dest, via) == [effect |-> Effect("route", dest, via), undone |-> TRUE]
Nothing == {"clear rule", "flush", "print"}

\* The parts of open, in order.  Interfaces first...
Preparation ==
  <<Sets("address"), Sets("mtu"), Does("metric4"), Does("metric6")>>

\* ...the resolvers and the catch-all rule...
Resolution(c) ==
  IF c.dns = <<>> THEN <<>>
  ELSE [i \in DOMAIN c.dns |-> Sets("resolvers")]
       \o (IF \E i \in DOMAIN c.dns : c.dns[i] \in V4
           THEN <<Sets("clear rule"), Does("rule")>> ELSE <<>>)
       \o <<Sets("flush")>>

\* ...the gateway and the server, pinned to the physical link...
Pins == <<Sets("print"), Adds(Best.gw, Best.link), Adds(Server, Best.gw)>>

\* ...the allowed networks, a default route as its two halves and itself...
Parts(net) == IF net = Default4 THEN <<"0/1", "128/1", Default4>> ELSE <<net>>
Full(c) == \E i \in DOMAIN c.allowed : c.allowed[i] = Default4

Into(dests) == [i \in DOMAIN dests |-> Adds(dests[i], "tunnel")]
AllowedRoutes(c) == Into(FlattenSeq([i \in DOMAIN c.allowed |-> Parts(c.allowed[i])]))

\* ...the LANs of the physical link, both halves of IPv6, and the resolvers.
Only(wanted, dest) == IF wanted THEN <<dest>> ELSE <<>>
LanRoutes(c) ==
  IF ~Full(c) THEN <<>>
  ELSE Into(FlattenSeq([i \in DOMAIN Table |->
                          Only(Lan(Table[i]) /\ Table[i].dest # c.net, Table[i].dest)]))
V6Routes(c) ==
  Into(Only("::/1" \notin Range(c.allowed), "::/1") \o Only("8000::/1" \notin Range(c.allowed), "8000::/1"))
ResolverRoutes(c) ==
  Into(FlattenSeq([i \in DOMAIN c.dns |->
                     Only(\A j \in 1..(i - 1) : c.dns[j] # c.dns[i], c.dns[i])]))

\* Mutants of Script: the rule is not remembered for undoing; the LANs are left out.
ScriptForgetsRule(c) ==
  Preparation
  \o [i \in DOMAIN Resolution(c) |-> [Resolution(c)[i] EXCEPT !.undone = FALSE]]
  \o Pins \o AllowedRoutes(c) \o LanRoutes(c) \o V6Routes(c) \o ResolverRoutes(c)
ScriptLeavesLan(c) ==
  Preparation \o Resolution(c) \o Pins \o AllowedRoutes(c) \o V6Routes(c) \o ResolverRoutes(c)

Script(c) ==
  Preparation \o Resolution(c) \o Pins \o AllowedRoutes(c) \o LanRoutes(c) \o V6Routes(c)
  \o ResolverRoutes(c)

-----------------------------------------------------------------------------

\* What a process that died with its tunnel up has left: what is not on the
\* adapter.  Its rule is a stale one.
Leftovers == {Setting("stale rule"), Effect("route", Best.gw, Best.link), Effect("route", Server, Best.gw)}

AdapterInit ==
  /\ conf \in Confs /\ phase = "opening" /\ at = 1
  /\ undo = <<>> /\ dns = FALSE
  /\ inPlace \in {{}, Leftovers} /\ before = inPlace /\ kept = {}

Command == Script(conf)[at]

\* The rule is cleared whoever added it.
Rules == {Setting("rule"), Setting("stale rule")}
Undone(effects, e) == IF e = Setting("rule") THEN effects \ Rules ELSE effects \ {e}

\* The next command succeeds.
CommandWorks ==
  /\ phase = "opening" /\ at <= Len(Script(conf))
  /\ inPlace' = CASE Command.effect.what = "clear rule" -> inPlace \ Rules
                  [] Command.effect.what \in Nothing \ {"clear rule"} -> inPlace
                  [] OTHER -> inPlace \cup {Command.effect}
  /\ undo' = IF Command.undone THEN Append(undo, Command.effect) ELSE undo
  /\ dns' = (dns \/ Command.effect.what = "flush")
  /\ at' = at + 1
  /\ UNCHANGED <<conf, phase, before, kept>>

\* Mutant of CommandFails: the error leaves before there is anything to drop.
CommandFailsBare ==
  /\ phase = "opening" /\ at <= Len(Script(conf))
  /\ phase' = "closed"
  /\ UNCHANGED <<conf, at, undo, dns, inPlace, before, kept>>

\* It fails: open returns, which drops what there is.  Clearing the rule is
\* the one command whose failure is ignored.
CommandFails ==
  /\ phase = "opening" /\ at <= Len(Script(conf))
  /\ IF Command.effect.what = "clear rule" THEN at' = at + 1 /\ UNCHANGED phase
     ELSE phase' = "dropping" /\ UNCHANGED at
  /\ UNCHANGED <<conf, undo, dns, inPlace, before, kept>>

Opened ==
  /\ phase = "opening" /\ at > Len(Script(conf))
  /\ phase' = "open"
  /\ UNCHANGED <<conf, at, undo, dns, inPlace, before, kept>>

\* The owner lets go of the adapter.
Dropped ==
  /\ phase = "open"
  /\ phase' = "dropping"
  /\ UNCHANGED <<conf, at, undo, dns, inPlace, before, kept>>

\* One step of the undo list, or its failure, which is only logged.
Undoing(e, rest) ==
  /\ undo' = rest
  /\ \/ inPlace' = Undone(inPlace, e) /\ UNCHANGED kept
     \/ Cardinality(kept) < MaxFails /\ kept' = kept \cup {e} /\ UNCHANGED inPlace
  /\ UNCHANGED <<conf, phase, at, dns, before>>

\* Mutant of UndoLast: the list is run forwards.
UndoFirst ==
  /\ phase = "dropping" /\ undo # <<>>
  /\ Undoing(Head(undo), Tail(undo))

UndoLast ==
  /\ phase = "dropping" /\ undo # <<>>
  /\ Undoing(Last(undo), Front(undo))

\* The resolvers go back to dhcp, if `dns` says so.
ResetDns ==
  /\ phase = "dropping" /\ undo = <<>> /\ dns
  /\ dns' = FALSE
  /\ \/ inPlace' = inPlace \ {Setting("resolvers")} /\ UNCHANGED kept
     \/ /\ Cardinality(kept) < MaxFails
        /\ kept' = kept \cup {Setting("resolvers")} /\ UNCHANGED inPlace
  /\ UNCHANGED <<conf, phase, at, undo, before>>

\* The last act: the session is shut down, which unblocks a reader.
ShutDown ==
  /\ phase = "dropping" /\ undo = <<>> /\ ~dns
  /\ phase' = "closed"
  /\ UNCHANGED <<conf, at, undo, dns, inPlace, before, kept>>

\* What goes away with the adapter itself; the rule and the pins do not.
OnAdapter(e) == IF IsRoute(e) THEN e.via = "tunnel" ELSE e \notin Rules

\* The adapter goes away: nobody holds it any more.
Released ==
  /\ inPlace' = {e \in inPlace : ~OnAdapter(e)}
  /\ UNCHANGED <<conf, phase, at, undo, dns, before, kept>>

Opening == CommandWorks \/ CommandFails \/ Opened
Dropping == UndoLast \/ ResetDns \/ ShutDown

-----------------------------------------------------------------------------

\* Where a packet for host h goes.  An address brings its own network along.
Physical == {Table[i].dest : i \in DOMAIN Table} \cup V6Rows
Chosen(h) ==
  LET added == {e \in inPlace : IsRoute(e)}
      own == IF Setting("address") \in inPlace THEN {conf.net} ELSE {}
      inside == own \cup {e.dest : e \in {a \in added : a.via = "tunnel"}}
      outside == Physical \cup {e.dest : e \in {a \in added : a.via # "tunnel"}}
      fit == (inside \cup outside) \cap Within[h]
      best == {d \in fit : \A x \in fit : Rank[x] <= Rank[d]}
  IN  IF best = {} THEN "none"
      ELSE CASE best \cap inside = {} -> "link"
             [] best \cap outside = {} -> "tunnel"
             [] OTHER -> IF Setting("metric4") \in inPlace THEN "tunnel" ELSE "link"

-----------------------------------------------------------------------------

\* What is supposed of the computer and of the configurations.  Rows are those
\* of the physical links...
Rows == [dest : STRING, gw : STRING, link : STRING, metric : Nat]
ASSUME TableAssumption ==
  /\ Table \in Seq(Rows)
  /\ \A i \in DOMAIN Table : "tunnel" \notin {Table[i].gw, Table[i].link}
  /\ Server \in STRING

ASSUME ConfAssumption ==
  Confs \subseteq [net : STRING, dns : Seq(STRING), allowed : Seq(STRING)]

\* ...every host is in one half of its family, which is longer than the whole...
Halves == {"0/1", "128/1", "::/1", "8000::/1"}
Wholes == {Default4, "::/0"}
ASSUME PrefixAssumption ==
  /\ \A d \in DOMAIN Rank : Rank[d] \in 0..128
  /\ \A h \in DOMAIN Within : Within[h] \subseteq DOMAIN Rank /\ Within[h] \cap Halves # {}
  /\ Halves \cup Wholes \subseteq DOMAIN Rank
  /\ \A half \in Halves, whole \in Wholes : Rank[whole] < Rank[half]

\* ...and a destination that is a host has nothing longer, and no other host in
\* it.  The server is not a resolver, nor an allowed network of its own, nor an
\* address inside the tunnel network.
Pinned == {Best.gw, Server}
Host(h) == h \in DOMAIN Within /\ h \in Within[h] /\ \A d \in Within[h] \ {h} : Rank[d] < Rank[h]
ASSUME HostAssumption ==
  /\ Host(Server) /\ Server \notin Subnets \cup Halves \cup Wholes
  /\ \A h \in DOMAIN Within \ Pinned : Within[h] \cap Pinned = {}
  /\ \A c \in Confs :
       /\ \A r \in Range(c.dns) : Host(r)
       /\ Server \notin Range(c.dns) \cup Range(c.allowed) /\ c.net \notin Within[Server]

-----------------------------------------------------------------------------

\* "Pin the server to the real default gateway first, so the tunnel routes
\* below cannot swallow it" (lib.rs:397): while commands run, while the tunnel
\* is up and while it is undone, backwards, datagrams for the server never go
\* into the tunnel.
ServerStaysOutside == kept = {} => Chosen(Server) # "tunnel"

\* "Dropping it restores the system" (lib.rs:348), and so does a failure at any
\* command of open: every effect goes but those whose own undo has failed.
\* Only resolvers set before a later command of their block failed stay, and
\* two settings of the adapter; these go away with it.
Resolving == at <= Len(Preparation) + Len(Resolution(conf))
DropRestores ==
  phase = "closed" =>
    inPlace \subseteq before \cup kept \cup {Setting("address"), Setting("mtu")}
                      \cup (IF Resolving THEN {Setting("resolvers")} ELSE {})

\* "Drops every NRPT rule we own, both the stale ones a crashed run left behind
\* and our own on the way out" (lib.rs:317): no rule outlives an adapter that
\* has added its own, whatever an earlier one left.
NoRuleLeft ==
  /\ phase = "closed" /\ kept = {}
  /\ \E i \in 1..(at - 1) : Script(conf)[i].effect = Setting("rule")
  => inPlace \cap Rules = {}

\* With the tunnel up every resolver is inside it, and a full tunnel takes every
\* host but the gateway, the server and what the code leaves alone: open takes
\* back the LANs of the link of the best default route (lib.rs:431) and covers
\* the rest with halves, so any other row of the table that is more specific,
\* an on-link subnet of another link, a route through another gateway, a host
\* route or an IPv6 prefix of a link, still wins.
Lans == {Table[i].dest : i \in {k \in DOMAIN Table : Lan(Table[k])}}
TakenBack == Lans \cup Halves
Elsewhere(h) ==
  \E d \in Within[h] \cap (Physical \ TakenBack) :
    \A t \in Within[h] \cap TakenBack : Rank[t] < Rank[d]
TunnelHolds ==
  phase = "open" =>
    /\ \A i \in DOMAIN conf.dns : Chosen(conf.dns[i]) = "tunnel"
    /\ Full(conf) =>
         \A h \in DOMAIN Within \ Pinned : ~Elsewhere(h) => Chosen(h) = "tunnel"

\* "Routing is the killswitch [...] Nothing else can leave", "only the default
\* gateway and the relay stay reachable outside it", "IPv6 is blocked"
\* (README.md:144, 145, 147): a full tunnel takes every other host.
NothingElseLeaves ==
  phase = "open" /\ Full(conf) => \A h \in DOMAIN Within \ Pinned : Chosen(h) = "tunnel"

=============================================================================
