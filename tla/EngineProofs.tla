------------------------------ MODULE EngineProofs ------------------------------
(***************************************************************************)
(* The adapter restores what it changed, the tunnel holds what it should   *)
(* and never the server, and the engine pumps while it is up: for any      *)
(* configurations, routing table, hosts and packets.                       *)
(*                                                                         *)
(* First what open does, as a sequence of commands: which routes its parts *)
(* add, and in which order.  FlattenSeq is a recursive function, so this   *)
(* needs induction, stated on subsets of Nat.  Then the invariant of the   *)
(* adapter, AInv, kept by every command, undo and failure; what it says of *)
(* where packets go; and EInv, the invariant of the threads and tasks.     *)
(***************************************************************************)
EXTENDS Engine, WellFoundedInduction, TLAPS

\* Less-than on Nat is well founded...
LEMMA RelLess == ASSUME NEW R, R = OpToRel(<, Nat) PROVE \A m, n \in Nat : m < n => <<m, n>> \in R
BY DEF OpToRel

\* ...by a relation the prover need not look into...
LEMMA LessRel == \E R : IsWellFoundedOn(R, Nat) /\ \A m, n \in Nat : m < n => <<m, n>> \in R
BY NatLessThanWellFounded, RelLess

\* ...so there is a least number in every set...
LEMMA NatMin == ASSUME NEW T, T \subseteq Nat, T # {} PROVE \E n \in T : \A m \in T : n <= m
<1>1. PICK R : IsWellFoundedOn(R, Nat) /\ \A m, n \in Nat : m < n => <<m, n>> \in R
  BY LessRel
<1>2. PICK n \in T : \A m \in T : ~(<<m, n>> \in R)
  <2>1. IsWellFoundedOn(R, Nat)
    BY <1>1
  <2> QED BY <2>1, WFMin, Zenon
<1>3. \A m \in T : ~(m < n)
  BY <1>1, <1>2
<1> QED BY <1>2, <1>3

\* ...and a set that has 0 and is closed under successor has all.
LEMMA Induction ==
  ASSUME NEW T, 0 \in T, \A n \in Nat : n \in T => n + 1 \in T
  PROVE  Nat \subseteq T
<1> SUFFICES ASSUME Nat \ T # {} PROVE FALSE
  OBVIOUS
<1>1. PICK n \in Nat \ T : \A m \in Nat \ T : n <= m
  BY NatMin
<1>2. n - 1 \in Nat /\ n - 1 \in T
  BY <1>1
<1> QED BY <1>1, <1>2

-----------------------------------------------------------------------------

\* The elements of a concatenation.
LEMMA ConcatFacts ==
  ASSUME NEW S, NEW s \in Seq(S), NEW t \in Seq(S)
  PROVE  /\ s \o t \in Seq(S) /\ Len(s \o t) = Len(s) + Len(t)
         /\ Range(s \o t) = Range(s) \cup Range(t)
         /\ \A i \in 1..Len(s) : (s \o t)[i] = s[i]
         /\ \A i \in 1..Len(t) : (s \o t)[Len(s) + i] = t[i]
<1> DEFINE r == s \o t
<1>1. r \in Seq(S) /\ Len(r) = Len(s) + Len(t) /\ Len(s) \in Nat /\ Len(t) \in Nat
  OBVIOUS
<1>2. \A i \in 1..Len(s) : r[i] = s[i]
  OBVIOUS
<1>3. \A i \in 1..Len(t) : r[Len(s) + i] = t[i]
  OBVIOUS
<1>4. DOMAIN s = 1..Len(s) /\ DOMAIN t = 1..Len(t) /\ DOMAIN r = 1..(Len(s) + Len(t))
  BY <1>1
<1> HIDE DEF r
<1>5. ASSUME NEW x \in Range(r) PROVE x \in Range(s) \cup Range(t)
  <2>1. PICK i \in 1..(Len(s) + Len(t)) : x = r[i]
    BY <1>4 DEF Range
  <2>2. CASE i <= Len(s)
    <3>1. i \in 1..Len(s)
      BY <1>1, <2>1, <2>2
    <3> QED BY <1>2, <1>4, <2>1, <3>1 DEF Range
  <2>3. CASE ~(i <= Len(s))
    <3>1. i - Len(s) \in 1..Len(t) /\ Len(s) + (i - Len(s)) = i
      BY <1>1, <2>1, <2>3
    <3>2. r[i] = t[i - Len(s)]
      BY <1>3, <3>1
    <3> QED BY <1>4, <2>1, <3>1, <3>2 DEF Range
  <2> QED BY <2>2, <2>3
<1>6. Range(s) \subseteq Range(r)
  BY <1>1, <1>2, <1>4 DEF Range
<1>7. Range(t) \subseteq Range(r)
  <2>1. \A i \in 1..Len(t) : Len(s) + i \in DOMAIN r
    BY <1>1, <1>4
  <2> QED BY <1>3, <1>4, <2>1 DEF Range
<1> QED BY <1>1, <1>2, <1>3, <1>5, <1>6, <1>7 DEF r

\* What FlattenSeq is defined by.
Flattening(q, f, n) == f = [i \in 1..n |-> IF i = 1 THEN q[i] ELSE f[i - 1] \o q[i]]

\* There is such a function...
LEMMA FlatteningExists ==
  ASSUME NEW q
  PROVE  \A n \in Nat : \E f : Flattening(q, f, n)
<1> DEFINE T == {n \in Nat : \E f : Flattening(q, f, n)}
<1>1. 0 \in T
  <2>1. Flattening(q, <<>>, 0)
    BY DEF Flattening
  <2> QED BY <2>1
<1>2. ASSUME NEW n \in Nat, n \in T PROVE n + 1 \in T
  <2>1. PICK f : Flattening(q, f, n)
    BY <1>2
  <2> DEFINE last == IF n + 1 = 1 THEN q[n + 1] ELSE f[n] \o q[n + 1]
             g == [i \in 1..(n + 1) |-> IF i = n + 1 THEN last ELSE f[i]]
  <2>2. \A i \in 1..n : f[i] = IF i = 1 THEN q[i] ELSE f[i - 1] \o q[i]
    BY <2>1 DEF Flattening
  <2> HIDE DEF last
  <2>3. g[n + 1] = last /\ \A i \in 1..n : g[i] = f[i]
    <3>1. n + 1 \in 1..(n + 1)
      OBVIOUS
    <3>2. \A i \in 1..n : i \in 1..(n + 1) /\ i # n + 1
      OBVIOUS
    <3> QED BY <3>1, <3>2
  <2> HIDE DEF g
  <2>4. ASSUME NEW i \in 1..(n + 1) PROVE g[i] = IF i = 1 THEN q[i] ELSE g[i - 1] \o q[i]
    <3>1. CASE i = n + 1 /\ i = 1
      BY <2>3, <3>1 DEF last
    <3>2. CASE i = n + 1 /\ i # 1
      <4>1. i - 1 = n /\ n \in 1..n
        BY <3>2
      <4> QED BY <2>3, <3>2, <4>1 DEF last
    <3>3. CASE i # n + 1 /\ i = 1
      <4>1. i \in 1..n
        BY <3>3
      <4> QED BY <2>2, <2>3, <3>3, <4>1
    <3>4. CASE i # n + 1 /\ i # 1
      <4>1. i \in 1..n /\ i - 1 \in 1..n
        BY <3>4
      <4> QED BY <2>2, <2>3, <3>4, <4>1
    <3> QED BY <3>1, <3>2, <3>3, <3>4
  <2>5. DOMAIN g = 1..(n + 1) /\ g = [i \in 1..(n + 1) |-> g[i]]
    BY DEF g
  <2>6. g = [i \in 1..(n + 1) |-> IF i = 1 THEN q[i] ELSE g[i - 1] \o q[i]]
    BY <2>4, <2>5
  <2>7. Flattening(q, g, n + 1)
    BY <2>6 DEF Flattening
  <2> QED BY <2>7
<1> HIDE DEF T
<1>3. Nat \subseteq T
  BY <1>1, <1>2, Induction
<1> QED BY <1>3 DEF T

\* ...so FlattenSeq is the last value of one.
LEMMA FlattenIs ==
  ASSUME NEW q, Len(q) \in Nat, Len(q) # 0
  PROVE  \E f : Flattening(q, f, Len(q)) /\ FlattenSeq(q) = f[Len(q)]
<1> DEFINE f == CHOOSE f : f = [i \in 1..Len(q) |-> IF i = 1 THEN q[i] ELSE f[i - 1] \o q[i]]
<1>1. \E g : g = [i \in 1..Len(q) |-> IF i = 1 THEN q[i] ELSE g[i - 1] \o q[i]]
  BY FlatteningExists DEF Flattening
<1>2. f = [i \in 1..Len(q) |-> IF i = 1 THEN q[i] ELSE f[i - 1] \o q[i]]
  BY <1>1
<1>3. FlattenSeq(q) = f[Len(q)]
  BY DEF FlattenSeq
<1> QED BY <1>2, <1>3 DEF Flattening

\* It has the elements of its parts, and no others.
LEMMA FlattenFacts ==
  ASSUME NEW S, NEW q \in Seq(Seq(S))
  PROVE  /\ FlattenSeq(q) \in Seq(S)
         /\ Range(FlattenSeq(q)) = UNION {Range(q[i]) : i \in DOMAIN q}
<1>1. Len(q) \in Nat /\ DOMAIN q = 1..Len(q) /\ \A i \in 1..Len(q) : q[i] \in Seq(S)
  OBVIOUS
<1>2. CASE Len(q) = 0
  <2>1. q = <<>> /\ FlattenSeq(q) = q
    BY <1>2 DEF FlattenSeq
  <2>2. <<>> \in Seq(S) /\ DOMAIN <<>> = {}
    OBVIOUS
  <2>3. Range(<<>>) = {}
    BY <2>2 DEF Range
  <2> QED BY <2>1, <2>2, <2>3
<1>3. CASE Len(q) # 0
  <2>1. PICK f : Flattening(q, f, Len(q)) /\ FlattenSeq(q) = f[Len(q)]
    BY <1>1, <1>3, FlattenIs
  <2>2. \A i \in 1..Len(q) : f[i] = IF i = 1 THEN q[i] ELSE f[i - 1] \o q[i]
    BY <2>1 DEF Flattening
  <2> DEFINE Parted(n) == f[n] \in Seq(S) /\ Range(f[n]) = UNION {Range(q[i]) : i \in 1..n}
             T == {n \in Nat : n \in 1..Len(q) => Parted(n)}
  <2>3. 0 \in T
    OBVIOUS
  <2>4. ASSUME NEW n \in Nat, n \in T PROVE n + 1 \in T
    <3> SUFFICES ASSUME n + 1 \in 1..Len(q) PROVE Parted(n + 1)
      OBVIOUS
    <3>1. CASE n = 0
      <4>1. f[n + 1] = q[n + 1] /\ 1..(n + 1) = {n + 1}
        BY <2>2, <3>1
      <4> QED BY <1>1, <4>1
    <3>2. CASE n # 0
      <4>1. n \in 1..Len(q) /\ (n + 1) - 1 = n /\ n + 1 # 1
        BY <3>2
      <4>2. f[n + 1] = f[n] \o q[n + 1]
        BY <2>2, <4>1
      <4>3. Parted(n)
        BY <2>4, <4>1
      <4>4. f[n + 1] \in Seq(S) /\ Range(f[n + 1]) = Range(f[n]) \cup Range(q[n + 1])
        BY <1>1, <4>2, <4>3, ConcatFacts
      <4>5. 1..(n + 1) = (1..n) \cup {n + 1}
        OBVIOUS
      <4>6. UNION {Range(q[i]) : i \in 1..(n + 1)} = (UNION {Range(q[i]) : i \in 1..n}) \cup Range(q[n + 1])
        BY <4>5
      <4> QED BY <4>3, <4>4, <4>6
    <3> QED BY <3>1, <3>2
  <2> HIDE DEF T
  <2>5. Nat \subseteq T
    BY <2>3, <2>4, Induction
  <2>6. Parted(Len(q))
    <3>1. Len(q) \in T /\ Len(q) \in 1..Len(q)
      BY <1>1, <1>3, <2>5
    <3> HIDE DEF Parted
    <3> QED BY <3>1 DEF T
  <2> QED BY <1>1, <2>1, <2>6
<1> QED BY <1>2, <1>3

-----------------------------------------------------------------------------
(* The commands of open.                                                   *)

\* All the destinations of a configuration, and all commands for it.
Dests(c) == Halves \cup Wholes \cup Range(c.allowed) \cup Range(c.dns) \cup {Table[i].dest : i \in DOMAIN Table}
IntoTunnel(D) == {Adds(d, "tunnel") : d \in D}
Interface == {Sets("address"), Sets("mtu"), Does("metric4"), Does("metric6")}
Naming == {Sets("resolvers"), Sets("clear rule"), Does("rule"), Sets("flush")}
Pinning == {Sets("print"), Adds(Best.gw, Best.link), Adds(Server, Best.gw)}
Commands(c) == Interface \cup Naming \cup Pinning \cup IntoTunnel(Dests(c))

\* The best default route is a row, of a physical link.
LEMMA BestIsRow ==
  /\ Best.gw # "tunnel" /\ Best.link # "tunnel"
<1> DEFINE Wins(i) == \A j \in Defaults :
             Table[i].metric < Table[j].metric \/ (Table[i].metric = Table[j].metric /\ i <= j)
<1>1. \A i \in Defaults : i \in DOMAIN Table /\ i \in Nat /\ Table[i] \in Rows /\ Table[i].metric \in Nat
  <2>1. \A i \in DOMAIN Table : i \in Nat /\ Table[i] \in Rows
    BY TableAssumption
  <2>2. \A r \in Rows : r.metric \in Nat
    BY DEF Rows
  <2> QED BY <2>1, <2>2 DEF Defaults
<1>2. \E i \in Defaults : Wins(i)
  <2> DEFINE metrics == {Table[i].metric : i \in Defaults}
  <2>1. PICK m \in metrics : \A n \in metrics : m <= n
    <3>1. metrics \subseteq Nat /\ metrics # {}
      BY <1>1, HasDefault
    <3> HIDE DEF metrics
    <3> QED BY <3>1, NatMin
  <2> DEFINE firsts == {i \in Defaults : Table[i].metric = m}
  <2>2. PICK i \in firsts : \A j \in firsts : i <= j
    <3>1. firsts \subseteq Nat /\ firsts # {}
      BY <1>1
    <3> HIDE DEF firsts
    <3> QED BY <3>1, NatMin
  <2>3. ASSUME NEW j \in Defaults
        PROVE  Table[i].metric < Table[j].metric \/ (Table[i].metric = Table[j].metric /\ i <= j)
    <3>1. Table[i].metric = m /\ m <= Table[j].metric
      BY <2>1, <2>2
    <3> QED BY <1>1, <2>2, <3>1
  <2> QED BY <2>2, <2>3
<1>3. \E i \in Defaults : Best = Table[i]
  BY <1>2 DEF Best
<1> QED BY <1>1, <1>3, TableAssumption

\* A configuration is a record of what it has.
LEMMA ConfIs ==
  ASSUME NEW c \in Confs
  PROVE  c.dns \in Seq(STRING) /\ c.allowed \in Seq(STRING)
BY ConfAssumption

\* The effects of the commands that change a setting...
LEMMA SettingIs ==
  ASSUME NEW w
  PROVE  /\ Setting(w).what = w /\ Setting(w).via = "-"
         /\ Sets(w).effect = Setting(w) /\ Sets(w).undone = FALSE
         /\ Does(w).effect = Setting(w) /\ Does(w).undone = TRUE
BY DEF Setting, Effect, Sets, Does

\* ...and of those that add routes.
LEMMA RouteIs ==
  ASSUME NEW d, NEW v
  PROVE  /\ Effect("route", d, v).what = "route"
         /\ Effect("route", d, v).dest = d /\ Effect("route", d, v).via = v
         /\ Adds(d, v).effect = Effect("route", d, v) /\ Adds(d, v).undone = TRUE
BY DEF Effect, Adds

\* Routes into the tunnel for a list of destinations.
LEMMA IntoFacts ==
  ASSUME NEW D, NEW s \in Seq(D)
  PROVE  Into(s) \in Seq(IntoTunnel(D)) /\ Range(Into(s)) = IntoTunnel(Range(s))
<1>1. DOMAIN s = 1..Len(s) /\ Len(s) \in Nat /\ \A i \in 1..Len(s) : s[i] \in D
  OBVIOUS
<1>2. \A i \in 1..Len(s) : Adds(s[i], "tunnel") \in IntoTunnel(D)
  BY <1>1 DEF IntoTunnel
<1>3. Into(s) = [i \in 1..Len(s) |-> Adds(s[i], "tunnel")]
  BY <1>1 DEF Into
<1>4. Into(s) \in Seq(IntoTunnel(D))
  BY <1>1, <1>2, <1>3
<1>5. Range(Into(s)) = {Adds(s[i], "tunnel") : i \in 1..Len(s)}
  BY <1>3 DEF Range
<1>6. Range(s) = {s[i] : i \in 1..Len(s)}
  BY <1>1 DEF Range
<1> QED BY <1>4, <1>5, <1>6 DEF IntoTunnel

\* Short sequences.
LEMMA TwoSeq == ASSUME NEW S, NEW a \in S, NEW b \in S PROVE <<a, b>> \in Seq(S) /\ <<>> \in Seq(S)
OBVIOUS

\* A sequence over a set is one over a larger set.
LEMMA SeqWiden == ASSUME NEW S, NEW T, S \subseteq T, NEW s \in Seq(S) PROVE s \in Seq(T)
OBVIOUS

\* A destination, or none.
LEMMA OnlyFacts ==
  ASSUME NEW D, NEW d \in D, NEW wanted \in BOOLEAN
  PROVE  Only(wanted, d) \in Seq(D) /\ Range(Only(wanted, d)) = IF wanted THEN {d} ELSE {}
<1>1. CASE wanted
  <2>1. Only(wanted, d) = <<d>> /\ <<d>> \in Seq(D) /\ DOMAIN <<d>> = {1} /\ <<d>>[1] = d
    BY <1>1 DEF Only
  <2>2. Range(<<d>>) = {d}
    BY <2>1 DEF Range
  <2> QED BY <1>1, <2>1, <2>2
<1>2. CASE ~wanted
  <2>1. Only(wanted, d) = <<>> /\ <<>> \in Seq(D) /\ DOMAIN <<>> = {}
    BY <1>2 DEF Only
  <2>2. Range(<<>>) = {}
    BY <2>1 DEF Range
  <2> QED BY <1>2, <2>1, <2>2
<1> QED BY <1>1, <1>2

\* The interface comes first.
LEMMA PreparationFacts ==
  /\ Preparation \in Seq(Interface) /\ Len(Preparation) = 4
  /\ Preparation[1] = Sets("address") /\ Preparation[2] = Sets("mtu")
  /\ Preparation[3] = Does("metric4") /\ Preparation[4] = Does("metric6")
BY DEF Preparation, Interface

\* Of the commands about names the flush is the last.
LEMMA ResolutionFacts ==
  ASSUME NEW c \in Confs
  PROVE  /\ Resolution(c) \in Seq(Naming)
         /\ c.dns = <<>> => Resolution(c) = <<>>
         /\ c.dns # <<>> => Len(Resolution(c)) > 0 /\ Resolution(c)[Len(Resolution(c))] = Sets("flush")
<1> DEFINE first == [i \in DOMAIN c.dns |-> Sets("resolvers")]
           mid == IF \E i \in DOMAIN c.dns : c.dns[i] \in V4
                  THEN <<Sets("clear rule"), Does("rule")>> ELSE <<>>
           end == <<Sets("flush")>>
<1>2. CASE c.dns = <<>>
  BY <1>2 DEF Resolution
<1>3. CASE c.dns # <<>>
  <2>1. Resolution(c) = (first \o mid) \o end
    BY <1>3 DEF Resolution
  <2>2. first \in Seq(Naming)
    <3>1. DOMAIN c.dns = 1..Len(c.dns) /\ Len(c.dns) \in Nat
      BY ConfIs
    <3> QED BY <3>1 DEF Naming
  <2>3. mid \in Seq(Naming)
    <3>1. Sets("clear rule") \in Naming /\ Does("rule") \in Naming
      BY DEF Naming
    <3>2. <<Sets("clear rule"), Does("rule")>> \in Seq(Naming) /\ <<>> \in Seq(Naming)
      BY <3>1, TwoSeq
    <3> QED BY <3>2
  <2>4. end \in Seq(Naming) /\ Len(end) = 1 /\ end[1] = Sets("flush")
    <3>1. Sets("flush") \in Naming
      BY DEF Naming
    <3> QED BY <3>1
  <2> HIDE DEF first, mid, end
  <2> DEFINE both == first \o mid
  <2>5. both \in Seq(Naming) /\ Len(both) \in Nat
    BY <2>2, <2>3, ConcatFacts
  <2> HIDE DEF both
  <2>6. /\ both \o end \in Seq(Naming) /\ Len(both \o end) = Len(both) + 1
        /\ \A i \in 1..1 : (both \o end)[Len(both) + i] = end[i]
    BY <2>4, <2>5, ConcatFacts
  <2>7. (both \o end)[Len(both) + 1] = Sets("flush")
    BY <2>4, <2>6
  <2>8. Resolution(c) = both \o end
    BY <2>1 DEF both
  <2> QED BY <1>3, <2>5, <2>6, <2>7, <2>8
<1> QED BY <1>2, <1>3

\* The effects of the two pins.
GatewayPin == Effect("route", Best.gw, Best.link)
ServerPin == Effect("route", Server, Best.gw)

\* They are routes, and not into the tunnel.
LEMMA PinsFacts ==
  /\ Pins \in Seq(Pinning) /\ Len(Pins) = 3 /\ Pins[1] = Sets("print")
  /\ Pins[2].effect = GatewayPin /\ Pins[2].undone = TRUE
  /\ Pins[3].effect = ServerPin /\ Pins[3].undone = TRUE
  /\ GatewayPin.what = "route" /\ GatewayPin.dest = Best.gw /\ GatewayPin.via # "tunnel"
  /\ ServerPin.what = "route" /\ ServerPin.dest = Server /\ ServerPin.via # "tunnel"
<1>1. Pins \in Seq(Pinning) /\ Len(Pins) = 3 /\ Pins[1] = Sets("print")
      /\ Pins[2] = Adds(Best.gw, Best.link) /\ Pins[3] = Adds(Server, Best.gw)
  BY DEF Pins, Pinning
<1>2. /\ GatewayPin.what = "route" /\ GatewayPin.dest = Best.gw /\ GatewayPin.via = Best.link
      /\ Pins[2].effect = GatewayPin /\ Pins[2].undone = TRUE
  BY <1>1 DEF GatewayPin, Adds, Effect
<1>3. /\ ServerPin.what = "route" /\ ServerPin.dest = Server /\ ServerPin.via = Best.gw
      /\ Pins[3].effect = ServerPin /\ Pins[3].undone = TRUE
  BY <1>1 DEF ServerPin, Adds, Effect
<1> QED BY <1>1, <1>2, <1>3, BestIsRow

\* The parts of the allowed networks.
LEMMA AllowedFacts ==
  ASSUME NEW c \in Confs
  PROVE  /\ AllowedRoutes(c) \in Seq(IntoTunnel(Dests(c)))
         /\ Full(c) => \A d \in {"0/1", "128/1"} : Adds(d, "tunnel") \in Range(AllowedRoutes(c))
         /\ \A d \in Range(c.allowed) : Adds(d, "tunnel") \in Range(AllowedRoutes(c))
         /\ \A x \in Range(AllowedRoutes(c)) : \E d \in Halves \cup Wholes \cup Range(c.allowed) : x = Adds(d, "tunnel")
<1> DEFINE D == Halves \cup Wholes \cup Range(c.allowed)
           parts == [i \in DOMAIN c.allowed |-> Parts(c.allowed[i])]
           flat == FlattenSeq(parts)
<1>1. DOMAIN c.allowed = 1..Len(c.allowed) /\ Len(c.allowed) \in Nat
  BY ConfIs
<1>2. \A i \in DOMAIN c.allowed : c.allowed[i] \in D
  BY DEF Range
<1>3. \A d \in D : Parts(d) \in Seq(D) /\ d \in Range(Parts(d))
  <2> SUFFICES ASSUME NEW d \in D PROVE Parts(d) \in Seq(D) /\ d \in Range(Parts(d))
    OBVIOUS
  <2>1. CASE d = Default4
    <3>1. {"0/1", "128/1", Default4} \subseteq D
      BY DEF Halves, Wholes
    <3> HIDE DEF D
    <3>2. Parts(d) = <<"0/1", "128/1", Default4>> /\ Parts(d) \in Seq(D) /\ DOMAIN Parts(d) = 1..3
          /\ Parts(d)[3] = d
      BY <2>1, <3>1 DEF Parts
    <3> QED BY <3>2 DEF Range
  <2>2. CASE d # Default4
    <3> HIDE DEF D
    <3>1. Parts(d) = <<d>> /\ Parts(d) \in Seq(D) /\ DOMAIN Parts(d) = {1} /\ Parts(d)[1] = d
      BY <2>2 DEF Parts
    <3> QED BY <3>1 DEF Range
  <2> QED BY <2>1, <2>2
<1>4. \A d \in {"0/1", "128/1"} : d \in Range(Parts(Default4))
  <2>1. Parts(Default4) = <<"0/1", "128/1", Default4>>
    BY DEF Parts
  <2>2. DOMAIN Parts(Default4) = 1..3 /\ Parts(Default4)[1] = "0/1" /\ Parts(Default4)[2] = "128/1"
    BY <2>1
  <2> QED BY <2>2 DEF Range
<1> HIDE DEF D
<1>5. parts \in Seq(Seq(D)) /\ DOMAIN parts = DOMAIN c.allowed
      /\ \A i \in DOMAIN c.allowed : parts[i] = Parts(c.allowed[i])
  <2>1. parts = [i \in 1..Len(c.allowed) |-> Parts(c.allowed[i])]
    BY <1>1
  <2>2. \A i \in 1..Len(c.allowed) : Parts(c.allowed[i]) \in Seq(D)
    BY <1>1, <1>2, <1>3
  <2> QED BY <1>1, <2>1, <2>2
<1> HIDE DEF parts
<1>6. flat \in Seq(D) /\ Range(flat) = UNION {Range(parts[i]) : i \in DOMAIN parts}
  BY <1>5, FlattenFacts
<1>7. \A i \in DOMAIN c.allowed : Range(Parts(c.allowed[i])) \subseteq Range(flat)
  BY <1>5, <1>6
<1> HIDE DEF flat
<1>8. Into(flat) \in Seq(IntoTunnel(D)) /\ Range(Into(flat)) = IntoTunnel(Range(flat))
  BY <1>6, IntoFacts
<1>9. AllowedRoutes(c) = Into(flat)
  BY DEF AllowedRoutes, flat, parts
<1>10. \A d \in Range(flat) : Adds(d, "tunnel") \in Range(AllowedRoutes(c))
  BY <1>8, <1>9 DEF IntoTunnel
<1>11. Range(flat) \subseteq D
  BY <1>6 DEF Range
<1>12. \A x \in Range(AllowedRoutes(c)) : \E d \in D : x = Adds(d, "tunnel")
  BY <1>8, <1>9, <1>11 DEF IntoTunnel
<1>13. AllowedRoutes(c) \in Seq(IntoTunnel(Dests(c)))
  <2>1. IntoTunnel(D) \subseteq IntoTunnel(Dests(c))
    BY DEF IntoTunnel, Dests, D
  <2> QED BY <1>8, <1>9, <2>1, SeqWiden
<1>14. Full(c) => \A d \in {"0/1", "128/1"} : d \in Range(flat)
  BY <1>4, <1>7 DEF Full
<1>15. \A d \in Range(c.allowed) : d \in Range(flat)
  BY <1>2, <1>3, <1>7 DEF Range
<1> QED BY <1>10, <1>12, <1>13, <1>14, <1>15 DEF D

\* The LANs of the link of the best default route, but the tunnel's own network.
LEMMA LanFacts ==
  ASSUME NEW c \in Confs
  PROVE  /\ LanRoutes(c) \in Seq(IntoTunnel(Dests(c)))
         /\ Full(c) => \A d \in Lans \ {c.net} : Adds(d, "tunnel") \in Range(LanRoutes(c))
         /\ \A x \in Range(LanRoutes(c)) : \E d \in Subnets : x = Adds(d, "tunnel")
<1> DEFINE wanted(i) == Lan(Table[i]) /\ Table[i].dest # c.net
           rows == [i \in DOMAIN Table |-> Only(wanted(i), Table[i].dest)]
           flat == FlattenSeq(rows)
<1>1. DOMAIN Table = 1..Len(Table) /\ Len(Table) \in Nat
  BY TableAssumption
<1>2. \A i \in DOMAIN Table : wanted(i) \in BOOLEAN /\ Table[i].dest \in {Table[k].dest : k \in DOMAIN Table}
  BY DEF Lan
<1> DEFINE E == {Table[k].dest : k \in DOMAIN Table}
<1>3. \A i \in DOMAIN Table : /\ Only(wanted(i), Table[i].dest) \in Seq(E)
                              /\ Range(Only(wanted(i), Table[i].dest)) = IF wanted(i) THEN {Table[i].dest} ELSE {}
  <2> HIDE DEF wanted, E
  <2> SUFFICES ASSUME NEW i \in DOMAIN Table
               PROVE  /\ Only(wanted(i), Table[i].dest) \in Seq(E)
                      /\ Range(Only(wanted(i), Table[i].dest)) = IF wanted(i) THEN {Table[i].dest} ELSE {}
    OBVIOUS
  <2>1. wanted(i) \in BOOLEAN /\ Table[i].dest \in E
    BY <1>2 DEF E
  <2> QED BY <2>1, OnlyFacts
<1> HIDE DEF wanted, E
<1>4. rows \in Seq(Seq(E)) /\ DOMAIN rows = DOMAIN Table
      /\ \A i \in DOMAIN Table : rows[i] = Only(wanted(i), Table[i].dest)
  <2>1. rows = [i \in 1..Len(Table) |-> Only(wanted(i), Table[i].dest)]
    BY <1>1
  <2>2. \A i \in 1..Len(Table) : Only(wanted(i), Table[i].dest) \in Seq(E)
    BY <1>1, <1>3
  <2> QED BY <1>1, <2>1, <2>2
<1> HIDE DEF rows
<1>5. flat \in Seq(E) /\ Range(flat) = UNION {Range(rows[i]) : i \in DOMAIN rows}
  BY <1>4, FlattenFacts
<1>6. \A d \in Range(flat) : \E i \in DOMAIN Table : wanted(i) /\ d = Table[i].dest
  <2> SUFFICES ASSUME NEW d \in Range(flat) PROVE \E i \in DOMAIN Table : wanted(i) /\ d = Table[i].dest
    OBVIOUS
  <2>1. PICK i \in DOMAIN Table : d \in Range(rows[i])
    BY <1>4, <1>5
  <2>2. d \in IF wanted(i) THEN {Table[i].dest} ELSE {}
    BY <1>3, <1>4, <2>1
  <2>3. wanted(i) /\ d = Table[i].dest
    BY <2>2
  <2> QED BY <2>3
<1>7. \A i \in DOMAIN Table : wanted(i) => Table[i].dest \in Range(flat)
  <2> SUFFICES ASSUME NEW i \in DOMAIN Table, wanted(i) PROVE Table[i].dest \in Range(flat)
    OBVIOUS
  <2>1. Table[i].dest \in Range(rows[i])
    BY <1>3, <1>4
  <2> QED BY <1>4, <1>5, <2>1
<1> HIDE DEF flat
<1>8. Into(flat) \in Seq(IntoTunnel(E)) /\ Range(Into(flat)) = IntoTunnel(Range(flat))
  BY <1>5, IntoFacts
<1>9. CASE ~Full(c)
  <2>1. LanRoutes(c) = <<>> /\ DOMAIN <<>> = {} /\ <<>> \in Seq(IntoTunnel(Dests(c)))
    BY <1>9 DEF LanRoutes
  <2> QED BY <1>9, <2>1 DEF Range
<1>10. CASE Full(c)
  <2>1. LanRoutes(c) = Into(flat)
    BY <1>10 DEF LanRoutes, flat, rows, wanted
  <2>2. IntoTunnel(E) \subseteq IntoTunnel(Dests(c))
    BY DEF IntoTunnel, Dests, E
  <2>3. LanRoutes(c) \in Seq(IntoTunnel(Dests(c)))
    BY <1>8, <2>1, <2>2, SeqWiden
  <2>4. \A d \in Lans \ {c.net} : d \in Range(flat)
    BY <1>7 DEF Lans, wanted
  <2>5. \A d \in Range(flat) : d \in Subnets
    BY <1>6 DEF wanted, Lan
  <2> QED BY <1>8, <2>1, <2>3, <2>4, <2>5 DEF IntoTunnel
<1> QED BY <1>9, <1>10

\* Both halves of IPv6, unless they are allowed networks.
LEMMA V6Facts ==
  ASSUME NEW c \in Confs
  PROVE  /\ V6Routes(c) \in Seq(IntoTunnel(Dests(c)))
         /\ \A d \in {"::/1", "8000::/1"} \ Range(c.allowed) : Adds(d, "tunnel") \in Range(V6Routes(c))
         /\ \A x \in Range(V6Routes(c)) : \E d \in Halves : x = Adds(d, "tunnel")
<1> DEFINE a == Only("::/1" \notin Range(c.allowed), "::/1")
           b == Only("8000::/1" \notin Range(c.allowed), "8000::/1")
<1>1. /\ a \in Seq(Halves) /\ Range(a) = IF "::/1" \notin Range(c.allowed) THEN {"::/1"} ELSE {}
      /\ b \in Seq(Halves) /\ Range(b) = IF "8000::/1" \notin Range(c.allowed) THEN {"8000::/1"} ELSE {}
  <2>1. "::/1" \in Halves /\ "8000::/1" \in Halves
    BY DEF Halves
  <2>2. ("::/1" \notin Range(c.allowed)) \in BOOLEAN /\ ("8000::/1" \notin Range(c.allowed)) \in BOOLEAN
    OBVIOUS
  <2> QED BY <2>1, <2>2, OnlyFacts
<1>2. V6Routes(c) = Into(a \o b)
  BY DEF V6Routes
<1> HIDE DEF a, b
<1>3. a \o b \in Seq(Halves) /\ Range(a \o b) = Range(a) \cup Range(b)
  BY <1>1, ConcatFacts
<1>4. Into(a \o b) \in Seq(IntoTunnel(Halves)) /\ Range(Into(a \o b)) = IntoTunnel(Range(a) \cup Range(b))
  BY <1>3, IntoFacts
<1>5. \A d \in {"::/1", "8000::/1"} \ Range(c.allowed) : d \in Range(a) \cup Range(b)
  BY <1>1
<1>6. Range(a) \cup Range(b) \subseteq Halves
  BY <1>1 DEF Halves
<1>7. IntoTunnel(Halves) \subseteq IntoTunnel(Dests(c))
  BY DEF IntoTunnel, Dests
<1>8. V6Routes(c) \in Seq(IntoTunnel(Dests(c)))
  BY <1>2, <1>4, <1>7, SeqWiden
<1> QED BY <1>2, <1>4, <1>5, <1>6, <1>8 DEF IntoTunnel

\* Every resolver, once.
LEMMA ResolverFacts ==
  ASSUME NEW c \in Confs
  PROVE  /\ ResolverRoutes(c) \in Seq(IntoTunnel(Dests(c)))
         /\ Range(ResolverRoutes(c)) = IntoTunnel(Range(c.dns))
<1> DEFINE wanted(i) == \A j \in 1..(i - 1) : c.dns[j] # c.dns[i]
           rows == [i \in DOMAIN c.dns |-> Only(wanted(i), c.dns[i])]
           flat == FlattenSeq(rows)
           E == Range(c.dns)
<1>1. DOMAIN c.dns = 1..Len(c.dns) /\ Len(c.dns) \in Nat
  BY ConfIs
<1>2. \A i \in DOMAIN c.dns : /\ Only(wanted(i), c.dns[i]) \in Seq(E)
                              /\ Range(Only(wanted(i), c.dns[i])) = IF wanted(i) THEN {c.dns[i]} ELSE {}
  <2> SUFFICES ASSUME NEW i \in DOMAIN c.dns
               PROVE  /\ Only(wanted(i), c.dns[i]) \in Seq(E)
                      /\ Range(Only(wanted(i), c.dns[i])) = IF wanted(i) THEN {c.dns[i]} ELSE {}
    OBVIOUS
  <2>1. wanted(i) \in BOOLEAN
    OBVIOUS
  <2>2. c.dns[i] \in E
    BY DEF Range
  <2> HIDE DEF wanted, E
  <2> QED BY <2>1, <2>2, OnlyFacts
<1>3. \A d \in E : \E i \in DOMAIN c.dns : wanted(i) /\ d = c.dns[i]
  <2> SUFFICES ASSUME NEW d \in E PROVE \E i \in DOMAIN c.dns : wanted(i) /\ d = c.dns[i]
    OBVIOUS
  <2> DEFINE T == {i \in DOMAIN c.dns : c.dns[i] = d}
  <2>1. T \subseteq Nat /\ T # {}
    BY <1>1 DEF Range
  <2>2. \E i \in T : \A j \in T : i <= j
    <3> HIDE DEF T
    <3> QED BY <2>1, NatMin
  <2>3. PICK i \in T : \A j \in T : i <= j
    BY <2>2
  <2>4. ASSUME NEW j \in 1..(i - 1) PROVE c.dns[j] # c.dns[i]
    <3>1. j \in DOMAIN c.dns /\ j < i
      BY <1>1, <2>3
    <3> QED BY <1>1, <2>3, <3>1
  <2> QED BY <2>3, <2>4
<1>4. \A i \in DOMAIN c.dns : c.dns[i] \in E
  BY DEF Range
<1> HIDE DEF wanted, E
<1>5. rows \in Seq(Seq(E)) /\ DOMAIN rows = DOMAIN c.dns
      /\ \A i \in DOMAIN c.dns : rows[i] = Only(wanted(i), c.dns[i])
  <2>1. rows = [i \in 1..Len(c.dns) |-> Only(wanted(i), c.dns[i])]
    BY <1>1
  <2>2. \A i \in 1..Len(c.dns) : Only(wanted(i), c.dns[i]) \in Seq(E)
    BY <1>1, <1>2
  <2> QED BY <1>1, <2>1, <2>2
<1> HIDE DEF rows
<1>6. flat \in Seq(E) /\ Range(flat) = UNION {Range(rows[i]) : i \in DOMAIN rows}
  BY <1>5, FlattenFacts
<1>7. E \subseteq Range(flat)
  <2> SUFFICES ASSUME NEW d \in E PROVE d \in Range(flat)
    OBVIOUS
  <2>1. PICK i \in DOMAIN c.dns : wanted(i) /\ d = c.dns[i]
    BY <1>3
  <2>2. d \in Range(rows[i])
    BY <1>2, <1>5, <2>1
  <2> QED BY <1>5, <1>6, <2>2
<1>8. Range(flat) \subseteq E
  BY <1>6 DEF Range
<1> HIDE DEF flat
<1>9. Into(flat) \in Seq(IntoTunnel(E)) /\ Range(Into(flat)) = IntoTunnel(E)
  <2>1. Range(flat) = E
    BY <1>7, <1>8
  <2> QED BY <1>6, <2>1, IntoFacts
<1>10. ResolverRoutes(c) = Into(flat)
  BY DEF ResolverRoutes, flat, rows, wanted
<1>11. IntoTunnel(E) \subseteq IntoTunnel(Dests(c))
  BY DEF IntoTunnel, Dests, E
<1>12. ResolverRoutes(c) \in Seq(IntoTunnel(Dests(c)))
  BY <1>9, <1>10, <1>11, SeqWiden
<1> QED BY <1>9, <1>10, <1>12 DEF E

\* Where the pins begin: routes come after everything else, those into the
\* tunnel after the pins.
HeadLen(c) == Len(Preparation) + Len(Resolution(c))
Tunnelled(c) == Range(AllowedRoutes(c)) \cup Range(LanRoutes(c)) \cup Range(V6Routes(c)) \cup Range(ResolverRoutes(c))

\* The commands of open, place by place.
LEMMA ScriptParts ==
  ASSUME NEW c \in Confs
  PROVE  /\ Script(c) \in Seq(Commands(c)) /\ HeadLen(c) \in Nat /\ Len(Script(c)) >= HeadLen(c) + 3
         /\ \A i \in 1..4 : Script(c)[i] = Preparation[i]
         /\ \A i \in 1..Len(Resolution(c)) : Script(c)[4 + i] = Resolution(c)[i]
         /\ \A i \in 1..3 : Script(c)[HeadLen(c) + i] = Pins[i]
         /\ \A i \in (HeadLen(c) + 4)..Len(Script(c)) : Script(c)[i] \in Tunnelled(c)
         /\ \A x \in Tunnelled(c) : \E i \in DOMAIN Script(c) : Script(c)[i] = x
<1> DEFINE K == Commands(c)
           R == Resolution(c)
           head == Preparation \o R
           pinned == head \o Pins
           A == AllowedRoutes(c)
           L == LanRoutes(c)
           V == V6Routes(c)
           D == ResolverRoutes(c)
           ra == pinned \o A
           rl == ra \o L
           rv == rl \o V
           rd == rv \o D
<1>1. /\ Preparation \in Seq(K) /\ R \in Seq(K) /\ Pins \in Seq(K)
      /\ A \in Seq(K) /\ L \in Seq(K) /\ V \in Seq(K) /\ D \in Seq(K)
  <2>1. Interface \subseteq K /\ Naming \subseteq K /\ Pinning \subseteq K /\ IntoTunnel(Dests(c)) \subseteq K
    BY DEF Commands
  <2>2. Preparation \in Seq(Interface) /\ R \in Seq(Naming) /\ Pins \in Seq(Pinning)
    BY PreparationFacts, ResolutionFacts, PinsFacts
  <2>3. /\ A \in Seq(IntoTunnel(Dests(c))) /\ L \in Seq(IntoTunnel(Dests(c)))
        /\ V \in Seq(IntoTunnel(Dests(c))) /\ D \in Seq(IntoTunnel(Dests(c)))
    BY AllowedFacts, LanFacts, V6Facts, ResolverFacts
  <2> HIDE DEF K, R, A, L, V, D
  <2>4. Preparation \in Seq(K) /\ R \in Seq(K) /\ Pins \in Seq(K)
    BY <2>1, <2>2, SeqWiden
  <2>5. A \in Seq(K) /\ L \in Seq(K) /\ V \in Seq(K) /\ D \in Seq(K)
    BY <2>1, <2>3, SeqWiden
  <2> QED BY <2>4, <2>5
<1>2. Script(c) = rd
  BY DEF Script
<1>3. Tunnelled(c) = Range(A) \cup Range(L) \cup Range(V) \cup Range(D)
  BY DEF Tunnelled
<1>4. HeadLen(c) = 4 + Len(R) /\ Len(Preparation) = 4 /\ Len(Pins) = 3
  BY PreparationFacts, PinsFacts DEF HeadLen
<1> HIDE DEF K, R, A, L, V, D, head, pinned, ra, rl, rv, rd
<1>5. /\ head \in Seq(K) /\ Len(head) = HeadLen(c)
      /\ (\A i \in 1..4 : head[i] = Preparation[i])
      /\ \A i \in 1..Len(R) : head[4 + i] = R[i]
  <2>1. /\ head \in Seq(K) /\ Len(head) = Len(Preparation) + Len(R)
        /\ (\A i \in 1..Len(Preparation) : head[i] = Preparation[i])
        /\ \A i \in 1..Len(R) : head[Len(Preparation) + i] = R[i]
    BY <1>1, ConcatFacts DEF head
  <2> QED BY <1>4, <2>1
<1>6. /\ pinned \in Seq(K) /\ Len(pinned) = HeadLen(c) + 3
      /\ (\A i \in 1..HeadLen(c) : pinned[i] = head[i])
      /\ \A i \in 1..3 : pinned[HeadLen(c) + i] = Pins[i]
  <2>0. head \in Seq(K) /\ Pins \in Seq(K)
    BY <1>1, <1>5
  <2>1. /\ pinned \in Seq(K) /\ Len(pinned) = Len(head) + Len(Pins)
        /\ (\A i \in 1..Len(head) : pinned[i] = head[i])
        /\ \A i \in 1..Len(Pins) : pinned[Len(head) + i] = Pins[i]
    BY <2>0, ConcatFacts DEF pinned
  <2> QED BY <1>4, <1>5, <2>1
<1>7. Len(R) \in Nat /\ HeadLen(c) \in Nat /\ Len(A) \in Nat /\ Len(L) \in Nat /\ Len(V) \in Nat /\ Len(D) \in Nat
  BY <1>1, <1>4
<1> DEFINE n == HeadLen(c) + 3
           After(s, X) == /\ s \in Seq(K) /\ Len(s) \in Nat /\ Len(s) >= n
                          /\ \A i \in 1..n : s[i] = pinned[i]
                          /\ \A i \in (n + 1)..Len(s) : s[i] \in X
                          /\ \A x \in X : \E i \in DOMAIN s : s[i] = x
<1>8. ASSUME NEW s, NEW X, After(s, X), NEW t \in Seq(K)
      PROVE  After(s \o t, X \cup Range(t))
  <2> HIDE DEF n
  <2>0. n \in Nat
    BY <1>7 DEF n
  <2>1. /\ s \o t \in Seq(K) /\ Len(s \o t) = Len(s) + Len(t) /\ Len(t) \in Nat /\ Len(s) \in Nat
        /\ (\A i \in 1..Len(s) : (s \o t)[i] = s[i])
        /\ (\A i \in 1..Len(t) : (s \o t)[Len(s) + i] = t[i])
    BY <1>8, ConcatFacts
  <2>2. DOMAIN s = 1..Len(s) /\ DOMAIN t = 1..Len(t) /\ DOMAIN (s \o t) = 1..(Len(s) + Len(t))
    BY <1>8, <2>1
  <2> DEFINE r == s \o t
  <2> HIDE DEF r
  <2>3. /\ r \in Seq(K) /\ Len(r) = Len(s) + Len(t) /\ DOMAIN r = 1..(Len(s) + Len(t))
        /\ (\A i \in 1..Len(s) : r[i] = s[i]) /\ (\A i \in 1..Len(t) : r[Len(s) + i] = t[i])
    BY <2>1, <2>2 DEF r
  <2>4. Len(r) \in Nat /\ Len(r) >= n /\ \A i \in 1..n : r[i] = pinned[i]
    BY <1>8, <2>0, <2>1, <2>3
  <2>5. ASSUME NEW i \in (n + 1)..Len(r) PROVE r[i] \in X \cup Range(t)
    <3>1. CASE i <= Len(s)
      BY <1>8, <2>0, <2>1, <2>3, <3>1
    <3>2. CASE ~(i <= Len(s))
      <4>1. i - Len(s) \in 1..Len(t) /\ Len(s) + (i - Len(s)) = i
        BY <2>0, <2>1, <2>3, <3>2
      <4>2. r[i] = t[i - Len(s)]
        BY <2>3, <4>1
      <4> QED BY <2>2, <4>1, <4>2 DEF Range
    <3> QED BY <3>1, <3>2
  <2>6. ASSUME NEW x \in X \cup Range(t) PROVE \E i \in DOMAIN r : r[i] = x
    <3>1. CASE x \in X
      <4>1. PICK i \in DOMAIN s : s[i] = x
        BY <1>8, <3>1
      <4>2. i \in DOMAIN r /\ r[i] = x
        BY <2>1, <2>2, <2>3, <4>1
      <4> QED BY <4>2
    <3>2. CASE x \in Range(t)
      <4>1. PICK i \in DOMAIN t : t[i] = x
        BY <3>2 DEF Range
      <4>2. Len(s) + i \in DOMAIN r /\ r[Len(s) + i] = x
        BY <2>1, <2>2, <2>3, <4>1
      <4> QED BY <4>2
    <3> QED BY <3>1, <3>2
  <2> QED BY <2>3, <2>4, <2>5, <2>6 DEF r
<1>9. After(pinned, {})
  BY <1>6, <1>7
<1> HIDE DEF After
<1>10. After(ra, {} \cup Range(A))
  BY <1>1, <1>8, <1>9 DEF ra
<1>11. After(rl, ({} \cup Range(A)) \cup Range(L))
  BY <1>1, <1>8, <1>10 DEF rl
<1>12. After(rv, (({} \cup Range(A)) \cup Range(L)) \cup Range(V))
  BY <1>1, <1>8, <1>11 DEF rv
<1>13. After(rd, ((({} \cup Range(A)) \cup Range(L)) \cup Range(V)) \cup Range(D))
  BY <1>1, <1>8, <1>12 DEF rd
<1>14. After(Script(c), Tunnelled(c))
  <2>1. Tunnelled(c) = ((({} \cup Range(A)) \cup Range(L)) \cup Range(V)) \cup Range(D)
    BY <1>3
  <2> QED BY <1>2, <1>13, <2>1
<1> USE DEF After
<1>15. /\ Script(c) \in Seq(K) /\ Len(Script(c)) >= HeadLen(c) + 3
       /\ \A i \in 1..n : Script(c)[i] = pinned[i]
       /\ \A x \in Tunnelled(c) : \E i \in DOMAIN Script(c) : Script(c)[i] = x
  BY <1>14
<1>16. \A i \in (HeadLen(c) + 4)..Len(Script(c)) : Script(c)[i] \in Tunnelled(c)
  <2>1. n + 1 = HeadLen(c) + 4
    BY <1>7
  <2> QED BY <1>14, <2>1
<1> HIDE DEF After
<1>17. \A i \in 1..4 : Script(c)[i] = Preparation[i]
  <2>1. \A i \in 1..4 : i \in 1..n /\ i \in 1..HeadLen(c)
    BY <1>4, <1>7
  <2> QED BY <1>5, <1>6, <1>15, <2>1
<1>18. \A i \in 1..Len(R) : Script(c)[4 + i] = R[i]
  <2>1. \A i \in 1..Len(R) : 4 + i \in 1..n /\ 4 + i \in 1..HeadLen(c)
    BY <1>4, <1>7
  <2> QED BY <1>5, <1>6, <1>15, <2>1
<1>19. \A i \in 1..3 : Script(c)[HeadLen(c) + i] = Pins[i]
  <2>1. \A i \in 1..3 : HeadLen(c) + i \in 1..n
    BY <1>7
  <2> QED BY <1>6, <1>15, <2>1
<1> QED BY <1>7, <1>15, <1>16, <1>17, <1>18, <1>19 DEF K, R

\* A route into the tunnel.
Inner(e) == e.what = "route" /\ e.via = "tunnel"
TunnelRoute(d) == Effect("route", d, "tunnel")

\* Destinations of the configuration that can be in the tunnel: not the server.
Swallowed(c) == Halves \cup Wholes \cup Range(c.allowed) \cup Range(c.dns) \cup Subnets

\* What the i-th command is, which leaves effect e, and whether it is undone.
Kind(c, i, e, undone) ==
  \/ e \in {Setting("address"), Setting("mtu")} /\ ~undone
  \/ e \in {Setting("metric4"), Setting("metric6")} /\ undone
  \/ e \in {Setting("resolvers"), Setting("clear rule")} /\ ~undone /\ i < HeadLen(c) /\ c.dns # <<>>
  \/ e = Setting("rule") /\ undone /\ i < HeadLen(c)
  \/ e = Setting("flush") /\ ~undone
  \/ e = Setting("print") /\ ~undone
  \/ e \in {GatewayPin, ServerPin} /\ undone /\ i <= HeadLen(c) + 3
  \/ (\E d \in Swallowed(c) : e = TunnelRoute(d)) /\ undone /\ i > HeadLen(c) + 3

\* Every command is of one of these kinds, and the flush ends the names.
LEMMA CommandKinds ==
  ASSUME NEW c \in Confs, NEW i \in 1..Len(Script(c))
  PROVE  /\ Kind(c, i, Script(c)[i].effect, Script(c)[i].undone)
         /\ Script(c)[i].undone \in BOOLEAN
         /\ i = HeadLen(c) /\ c.dns # <<>> => Script(c)[i].effect = Setting("flush")
<1> DEFINE x == Script(c)[i]
           R == Resolution(c)
<1>1. HeadLen(c) = 4 + Len(R) /\ Len(R) \in Nat /\ DOMAIN R = 1..Len(R)
  BY PreparationFacts, ResolutionFacts DEF HeadLen
<1>2. i \in Nat
  OBVIOUS
<1>3. CASE i \in 1..4
  <2>1. x \in Interface
    <3>1. x = Preparation[i]
      BY <1>3, ScriptParts
    <3>2. i = 1 \/ i = 2 \/ i = 3 \/ i = 4
      BY <1>3
    <3> QED BY <3>1, <3>2, PreparationFacts DEF Interface
  <2>2. \/ x.effect \in {Setting("address"), Setting("mtu")} /\ x.undone = FALSE
        \/ x.effect \in {Setting("metric4"), Setting("metric6")} /\ x.undone = TRUE
    <3> HIDE DEF x
    <3>1. CASE x = Sets("address") \/ x = Sets("mtu")
      BY <3>1, SettingIs
    <3>2. CASE x = Does("metric4") \/ x = Does("metric6")
      BY <3>2, SettingIs
    <3> QED BY <2>1, <3>1, <3>2 DEF Interface
  <2>3. i = HeadLen(c) => c.dns = <<>>
    <3>1. i = HeadLen(c) => Len(R) = 0
      BY <1>1, <1>3
    <3> QED BY <3>1, ResolutionFacts
  <2> QED BY <2>2, <2>3 DEF Kind
<1>4. CASE i \in 5..HeadLen(c)
  <2> DEFINE k == i - 4
  <2>1. k \in 1..Len(R) /\ 4 + k = i
    BY <1>1, <1>4
  <2>2. x = R[k] /\ c.dns # <<>>
    <3>1. R # <<>>
      BY <1>1, <2>1
    <3> QED BY <2>1, <3>1, ScriptParts, ResolutionFacts
  <2>3. i = HeadLen(c) => x = Sets("flush")
    <3>1. i = HeadLen(c) => k = Len(R)
      BY <1>1
    <3> QED BY <2>2, <3>1, ResolutionFacts
  <2>4. x \in Naming
    BY <2>1, <2>2, ResolutionFacts
  <2>5. \/ x.effect = Setting("resolvers") /\ x.undone = FALSE
        \/ x.effect = Setting("clear rule") /\ x.undone = FALSE
        \/ x.effect = Setting("rule") /\ x.undone = TRUE
        \/ x.effect = Setting("flush") /\ x.undone = FALSE
    <3> HIDE DEF x
    <3>1. ASSUME NEW w, x = Sets(w) PROVE x.effect = Setting(w) /\ x.undone = FALSE
      BY <3>1, SettingIs
    <3>2. CASE x = Does("rule")
      BY <3>2, SettingIs
    <3> QED BY <2>4, <3>1, <3>2 DEF Naming
  <2>6. i = HeadLen(c) => x.effect = Setting("flush") /\ x.undone = FALSE
    BY <2>3, SettingIs
  <2>7. i # HeadLen(c) => i < HeadLen(c)
    BY <1>1, <1>4
  <2> HIDE DEF x
  <2>8. Kind(c, i, x.effect, x.undone) /\ x.undone \in BOOLEAN
    BY <2>2, <2>5, <2>6, <2>7 DEF Kind
  <2> QED BY <2>6, <2>8 DEF x
<1>5. CASE i \in (HeadLen(c) + 1)..(HeadLen(c) + 3)
  <2> DEFINE k == i - HeadLen(c)
  <2>1. k \in 1..3 /\ HeadLen(c) + k = i /\ i # HeadLen(c) /\ i <= HeadLen(c) + 3
    BY <1>1, <1>5
  <2>2. x = Pins[k]
    <3>1. \A j \in 1..3 : Script(c)[HeadLen(c) + j] = Pins[j]
      BY ScriptParts
    <3> HIDE DEF k
    <3> QED BY <2>1, <3>1
  <2>3. k = 1 \/ k = 2 \/ k = 3
    BY <2>1
  <2>4. \/ x.effect = Setting("print") /\ x.undone = FALSE
        \/ x.effect = GatewayPin /\ x.undone = TRUE
        \/ x.effect = ServerPin /\ x.undone = TRUE
    <3>1. CASE k = 1
      <4>1. x = Sets("print")
        BY <2>2, <3>1, PinsFacts
      <4> QED BY <4>1, SettingIs
    <3>2. CASE k = 2
      BY <2>2, <3>2, PinsFacts
    <3>3. CASE k = 3
      BY <2>2, <3>3, PinsFacts
    <3> QED BY <2>3, <3>1, <3>2, <3>3
  <2> QED BY <2>1, <2>4 DEF Kind
<1>6. CASE i \in (HeadLen(c) + 4)..Len(Script(c))
  <2>1. x \in Tunnelled(c)
    BY <1>6, ScriptParts
  <2>2. \E d \in Swallowed(c) : x = Adds(d, "tunnel")
    <3>1. CASE x \in Range(AllowedRoutes(c))
      BY <3>1, AllowedFacts DEF Swallowed
    <3>2. CASE x \in Range(LanRoutes(c))
      BY <3>2, LanFacts DEF Swallowed
    <3>3. CASE x \in Range(V6Routes(c))
      BY <3>3, V6Facts DEF Swallowed
    <3>4. CASE x \in Range(ResolverRoutes(c))
      BY <3>4, ResolverFacts DEF Swallowed, IntoTunnel
    <3> QED BY <2>1, <3>1, <3>2, <3>3, <3>4 DEF Tunnelled
  <2>3. PICK d \in Swallowed(c) : x = Adds(d, "tunnel")
    BY <2>2
  <2>4. x.effect = TunnelRoute(d) /\ x.undone = TRUE
    BY <2>3 DEF Adds, TunnelRoute
  <2>5. i > HeadLen(c) + 3 /\ i # HeadLen(c)
    BY <1>1, <1>6
  <2> QED BY <2>4, <2>5 DEF Kind
<1>7. i \in 1..4 \/ i \in 5..HeadLen(c) \/ i \in (HeadLen(c) + 1)..(HeadLen(c) + 3)
      \/ i \in (HeadLen(c) + 4)..Len(Script(c))
  BY <1>1
<1> QED BY <1>3, <1>4, <1>5, <1>6, <1>7

\* Where the address, the metric and the pin of the server are, and which
\* routes there have to be.
LEMMA ScriptPlaces ==
  ASSUME NEW c \in Confs
  PROVE  /\ HeadLen(c) + 3 \in 1..Len(Script(c)) /\ Script(c)[HeadLen(c) + 3].effect = ServerPin
         /\ 1 \in 1..Len(Script(c)) /\ Script(c)[1].effect = Setting("address")
         /\ 3 \in 1..Len(Script(c)) /\ Script(c)[3].effect = Setting("metric4")
         /\ \A d \in Range(c.dns) : \E i \in 1..Len(Script(c)) : Script(c)[i].effect = TunnelRoute(d)
         /\ Full(c) => \A d \in Halves \cup (Lans \ {c.net}) :
                         \E i \in 1..Len(Script(c)) : Script(c)[i].effect = TunnelRoute(d)
<1>1. Len(Script(c)) \in Nat /\ DOMAIN Script(c) = 1..Len(Script(c)) /\ HeadLen(c) \in Nat
      /\ Len(Script(c)) >= HeadLen(c) + 3 /\ HeadLen(c) >= 4
  <2>1. Script(c) \in Seq(Commands(c)) /\ HeadLen(c) \in Nat /\ Len(Script(c)) >= HeadLen(c) + 3
    BY ScriptParts
  <2>2. HeadLen(c) >= 4
    BY PreparationFacts, ResolutionFacts DEF HeadLen
  <2> QED BY <2>1, <2>2
<1>2. HeadLen(c) + 3 \in 1..Len(Script(c)) /\ 1 \in 1..Len(Script(c)) /\ 3 \in 1..Len(Script(c))
  BY <1>1
<1>3. Script(c)[HeadLen(c) + 3].effect = ServerPin
  <2>1. Script(c)[HeadLen(c) + 3] = Pins[3]
    BY ScriptParts
  <2> QED BY <2>1, PinsFacts
<1>4. Script(c)[1].effect = Setting("address")
  <2>1. Script(c)[1] = Sets("address")
    BY ScriptParts, PreparationFacts
  <2> QED BY <2>1, SettingIs
<1>5. Script(c)[3].effect = Setting("metric4")
  <2>1. Script(c)[3] = Does("metric4")
    BY ScriptParts, PreparationFacts
  <2> QED BY <2>1, SettingIs
<1>6. ASSUME NEW d, Adds(d, "tunnel") \in Tunnelled(c)
      PROVE  \E i \in 1..Len(Script(c)) : Script(c)[i].effect = TunnelRoute(d)
  <2>1. PICK i \in 1..Len(Script(c)) : Script(c)[i] = Adds(d, "tunnel")
    BY <1>1, <1>6, ScriptParts
  <2>2. Script(c)[i].effect = TunnelRoute(d)
    BY <2>1 DEF Adds, TunnelRoute
  <2> QED BY <2>2
<1>7. ASSUME NEW d \in Range(c.dns) PROVE Adds(d, "tunnel") \in Tunnelled(c)
  BY ResolverFacts DEF Tunnelled, IntoTunnel
<1>8. ASSUME Full(c), NEW d \in Halves \cup (Lans \ {c.net}) PROVE Adds(d, "tunnel") \in Tunnelled(c)
  <2>1. CASE d \in {"0/1", "128/1"}
    BY <1>8, <2>1, AllowedFacts DEF Tunnelled
  <2>2. CASE d \in Range(c.allowed)
    BY <2>2, AllowedFacts DEF Tunnelled
  <2>3. CASE d \in {"::/1", "8000::/1"} \ Range(c.allowed)
    BY <2>3, V6Facts DEF Tunnelled
  <2>4. CASE d \in Lans \ {c.net}
    BY <1>8, <2>4, LanFacts DEF Tunnelled
  <2> QED BY <1>8, <2>1, <2>2, <2>3, <2>4 DEF Halves
<1> QED BY <1>2, <1>3, <1>4, <1>5, <1>6, <1>7, <1>8

-----------------------------------------------------------------------------
(* What is true of the adapter whatever step fails.                        *)

Effs(c) == {Script(c)[i].effect : i \in 1..Len(Script(c))}

\* What is in place is from a command of this process or an earlier one.
Known == inPlace \subseteq Leftovers \cup Effs(conf)

\* Undoing is only of what has been done...
UndoesDone == \A j \in DOMAIN undo : \E i \in 1..(at - 1) : Script(conf)[i].effect = undo[j]

\* ...and while nothing is undone, what has been done is in place.
Applied ==
  phase \in {"opening", "open"} =>
    \A i \in 1..(at - 1) :
      Script(conf)[i].effect.what \notin Nothing \cup {"rule"} => Script(conf)[i].effect \in inPlace

\* An open adapter has run all commands, a closed one all that undo them.
Finished ==
  /\ phase = "open" => at > Len(Script(conf))
  /\ phase = "closed" => undo = <<>> /\ ~dns

\* What is in place can be undone, but for what was there before, what failed
\* to be undone and what goes with the adapter; the resolvers go if `dns` says
\* so, or the block that sets it has not ended.
Settings == {Setting("address"), Setting("mtu")}
Resolvers == IF dns \/ Resolving THEN {Setting("resolvers")} ELSE {}
Restorable == inPlace \subseteq before \cup kept \cup Range(undo) \cup Settings \cup Resolvers

\* Nothing but a failed undo loses the rule...
RuleRemembered ==
  kept = {} /\ (\E i \in 1..(at - 1) : Script(conf)[i].effect = Setting("rule")) =>
    Setting("rule") \in Range(undo) \/ inPlace \cap Rules = {}

\* ...or a route into the tunnel...
RoutesRemembered == kept = {} => \A e \in inPlace : Inner(e) => e \in Range(undo)

\* ...and those are undone before the pin of the server, which is there as long
\* as one of them is.
PinBelow == \A i, j \in DOMAIN undo : i < j /\ undo[j] = ServerPin => ~Inner(undo[i])
PinHeld == (\E e \in Range(undo) : Inner(e)) => ServerPin \in inPlace

AdapterTypeOK ==
  /\ conf \in Confs /\ phase \in {"opening", "open", "dropping", "closed"}
  /\ at \in 1..(Len(Script(conf)) + 1) /\ undo \in Seq(Effs(conf)) /\ dns \in BOOLEAN

AInv ==
  /\ AdapterTypeOK /\ Known /\ UndoesDone /\ Applied /\ Finished /\ Restorable
  /\ RuleRemembered /\ RoutesRemembered /\ PinBelow /\ PinHeld

\* What is true of the threads and tasks.  While connect_to waits and while the
\* tunnel is up, none ends but for an error of the device.
Pumping ==
  main \in {"first", "wait", "up"} =>
    /\ phase = "open" /\ ~shutdown
    /\ tasks["bridge"] = (IF ws THEN "run" ELSE "off") /\ tasks["timers"] = "run"
    /\ ~ioError => /\ reader \in {"recv", "push"} /\ writer \in {"wait", "send"}
                   /\ tasks["recv"] = "run" /\ tasks["send"] = "run"

\* Before that there are none but the bridge.
Quiet ==
  main \in {"idle", "bind"} =>
    /\ reader = "off" /\ writer = "off" /\ ~shutdown
    /\ \A t \in Tasks : tasks[t] = (IF t = "bridge" /\ main = "bind" /\ ws THEN "run" ELSE "off")
    /\ main = "bind" => phase = "open"

\* Packets are in one place.
Packets ==
  /\ read \in 0..MaxPackets /\ written \in 0..MaxPackets
  /\ fromTun \in Nat /\ fromTun + (IF reader = "push" THEN 1 ELSE 0) <= read
  /\ toTun \in Nat /\ toTun <= written

Engaged ==
  /\ main \in {"idle", "bind", "first", "wait", "up", "closing", "closed", "refused", "timeout"}
  /\ reader \in {"off", "recv", "push", "done"}
  /\ writer \in {"off", "wait", "send", "done"}
  /\ tasks \in [Tasks -> {"off", "run", "abort", "done"}]
  /\ shutdown \in BOOLEAN /\ ioError \in BOOLEAN /\ ws \in BOOLEAN

EInv == Engaged /\ Packets /\ Pumping /\ Quiet

-----------------------------------------------------------------------------
(* Lists of effects, and what is no route into the tunnel.                 *)

\* One more at the end.
LEMMA AppendFacts ==
  ASSUME NEW S, NEW q \in Seq(S), NEW x \in S
  PROVE  /\ Append(q, x) \in Seq(S) /\ Range(Append(q, x)) = Range(q) \cup {x}
         /\ Len(q) \in Nat /\ DOMAIN q = 1..Len(q) /\ DOMAIN Append(q, x) = 1..(Len(q) + 1)
         /\ Append(q, x)[Len(q) + 1] = x /\ \A i \in 1..Len(q) : Append(q, x)[i] = q[i]
<1> DEFINE r == Append(q, x)
<1>1. /\ r \in Seq(S) /\ Len(q) \in Nat /\ DOMAIN q = 1..Len(q) /\ DOMAIN r = 1..(Len(q) + 1)
      /\ r[Len(q) + 1] = x /\ \A i \in 1..Len(q) : r[i] = q[i]
  OBVIOUS
<1> HIDE DEF r
<1>2. ASSUME NEW y \in Range(r) PROVE y \in Range(q) \cup {x}
  <2>1. PICK i \in 1..(Len(q) + 1) : y = r[i]
    BY <1>1 DEF Range
  <2>2. CASE i = Len(q) + 1
    BY <1>1, <2>1, <2>2
  <2>3. CASE i # Len(q) + 1
    <3>1. i \in 1..Len(q)
      BY <1>1, <2>3
    <3> QED BY <1>1, <2>1, <3>1 DEF Range
  <2> QED BY <2>2, <2>3
<1>3. Range(q) \subseteq Range(r)
  <2>1. \A i \in 1..Len(q) : i \in 1..(Len(q) + 1)
    BY <1>1
  <2> QED BY <1>1, <2>1 DEF Range
<1>4. x \in Range(r)
  <2>1. Len(q) + 1 \in 1..(Len(q) + 1)
    BY <1>1
  <2> QED BY <1>1, <2>1 DEF Range
<1> QED BY <1>1, <1>2, <1>3, <1>4 DEF r

\* The last taken away.
LEMMA FrontFacts ==
  ASSUME NEW S, NEW q \in Seq(S), q # <<>>
  PROVE  /\ Front(q) \in Seq(S) /\ Last(q) \in S /\ Range(q) = Range(Front(q)) \cup {Last(q)}
         /\ Len(q) \in Nat \ {0} /\ DOMAIN q = 1..Len(q) /\ DOMAIN Front(q) = 1..(Len(q) - 1)
         /\ Last(q) = q[Len(q)] /\ \A i \in 1..(Len(q) - 1) : Front(q)[i] = q[i]
<1> DEFINE r == Front(q)
<1>1. Len(q) \in Nat \ {0} /\ DOMAIN q = 1..Len(q) /\ \A i \in 1..Len(q) : q[i] \in S
  OBVIOUS
<1>2. r = [i \in 1..(Len(q) - 1) |-> q[i]]
  BY DEF Front
<1>3. r \in Seq(S) /\ DOMAIN r = 1..(Len(q) - 1) /\ \A i \in 1..(Len(q) - 1) : r[i] = q[i]
  <2>1. Len(q) - 1 \in Nat /\ \A i \in 1..(Len(q) - 1) : q[i] \in S
    BY <1>1
  <2> QED BY <1>2, <2>1
<1>4. Last(q) = q[Len(q)] /\ Last(q) \in S
  BY <1>1 DEF Last
<1> HIDE DEF r
<1>5. ASSUME NEW y \in Range(q) PROVE y \in Range(r) \cup {Last(q)}
  <2>1. PICK i \in 1..Len(q) : y = q[i]
    BY <1>1 DEF Range
  <2>2. i = Len(q) \/ i \in 1..(Len(q) - 1)
    <3>1. \A n \in Nat \ {0} : \A k \in 1..n : k = n \/ k \in 1..(n - 1)
      OBVIOUS
    <3>2. Len(q) \in Nat \ {0}
      BY <1>1
    <3> QED BY <3>1, <3>2
  <2> QED BY <1>3, <1>4, <2>1, <2>2 DEF Range
<1>6. Range(r) \cup {Last(q)} \subseteq Range(q)
  <2>1. \A n \in Nat \ {0} : n \in 1..n /\ \A i \in 1..(n - 1) : i \in 1..n
    OBVIOUS
  <2> QED BY <1>1, <1>3, <1>4, <2>1 DEF Range
<1> QED BY <1>1, <1>3, <1>4, <1>5, <1>6 DEF r

\* Settings and pins are not routes into the tunnel, and not each other.
LEMMA Apart ==
  /\ \A w : /\ Setting(w).what = w /\ ~Inner(Setting(w))
            /\ w # "route" => Setting(w) # ServerPin /\ ~IsRoute(Setting(w))
  /\ \A d : /\ Inner(TunnelRoute(d)) /\ TunnelRoute(d) # ServerPin /\ IsRoute(TunnelRoute(d))
            /\ TunnelRoute(d).dest = d /\ TunnelRoute(d).what = "route"
  /\ ~Inner(GatewayPin) /\ ~Inner(ServerPin) /\ IsRoute(GatewayPin) /\ IsRoute(ServerPin)
  /\ GatewayPin.what = "route" /\ ServerPin.what = "route"
<1>2. ASSUME NEW w
      PROVE  /\ Setting(w).what = w /\ ~Inner(Setting(w))
             /\ w # "route" => Setting(w) # ServerPin /\ ~IsRoute(Setting(w))
  <2>1. Setting(w).via = "-" /\ Setting(w).what = w
    BY DEF Setting, Effect
  <2>2. "-" # "tunnel"
    OBVIOUS
  <2> QED BY <2>1, <2>2, PinsFacts DEF Inner, IsRoute
<1>3. ASSUME NEW d
      PROVE  /\ Inner(TunnelRoute(d)) /\ TunnelRoute(d) # ServerPin /\ IsRoute(TunnelRoute(d))
             /\ TunnelRoute(d).dest = d /\ TunnelRoute(d).what = "route"
  <2>1. TunnelRoute(d).what = "route" /\ TunnelRoute(d).dest = d /\ TunnelRoute(d).via = "tunnel"
    BY DEF TunnelRoute, Effect
  <2> QED BY <2>1, PinsFacts DEF Inner, IsRoute
<1>4. /\ ~Inner(GatewayPin) /\ ~Inner(ServerPin) /\ IsRoute(GatewayPin) /\ IsRoute(ServerPin)
      /\ GatewayPin.what = "route" /\ ServerPin.what = "route"
  BY PinsFacts DEF Inner, IsRoute
<1> QED BY <1>2, <1>3, <1>4

\* What the steps need to know of a command.
LEMMA CommandFacts ==
  ASSUME NEW c \in Confs, NEW i \in 1..Len(Script(c)), NEW e, e = Script(c)[i].effect
  PROVE  /\ Script(c)[i].undone \in BOOLEAN /\ i \in Nat /\ HeadLen(c) \in Nat
         /\ e.what # "stale rule" /\ (e = Setting("rule") => Script(c)[i].undone)
         /\ (e.what = "rule" => e = Setting("rule"))
         /\ (Inner(e) => i > HeadLen(c) + 3 /\ Script(c)[i].undone)
         /\ (e = ServerPin => i <= HeadLen(c) + 3)
         /\ (e.what \notin Nothing => \/ Script(c)[i].undone \/ e \in Settings
                                      \/ e = Setting("resolvers") /\ i < HeadLen(c))
         /\ (e = Setting("resolvers") => c.dns # <<>>)
         /\ (i = HeadLen(c) /\ c.dns # <<>> => e.what = "flush")
         /\ (e.what = "clear rule" => i < HeadLen(c))
<1> DEFINE u == Script(c)[i].undone
<1>1. /\ Kind(c, i, e, u) /\ u \in BOOLEAN
      /\ i = HeadLen(c) /\ c.dns # <<>> => e = Setting("flush")
  BY CommandKinds
<1>2. HeadLen(c) \in Nat /\ i \in Nat
  BY ScriptParts
<1> DEFINE Goal(x) ==
         /\ e.what # "stale rule" /\ (e = Setting("rule") => u) /\ (e.what = "rule" => e = Setting("rule"))
         /\ (Inner(e) => i > HeadLen(c) + 3 /\ u)
         /\ (e = ServerPin => i <= HeadLen(c) + 3)
         /\ (e.what \notin Nothing => u \/ e \in Settings \/ (e = Setting("resolvers") /\ i < HeadLen(c)))
         /\ (e = Setting("resolvers") => c.dns # <<>>)
         /\ (e.what = "clear rule" => i < HeadLen(c))
<1> HIDE DEF u
<1>4. ASSUME e \in {Setting("address"), Setting("mtu")}, ~u PROVE Goal(0)
  <2>1. e.what \in {"address", "mtu"} /\ ~Inner(e) /\ e # ServerPin /\ e \in Settings
    BY <1>4, Apart DEF Settings
  <2>2. e # Setting("rule") /\ e # Setting("resolvers")
    BY <2>1, Apart
  <2> QED BY <2>1, <2>2
<1>5. ASSUME e \in {Setting("metric4"), Setting("metric6")}, u PROVE Goal(0)
  <2>1. e.what \in {"metric4", "metric6"} /\ ~Inner(e) /\ e # ServerPin
    BY <1>5, Apart
  <2>2. e # Setting("rule") /\ e # Setting("resolvers")
    BY <2>1, Apart
  <2> QED BY <1>5, <2>1, <2>2
<1>6. ASSUME e \in {Setting("resolvers"), Setting("clear rule")}, ~u, i < HeadLen(c), c.dns # <<>> PROVE Goal(0)
  <2>1. e.what \in {"resolvers", "clear rule"} /\ ~Inner(e) /\ e # ServerPin
    BY <1>6, Apart
  <2>2. e # Setting("rule") /\ (e = Setting("resolvers") \/ e.what \in Nothing)
    BY <1>6, <2>1, Apart DEF Nothing
  <2> QED BY <1>6, <2>1, <2>2
<1>7. ASSUME e = Setting("rule"), u PROVE Goal(0)
  <2>1. e.what = "rule" /\ ~Inner(e) /\ e # ServerPin
    BY <1>7, Apart
  <2>2. e # Setting("resolvers")
    BY <2>1, Apart
  <2> QED BY <1>7, <2>1, <2>2
<1>8. ASSUME e \in {Setting("flush"), Setting("print")}, ~u PROVE Goal(0)
  <2>1. e.what \in {"flush", "print"} /\ ~Inner(e) /\ e # ServerPin
    BY <1>8, Apart
  <2>2. e # Setting("rule") /\ e # Setting("resolvers")
    BY <2>1, Apart
  <2>3. e.what \in Nothing
    BY <2>1 DEF Nothing
  <2> QED BY <2>1, <2>2, <2>3
<1>9. ASSUME e \in {GatewayPin, ServerPin}, u, i <= HeadLen(c) + 3 PROVE Goal(0)
  <2>1. e.what = "route" /\ ~Inner(e)
    BY <1>9, Apart
  <2>2. e # Setting("rule") /\ e # Setting("resolvers")
    BY <2>1, Apart
  <2> QED BY <1>9, <2>1, <2>2
<1>10. ASSUME NEW d \in Swallowed(c), e = TunnelRoute(d), u, i > HeadLen(c) + 3 PROVE Goal(0)
  <2>1. e.what = "route" /\ e # ServerPin
    BY <1>10, Apart
  <2>2. e # Setting("rule") /\ e # Setting("resolvers")
    BY <2>1, Apart
  <2> QED BY <1>10, <2>1, <2>2
<1>11. Goal(0)
  <2> HIDE DEF Goal
  <2> QED BY <1>1, <1>4, <1>5, <1>6, <1>7, <1>8, <1>9, <1>10 DEF Kind
<1>12. i = HeadLen(c) /\ c.dns # <<>> => e.what = "flush"
  BY <1>1, Apart
<1> QED BY <1>1, <1>2, <1>11, <1>12 DEF u

\* What an earlier process has left.
LEMMA LeftoverFacts ==
  /\ \A e \in Leftovers : ~Inner(e)
  /\ Setting("resolvers") \notin Leftovers
<1>1. Leftovers = {Setting("stale rule"), GatewayPin, ServerPin}
  BY DEF Leftovers, GatewayPin, ServerPin
<1> QED BY <1>1, Apart

\* At first there is nothing but that.
LEMMA InitAInv == AdapterInit => AInv
<1> SUFFICES ASSUME AdapterInit PROVE AInv
  OBVIOUS
<1>1. /\ conf \in Confs /\ phase = "opening" /\ at = 1 /\ undo = <<>> /\ dns = FALSE
      /\ inPlace \subseteq Leftovers /\ before = inPlace /\ kept = {}
  BY DEF AdapterInit
<1>2. Len(Script(conf)) \in Nat /\ 1..(at - 1) = {} /\ DOMAIN undo = {} /\ undo \in Seq(Effs(conf))
  <2>1. Script(conf) \in Seq(Commands(conf))
    BY <1>1, ScriptParts
  <2>2. Len(Script(conf)) \in Nat
    BY <2>1
  <2>3. DOMAIN <<>> = {} /\ <<>> \in Seq(Effs(conf)) /\ 1..(1 - 1) = {}
    OBVIOUS
  <2> QED BY <1>1, <2>2, <2>3
<1>3. AdapterTypeOK
  <2>1. \A n \in Nat : 1 \in 1..(n + 1)
    OBVIOUS
  <2>2. at \in 1..(Len(Script(conf)) + 1)
    BY <1>1, <1>2, <2>1
  <2> QED BY <1>1, <1>2, <2>2 DEF AdapterTypeOK
<1>4. Known /\ UndoesDone /\ Applied /\ Finished /\ Restorable
  BY <1>1, <1>2 DEF Known, UndoesDone, Applied, Finished, Restorable
<1>5. RuleRemembered /\ RoutesRemembered /\ PinBelow /\ PinHeld
  BY <1>1, <1>2, LeftoverFacts DEF RuleRemembered, RoutesRemembered, PinBelow, PinHeld, Range
<1> QED BY <1>3, <1>4, <1>5 DEF AInv

-----------------------------------------------------------------------------

\* A command that works.
LEMMA WorksKeeps == ASSUME AInv, CommandWorks PROVE AInv'
<1> DEFINE c == conf
           e == Script(conf)[at].effect
           u == Script(conf)[at].undone
           h == HeadLen(conf)
<1>1. /\ conf \in Confs /\ conf' = conf /\ phase = "opening" /\ phase' = "opening" /\ at' = at + 1
      /\ before' = before /\ kept' = kept /\ undo \in Seq(Effs(conf)) /\ dns \in BOOLEAN
      /\ dns' = (dns \/ e.what = "flush")
      /\ undo' = IF u THEN Append(undo, e) ELSE undo
  BY DEF AInv, AdapterTypeOK, CommandWorks, Command
<1>2. Len(Script(conf)) \in Nat /\ at \in 1..Len(Script(conf)) /\ at \in Nat
  <2>1. Script(conf) \in Seq(Commands(conf))
    BY <1>1, ScriptParts
  <2>2. Len(Script(conf)) \in Nat
    BY <2>1
  <2>3. at \in 1..(Len(Script(conf)) + 1) /\ at <= Len(Script(conf))
    BY DEF AInv, AdapterTypeOK, CommandWorks
  <2>4. \A n \in Nat : \A k \in 1..(n + 1) : k \in Nat /\ (k <= n => k \in 1..n)
    OBVIOUS
  <2> QED BY <2>2, <2>3, <2>4
<1>3. e \in Effs(conf)
  BY <1>2 DEF Effs
<1>4. /\ u \in BOOLEAN /\ h \in Nat
      /\ e.what # "stale rule" /\ (e = Setting("rule") => u) /\ (e.what = "rule" => e = Setting("rule"))
      /\ (Inner(e) => at > h + 3 /\ u)
      /\ (e = ServerPin => at <= h + 3)
      /\ (e.what \notin Nothing => u \/ e \in Settings \/ (e = Setting("resolvers") /\ at < h))
      /\ (e = Setting("resolvers") => conf.dns # <<>>)
      /\ (at = h /\ conf.dns # <<>> => e.what = "flush")
  BY <1>1, <1>2, CommandFacts
<1>5. /\ inPlace' \subseteq inPlace \cup (IF e.what \in Nothing THEN {} ELSE {e})
      /\ inPlace \ Rules \subseteq inPlace'
      /\ e.what \notin Nothing => e \in inPlace'
  <2>1. inPlace' = CASE e.what = "clear rule" -> inPlace \ Rules
                  [] e.what \in Nothing \ {"clear rule"} -> inPlace
                  [] OTHER -> inPlace \cup {e}
    BY DEF CommandWorks, Command
  <2>2. CASE e.what = "clear rule"
    <3>1. inPlace' = inPlace \ Rules
      BY <2>1, <2>2
    <3> QED BY <2>2, <3>1 DEF Nothing
  <2>3. CASE e.what \in Nothing \ {"clear rule"}
    <3>1. inPlace' = inPlace
      BY <2>1, <2>3
    <3> QED BY <2>3, <3>1
  <2>4. CASE e.what \notin Nothing
    <3>1. e.what # "clear rule" /\ inPlace' = inPlace \cup {e}
      BY <2>1, <2>4 DEF Nothing
    <3> QED BY <2>4, <3>1
  <2> QED BY <2>2, <2>3, <2>4
<1>6. /\ undo' \in Seq(Effs(conf)) /\ Range(undo') = Range(undo) \cup (IF u THEN {e} ELSE {})
      /\ Len(undo) \in Nat /\ DOMAIN undo = 1..Len(undo)
      /\ DOMAIN undo' = 1..(Len(undo) + (IF u THEN 1 ELSE 0))
      /\ \A j \in 1..Len(undo) : undo'[j] = undo[j]
      /\ u => undo'[Len(undo) + 1] = e
  <2> HIDE DEF e, u
  <2>1. CASE u
    <3>1. undo' = Append(undo, e)
      BY <1>1, <2>1
    <3> QED BY <1>1, <1>3, <2>1, <3>1, AppendFacts
  <2>2. CASE ~u
    <3>1. undo' = undo /\ DOMAIN undo = 1..Len(undo) /\ Len(undo) \in Nat
      BY <1>1, <2>2
    <3> QED BY <1>1, <2>2, <3>1
  <2> QED BY <2>1, <2>2
<1>nat. at \in Nat /\ h \in Nat
  BY <1>2, <1>4
<1> HIDE DEF e, u, h
<1>7. \A i \in 1..at : i \in 1..Len(Script(conf)) /\ (i \in 1..(at - 1) \/ i = at)
  BY <1>2
<1>8. \A j \in DOMAIN undo' : \/ j \in DOMAIN undo /\ undo'[j] = undo[j]
                              \/ j = Len(undo) + 1 /\ u /\ undo'[j] = e
  <2> SUFFICES ASSUME NEW j \in DOMAIN undo'
               PROVE  \/ j \in DOMAIN undo /\ undo'[j] = undo[j]
                      \/ j = Len(undo) + 1 /\ u /\ undo'[j] = e
    OBVIOUS
  <2>1. CASE u
    <3>1. j \in 1..(Len(undo) + 1)
      BY <1>6, <2>1
    <3>2. j \in 1..Len(undo) \/ j = Len(undo) + 1
      BY <1>6, <3>1
    <3> QED BY <1>6, <2>1, <3>2
  <2>2. CASE ~u
    <3>1. j \in 1..Len(undo)
      BY <1>6, <2>2
    <3> QED BY <1>6, <3>1
  <2> QED BY <2>1, <2>2
<1>9. AdapterTypeOK'
  BY <1>1, <1>2, <1>6 DEF AdapterTypeOK
<1>10. Known'
  BY <1>1, <1>3, <1>5 DEF AInv, Known
<1>11. UndoesDone'
  <2> SUFFICES ASSUME NEW j \in DOMAIN undo' PROVE \E i \in 1..at : Script(conf)[i].effect = undo'[j]
    BY <1>1, <1>2 DEF UndoesDone
  <2>1. CASE j \in DOMAIN undo /\ undo'[j] = undo[j]
    <3>1. PICK i \in 1..(at - 1) : Script(conf)[i].effect = undo[j]
      BY <2>1 DEF AInv, UndoesDone
    <3>2. i \in 1..at
      BY <1>2
    <3> QED BY <2>1, <3>1, <3>2
  <2>2. CASE undo'[j] = e
    <3>1. at \in 1..at
      BY <1>2
    <3> QED BY <2>2, <3>1 DEF e
  <2> QED BY <1>8, <2>1, <2>2
<1>12. Applied'
  <2> SUFFICES ASSUME NEW i \in 1..at, Script(conf)[i].effect.what \notin Nothing \cup {"rule"}
               PROVE  Script(conf)[i].effect \in inPlace'
    BY <1>1, <1>2 DEF Applied
  <2>1. CASE i = at
    BY <1>5, <2>1 DEF e
  <2>2. CASE i \in 1..(at - 1)
    <3>1. Script(conf)[i].effect \in inPlace
      BY <1>1, <2>2 DEF AInv, Applied
    <3>2. Script(conf)[i].effect.what # "stale rule"
      BY <1>1, <1>7, CommandFacts
    <3>3. \A r \in Rules : r.what = "rule" \/ r.what = "stale rule"
      BY Apart DEF Rules
    <3> QED BY <1>5, <3>1, <3>2, <3>3
  <2> QED BY <1>7, <2>1, <2>2
<1>13. Finished'
  BY <1>1 DEF Finished
<1>14. Restorable'
  <2> SUFFICES ASSUME NEW x \in inPlace'
               PROVE  x \in before \cup kept \cup Range(undo') \cup Settings \cup Resolvers'
    BY <1>1 DEF Restorable
  <2>1. Resolving <=> at <= h
    BY DEF Resolving, h, HeadLen
  <2>2. Resolving' <=> at + 1 <= h
    BY <1>1 DEF Resolving, h, HeadLen
  <2>3. CASE x = e /\ e.what \notin Nothing
    <3>1. e = Setting("resolvers") /\ at < h => x \in Resolvers'
      <4>1. at < h => at + 1 <= h
        BY <1>nat
      <4> QED BY <2>2, <2>3, <4>1 DEF Resolvers
    <3> QED BY <1>4, <1>6, <2>3, <3>1
  <2>4. CASE x \in before \cup kept \cup Range(undo) \cup Settings
    BY <1>6, <2>4
  <2>5. CASE x \in Resolvers /\ x \in inPlace
    <3>1. x = Setting("resolvers") /\ (dns \/ at <= h)
      BY <2>1, <2>5 DEF Resolvers
    <3>2. conf.dns # <<>>
      <4>1. x \in Effs(conf)
        BY <2>5, <3>1, LeftoverFacts DEF AInv, Known
      <4>2. PICK i \in 1..Len(Script(conf)) : x = Script(conf)[i].effect
        BY <4>1 DEF Effs
      <4> QED BY <1>1, <3>1, <4>2, CommandFacts
    <3>3. at <= h => at + 1 <= h \/ e.what = "flush"
      <4>1. at <= h => at + 1 <= h \/ at = h
        BY <1>nat
      <4> QED BY <1>4, <3>2, <4>1
    <3>4. dns' \/ Resolving'
      BY <1>1, <2>2, <3>1, <3>3
    <3> QED BY <3>1, <3>4 DEF Resolvers
  <2>6. x \in inPlace \/ (x = e /\ e.what \notin Nothing)
    BY <1>5
  <2> QED BY <2>3, <2>4, <2>5, <2>6 DEF AInv, Restorable
<1>15. RuleRemembered'
  <2> SUFFICES ASSUME kept = {}, NEW i \in 1..at, Script(conf)[i].effect = Setting("rule")
               PROVE  Setting("rule") \in Range(undo') \/ inPlace' \cap Rules = {}
    BY <1>1, <1>2 DEF RuleRemembered
  <2>1. CASE e = Setting("rule")
    BY <1>4, <1>6, <2>1
  <2>2. CASE e # Setting("rule")
    <3>1. i \in 1..(at - 1)
      BY <1>7, <2>2 DEF e
    <3>2. Setting("rule") \in Range(undo) \/ inPlace \cap Rules = {}
      BY <3>1 DEF AInv, RuleRemembered
    <3>3. e \notin Rules
      BY <1>4, <2>2, Apart DEF Rules
    <3> QED BY <1>5, <1>6, <3>2, <3>3
  <2> QED BY <2>1, <2>2
<1>16. RoutesRemembered'
  BY <1>1, <1>4, <1>5, <1>6 DEF AInv, RoutesRemembered
<1>17. PinBelow'
  <2> SUFFICES ASSUME NEW i \in DOMAIN undo', NEW j \in DOMAIN undo', i < j, undo'[j] = ServerPin
               PROVE  ~Inner(undo'[i])
    BY DEF PinBelow
  <2>1. CASE j \in DOMAIN undo /\ undo'[j] = undo[j]
    <3>1. i \in DOMAIN undo /\ undo'[i] = undo[i]
      <4>1. i \in Nat /\ j \in Nat /\ i >= 1 /\ j <= Len(undo)
        BY <1>6, <1>8, <2>1
      <4>2. i \in 1..Len(undo)
        BY <1>6, <4>1
      <4> QED BY <1>6, <4>2
    <3> QED BY <2>1, <3>1 DEF AInv, PinBelow
  <2>2. CASE j = Len(undo) + 1 /\ undo'[j] = e
    <3>1. at <= h + 3
      BY <1>4, <2>2
    <3>2. i \in DOMAIN undo /\ undo'[i] = undo[i]
      <4>1. i # Len(undo) + 1
        BY <1>6, <2>2
      <4> QED BY <1>8, <4>1
    <3>3. PICK k \in 1..(at - 1) : Script(conf)[k].effect = undo[i]
      BY <3>2 DEF AInv, UndoesDone
    <3>4. k \in 1..Len(Script(conf)) /\ k < h + 3 /\ k \in Nat
      <4>1. k \in Nat /\ k < at /\ k \in 1..at
        BY <1>nat, <3>3
      <4> QED BY <1>7, <1>nat, <3>1, <4>1
    <3>5. Inner(Script(conf)[k].effect) => k > h + 3
      BY <1>1, <3>4, CommandFacts DEF h
    <3>6. ~(k > h + 3)
      BY <1>nat, <3>4
    <3> QED BY <3>2, <3>3, <3>5, <3>6
  <2> QED BY <1>8, <2>1, <2>2
<1>18. PinHeld'
  <2> SUFFICES ASSUME NEW x \in Range(undo'), Inner(x) PROVE ServerPin \in inPlace'
    BY DEF PinHeld
  <2>1. ServerPin \in inPlace
    <3>1. CASE x \in Range(undo)
      BY <3>1 DEF AInv, PinHeld
    <3>2. CASE x = e
      <4>1. at > h + 3 /\ h + 3 \in Nat
        <5>1. Inner(e)
          BY <3>2
        <5>2. at > h + 3
          BY <1>4, <5>1
        <5> QED BY <1>nat, <5>2
      <4>2. h + 3 \in 1..(at - 1) /\ Script(conf)[h + 3].effect = ServerPin
        <5>1. h + 3 \in 1..Len(Script(conf)) /\ Script(conf)[h + 3].effect = ServerPin
          BY <1>1, ScriptPlaces DEF h
        <5>2. h + 3 \in 1..(at - 1)
          BY <1>nat, <4>1
        <5> QED BY <5>1, <5>2
      <4>3. ServerPin.what \notin Nothing \cup {"rule"}
        BY Apart DEF Nothing
      <4> QED BY <1>1, <4>2, <4>3 DEF AInv, Applied
    <3> QED BY <1>6, <3>1, <3>2
  <2>2. ServerPin \notin Rules
    BY Apart DEF Rules
  <2> QED BY <1>5, <2>1, <2>2
<1> QED BY <1>9, <1>10, <1>11, <1>12, <1>13, <1>14, <1>15, <1>16, <1>17, <1>18 DEF AInv

\* One that fails: clearing the rule is passed over, any other ends open.
LEMMA FailsKeeps == ASSUME AInv, CommandFails PROVE AInv'
<1> DEFINE e == Script(conf)[at].effect
           h == HeadLen(conf)
<1>1. /\ conf \in Confs /\ conf' = conf /\ phase = "opening" /\ at \in 1..(Len(Script(conf)) + 1)
      /\ at <= Len(Script(conf)) /\ undo' = undo /\ dns' = dns /\ inPlace' = inPlace
      /\ before' = before /\ kept' = kept
  BY DEF AInv, AdapterTypeOK, CommandFails
<1>2. Len(Script(conf)) \in Nat /\ at \in 1..Len(Script(conf)) /\ at \in Nat
  <2>1. Script(conf) \in Seq(Commands(conf))
    BY <1>1, ScriptParts
  <2>2. Len(Script(conf)) \in Nat
    BY <2>1
  <2>4. \A n \in Nat : \A k \in 1..(n + 1) : k \in Nat /\ (k <= n => k \in 1..n)
    OBVIOUS
  <2> QED BY <1>1, <2>2, <2>4
<1>3. CASE e.what = "clear rule"
  <2>1. at' = at + 1 /\ phase' = "opening"
    BY <1>1, <1>3 DEF CommandFails, Command
  <2>2. h \in Nat /\ at < h /\ e # Setting("rule")
    <3>1. h \in Nat /\ at < h
      BY <1>1, <1>2, <1>3, CommandFacts
    <3> QED BY <1>3, <3>1, Apart
  <2> HIDE DEF e, h
  <2>3. AdapterTypeOK' /\ Known' /\ Finished' /\ RoutesRemembered' /\ PinBelow' /\ PinHeld'
    <3>1. at + 1 \in 1..(Len(Script(conf)) + 1)
      BY <1>2
    <3> QED BY <1>1, <2>1, <3>1
        DEF AInv, AdapterTypeOK, Known, Finished, RoutesRemembered, PinBelow, PinHeld
  <2>4. \A i \in 1..at : i \in 1..(at - 1) \/ i = at
    BY <1>2
  <2>5. \A i \in 1..(at - 1) : i \in 1..at
    BY <1>2
  <2>6. UndoesDone'
    <3>1. at' - 1 = at
      BY <1>2, <2>1
    <3> QED BY <1>1, <2>5, <3>1 DEF AInv, UndoesDone
  <2>7. Applied'
    <3>1. at' - 1 = at
      BY <1>2, <2>1
    <3>2. Script(conf)[at].effect.what \in Nothing
      BY <1>3 DEF e, Nothing
    <3> QED BY <1>1, <2>4, <3>1, <3>2 DEF AInv, Applied
  <2>8. RuleRemembered'
    <3>1. at' - 1 = at
      BY <1>2, <2>1
    <3> QED BY <1>1, <2>2, <2>4, <3>1 DEF AInv, RuleRemembered, e
  <2>9. Restorable'
    <3>1. Resolving <=> at <= h
      BY DEF Resolving, h, HeadLen
    <3>2. Resolving' <=> at + 1 <= h
      BY <1>1, <2>1 DEF Resolving, h, HeadLen
    <3>3. Resolving' /\ Resolving
      <4>1. at <= h /\ at + 1 <= h
        BY <1>2, <2>2
      <4> QED BY <3>1, <3>2, <4>1
    <3> QED BY <1>1, <3>3 DEF AInv, Restorable, Resolvers
  <2> QED BY <2>3, <2>6, <2>7, <2>8, <2>9 DEF AInv
<1>4. CASE e.what # "clear rule"
  <2>1. phase' = "dropping" /\ at' = at
    BY <1>4 DEF CommandFails, Command
  <2> QED BY <1>1, <2>1
    DEF AInv, AdapterTypeOK, Known, UndoesDone, Applied, Finished, Restorable, Resolvers, Resolving,
        RuleRemembered, RoutesRemembered, PinBelow, PinHeld
<1> QED BY <1>3, <1>4

\* Open has run all commands.
LEMMA OpenedKeeps == ASSUME AInv, Opened PROVE AInv'
<1>1. /\ phase = "opening" /\ phase' = "open" /\ at > Len(Script(conf))
      /\ UNCHANGED <<conf, at, undo, dns, inPlace, before, kept>>
  BY DEF Opened
<1> QED BY <1>1
  DEF AInv, AdapterTypeOK, Known, UndoesDone, Applied, Finished, Restorable, Resolvers, Resolving,
      RuleRemembered, RoutesRemembered, PinBelow, PinHeld

\* The adapter is dropped.
LEMMA DroppedKeeps == ASSUME AInv, Dropped PROVE AInv'
<1>1. /\ phase' = "dropping" /\ UNCHANGED <<conf, at, undo, dns, inPlace, before, kept>>
  BY DEF Dropped
<1> QED BY <1>1
  DEF AInv, AdapterTypeOK, Known, UndoesDone, Applied, Finished, Restorable, Resolvers, Resolving,
      RuleRemembered, RoutesRemembered, PinBelow, PinHeld

\* All is undone.
LEMMA ShutDownKeeps == ASSUME AInv, ShutDown PROVE AInv'
<1>1. /\ phase' = "closed" /\ undo = <<>> /\ ~dns /\ UNCHANGED <<conf, at, undo, dns, inPlace, before, kept>>
  BY DEF ShutDown
<1> QED BY <1>1
  DEF AInv, AdapterTypeOK, Known, UndoesDone, Applied, Finished, Restorable, Resolvers, Resolving,
      RuleRemembered, RoutesRemembered, PinBelow, PinHeld

\* Nothing happens to the adapter.
LEMMA RestKeeps == ASSUME AInv, UNCHANGED adapterVars PROVE AInv'
<1>1. UNCHANGED <<conf, phase, at, undo, dns, inPlace, before, kept>>
  BY DEF adapterVars
<1> QED BY <1>1
  DEF AInv, AdapterTypeOK, Known, UndoesDone, Applied, Finished, Restorable, Resolvers, Resolving,
      RuleRemembered, RoutesRemembered, PinBelow, PinHeld

\* The adapter goes away.
LEMMA ReleasedKeeps == ASSUME AInv, phase = "closed", Released PROVE AInv'
<1>1. /\ inPlace' \subseteq inPlace /\ UNCHANGED <<conf, phase, at, undo, dns, before, kept>>
  BY DEF Released
<1>2. undo = <<>> /\ Range(undo) = {} /\ Range(undo') = {}
  <2>1. undo = <<>> /\ DOMAIN <<>> = {}
    BY DEF AInv, Finished
  <2> QED BY <1>1, <2>1 DEF Range
<1>3. AdapterTypeOK' /\ Known' /\ UndoesDone' /\ Applied' /\ Finished'
  BY <1>1 DEF AInv, AdapterTypeOK, Known, UndoesDone, Applied, Finished
<1>4. Restorable' /\ RuleRemembered' /\ RoutesRemembered' /\ PinBelow' /\ PinHeld'
  BY <1>1, <1>2
  DEF AInv, Restorable, Resolvers, Resolving, RuleRemembered, RoutesRemembered, PinBelow, PinHeld
<1> QED BY <1>3, <1>4 DEF AInv

\* The resolvers are reset, or are not.
LEMMA ResetDnsKeeps == ASSUME AInv, ResetDns PROVE AInv'
<1> DEFINE e == Setting("resolvers")
<1>1. /\ phase = "dropping" /\ undo = <<>> /\ dns' = FALSE
      /\ UNCHANGED <<conf, phase, at, undo, before>>
      /\ \/ inPlace' = inPlace \ {e} /\ kept' = kept
         \/ kept' = kept \cup {e} /\ inPlace' = inPlace
  BY DEF ResetDns
<1>2. Range(undo) = {} /\ Range(undo') = {}
  <2>1. DOMAIN <<>> = {}
    OBVIOUS
  <2> QED BY <1>1, <2>1 DEF Range
<1> HIDE DEF e
<1>3. kept' = {} => kept = {} /\ inPlace' \subseteq inPlace
  BY <1>1
<1>4. AdapterTypeOK' /\ Known' /\ UndoesDone' /\ Applied' /\ Finished'
  BY <1>1 DEF AInv, AdapterTypeOK, Known, UndoesDone, Applied, Finished
<1>5. RuleRemembered' /\ RoutesRemembered' /\ PinBelow' /\ PinHeld'
  BY <1>1, <1>2, <1>3 DEF AInv, RuleRemembered, RoutesRemembered, PinBelow, PinHeld
<1>6. Restorable'
  <2>1. inPlace' \subseteq before \cup kept' \cup Settings
    BY <1>1, <1>2 DEF AInv, Restorable, Resolvers, e
  <2> QED BY <1>1, <2>1 DEF Restorable
<1> QED BY <1>4, <1>5, <1>6 DEF AInv

\* The last effect on the list is undone, or is not.  If it was the pin, no
\* route into the tunnel is below it.
LEMMA UndoLastKeeps == ASSUME AInv, UndoLast PROVE AInv'
<1> DEFINE e == Last(undo)
           rest == Front(undo)
<1>1. /\ phase = "dropping" /\ undo # <<>> /\ undo' = rest /\ undo \in Seq(Effs(conf))
      /\ UNCHANGED <<conf, phase, at, dns, before>>
      /\ \/ inPlace' = Undone(inPlace, e) /\ kept' = kept
         \/ kept' = kept \cup {e} /\ inPlace' = inPlace
  BY DEF UndoLast, Undoing, AInv, AdapterTypeOK
<1>2. /\ rest \in Seq(Effs(conf)) /\ Range(undo) = Range(rest) \cup {e}
      /\ Len(undo) \in Nat \ {0} /\ DOMAIN undo = 1..Len(undo) /\ DOMAIN rest = 1..(Len(undo) - 1)
      /\ e = undo[Len(undo)] /\ \A i \in 1..(Len(undo) - 1) : rest[i] = undo[i]
  BY <1>1, FrontFacts
<1>3. DOMAIN rest \subseteq DOMAIN undo /\ Len(undo) \in DOMAIN undo
      /\ \A i \in DOMAIN rest : i < Len(undo) /\ rest[i] = undo[i]
  <2>1. \A n \in Nat \ {0} : n \in 1..n /\ \A i \in 1..(n - 1) : i \in 1..n /\ i < n
    OBVIOUS
  <2> QED BY <1>2, <2>1
<1> HIDE DEF e, rest
<1>4. inPlace' \subseteq inPlace /\ (inPlace' = inPlace \/ inPlace \ inPlace' \subseteq {e} \cup Rules)
  BY <1>1 DEF Undone
<1>5. kept' = {} => kept = {} /\ inPlace' = Undone(inPlace, e)
  BY <1>1
<1>6. inPlace' \subseteq inPlace \ {e} \/ (e \in kept' /\ kept \subseteq kept')
  BY <1>1 DEF Undone, Rules
<1>7. AdapterTypeOK' /\ Known' /\ Applied' /\ Finished'
  BY <1>1, <1>2, <1>4 DEF AInv, AdapterTypeOK, Known, Applied, Finished
<1>8. UndoesDone'
  BY <1>1, <1>3 DEF AInv, UndoesDone
<1>9. Restorable'
  <2>1. inPlace \subseteq before \cup kept \cup Range(undo) \cup Settings \cup Resolvers
    BY DEF AInv, Restorable
  <2>2. Resolvers' = Resolvers
    BY <1>1 DEF Resolvers, Resolving
  <2>3. kept \subseteq kept'
    BY <1>1
  <2> QED BY <1>1, <1>2, <1>4, <1>6, <2>1, <2>2, <2>3 DEF Restorable
<1>10. RuleRemembered'
  <2> SUFFICES ASSUME kept' = {}, NEW i \in 1..(at - 1), Script(conf)[i].effect = Setting("rule")
               PROVE  Setting("rule") \in Range(undo') \/ inPlace' \cap Rules = {}
    BY <1>1 DEF RuleRemembered
  <2>1. Setting("rule") \in Range(undo) \/ inPlace \cap Rules = {}
    BY <1>5 DEF AInv, RuleRemembered
  <2>2. e = Setting("rule") => inPlace' = inPlace \ Rules
    BY <1>5 DEF Undone
  <2> QED BY <1>1, <1>2, <1>4, <2>1, <2>2
<1>11. RoutesRemembered'
  <2> SUFFICES ASSUME kept' = {}, NEW x \in inPlace', Inner(x) PROVE x \in Range(undo')
    BY DEF RoutesRemembered
  <2>1. x \in Range(undo)
    BY <1>4, <1>5 DEF AInv, RoutesRemembered
  <2>2. x # e
    BY <1>5 DEF Undone, Rules
  <2> QED BY <1>1, <1>2, <2>1, <2>2
<1>12. PinBelow'
  BY <1>1, <1>3 DEF AInv, PinBelow
<1>13. PinHeld'
  <2> SUFFICES ASSUME NEW x \in Range(undo'), Inner(x) PROVE ServerPin \in inPlace'
    BY DEF PinHeld
  <2>1. ServerPin \in inPlace
    BY <1>1, <1>2 DEF AInv, PinHeld
  <2>2. e # ServerPin
    <3>1. PICK i \in DOMAIN rest : x = rest[i]
      BY <1>1 DEF Range
    <3>2. Inner(undo[i]) /\ i < Len(undo) /\ i \in DOMAIN undo
      BY <1>3, <3>1
    <3> QED BY <1>2, <1>3, <3>2 DEF AInv, PinBelow
  <2>3. ServerPin \notin Rules
    BY Apart DEF Rules
  <2> QED BY <1>4, <2>1, <2>2, <2>3
<1> QED BY <1>7, <1>8, <1>9, <1>10, <1>11, <1>12, <1>13 DEF AInv

-----------------------------------------------------------------------------
(* Every step of the engine is a step of the adapter, or leaves it alone.   *)

\* The steps the threads, the tasks and connect_to take.
Pumps ==
  \/ Connecting \/ CloseBegins \/ (\E t \in Tasks : TaskStops(t))
  \/ Reads \/ Pushes \/ Takes \/ Receives \/ WriterTakes \/ Writes

\* They move nothing of the adapter, nor the kind of endpoint.
LEMMA PumpsIdle == ASSUME Pumps PROVE UNCHANGED <<adapterVars, ws>>
<1>1. ASSUME Connecting PROVE UNCHANGED <<adapterVars, ws>>
  BY <1>1 DEF Connecting, BridgeStarts, Refused, Spawns, SendsFirst, HandshakeDone, TimesOut, CloseEnds, Idle
<1>2. ASSUME CloseBegins \/ \E t \in Tasks : TaskStops(t) PROVE UNCHANGED <<adapterVars, ws>>
  BY <1>2 DEF CloseBegins, TaskStops, Idle
<1>3. ASSUME Reads \/ Pushes \/ Takes \/ Receives \/ WriterTakes \/ Writes PROVE UNCHANGED <<adapterVars, ws>>
  BY <1>3 DEF Reads, Pushes, Takes, Receives, WriterTakes, Writes, Idle
<1> QED BY <1>1, <1>2, <1>3 DEF Pumps

\* Every step keeps what is true of the adapter.
LEMMA NextKeeps == ASSUME AInv, [Next]_vars PROVE AInv'
<1>1. CASE Opening
  BY <1>1, WorksKeeps, FailsKeeps, OpenedKeeps DEF Opening
<1>2. CASE Dropping
  BY <1>2, UndoLastKeeps, ResetDnsKeeps, ShutDownKeeps DEF Dropping
<1>3. CASE DropsAdapter
  BY <1>3, DroppedKeeps DEF DropsAdapter
<1>4. CASE Releases
  BY <1>4, ReleasedKeeps DEF Releases
<1>5. CASE Pumps
  BY <1>5, PumpsIdle, RestKeeps
<1>6. CASE UNCHANGED vars
  BY <1>6, RestKeeps DEF vars
<1> QED BY <1>1, <1>2, <1>3, <1>4, <1>5, <1>6 DEF Next, Pumps

\* What is remembered, in place and to be undone agree, in every state: whatever
\* command fails, and whatever undo.
THEOREM AdapterInvariant == Spec => []AInv
<1>1. Init => AInv
  BY InitAInv DEF Init
<1>2. AInv /\ [Next]_vars => AInv'
  BY NextKeeps
<1> QED BY <1>1, <1>2, PTL DEF Spec

\* "Dropping it restores the system" (lib.rs:348): when an adapter is closed,
\* nothing is left of what open did but what failed to be undone and settings
\* of the adapter itself.
THEOREM SystemIsRestored == Spec => []DropRestores
<1>1. AInv => DropRestores
  <2> SUFFICES ASSUME AInv, phase = "closed"
               PROVE  inPlace \subseteq before \cup kept \cup {Setting("address"), Setting("mtu")}
                        \cup (IF Resolving THEN {Setting("resolvers")} ELSE {})
    BY DEF DropRestores
  <2>1. undo = <<>> /\ ~dns
    BY DEF AInv, Finished
  <2>2. Range(undo) = {}
    <3>1. DOMAIN <<>> = {}
      OBVIOUS
    <3> QED BY <2>1, <3>1 DEF Range
  <2>3. Resolvers = IF Resolving THEN {Setting("resolvers")} ELSE {}
    BY <2>1 DEF Resolvers
  <2> QED BY <2>2, <2>3 DEF AInv, Restorable, Settings
<1> QED BY <1>1, AdapterInvariant, PTL

\* "Drops every NRPT rule we own [...] on the way out" (lib.rs:317): when an
\* adapter that added its rule is closed and no undo failed, there is no rule,
\* not even a stale one.
THEOREM RulesAreGone == Spec => []NoRuleLeft
<1>1. AInv => NoRuleLeft
  <2> SUFFICES ASSUME AInv, phase = "closed", kept = {},
                      \E i \in 1..(at - 1) : Script(conf)[i].effect = Setting("rule")
               PROVE  inPlace \cap Rules = {}
    BY DEF NoRuleLeft
  <2>1. Range(undo) = {}
    <3>1. undo = <<>> /\ DOMAIN <<>> = {}
      BY DEF AInv, Finished
    <3> QED BY <3>1 DEF Range
  <2> QED BY <2>1 DEF AInv, RuleRemembered
<1> QED BY <1>1, AdapterInvariant, PTL

-----------------------------------------------------------------------------
(* Where packets go.  The parts of Chosen, and what the invariant says of   *)
(* them.                                                                    *)
Added == {e \in inPlace : IsRoute(e)}
Own == IF Setting("address") \in inPlace THEN {conf.net} ELSE {}
Inside == Own \cup {e.dest : e \in {a \in Added : a.via = "tunnel"}}
Outside == Physical \cup {e.dest : e \in {a \in Added : a.via # "tunnel"}}
Fit(h) == (Inside \cup Outside) \cap Within[h]
BestFor(h) == {d \in Fit(h) : \A x \in Fit(h) : Rank[x] <= Rank[d]}

\* Chosen, in these terms.
LEMMA ChosenIs ==
  ASSUME NEW h
  PROVE  /\ BestFor(h) \cap Inside = {} => Chosen(h) # "tunnel"
         /\ BestFor(h) \cap Inside # {} /\ Setting("metric4") \in inPlace => Chosen(h) = "tunnel"
<1> DEFINE best == BestFor(h)
<1>1. Chosen(h) = IF best = {} THEN "none"
                  ELSE CASE best \cap Inside = {} -> "link"
                         [] best \cap Outside = {} -> "tunnel"
                         [] OTHER -> IF Setting("metric4") \in inPlace THEN "tunnel" ELSE "link"
  BY DEF Chosen, BestFor, Fit, Inside, Outside, Own, Added
<1>2. best \subseteq Inside \cup Outside
  BY DEF BestFor, Fit
<1> HIDE DEF best
<1>3. CASE best = {}
  BY <1>1, <1>3 DEF best
<1>4. CASE best # {} /\ best \cap Inside = {}
  <2>1. best \cap Outside # {}
    BY <1>2, <1>4
  <2> QED BY <1>1, <1>4, <2>1 DEF best
<1>5. CASE best \cap Inside # {}
  BY <1>1, <1>5 DEF best
<1> QED BY <1>3, <1>4, <1>5

\* A host with a route of its own has that as its best one.
LEMMA HostBest ==
  ASSUME NEW h, Host(h), h \in Inside \cup Outside
  PROVE  BestFor(h) = {h}
<1>1. /\ h \in Within[h] /\ \A d \in Within[h] \ {h} : Rank[d] < Rank[h]
      /\ \A d \in Within[h] : Rank[d] \in Nat
  <2>1. h \in DOMAIN Within /\ h \in Within[h] /\ \A d \in Within[h] \ {h} : Rank[d] < Rank[h]
    BY DEF Host
  <2>2. \A d \in Within[h] : Rank[d] \in 0..128
    BY <2>1, PrefixAssumption
  <2> QED BY <2>1, <2>2
<1>2. h \in Fit(h)
  BY <1>1 DEF Fit
<1>3. \A d \in Fit(h) : Rank[d] <= Rank[h]
  <2>1. \A d \in Fit(h) : d \in Within[h]
    BY DEF Fit
  <2> QED BY <1>1, <2>1
<1>4. \A d \in Fit(h) \ {h} : ~(Rank[h] <= Rank[d])
  <2>1. \A d \in Fit(h) : d \in Within[h]
    BY DEF Fit
  <2> QED BY <1>1, <2>1
<1> QED BY <1>2, <1>3, <1>4 DEF BestFor

\* A route in place is into the tunnel and of a configured destination, or one
\* of the pins.
LEMMA RoutesAre ==
  ASSUME AInv, NEW e \in Added
  PROVE  /\ e.via = "tunnel" => e.dest \in Swallowed(conf)
         /\ e.via # "tunnel" => e.dest \in Pinned
<1>1. e \in inPlace /\ e.what = "route"
  BY DEF Added, IsRoute
<1>2. CASE e \in Leftovers
  <2>1. e \in {Setting("stale rule"), GatewayPin, ServerPin}
    BY <1>2 DEF Leftovers, GatewayPin, ServerPin
  <2>2. e # Setting("stale rule")
    BY <1>1, Apart
  <2> QED BY <2>1, <2>2, PinsFacts DEF Pinned
<1>3. CASE e \in Effs(conf)
  <2>1. PICK i \in 1..Len(Script(conf)) : e = Script(conf)[i].effect
    BY <1>3 DEF Effs
  <2>2. Kind(conf, i, e, Script(conf)[i].undone)
    BY <2>1, CommandKinds DEF AInv, AdapterTypeOK
  <2>3. \A w : e = Setting(w) => w = "route"
    BY <1>1, Apart
  <2>4. CASE e \in {GatewayPin, ServerPin}
    BY <2>4, PinsFacts DEF Pinned
  <2>5. CASE \E d \in Swallowed(conf) : e = TunnelRoute(d)
    <3>1. PICK d \in Swallowed(conf) : e = TunnelRoute(d)
      BY <2>5
    <3>2. e.via = "tunnel" /\ e.dest = d
      BY <3>1, Apart DEF Inner
    <3> QED BY <3>2
  <2> QED BY <2>2, <2>3, <2>4, <2>5 DEF Kind
<1> QED BY <1>1, <1>2, <1>3 DEF AInv, Known

\* "Pin the server to the real default gateway first, so the tunnel routes
\* below cannot swallow it" (lib.rs:397): unless an undo fails, datagrams for
\* the server never go into the tunnel.
THEOREM ServerIsOutside == Spec => []ServerStaysOutside
<1>1. AInv => ServerStaysOutside
  <2> SUFFICES ASSUME AInv, kept = {} PROVE Chosen(Server) # "tunnel"
    BY DEF ServerStaysOutside
  <2>1. conf \in Confs
    BY DEF AInv, AdapterTypeOK
  <2>2. Host(Server) /\ Server \notin Swallowed(conf) /\ conf.net \notin Within[Server]
    BY <2>1, HostAssumption DEF Swallowed
  <2>3. CASE \A a \in Added : a.via # "tunnel"
    <3>1. Inside \subseteq {conf.net}
      BY <2>3 DEF Inside, Own
    <3>2. BestFor(Server) \subseteq Within[Server]
      BY DEF BestFor, Fit
    <3> QED BY <2>2, <3>1, <3>2, ChosenIs
  <2>4. CASE \E a \in Added : a.via = "tunnel"
    <3>1. PICK a \in Added : a.via = "tunnel"
      BY <2>4
    <3>2. a \in inPlace /\ Inner(a)
      BY <3>1 DEF Added, IsRoute, Inner
    <3>3. ServerPin \in inPlace
      <4>1. a \in Range(undo)
        BY <3>2 DEF AInv, RoutesRemembered
      <4> QED BY <3>2, <4>1 DEF AInv, PinHeld
    <3>4. Server \in Outside
      <4>1. ServerPin \in Added /\ ServerPin.via # "tunnel" /\ ServerPin.dest = Server
        BY <3>3, PinsFacts, Apart DEF Added
      <4> QED BY <4>1 DEF Outside
    <3>5. Server \notin Inside
      <4>1. Server \notin Own
        BY <2>2 DEF Own, Host
      <4>2. \A e \in Added : e.via = "tunnel" => e.dest # Server
        BY <2>2, RoutesAre
      <4> QED BY <4>1, <4>2 DEF Inside
    <3>6. BestFor(Server) = {Server}
      BY <2>2, <3>4, HostBest
    <3> QED BY <3>5, <3>6, ChosenIs
  <2> QED BY <2>3, <2>4
<1> QED BY <1>1, AdapterInvariant, PTL

\* Every command has been run on an open adapter: its effects are in place.
LEMMA OpenHas ==
  ASSUME AInv, phase = "open"
  PROVE  /\ Setting("address") \in inPlace /\ Setting("metric4") \in inPlace
         /\ \A d \in Range(conf.dns) : TunnelRoute(d) \in inPlace
         /\ Full(conf) => \A d \in Halves \cup (Lans \ {conf.net}) : TunnelRoute(d) \in inPlace
<1>1. conf \in Confs /\ at > Len(Script(conf)) /\ Len(Script(conf)) \in Nat /\ at \in Int
  <2>1. conf \in Confs /\ at > Len(Script(conf)) /\ at \in 1..(Len(Script(conf)) + 1)
    BY DEF AInv, AdapterTypeOK, Finished
  <2>2. Script(conf) \in Seq(Commands(conf))
    BY <2>1, ScriptParts
  <2>3. Len(Script(conf)) \in Nat
    BY <2>2
  <2> QED BY <2>1, <2>3
<1>2. \A i \in 1..Len(Script(conf)) : i \in 1..(at - 1)
  BY <1>1
<1>3. ASSUME NEW i \in 1..Len(Script(conf)), NEW e, Script(conf)[i].effect = e, e.what \notin Nothing \cup {"rule"}
      PROVE  e \in inPlace
  BY <1>2, <1>3 DEF AInv, Applied
<1>4. /\ Setting("address").what \notin Nothing \cup {"rule"} /\ Setting("metric4").what \notin Nothing \cup {"rule"}
      /\ \A d : TunnelRoute(d).what \notin Nothing \cup {"rule"}
  BY Apart DEF Nothing
<1>5. Setting("address") \in inPlace /\ Setting("metric4") \in inPlace
  <2>1. /\ 1 \in 1..Len(Script(conf)) /\ Script(conf)[1].effect = Setting("address")
        /\ 3 \in 1..Len(Script(conf)) /\ Script(conf)[3].effect = Setting("metric4")
    BY <1>1, ScriptPlaces
  <2> QED BY <1>3, <1>4, <2>1
<1>6. ASSUME NEW d, \E i \in 1..Len(Script(conf)) : Script(conf)[i].effect = TunnelRoute(d)
      PROVE  TunnelRoute(d) \in inPlace
  BY <1>3, <1>4, <1>6
<1>7. \A d \in Range(conf.dns) : TunnelRoute(d) \in inPlace
  BY <1>1, <1>6, ScriptPlaces
<1>8. Full(conf) => \A d \in Halves \cup (Lans \ {conf.net}) : TunnelRoute(d) \in inPlace
  BY <1>1, <1>6, ScriptPlaces
<1> QED BY <1>5, <1>7, <1>8

\* A route into the tunnel that is in place leads there.
LEMMA TunnelRouteIn == \A d : TunnelRoute(d) \in inPlace => d \in Inside
<1> SUFFICES ASSUME NEW d, TunnelRoute(d) \in inPlace PROVE d \in Inside
  OBVIOUS
<1>1. IsRoute(TunnelRoute(d)) /\ TunnelRoute(d).dest = d /\ TunnelRoute(d).via = "tunnel"
  BY Apart DEF Inner
<1> QED BY <1>1 DEF Inside, Added

\* Something that fits fits best.
LEMMA BestExists ==
  ASSUME NEW h \in DOMAIN Within, Fit(h) # {}
  PROVE  BestFor(h) # {}
<1> DEFINE T == {128 - Rank[x] : x \in Fit(h)}
<1>1. \A x \in Fit(h) : Rank[x] \in 0..128
  BY PrefixAssumption DEF Fit
<1>2. T \subseteq Nat /\ T # {}
  BY <1>1
<1>3. PICK n \in T : \A m \in T : n <= m
  <2> HIDE DEF T
  <2> QED BY <1>2, NatMin
<1>4. PICK d \in Fit(h) : n = 128 - Rank[d]
  BY <1>3
<1>5. ASSUME NEW x \in Fit(h) PROVE Rank[x] <= Rank[d]
  <2>1. 128 - Rank[d] <= 128 - Rank[x]
    BY <1>3, <1>4
  <2>2. \A m, k \in 0..128 : 128 - k <= 128 - m => m <= k
    OBVIOUS
  <2> QED BY <1>1, <2>1, <2>2
<1> QED BY <1>5 DEF BestFor

\* "Routing is the killswitch" (README.md:144), as far as the code makes it so:
\* with the tunnel up every resolver is inside it, and a full tunnel takes every
\* host but the gateway, the server and those Elsewhere says, whose best route is
\* more specific than what open takes back.
THEOREM TunnelTakesAll == Spec => []TunnelHolds
<1>1. AInv => TunnelHolds
  <2> SUFFICES ASSUME AInv, phase = "open"
               PROVE  /\ \A i \in DOMAIN conf.dns : Chosen(conf.dns[i]) = "tunnel"
                      /\ Full(conf) => \A h \in DOMAIN Within \ Pinned : ~Elsewhere(h) => Chosen(h) = "tunnel"
    BY DEF TunnelHolds
  <2>1. conf \in Confs
    BY DEF AInv, AdapterTypeOK
  <2>2. ASSUME NEW i \in DOMAIN conf.dns PROVE Chosen(conf.dns[i]) = "tunnel"
    <3> DEFINE r == conf.dns[i]
    <3>1. r \in Range(conf.dns)
      BY DEF Range
    <3> HIDE DEF r
    <3>2. Host(r)
      BY <2>1, <3>1, HostAssumption
    <3>3. r \in Inside /\ Setting("metric4") \in inPlace
      BY <3>1, OpenHas, TunnelRouteIn
    <3>4. BestFor(r) = {r}
      BY <3>2, <3>3, HostBest
    <3>5. Chosen(r) = "tunnel"
      BY <3>3, <3>4, ChosenIs
    <3> QED BY <3>5 DEF r
  <2>3. ASSUME Full(conf), NEW h \in DOMAIN Within \ Pinned, ~Elsewhere(h) PROVE Chosen(h) = "tunnel"
    <3>0. ASSUME NEW t \in TakenBack PROVE t \in Inside
      <4>1. CASE t = conf.net
        BY <4>1, OpenHas DEF Inside, Own
      <4>2. CASE t # conf.net
        BY <2>3, <4>2, OpenHas, TunnelRouteIn DEF TakenBack
      <4> QED BY <4>1, <4>2
    <3>1. PICK half \in Halves : half \in Fit(h)
      <4>1. PICK half \in Halves : half \in Within[h]
        BY PrefixAssumption
      <4>2. half \in Inside
        BY <3>0 DEF TakenBack
      <4> QED BY <4>1, <4>2 DEF Fit
    <3>2. PICK b \in BestFor(h) : TRUE
      BY <3>1, BestExists
    <3>3. /\ b \in Within[h] /\ b \in Inside \cup Outside
          /\ \A x \in Fit(h) : Rank[x] <= Rank[b]
      BY DEF BestFor, Fit
    <3>4. BestFor(h) \cap Inside # {}
      <4>1. CASE b \in Inside
        BY <4>1
      <4>2. CASE b \in Physical /\ b \notin TakenBack
        <5>1. PICK t \in Within[h] \cap TakenBack : ~(Rank[t] < Rank[b])
          BY <2>3, <3>3, <4>2 DEF Elsewhere
        <5>2. t \in Inside /\ t \in Fit(h)
          BY <3>0, <5>1 DEF Fit
        <5>3. /\ Within[h] \subseteq DOMAIN Rank
              /\ \A d \in DOMAIN Rank : Rank[d] \in 0..128
          BY PrefixAssumption
        <5>4. Fit(h) \subseteq Within[h]
          BY DEF Fit
        <5>5. ASSUME NEW x \in Fit(h) PROVE Rank[x] <= Rank[t]
          <6>1. Rank[x] \in 0..128 /\ Rank[t] \in 0..128 /\ Rank[b] \in 0..128
            BY <3>3, <5>1, <5>3, <5>4
          <6>2. Rank[x] <= Rank[b]
            BY <3>3
          <6>3. \A k, m, n \in 0..128 : k <= n /\ ~(m < n) => k <= m
            OBVIOUS
          <6> QED BY <5>1, <6>1, <6>2, <6>3
        <5> QED BY <5>2, <5>5 DEF BestFor
      <4>3. CASE b \in TakenBack
        BY <3>0, <4>3
      <4>4. CASE b \in Outside /\ b \notin Physical
        <5>1. PICK e \in Added : e.via # "tunnel" /\ e.dest = b
          BY <4>4 DEF Outside
        <5>2. b \in Pinned
          BY <5>1, RoutesAre
        <5> QED BY <3>3, <5>2, HostAssumption
      <4> QED BY <3>3, <4>1, <4>2, <4>3, <4>4
    <3>5. Setting("metric4") \in inPlace
      BY OpenHas
    <3> QED BY <3>4, <3>5, ChosenIs
  <2> QED BY <2>2, <2>3
<1> QED BY <1>1, AdapterInvariant, PTL

-----------------------------------------------------------------------------
(* The threads and the tasks.                                              *)

\* At first nothing runs.
LEMMA InitEInv == Init => EInv
<1> SUFFICES ASSUME Init PROVE EInv
  OBVIOUS
<1>1. /\ main = "idle" /\ ws \in BOOLEAN /\ reader = "off" /\ writer = "off"
      /\ tasks = [t \in Tasks |-> "off"] /\ fromTun = 0 /\ toTun = 0
      /\ shutdown = FALSE /\ ioError = FALSE /\ read = 0 /\ written = 0
  BY DEF Init, EngineInit
<1>2. Engaged
  BY <1>1 DEF Engaged
<1>3. Packets
  BY <1>1, EngineAssumption DEF Packets
<1>4. Pumping /\ Quiet
  BY <1>1 DEF Pumping, Quiet
<1> QED BY <1>2, <1>3, <1>4 DEF EInv

\* The adapter's steps that leave the engine alone: none closes an adapter that
\* connect_to uses.
LEMMA AdapterKeepsEngine ==
  ASSUME EInv, UNCHANGED engineVars,
         \/ Opening \/ Dropping \/ DropsAdapter \/ Releases \/ UNCHANGED adapterVars
  PROVE  EInv'
<1>1. UNCHANGED <<main, ws, reader, writer, tasks, fromTun, toTun, shutdown, ioError, read, written>>
  BY DEF engineVars
<1>2. phase = "open" => phase' = "open" \/ main \in {"refused", "timeout", "closed"}
  <2>1. ASSUME Opening PROVE phase # "open"
    BY <2>1 DEF Opening, CommandWorks, CommandFails, Opened
  <2>2. ASSUME Dropping PROVE phase # "open"
    BY <2>2 DEF Dropping, UndoLast, ResetDns, ShutDown
  <2>3. ASSUME DropsAdapter PROVE main \in {"refused", "timeout", "closed"}
    BY <2>3 DEF DropsAdapter
  <2>4. ASSUME Releases PROVE phase # "open"
    BY <2>4 DEF Releases
  <2>5. ASSUME UNCHANGED adapterVars PROVE phase' = phase
    BY <2>5 DEF adapterVars
  <2> QED BY <2>1, <2>2, <2>3, <2>4, <2>5
<1>3. Engaged' /\ Packets'
  BY <1>1 DEF EInv, Engaged, Packets
<1>4. Pumping' /\ Quiet'
  BY <1>1, <1>2 DEF EInv, Pumping, Quiet
<1> QED BY <1>3, <1>4 DEF EInv

\* What connect_to and close do.
LEMMA ConnectingKeeps ==
  ASSUME EInv, Connecting \/ CloseBegins
  PROVE  EInv'
<1>0. UNCHANGED <<phase, ws>>
  BY PumpsIdle DEF Pumps, adapterVars
<1>1. CASE BridgeStarts
  <2>1. /\ main = "idle" /\ phase = "open" /\ main' = "bind"
        /\ tasks' = IF ws THEN [tasks EXCEPT !["bridge"] = "run"] ELSE tasks
        /\ UNCHANGED <<reader, writer, fromTun, toTun, shutdown, ioError, read, written>>
    BY <1>1 DEF BridgeStarts, Idle
  <2>2. \A t \in Tasks : tasks'[t] = IF t = "bridge" /\ ws THEN "run" ELSE "off"
    BY <2>1 DEF EInv, Quiet, Engaged, Tasks
  <2>3. Engaged' /\ Packets'
    BY <1>0, <2>1 DEF EInv, Engaged, Packets, Tasks
  <2>4. Pumping' /\ Quiet'
    BY <1>0, <2>1, <2>2 DEF EInv, Pumping, Quiet
  <2> QED BY <2>3, <2>4 DEF EInv
<1>2. CASE Refused
  <2>1. /\ main' = "refused"
        /\ UNCHANGED <<reader, writer, tasks, fromTun, toTun, shutdown, ioError, read, written>>
    BY <1>2 DEF Refused, Idle
  <2> QED BY <1>0, <2>1 DEF EInv, Engaged, Packets, Pumping, Quiet
<1>3. CASE Spawns
  <2>1. /\ main = "bind" /\ main' = "first" /\ reader' = "recv" /\ writer' = "wait"
        /\ tasks' = [t \in Tasks |-> IF t = "bridge" THEN tasks[t] ELSE "run"]
        /\ UNCHANGED <<fromTun, toTun, shutdown, ioError, read, written>>
    BY <1>3 DEF Spawns, Idle
  <2>2. /\ \A t \in Tasks : tasks'[t] = IF t = "bridge" THEN tasks[t] ELSE "run"
        /\ tasks["bridge"] = (IF ws THEN "run" ELSE "off") /\ "bridge" \in Tasks
    BY <2>1 DEF EInv, Quiet, Tasks
  <2>3. tasks'["bridge"] = (IF ws THEN "run" ELSE "off") /\ tasks'["timers"] = "run"
        /\ tasks'["recv"] = "run" /\ tasks'["send"] = "run"
    BY <2>2 DEF Tasks
  <2>4. Engaged'
    BY <1>0, <2>1 DEF EInv, Engaged, Tasks
  <2>5. Packets'
    BY <2>1 DEF EInv, Packets
  <2>6. Pumping' /\ Quiet'
    BY <1>0, <2>1, <2>3 DEF EInv, Pumping, Quiet
  <2> QED BY <2>4, <2>5, <2>6 DEF EInv
<1>4. CASE SendsFirst \/ HandshakeDone
  <2>1. /\ main \in {"first", "wait"} /\ main' \in {"wait", "up"}
        /\ UNCHANGED <<reader, writer, tasks, fromTun, toTun, shutdown, ioError, read, written>>
    BY <1>4 DEF SendsFirst, HandshakeDone, Idle
  <2> QED BY <1>0, <2>1 DEF EInv, Engaged, Packets, Pumping, Quiet
<1>5. CASE TimesOut \/ CloseBegins
  <2>1. /\ main' \in {"timeout", "closing"} /\ shutdown' = TRUE /\ tasks' = Aborted
        /\ UNCHANGED <<reader, writer, fromTun, toTun, ioError, read, written>>
    BY <1>5 DEF TimesOut, CloseBegins, Idle
  <2>2. Aborted \in [Tasks -> {"off", "run", "abort", "done"}]
    BY DEF EInv, Engaged, Aborted
  <2> QED BY <1>0, <2>1, <2>2 DEF EInv, Engaged, Packets, Pumping, Quiet
<1>6. CASE CloseEnds
  <2>1. /\ main' = "closed"
        /\ UNCHANGED <<reader, writer, tasks, fromTun, toTun, shutdown, ioError, read, written>>
    BY <1>6 DEF CloseEnds, Idle
  <2> QED BY <1>0, <2>1 DEF EInv, Engaged, Packets, Pumping, Quiet
<1> QED BY <1>1, <1>2, <1>3, <1>4, <1>5, <1>6 DEF Connecting

\* What the tasks do.
LEMMA TasksKeep ==
  ASSUME EInv, (\E t \in Tasks : TaskStops(t)) \/ Takes \/ Receives
  PROVE  EInv'
<1>0. UNCHANGED <<phase, ws>>
  BY PumpsIdle DEF Pumps, adapterVars
<1>1. ASSUME NEW t \in Tasks, TaskStops(t) PROVE EInv'
  <2>1. /\ tasks[t] = "abort" /\ tasks' = [tasks EXCEPT ![t] = "done"]
        /\ UNCHANGED <<main, reader, writer, fromTun, toTun, shutdown, ioError, read, written>>
    BY <1>1 DEF TaskStops, Idle
  <2>2. tasks' \in [Tasks -> {"off", "run", "abort", "done"}] /\ \A x \in Tasks \ {t} : tasks'[x] = tasks[x]
    BY <2>1 DEF EInv, Engaged
  <2>3. Engaged' /\ Packets'
    BY <1>0, <2>1, <2>2 DEF EInv, Engaged, Packets
  <2>4. main \notin {"idle", "bind"}
    BY <2>1 DEF EInv, Quiet
  <2>5. Pumping'
    <3> SUFFICES ASSUME main \in {"first", "wait", "up"}
                 PROVE  /\ tasks'["bridge"] = tasks["bridge"] /\ tasks'["timers"] = tasks["timers"]
                        /\ ~ioError => tasks'["recv"] = tasks["recv"] /\ tasks'["send"] = tasks["send"]
      BY <1>0, <2>1 DEF EInv, Pumping
    <3>1. t # "bridge" /\ t # "timers" /\ (~ioError => t # "recv" /\ t # "send")
      BY <2>1 DEF EInv, Pumping
    <3>2. {"bridge", "timers", "recv", "send"} \subseteq Tasks
      BY DEF Tasks
    <3> QED BY <2>2, <3>1, <3>2
  <2> QED BY <2>1, <2>3, <2>4, <2>5 DEF EInv, Quiet
<1>2. CASE Takes
  <2>1. /\ Running("send")
        /\ \/ fromTun > 0 /\ fromTun' = fromTun - 1 /\ tasks' = tasks
           \/ reader = "done" /\ tasks' = [tasks EXCEPT !["send"] = "done"] /\ fromTun' = fromTun
        /\ UNCHANGED <<main, reader, writer, toTun, shutdown, ioError, read, written>>
    BY <1>2 DEF Takes, Idle
  <2>2. tasks' \in [Tasks -> {"off", "run", "abort", "done"}] /\ \A x \in Tasks \ {"send"} : tasks'[x] = tasks[x]
    BY <2>1 DEF EInv, Engaged
  <2>3. Engaged'
    BY <1>0, <2>1, <2>2 DEF EInv, Engaged
  <2>4. Packets'
    BY <2>1 DEF EInv, Packets
  <2>5. main \notin {"idle", "bind"}
    <3>1. tasks["send"] # "off" /\ "send" \in Tasks /\ "send" # "bridge"
      BY <2>1 DEF Running, Tasks
    <3> QED BY <3>1 DEF EInv, Quiet
  <2>6. Pumping'
    BY <1>0, <2>1, <2>2 DEF EInv, Pumping, Tasks
  <2> QED BY <2>1, <2>3, <2>4, <2>5, <2>6 DEF EInv, Quiet
<1>3. CASE Receives
  <2>1. /\ Running("recv") /\ written < MaxPackets /\ written' = written + 1
        /\ \/ writer = "done" /\ tasks' = [tasks EXCEPT !["recv"] = "done"] /\ toTun' = toTun
           \/ writer # "done" /\ toTun' = toTun + 1 /\ tasks' = tasks
        /\ UNCHANGED <<main, reader, writer, fromTun, shutdown, ioError, read>>
    BY <1>3 DEF Receives, Idle
  <2>2. tasks' \in [Tasks -> {"off", "run", "abort", "done"}] /\ \A x \in Tasks \ {"recv"} : tasks'[x] = tasks[x]
    BY <2>1 DEF EInv, Engaged
  <2>3. Engaged'
    BY <1>0, <2>1, <2>2 DEF EInv, Engaged
  <2>4. Packets'
    BY <2>1, EngineAssumption DEF EInv, Packets
  <2>5. main \notin {"idle", "bind"}
    <3>1. tasks["recv"] # "off" /\ "recv" \in Tasks /\ "recv" # "bridge"
      BY <2>1 DEF Running, Tasks
    <3> QED BY <3>1 DEF EInv, Quiet
  <2>6. Pumping'
    BY <1>0, <2>1, <2>2 DEF EInv, Pumping, Tasks
  <2> QED BY <2>1, <2>3, <2>4, <2>5, <2>6 DEF EInv, Quiet
<1> QED BY <1>1, <1>2, <1>3

\* What the two threads do.
LEMMA ThreadsKeep ==
  ASSUME EInv, Reads \/ Pushes \/ WriterTakes \/ Writes
  PROVE  EInv'
<1>0. UNCHANGED <<phase, ws>>
  BY PumpsIdle DEF Pumps, adapterVars
<1>1. CASE Reads
  <2>1. /\ reader = "recv"
        /\ \/ read < MaxPackets /\ reader' = "push" /\ read' = read + 1 /\ ioError' = ioError
           \/ reader' = "done" /\ ioError' = TRUE /\ read' = read
           \/ phase = "closed" /\ reader' = "done" /\ UNCHANGED <<read, ioError>>
        /\ UNCHANGED <<main, writer, tasks, fromTun, toTun, shutdown, written>>
    BY <1>1 DEF Reads, Idle
  <2>2. Engaged'
    BY <1>0, <2>1 DEF EInv, Engaged
  <2>3. Packets'
    BY <2>1, EngineAssumption DEF EInv, Packets
  <2>4. main \notin {"idle", "bind"}
    BY <2>1 DEF EInv, Quiet
  <2>5. Pumping'
    BY <1>0, <2>1 DEF EInv, Pumping
  <2> QED BY <2>1, <2>2, <2>3, <2>4, <2>5 DEF EInv, Quiet
<1>2. CASE Pushes
  <2>1. /\ reader = "push"
        /\ \/ tasks["send"] = "done" /\ reader' = "done" /\ fromTun' = fromTun
           \/ reader' = (IF shutdown THEN "done" ELSE "recv") /\ fromTun' = fromTun + 1
        /\ UNCHANGED <<main, writer, tasks, toTun, shutdown, ioError, read, written>>
    BY <1>2 DEF Pushes, Idle
  <2>2. Engaged'
    BY <1>0, <2>1 DEF EInv, Engaged
  <2>3. Packets'
    BY <2>1 DEF EInv, Packets
  <2>4. main \notin {"idle", "bind"}
    BY <2>1 DEF EInv, Quiet
  <2>5. Pumping'
    BY <1>0, <2>1 DEF EInv, Pumping
  <2> QED BY <2>1, <2>2, <2>3, <2>4, <2>5 DEF EInv, Quiet
<1>3. CASE WriterTakes
  <2>1. /\ writer = "wait"
        /\ \/ toTun > 0 /\ writer' = "send" /\ toTun' = toTun - 1
           \/ ~Senders /\ writer' = "done" /\ toTun' = toTun
        /\ UNCHANGED <<main, reader, tasks, fromTun, shutdown, ioError, read, written>>
    BY <1>3 DEF WriterTakes, Idle
  <2>2. Engaged'
    BY <1>0, <2>1 DEF EInv, Engaged
  <2>3. Packets'
    BY <2>1 DEF EInv, Packets
  <2>4. main \notin {"idle", "bind"}
    BY <2>1 DEF EInv, Quiet
  <2>5. Pumping'
    BY <1>0, <2>1 DEF EInv, Pumping, Senders
  <2> QED BY <2>1, <2>2, <2>3, <2>4, <2>5 DEF EInv, Quiet
<1>4. CASE Writes
  <2>1. /\ writer = "send"
        /\ \/ writer' = "wait" /\ ioError' = ioError
           \/ writer' = "done" /\ ioError' = (ioError \/ phase # "closed")
        /\ UNCHANGED <<main, reader, tasks, fromTun, toTun, shutdown, read, written>>
    BY <1>4 DEF Writes, Idle
  <2>2. Engaged'
    BY <1>0, <2>1 DEF EInv, Engaged
  <2>3. Packets'
    BY <2>1 DEF EInv, Packets
  <2>4. main \notin {"idle", "bind"}
    BY <2>1 DEF EInv, Quiet
  <2>5. Pumping'
    BY <1>0, <2>1 DEF EInv, Pumping
  <2> QED BY <2>1, <2>2, <2>3, <2>4, <2>5 DEF EInv, Quiet
<1> QED BY <1>1, <1>2, <1>3, <1>4

\* Threads, tasks and connect_to agree in every state.
THEOREM EngineInvariant == Spec => []EInv
<1>1. Init => EInv
  BY InitEInv
<1>2. EInv /\ [Next]_vars => EInv'
  <2> SUFFICES ASSUME EInv, [Next]_vars PROVE EInv'
    OBVIOUS
  <2>1. CASE UNCHANGED engineVars /\ (Opening \/ Dropping \/ DropsAdapter \/ Releases \/ UNCHANGED adapterVars)
    BY <2>1, AdapterKeepsEngine
  <2>2. CASE Pumps
    BY <2>2, ConnectingKeeps, TasksKeep, ThreadsKeep DEF Pumps
  <2>3. (DropsAdapter \/ Releases \/ UNCHANGED vars) => UNCHANGED engineVars
    BY DEF DropsAdapter, Releases, vars
  <2>4. UNCHANGED vars => UNCHANGED adapterVars
    BY DEF vars
  <2> QED BY <2>1, <2>2, <2>3, <2>4 DEF Next, Pumps
<1> QED BY <1>1, <1>2, PTL DEF Spec

\* Every variable has its type: commands, tasks and threads are where they can
\* be, and no channel holds more than has come.
THEOREM EngineTypes == Spec => []EngineTypeOK
<1>1. AInv /\ EInv => EngineTypeOK
  <2> SUFFICES ASSUME AInv, EInv PROVE EngineTypeOK
    OBVIOUS
  <2>1. DOMAIN Script(conf) = 1..Len(Script(conf))
    <3>1. Script(conf) \in Seq(Commands(conf))
      BY ScriptParts DEF AInv, AdapterTypeOK
    <3> QED BY <3>1
  <2>2. {Script(conf)[i].effect : i \in DOMAIN Script(conf)} = Effs(conf)
    BY <2>1 DEF Effs
  <2>3. fromTun \in 0..MaxPackets /\ toTun \in 0..MaxPackets
    BY EngineAssumption DEF EInv, Packets
  <2> QED BY <2>2, <2>3 DEF AInv, AdapterTypeOK, EInv, Engaged, EngineTypeOK
<1> QED BY <1>1, AdapterInvariant, EngineInvariant, PTL

\* While the tunnel is up and the device has refused nothing, both directions
\* are pumped: neither thread and no task has ended (lib.rs:153-228).
THEOREM UpIsPumping == Spec => []UpMeansPumping
<1>1. EInv => UpMeansPumping
  BY DEF EInv, Pumping, UpMeansPumping, Tasks
<1> QED BY <1>1, EngineInvariant, PTL
=============================================================================
