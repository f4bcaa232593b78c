-------------------------- MODULE RelaySwitchProofs --------------------------
(***************************************************************************)
(* The relay proxy and the relay switch, proved for any constants.         *)
(*                                                                         *)
(* RelayProxy: for any aggregates, relays, requests, answers and           *)
(* conversations, requests are shared among the members by their weights,  *)
(* and an answer is passed on only after the failover the strategy calls   *)
(* for.                                                                    *)
(*                                                                         *)
(* RelaySwitch: for any profiles, logins, modes, faults and number of      *)
(* operations, the login in use is never lost by a switch, config.toml     *)
(* never names a missing catalog, and, where the application keeps still   *)
(* during a switch, a failed switch is undone, a pure one leaves auth.json *)
(* alone and the hook approvals stay.                                      *)
(***************************************************************************)
EXTENDS RelaySwitch, RelayProxy, DataLemmas

------------------------------------------------------------------------------
\* The relay proxy.

\* Going round a circle of n.
LEMMA OneRound ==
  ASSUME NEW n \in Nat \ {0}, NEW i \in Nat, i < 2 * n
  PROVE  i % n = IF i < n THEN i ELSE i - n
  OBVIOUS

\* A selector may work for any aggregate of the settings that has members.
Aggregates ==
    {a \in {s.aggregate : s \in ProxySettings} : a # Absent /\ a.members # <<>>}

Selectors ==
    [aggregate : Aggregates, failoverIndex : Nat, requestIndex : Nat, weightedIndex : Nat,
     assignments : [Conversations -> Relays \cup {Absent}],
     turns : [Relays -> Nat], kept : [Conversations -> SUBSET Relays]]

Works ==
    [stage : {"idle", "refreshing", "begun", "trying", "answered"},
     settings : ProxySettings \cup {Absent}, conversation : Conversations \cup {NoConversation},
     candidates : Seq(Relays), tried : Seq(Relays), answer : Answers \cup {Absent}]

\* The places of a supplier among the first turns of a weighted round.
Places(schedule, last, relay) == {p \in 1 .. last : schedule[p] = relay}

\* Every member has had its share of the same number of rounds, and of the
\* round under way what lies before the index.
SharedByWeight(s) ==
    \E rounds \in Nat : \A k \in DOMAIN s.aggregate.members :
       s.turns[s.aggregate.members[k].relay] =
          rounds * s.aggregate.members[k].weight
          + Cardinality(Places(Schedule(s), s.weightedIndex, s.aggregate.members[k].relay))

SharedEvenly(s) ==
    \E rounds \in Nat : \A k \in DOMAIN s.aggregate.members :
       s.turns[s.aggregate.members[k].relay] =
          IF k <= s.requestIndex THEN rounds + 1 ELSE rounds

Shared(s) ==
    Distinct(s.aggregate) =>
       CASE s.aggregate.strategy = "weightedRoundRobin" -> SharedByWeight(s)
         [] s.aggregate.strategy = "failover" -> \A m \in Relays : s.turns[m] = 0
         [] OTHER -> SharedEvenly(s)

InRange(s) ==
    /\ s.failoverIndex < Len(s.aggregate.members) /\ s.requestIndex < Len(s.aggregate.members)
    /\ s.weightedIndex < Len(Schedule(s))

Stays(s) ==
    \A c \in Conversations :
       /\ s.assignments[c] \in MemberSet(s.aggregate) \cup {Absent}
       /\ s.kept[c] \subseteq {s.assignments[c]}
       /\ s.assignments[c] = Absent => s.kept[c] = {}

SelectorOK(s) == s \in Selectors /\ InRange(s) /\ Shared(s) /\ Stays(s)

\* All members of an aggregate from one on, in a circle.
Circle(members, first) ==
    [i \in 1 .. Len(members) |-> members[((first + i - 2) % Len(members)) + 1].relay]

\* A request under way asks its only supplier, or the members in a circle, and
\* has asked those before the one it is at.
Asking(w) ==
    /\ IF w.settings.aggregate = Absent THEN Len(w.candidates) = 1
       ELSE /\ w.settings.aggregate \in Aggregates
            /\ \E first \in DOMAIN w.settings.aggregate.members :
                  w.candidates = Circle(w.settings.aggregate.members, first)
    /\ Len(w.tried) < Len(w.candidates)
    /\ \A i \in DOMAIN w.tried : w.tried[i] = w.candidates[i]

WorkOK(w) ==
    /\ w.stage \in {"refreshing", "begun", "trying"} => w.settings \in ProxySettings /\ w.answer = Absent
    /\ w.stage \in {"refreshing", "begun"} => w.tried = <<>>
    /\ w.stage = "trying" => Asking(w)

SettingsOK ==
    /\ onDisk \in ProxySettings \cup {Unreadable} /\ cached \in ProxySettings
    /\ refreshing \in Requests \cup {Absent}
    /\ refreshing \in Requests => work[refreshing].stage = "refreshing"

\* While nobody else moves the rotation, it points to the member being asked.
Pointed(r) ==
    (/\ r \in alone /\ work[r].stage = "trying"
     /\ selector # Absent /\ selector.aggregate = work[r].settings.aggregate
     /\ selector.aggregate.strategy = "failover" /\ Distinct(selector.aggregate)) =>
       MemberAt(selector, selector.failoverIndex) = Candidate(r)

ProxyInv ==
    /\ SettingsOK
    /\ selector # Absent => SelectorOK(selector)
    /\ work \in [Requests -> Works]
    /\ \A r \in Requests : WorkOK(work[r]) /\ Pointed(r)

\* What joining adds to the places of a supplier.
PlacesAdd(s, t, x) ==
    Places(s \o t, Len(s \o t), x) =
       Places(s, Len(s), x) \cup {p \in Len(s) + 1 .. Len(s) + Len(t) : t[p - Len(s)] = x}

\* Where x stands in a joined sequence: in the first where it stood, in the second
\* as far behind.
LEMMA PlacesOfJoin ==
  ASSUME NEW E, NEW s \in Seq(E), NEW t \in Seq(E), NEW x
  PROVE  PlacesAdd(s, t, x)
  <1> DEFINE u == s \o t
  <1>1. Len(u) = Len(s) + Len(t) /\ Len(s) \in Nat /\ Len(t) \in Nat
    OBVIOUS
  <1>2. \A p \in 1 .. Len(s) : u[p] = s[p]
    OBVIOUS
  <1>3. \A p \in Len(s) + 1 .. Len(s) + Len(t) : u[p] = t[p - Len(s)]
    OBVIOUS
  <1> HIDE DEF u
  <1>4. Places(u, Len(u), x) =
            Places(s, Len(s), x) \cup {p \in Len(s) + 1 .. Len(s) + Len(t) : t[p - Len(s)] = x}
    BY <1>1, <1>2, <1>3 DEF Places
  <1> QED
    BY <1>4 DEF u, PlacesAdd

\* Of the first k blocks: what they hold, and where.
Blocks(g, members, k) ==
    /\ g \in Seq({members[j].relay : j \in 1 .. k}) /\ Len(g) >= 1
    /\ \A j \in 1 .. k : \E a \in Nat :
          Places(g, Len(g), members[j].relay) = a + 1 .. a + members[j].weight

Alike(relay, weight) == [i \in 1 .. weight |-> relay]

\* A block appended to blocks of other names: every name so far keeps its share,
\* and the new one has its own.
LEMMA BlockAdded ==
  ASSUME NEW members \in Seq(Member), NEW k \in Nat \ {0}, k + 1 <= Len(members),
         \A i, j \in DOMAIN members : members[i].relay = members[j].relay => i = j,
         NEW g, Blocks(g, members, k)
  PROVE  Blocks(g \o Alike(members[k + 1].relay, members[k + 1].weight), members, k + 1)
  <1> DEFINE m == members[k + 1]
             r == m.relay
             w == m.weight
             t == Alike(r, w)
             U == {members[j].relay : j \in 1 .. k + 1}
             h == g \o t
  <1>1. m \in Member
    OBVIOUS
  <1>2. w \in Nat \ {0} /\ r \in U
    BY <1>1 DEF Member
  <1>3. t \in Seq(U) /\ Len(t) = w /\ \A i \in 1 .. w : t[i] = r
    <2>1. t = [i \in 1 .. w |-> r]
      BY DEF Alike
    <2> HIDE DEF t, U, w, r, m
    <2> QED
      BY <1>2, <2>1
  <1>4. g \in Seq(U) /\ Len(g) \in Nat /\ Len(g) >= 1 /\ \A p \in 1 .. Len(g) : \E j \in 1 .. k : g[p] = members[j].relay
    <2> DEFINE V == {members[j].relay : j \in 1 .. k}
    <2>1. g \in Seq(V) /\ Len(g) >= 1
      BY DEF Blocks
    <2>2. Len(g) \in Nat /\ \A p \in 1 .. Len(g) : g[p] \in V
      <3> HIDE DEF V
      <3> QED
        BY <2>1
    <2>3. V \subseteq U
      OBVIOUS
    <2>4. g \in Seq(U)
      <3> HIDE DEF U, V
      <3> QED
        BY <2>1, <2>2, <2>3
    <2> QED
      BY <2>1, <2>2, <2>4
  <1>5. \A x : Places(h, Len(h), x) =
            Places(g, Len(g), x) \cup {p \in Len(g) + 1 .. Len(g) + w : t[p - Len(g)] = x}
    <2>1. g \in Seq(U) /\ t \in Seq(U) /\ Len(t) = w
      BY <1>3, <1>4
    <2> HIDE DEF t, U, w, r, m
    <2>2. \A x : PlacesAdd(g, t, x)
      BY <2>1, PlacesOfJoin, Zenon
    <2> QED
      BY <2>1, <2>2 DEF PlacesAdd
  <1>6. \A p \in Len(g) + 1 .. Len(g) + w : t[p - Len(g)] = r
    <2> HIDE DEF t, U, r, w
    <2> QED
      BY <1>2, <1>3, <1>4
  <1>7. h \in Seq(U) /\ Len(h) >= 1
    <2> HIDE DEF t, U, r, w
    <2> QED
      BY <1>2, <1>3, <1>4
  <1>8. ASSUME NEW j \in 1 .. k + 1
        PROVE  \E a \in Nat : Places(h, Len(h), members[j].relay) = a + 1 .. a + members[j].weight
    <2>1. CASE j = k + 1
      <3>1. Places(g, Len(g), r) = {}
        <4>1. \A p \in 1 .. Len(g) : g[p] # r
          <5> SUFFICES ASSUME NEW p \in 1 .. Len(g), g[p] = r PROVE FALSE
            OBVIOUS
          <5>1. PICK i \in 1 .. k : g[p] = members[i].relay
            BY <1>4
          <5>2. i \in DOMAIN members /\ k + 1 \in DOMAIN members /\ i # k + 1
            OBVIOUS
          <5> QED
            BY <5>1, <5>2
        <4> QED
          BY <4>1 DEF Places
      <3>2. Places(h, Len(h), r) = Len(g) + 1 .. Len(g) + w
        <4> HIDE DEF t, r, w, h
        <4> QED
          BY <1>5, <1>6, <3>1
      <3> QED
        BY <1>4, <2>1, <3>2
    <2>2. CASE j \in 1 .. k
      <3>1. members[j].relay # r
        BY <2>2
      <3>2. Places(h, Len(h), members[j].relay) = Places(g, Len(g), members[j].relay)
        <4> HIDE DEF t, r, w, h
        <4> QED
          BY <1>5, <1>6, <3>1
      <3> QED
        BY <2>2, <3>2 DEF Blocks
    <2>3. j = k + 1 \/ j \in 1 .. k
      OBVIOUS
    <2> HIDE DEF m, r, w, t, U, h
    <2> QED
      BY <2>1, <2>2, <2>3
  <1> QED
    <2> HIDE DEF h, U
    <2> QED
      BY <1>7, <1>8 DEF Blocks, U, h

\* The same of one block alone.
LEMMA FirstBlock ==
  ASSUME NEW members \in Seq(Member), members # <<>>
  PROVE  Blocks(Alike(members[1].relay, members[1].weight), members, 1)
  <1> DEFINE r == members[1].relay
             w == members[1].weight
             t == Alike(r, w)
             U == {members[j].relay : j \in 1 .. 1}
  <1>1. members[1] \in Member
    OBVIOUS
  <1>2. w \in Nat \ {0} /\ U = {r}
    BY <1>1 DEF Member
  <1>3. t \in Seq({r}) /\ Len(t) = w /\ \A i \in 1 .. w : t[i] = r
    BY <1>2 DEF Alike
  <1>4. Places(t, Len(t), r) = 0 + 1 .. 0 + w
    <2> HIDE DEF t, r, w
    <2> QED
      BY <1>2, <1>3 DEF Places
  <1>5. \E a \in Nat : Places(t, Len(t), r) = a + 1 .. a + w
    <2> HIDE DEF t, r, w
    <2> QED
      BY <1>4
  <1>6. ASSUME NEW j \in 1 .. 1
        PROVE  \E a \in Nat : Places(t, Len(t), members[j].relay) = a + 1 .. a + members[j].weight
    <2>1. j = 1
      OBVIOUS
    <2> HIDE DEF t
    <2> QED
      BY <1>5, <2>1
  <1>7. t \in Seq(U) /\ Len(t) >= 1
    BY <1>2, <1>3
  <1>8. Blocks(t, members, 1)
    <2> HIDE DEF t
    <2> QED
      BY <1>6, <1>7 DEF Blocks
  <1> QED
    BY <1>8

Members(aggregate) == aggregate.members \in Seq(Member) /\ aggregate.members # <<>>

Block(members, k) == Alike(members[k].relay, members[k].weight)

BlocksOf(members) == [k \in 1 .. Len(members) |-> Block(members, k)]

\* The schedule of a weighted round joins the blocks of the members.
LEMMA ScheduleIsJoin ==
  ASSUME NEW s, Members(s.aggregate)
  PROVE  \E g : /\ Joined(g, BlocksOf(s.aggregate.members), Relays, Len(s.aggregate.members))
                /\ Schedule(s) = g[Len(s.aggregate.members)]
  <1> DEFINE members == s.aggregate.members
             n == Len(members)
             b == BlocksOf(members)
  <1>1. n \in Nat \ {0} /\ DOMAIN members = 1 .. n /\ \A k \in 1 .. n : members[k] \in Member
    BY DEF Members
  <1>2. b \in [1 .. n -> Seq(Relays)]
    <2> SUFFICES ASSUME NEW k \in 1 .. n PROVE Block(members, k) \in Seq(Relays)
      BY DEF BlocksOf
    <2>1. members[k].weight \in Nat /\ members[k].relay \in Relays
      BY <1>1 DEF Member
    <2> QED
      BY <2>1 DEF Block, Alike
  <1>3. Schedule(s) = FlattenSeq(b)
    BY <1>1 DEF Schedule, BlocksOf, Block, Alike
  <1>4. \E g : Joined(g, b, Relays, n) /\ FlattenSeq(b) = g[n]
    <2> HIDE DEF b, n
    <2> QED
      BY <1>1, <1>2, FlattenEquations
  <1> QED
    BY <1>3, <1>4

\* Joining anything to a sequence that is not empty.
LEMMA LongerJoin ==
  ASSUME NEW U, NEW x \in Seq(U), NEW y \in Seq(U), Len(x) \in Nat \ {0}
  PROVE  x \o y \in Seq(U) /\ Len(x \o y) \in Nat \ {0}
  <1>1. Len(x \o y) = Len(x) + Len(y) /\ Len(y) \in Nat
    OBVIOUS
  <1> QED
    BY <1>1

\* A round is not empty and consists of turns of the members, and a member that
\* is taken once has its weight of turns in it (by induction on the members).
LEMMA ScheduleShares ==
  ASSUME NEW s, Members(s.aggregate)
  PROVE  /\ Schedule(s) \in Seq(Relays) /\ Len(Schedule(s)) \in Nat \ {0}
         /\ \A p \in 1 .. Len(Schedule(s)) : Schedule(s)[p] \in MemberSet(s.aggregate)
         /\ Distinct(s.aggregate) => Blocks(Schedule(s), s.aggregate.members, Len(s.aggregate.members))
  <1> DEFINE members == s.aggregate.members
             n == Len(members)
  <1>1. n \in Nat \ {0} /\ DOMAIN members = 1 .. n /\ \A k \in 1 .. n : members[k] \in Member
    BY DEF Members
  <1>0. PICK g : Joined(g, BlocksOf(members), Relays, n) /\ Schedule(s) = g[n]
    BY ScheduleIsJoin
  <1>2. /\ g \in [1 .. n -> Seq(Relays)] /\ g[1] = Block(members, 1)
        /\ \A i \in 1 .. n - 1 : g[i + 1] = g[i] \o Block(members, i + 1)
    <2>1. \A i \in 1 .. n : BlocksOf(members)[i] = Block(members, i)
      BY DEF BlocksOf
    <2>2. 1 \in 1 .. n /\ \A i \in 1 .. n - 1 : i + 1 \in 1 .. n
      BY <1>1
    <2> HIDE DEF n
    <2> QED
      BY <1>0, <2>1, <2>2 DEF Joined
  <1>3. \A k \in 1 .. n : /\ members[k].relay \in MemberSet(s.aggregate)
                          /\ Block(members, k) \in Seq(MemberSet(s.aggregate))
                          /\ Len(Block(members, k)) \in Nat \ {0}
    <2> SUFFICES ASSUME NEW k \in 1 .. n
                 PROVE  /\ members[k].relay \in MemberSet(s.aggregate)
                        /\ Block(members, k) \in Seq(MemberSet(s.aggregate))
                        /\ Len(Block(members, k)) \in Nat \ {0}
      OBVIOUS
    <2>1. members[k].relay \in MemberSet(s.aggregate) /\ members[k].weight \in Nat \ {0}
      BY <1>1 DEF Member, MemberSet
    <2> QED
      BY <2>1 DEF Block, Alike
  <1> DEFINE Good(i) == /\ g[i] \in Seq(MemberSet(s.aggregate)) /\ Len(g[i]) \in Nat \ {0}
                        /\ Distinct(s.aggregate) => Blocks(g[i], members, i)
             S == {i \in Nat : i + 1 <= n => Good(i + 1)}
  <1>4. 0 \in S
    <2>1. Good(1)
      BY <1>1, <1>2, <1>3, FirstBlock, SMTT(30) DEF Members, Block
    <2> HIDE DEF Good
    <2> QED
      BY <2>1
  <1>5. ASSUME NEW i \in Nat, i \in S PROVE i + 1 \in S
    <2> SUFFICES ASSUME i + 2 <= n PROVE Good(i + 2)
      <3>1. (i + 1) + 1 = i + 2
        OBVIOUS
      <3> HIDE DEF Good
      <3> QED
        BY <3>1
    <2>1. Good(i + 1)
      <3> HIDE DEF Good
      <3> QED
        BY <1>5
    <2>2. g[i + 2] = g[i + 1] \o Block(members, i + 2)
      <3>1. (i + 1) + 1 = i + 2 /\ i + 1 \in 1 .. n - 1
        BY <1>1
      <3> QED
        BY <1>2, <3>1
    <2>3. g[i + 2] \in Seq(MemberSet(s.aggregate)) /\ Len(g[i + 2]) \in Nat \ {0}
      <3>1. Block(members, i + 2) \in Seq(MemberSet(s.aggregate)) /\ Len(Block(members, i + 2)) \in Nat
        BY <1>1, <1>3
      <3>2. g[i + 1] \in Seq(MemberSet(s.aggregate)) /\ Len(g[i + 1]) \in Nat \ {0}
        BY <2>1
      <3> HIDE DEF Good, S, members, n
      <3>3. /\ g[i + 1] \o Block(members, i + 2) \in Seq(MemberSet(s.aggregate))
            /\ Len(g[i + 1] \o Block(members, i + 2)) \in Nat \ {0}
        BY <3>1, <3>2, LongerJoin
      <3> QED
        BY <2>2, <3>3, Zenon
    <2>4. Distinct(s.aggregate) => Blocks(g[i + 2], members, i + 2)
      <3> SUFFICES ASSUME Distinct(s.aggregate) PROVE Blocks(g[i + 2], members, i + 2)
        OBVIOUS
      <3>1. \A j, k \in DOMAIN members : members[j].relay = members[k].relay => j = k
        BY DEF Distinct
      <3>2. Blocks(g[i + 1], members, i + 1)
        BY <2>1
      <3>3. (i + 1) + 1 = i + 2 /\ i + 1 \in Nat \ {0} /\ members \in Seq(Member)
        BY DEF Members
      <3> HIDE DEF members, n, Good, S
      <3>4. Blocks(g[i + 1] \o Alike(members[(i + 1) + 1].relay, members[(i + 1) + 1].weight), members, (i + 1) + 1)
        BY <3>1, <3>2, <3>3, BlockAdded DEF n
      <3> QED
        BY <2>2, <3>3, <3>4 DEF Block
    <2> QED
      BY <2>3, <2>4
  <1>6. \A i \in Nat : i \in S
    <2> HIDE DEF S
    <2> QED
      BY <1>4, <1>5, SetInduction
  <1>7. Good(n)
    <2>1. n - 1 \in Nat /\ (n - 1) + 1 = n
      BY <1>1
    <2>2. n - 1 \in S
      BY <1>6, <2>1
    <2> HIDE DEF Good
    <2> QED
      BY <2>1, <2>2
  <1>8. Schedule(s) \in Seq(Relays)
    BY <1>0, <1>1, <1>2
  <1>9. \A p \in 1 .. Len(Schedule(s)) : Schedule(s)[p] \in MemberSet(s.aggregate)
    BY <1>0, <1>7
  <1> QED
    BY <1>0, <1>7, <1>8, <1>9

\* What an aggregate that settings.json can hold has.
LEMMA AggregateFacts ==
  ASSUME NEW a \in Aggregates
  PROVE  /\ a # Absent /\ a.strategy \in Strategies /\ Members(a)
         /\ Len(a.members) \in Nat \ {0} /\ DOMAIN a.members = 1 .. Len(a.members)
         /\ \A k \in 1 .. Len(a.members) :
               /\ a.members[k] \in Member /\ a.members[k].relay \in Relays
               /\ a.members[k].weight \in Nat \ {0} /\ a.members[k].relay \in MemberSet(a)
         /\ MemberSet(a) \subseteq Relays
  <1>1. a # Absent /\ a.strategy \in Strategies /\ Members(a)
    BY ProxyAssumption DEF Aggregates, Members
  <1>2. Len(a.members) \in Nat \ {0} /\ DOMAIN a.members = 1 .. Len(a.members)
    BY <1>1 DEF Members
  <1>3. \A k \in 1 .. Len(a.members) : a.members[k] \in Member
    BY <1>1, <1>2 DEF Members
  <1>4. \A m \in Member : m.relay \in Relays /\ m.weight \in Nat \ {0}
    BY DEF Member
  <1> QED
    BY <1>1, <1>2, <1>3, <1>4 DEF MemberSet

\* What a selector has.
LEMMA SelectorFacts ==
  ASSUME NEW s \in Selectors
  PROVE  /\ s.aggregate \in Aggregates
         /\ s.failoverIndex \in Nat /\ s.requestIndex \in Nat /\ s.weightedIndex \in Nat
         /\ s.assignments \in [Conversations -> Relays \cup {Absent}]
         /\ s.turns \in [Relays -> Nat] /\ s.kept \in [Conversations -> SUBSET Relays]
  BY DEF Selectors

\* A name has no place before the first.
LEMMA NoPlaces ==
  ASSUME NEW schedule, NEW x PROVE Cardinality(Places(schedule, 0, x)) = 0
  <1>1. Places(schedule, 0, x) = {}
    BY DEF Places
  <1> QED
    BY <1>1, FS_EmptySet

\* One index further a name has one place more where it stands, and else as many.
LEMMA OnePlaceMore ==
  ASSUME NEW schedule, NEW last \in Nat, NEW x
  PROVE  /\ Cardinality(Places(schedule, last, x)) \in Nat
         /\ Cardinality(Places(schedule, last + 1, x)) =
               Cardinality(Places(schedule, last, x)) + (IF schedule[last + 1] = x THEN 1 ELSE 0)
  <1> DEFINE P == Places(schedule, last, x)
             Q == Places(schedule, last + 1, x)
  <1>1. IsFiniteSet(P)
    <2>1. IsFiniteSet(1 .. last) /\ P \subseteq 1 .. last
      BY FS_Interval DEF Places
    <2> QED
      BY <2>1, FS_Subset
  <1>2. Cardinality(P) \in Nat
    BY <1>1, FS_CardinalityType
  <1>3. CASE schedule[last + 1] = x
    <2>1. Q = P \cup {last + 1} /\ last + 1 \notin P
      BY <1>3 DEF Places
    <2>2. Cardinality(P \cup {last + 1}) = Cardinality(P) + 1
      <3> HIDE DEF P
      <3> QED
        BY <1>1, <2>1, FS_AddElement
    <2> HIDE DEF P, Q
    <2> QED
      BY <1>2, <1>3, <2>1, <2>2 DEF P, Q
  <1>4. CASE schedule[last + 1] # x
    <2>1. Q = P
      BY <1>4 DEF Places
    <2> QED
      BY <1>2, <1>4, <2>1
  <1> QED
    BY <1>3, <1>4

\* In a whole round a member has as many turns as its weight.
LEMMA AllPlaces ==
  ASSUME NEW s, Members(s.aggregate), Distinct(s.aggregate),
         NEW k \in 1 .. Len(s.aggregate.members)
  PROVE  Cardinality(Places(Schedule(s), Len(Schedule(s)), s.aggregate.members[k].relay)) =
            s.aggregate.members[k].weight
  <1> DEFINE P == Places(Schedule(s), Len(Schedule(s)), s.aggregate.members[k].relay)
             w == s.aggregate.members[k].weight
  <1>1. PICK a \in Nat : P = a + 1 .. a + w
    BY ScheduleShares DEF Blocks
  <1>2. w \in Nat \ {0}
    <2>1. s.aggregate.members[k] \in Member
      BY DEF Members
    <2> QED
      BY <2>1 DEF Member
  <1>3. Cardinality(a + 1 .. a + w) = w
    <2> HIDE DEF w, P
    <2>1. a + 1 \in Int /\ a + w \in Int
      BY <1>2
    <2>2. Cardinality(a + 1 .. a + w) = IF a + 1 > a + w THEN 0 ELSE (a + w) - (a + 1) + 1
      BY <2>1, FS_Interval
    <2> QED
      BY <1>2, <2>2
  <1> QED
    BY <1>1, <1>3

\* A selector that has given nothing out.
LEMMA NewSelectorOK ==
  ASSUME NEW a \in Aggregates
  PROVE  SelectorOK(NewSelector(a)) /\ NewSelector(a).aggregate = a
  <1> DEFINE s == NewSelector(a)
  <1>1. /\ s.aggregate = a /\ s.failoverIndex = 0 /\ s.requestIndex = 0 /\ s.weightedIndex = 0
        /\ s.assignments = [c \in Conversations |-> Absent]
        /\ s.turns = [m \in Relays |-> 0] /\ s.kept = [c \in Conversations |-> {}]
    BY DEF NewSelector
  <1>2. s \in Selectors
    BY DEF NewSelector, Selectors
  <1> HIDE DEF s
  <1>3. InRange(s)
    <2>1. Len(Schedule(s)) \in Nat \ {0}
      BY <1>1, AggregateFacts, ScheduleShares
    <2> QED
      BY <1>1, <2>1, AggregateFacts DEF InRange
  <1>4. SharedByWeight(s)
    <2>1. \A k \in DOMAIN s.aggregate.members :
             s.turns[s.aggregate.members[k].relay] =
                0 * s.aggregate.members[k].weight
                + Cardinality(Places(Schedule(s), s.weightedIndex, s.aggregate.members[k].relay))
      <3> SUFFICES ASSUME NEW k \in 1 .. Len(a.members)
                   PROVE  s.turns[a.members[k].relay] =
                             0 * a.members[k].weight
                             + Cardinality(Places(Schedule(s), s.weightedIndex, a.members[k].relay))
        BY <1>1, AggregateFacts
      <3>1. a.members[k].relay \in Relays /\ a.members[k].weight \in Nat
        BY AggregateFacts
      <3>2. s.turns[a.members[k].relay] = 0
        BY <1>1, <3>1
      <3>3. Cardinality(Places(Schedule(s), s.weightedIndex, a.members[k].relay)) = 0
        BY <1>1, NoPlaces
      <3> QED
        BY <3>1, <3>2, <3>3
    <2> QED
      BY <2>1 DEF SharedByWeight
  <1>5. SharedEvenly(s)
    <2>1. \A k \in DOMAIN s.aggregate.members :
             s.turns[s.aggregate.members[k].relay] = IF k <= s.requestIndex THEN 0 + 1 ELSE 0
      BY <1>1, AggregateFacts
    <2> QED
      BY <2>1 DEF SharedEvenly
  <1>6. Shared(s)
    BY <1>1, <1>4, <1>5 DEF Shared
  <1>7. Stays(s)
    BY <1>1 DEF Stays
  <1> QED
    BY <1>1, <1>2, <1>3, <1>6, <1>7 DEF SelectorOK, s

\* The next index of n, the first after the last.
LEMMA NextIndex ==
  ASSUME NEW n \in Nat \ {0}, NEW i \in Nat, i < n
  PROVE  /\ i % n = i /\ (i + 1) % n = (IF i + 1 < n THEN i + 1 ELSE 0)
         /\ (i + 1) % n \in Nat /\ (i + 1) % n < n
  <1>1. i % n = i
    BY OneRound
  <1>2. PICK j \in Nat : j = i + 1
    OBVIOUS
  <1>3. CASE n = 1
    BY <1>1, <1>3
  <1>4. CASE n > 1
    <2>1. j < 2 * n
      BY <1>2, <1>4
    <2>2. j % n = IF j < n THEN j ELSE j - n
      BY <2>1, OneRound
    <2> QED
      BY <1>1, <1>2, <2>2
  <1> QED
    BY <1>3, <1>4

\* The selector after a turn: the index moved, the turn counted.
TurnedByWeight(t, s, relay, index) ==
    t = [s EXCEPT !.weightedIndex = index, !.turns[relay] = @ + 1]
TurnedByRequest(t, s, relay, index) ==
    t = [s EXCEPT !.requestIndex = index, !.turns[relay] = @ + 1]

\* The fields of a selector after a turn by weights.
LEMMA WeightedUpdate ==
  ASSUME NEW s \in Selectors, NEW relay \in Relays, NEW index \in Nat, NEW t,
         TurnedByWeight(t, s, relay, index)
  PROVE  /\ t \in Selectors /\ t.aggregate = s.aggregate
         /\ t.failoverIndex = s.failoverIndex /\ t.requestIndex = s.requestIndex
         /\ t.weightedIndex = index
         /\ t.assignments = s.assignments /\ t.kept = s.kept
         /\ t.turns = [s.turns EXCEPT ![relay] = @ + 1]
  <1>1. s.turns \in [Relays -> Nat]
    BY SelectorFacts
  <1>2. [s.turns EXCEPT ![relay] = @ + 1] \in [Relays -> Nat]
    BY <1>1
  <1> QED
    BY <1>2 DEF Selectors, TurnedByWeight

\* The fields of a selector after a turn by requests.
LEMMA RequestUpdate ==
  ASSUME NEW s \in Selectors, NEW relay \in Relays, NEW index \in Nat, NEW t,
         TurnedByRequest(t, s, relay, index)
  PROVE  /\ t \in Selectors /\ t.aggregate = s.aggregate
         /\ t.failoverIndex = s.failoverIndex /\ t.weightedIndex = s.weightedIndex
         /\ t.requestIndex = index
         /\ t.assignments = s.assignments /\ t.kept = s.kept
         /\ t.turns = [s.turns EXCEPT ![relay] = @ + 1]
  <1>1. s.turns \in [Relays -> Nat]
    BY SelectorFacts
  <1>2. [s.turns EXCEPT ![relay] = @ + 1] \in [Relays -> Nat]
    BY <1>1
  <1> QED
    BY <1>2 DEF Selectors, TurnedByRequest

\* What a turn keeps: the member it names, and the selector's invariant.
TurnOK(turn, s) ==
    /\ turn.relay \in MemberSet(s.aggregate)
    /\ SelectorOK(turn.selector) /\ turn.selector.aggregate = s.aggregate
    /\ turn.selector.assignments = s.assignments

\* A turn by weights keeps the selector: the member whose turn it is has one turn
\* more, at the last index all have had their whole round (selectNextWeighted).
LEMMA WeightedTurnOK ==
  ASSUME NEW s, SelectorOK(s), s.aggregate.strategy = "weightedRoundRobin"
  PROVE  TurnOK(WeightedTurn(s), s)
  <1> DEFINE L == Len(Schedule(s))
             i == s.weightedIndex
             relay == Schedule(s)[(i % L) + 1]
             t == [s EXCEPT !.weightedIndex = (@ + 1) % L, !.turns[relay] = @ + 1]
             n == Len(s.aggregate.members)
  <1>1. /\ s \in Selectors /\ s.aggregate \in Aggregates /\ Members(s.aggregate)
        /\ InRange(s) /\ Shared(s) /\ Stays(s)
    BY SelectorFacts, AggregateFacts DEF SelectorOK
  <1>2. L \in Nat \ {0} /\ i \in Nat /\ i < L
    BY <1>1, ScheduleShares, SelectorFacts DEF InRange
  <1>3. i % L = i /\ (i + 1) % L \in Nat /\ (i + 1) % L < L
        /\ (i + 1) % L = (IF i + 1 < L THEN i + 1 ELSE 0)
    <2> HIDE DEF L, i
    <2> QED
      BY <1>2, NextIndex
  <1>4. relay = Schedule(s)[i + 1] /\ relay \in MemberSet(s.aggregate) /\ relay \in Relays
    <2>1. (i % L) + 1 = i + 1 /\ i + 1 \in 1 .. L
      <3> HIDE DEF i, L
      <3> QED
        BY <1>2, <1>3
    <2>2. Schedule(s)[i + 1] \in MemberSet(s.aggregate)
      BY <1>1, <2>1, ScheduleShares
    <2>3. relay = Schedule(s)[i + 1]
      BY <2>1
    <2> HIDE DEF relay
    <2> QED
      BY <1>1, <2>2, <2>3, AggregateFacts
  <1> HIDE DEF relay
  <1>5. /\ t \in Selectors /\ t.aggregate = s.aggregate
        /\ t.failoverIndex = s.failoverIndex /\ t.requestIndex = s.requestIndex
        /\ t.weightedIndex = (i + 1) % L
        /\ t.assignments = s.assignments /\ t.kept = s.kept
        /\ t.turns = [s.turns EXCEPT ![relay] = @ + 1]
    <2>1. TurnedByWeight(t, s, relay, (i + 1) % L)
      BY DEF TurnedByWeight
    <2> HIDE DEF L, t, i
    <2> QED
      BY <1>1, <1>3, <1>4, <2>1, WeightedUpdate
  <1>6. Schedule(t) = Schedule(s)
    BY <1>5 DEF Schedule
  <1>7. InRange(t)
    <2> HIDE DEF t
    <2> QED
      BY <1>1, <1>3, <1>5, <1>6 DEF InRange
  <1>8. Stays(t)
    <2> HIDE DEF t
    <2> QED
      BY <1>1, <1>5 DEF Stays
  <1>9. Distinct(t.aggregate) => SharedByWeight(t)
    <2> HIDE DEF t
    <2> SUFFICES ASSUME Distinct(s.aggregate) PROVE SharedByWeight(t)
      BY <1>5
    <2> DEFINE name(k) == s.aggregate.members[k].relay
               weight(k) == s.aggregate.members[k].weight
               count(last, k) == Cardinality(Places(Schedule(s), last, name(k)))
    <2>1. PICK rounds \in Nat :
             \A k \in DOMAIN s.aggregate.members :
                s.turns[name(k)] = rounds * weight(k) + count(i, k)
      BY <1>1 DEF Shared, SharedByWeight
    <2>2. \A k \in 1 .. n :
             /\ t.turns[name(k)] = rounds * weight(k) + count(i + 1, k)
             /\ count(i + 1, k) \in Nat /\ weight(k) \in Nat
      <3> SUFFICES ASSUME NEW k \in 1 .. n
                   PROVE  /\ t.turns[name(k)] = rounds * weight(k) + count(i + 1, k)
                          /\ count(i + 1, k) \in Nat /\ weight(k) \in Nat
        OBVIOUS
      <3>1. k \in DOMAIN s.aggregate.members /\ name(k) \in Relays /\ weight(k) \in Nat
        BY <1>1, AggregateFacts
      <3>2. s.turns[name(k)] = rounds * weight(k) + count(i, k)
        BY <2>1, <3>1
      <3>3. count(i, k) \in Nat /\ count(i + 1, k) = count(i, k) + (IF relay = name(k) THEN 1 ELSE 0)
        BY <1>2, <1>4, OnePlaceMore
      <3>4. s.turns \in [Relays -> Nat]
        BY <1>1, SelectorFacts
      <3> HIDE DEF name, weight, count, i
      <3>5. t.turns[name(k)] = IF relay = name(k) THEN s.turns[name(k)] + 1 ELSE s.turns[name(k)]
        BY <1>4, <1>5, <3>1, <3>4
      <3>6. rounds * weight(k) \in Nat
        BY <3>1
      <3> QED
        BY <3>1, <3>2, <3>3, <3>5, <3>6, SMTT(30)
    <2>3. CASE i + 1 < L
      <3>1. t.weightedIndex = i + 1
        BY <1>3, <1>5, <2>3
      <3> QED
        <4>1. \A k \in DOMAIN t.aggregate.members :
                 t.turns[t.aggregate.members[k].relay] =
                    rounds * t.aggregate.members[k].weight
                    + Cardinality(Places(Schedule(t), t.weightedIndex, t.aggregate.members[k].relay))
          BY <1>1, <1>5, <1>6, <2>2, <3>1, AggregateFacts
        <4> QED
          BY <4>1 DEF SharedByWeight
    <2>4. CASE ~(i + 1 < L)
      <3>1. t.weightedIndex = 0 /\ i + 1 = L
        <4> HIDE DEF i, L
        <4> QED
          BY <1>2, <1>3, <1>5, <2>4
      <3>2. \A k \in 1 .. n : t.turns[name(k)] = (rounds + 1) * weight(k) + count(0, k)
        <4> SUFFICES ASSUME NEW k \in 1 .. n
                     PROVE  t.turns[name(k)] = (rounds + 1) * weight(k) + count(0, k)
          OBVIOUS
        <4>1. count(0, k) = 0 /\ count(i + 1, k) = weight(k)
          BY <1>1, <3>1, NoPlaces, AllPlaces
        <4>2. t.turns[name(k)] = rounds * weight(k) + count(i + 1, k) /\ weight(k) \in Nat
          BY <2>2
        <4> HIDE DEF name, weight, count
        <4>3. (rounds + 1) * weight(k) = rounds * weight(k) + weight(k)
          BY <4>2
        <4>4. rounds * weight(k) \in Nat
          BY <4>2
        <4> QED
          BY <4>1, <4>2, <4>3, <4>4
      <3>3. rounds + 1 \in Nat
        OBVIOUS
      <3> QED
        <4>1. \A k \in DOMAIN t.aggregate.members :
                 t.turns[t.aggregate.members[k].relay] =
                    (rounds + 1) * t.aggregate.members[k].weight
                    + Cardinality(Places(Schedule(t), t.weightedIndex, t.aggregate.members[k].relay))
          BY <1>1, <1>5, <1>6, <3>1, <3>2, AggregateFacts
        <4> QED
          BY <3>3, <4>1 DEF SharedByWeight
    <2> QED
      BY <2>3, <2>4
  <1>10. Shared(t)
    BY <1>5, <1>9 DEF Shared
  <1>11. WeightedTurn(s) = [relay |-> relay, selector |-> t]
    BY DEF WeightedTurn, relay
  <1> QED
    <2> HIDE DEF t
    <2> QED
      BY <1>4, <1>5, <1>7, <1>8, <1>10, <1>11 DEF TurnOK, SelectorOK

\* The turns of all but the weighted and the failover strategy.
LEMMA NextTurnOK ==
  ASSUME NEW s, SelectorOK(s),
         s.aggregate.strategy \notin {"weightedRoundRobin", "failover"}
  PROVE  TurnOK(NextTurn(s), s)
  <1> DEFINE n == Len(s.aggregate.members)
             i == s.requestIndex
             relay == MemberAt(s, i)
             t == [s EXCEPT !.requestIndex = (@ + 1) % n, !.turns[relay] = @ + 1]
  <1>1. /\ s \in Selectors /\ s.aggregate \in Aggregates
        /\ InRange(s) /\ Shared(s) /\ Stays(s)
    BY SelectorFacts DEF SelectorOK
  <1>2. n \in Nat \ {0} /\ i \in Nat /\ i < n /\ DOMAIN s.aggregate.members = 1 .. n
    BY <1>1, AggregateFacts, SelectorFacts DEF InRange
  <1>3. i % n = i /\ (i + 1) % n \in Nat /\ (i + 1) % n < n
        /\ (i + 1) % n = (IF i + 1 < n THEN i + 1 ELSE 0)
    <2> HIDE DEF n, i
    <2> QED
      BY <1>2, NextIndex
  <1>4. relay = s.aggregate.members[i + 1].relay /\ relay \in MemberSet(s.aggregate) /\ relay \in Relays
    <2>1. relay = s.aggregate.members[(i % n) + 1].relay
      BY DEF MemberAt
    <2>2. (i % n) + 1 = i + 1 /\ i + 1 \in 1 .. n
      <3> HIDE DEF i, n
      <3> QED
        BY <1>2, <1>3
    <2>3. relay = s.aggregate.members[i + 1].relay
      BY <2>1, <2>2
    <2> HIDE DEF relay, i
    <2> QED
      BY <1>1, <2>2, <2>3, AggregateFacts
  <1> HIDE DEF relay
  <1>5. /\ t \in Selectors /\ t.aggregate = s.aggregate
        /\ t.failoverIndex = s.failoverIndex /\ t.weightedIndex = s.weightedIndex
        /\ t.requestIndex = (i + 1) % n
        /\ t.assignments = s.assignments /\ t.kept = s.kept
        /\ t.turns = [s.turns EXCEPT ![relay] = @ + 1]
    <2> DEFINE after == (i + 1) % n
    <2>1. TurnedByRequest(t, s, relay, after) /\ after \in Nat
      BY <1>3 DEF TurnedByRequest
    <2>2. /\ t \in Selectors /\ t.aggregate = s.aggregate
          /\ t.failoverIndex = s.failoverIndex /\ t.weightedIndex = s.weightedIndex
          /\ t.requestIndex = after
          /\ t.assignments = s.assignments /\ t.kept = s.kept
          /\ t.turns = [s.turns EXCEPT ![relay] = @ + 1]
      <3>1. s \in Selectors /\ relay \in Relays
        BY <1>1, <1>4
      <3> HIDE DEF after, t
      <3> QED
        BY <2>1, <3>1, RequestUpdate
    <2> QED
      BY <2>2
  <1>6. Schedule(t) = Schedule(s)
    BY <1>5 DEF Schedule
  <1>7. InRange(t)
    <2> HIDE DEF t
    <2> QED
      BY <1>1, <1>3, <1>5, <1>6 DEF InRange
  <1>8. Stays(t)
    <2> HIDE DEF t
    <2> QED
      BY <1>1, <1>5 DEF Stays
  <1>9. Distinct(t.aggregate) => SharedEvenly(t)
    <2> HIDE DEF t
    <2> SUFFICES ASSUME Distinct(s.aggregate) PROVE SharedEvenly(t)
      BY <1>5
    <2> DEFINE name(k) == s.aggregate.members[k].relay
    <2>1. PICK rounds \in Nat :
             \A k \in DOMAIN s.aggregate.members :
                s.turns[name(k)] = IF k <= i THEN rounds + 1 ELSE rounds
      BY <1>1 DEF Shared, SharedEvenly
    <2>2. \A k \in 1 .. n : t.turns[name(k)] = IF k <= i + 1 THEN rounds + 1 ELSE rounds
      <3> SUFFICES ASSUME NEW k \in 1 .. n
                   PROVE  t.turns[name(k)] = IF k <= i + 1 THEN rounds + 1 ELSE rounds
        OBVIOUS
      <3>1. name(k) \in Relays
        BY <1>1, AggregateFacts
      <3>2. s.turns[name(k)] = IF k <= i THEN rounds + 1 ELSE rounds
        BY <1>2, <2>1
      <3>3. relay = name(k) <=> k = i + 1
        <4>1. i + 1 \in DOMAIN s.aggregate.members /\ k \in DOMAIN s.aggregate.members
          <5> HIDE DEF i, n
          <5> QED
            BY <1>2
        <4> QED
          BY <1>4, <4>1 DEF Distinct
      <3>4. s.turns \in [Relays -> Nat]
        BY <1>1, SelectorFacts
      <3> HIDE DEF name, i, n
      <3>5. t.turns[name(k)] = IF relay = name(k) THEN s.turns[name(k)] + 1 ELSE s.turns[name(k)]
        BY <1>4, <1>5, <3>1, <3>4
      <3> QED
        BY <1>2, <3>2, <3>3, <3>5
    <2>3. CASE i + 1 < n
      <3>1. t.requestIndex = i + 1
        BY <1>3, <1>5, <2>3
      <3>2. \A k \in DOMAIN t.aggregate.members :
               t.turns[t.aggregate.members[k].relay] = IF k <= t.requestIndex THEN rounds + 1 ELSE rounds
        BY <1>2, <1>5, <2>2, <3>1
      <3> QED
        BY <3>2 DEF SharedEvenly
    <2>4. CASE ~(i + 1 < n)
      <3>1. t.requestIndex = 0 /\ i + 1 = n
        <4> HIDE DEF i, n
        <4> QED
          BY <1>2, <1>3, <1>5, <2>4
      <3>2. \A k \in 1 .. n : t.turns[name(k)] = IF k <= 0 THEN (rounds + 1) + 1 ELSE rounds + 1
        BY <2>2, <3>1
      <3>3. rounds + 1 \in Nat
        OBVIOUS
      <3>4. \A k \in DOMAIN t.aggregate.members :
               t.turns[t.aggregate.members[k].relay]
                  = IF k <= t.requestIndex THEN (rounds + 1) + 1 ELSE rounds + 1
        BY <1>2, <1>5, <3>1, <3>2
      <3> QED
        BY <3>3, <3>4 DEF SharedEvenly
    <2> QED
      BY <2>3, <2>4
  <1>10. Shared(t)
    BY <1>5, <1>9 DEF Shared
  <1>11. NextTurn(s) = [relay |-> relay, selector |-> t]
    BY DEF NextTurn, relay
  <1> QED
    <2> HIDE DEF t
    <2> QED
      BY <1>4, <1>5, <1>7, <1>8, <1>10, <1>11 DEF TurnOK, SelectorOK

\* A conversation that has this member, or none yet, has it from now on.
Assigned(t, s, c, relay) ==
    t = [s EXCEPT !.assignments[c] = relay, !.kept[c] = @ \cup {relay}]

\* Giving a conversation its member, the one it has or its first, keeps the
\* selector (selectForConversation).
LEMMA AssignmentOK ==
  ASSUME NEW s, SelectorOK(s), NEW c \in Conversations, NEW relay \in MemberSet(s.aggregate),
         s.assignments[c] \in {Absent, relay}, NEW t, Assigned(t, s, c, relay)
  PROVE  SelectorOK(t) /\ t.aggregate = s.aggregate
  <1>1. /\ s \in Selectors /\ s.aggregate \in Aggregates
        /\ InRange(s) /\ Shared(s) /\ Stays(s)
    BY SelectorFacts DEF SelectorOK
  <1>2. relay \in Relays /\ relay # Absent
    BY <1>1, AggregateFacts, ProxyAssumption
  <1>3. /\ [s.assignments EXCEPT ![c] = relay] \in [Conversations -> Relays \cup {Absent}]
        /\ [s.kept EXCEPT ![c] = @ \cup {relay}] \in [Conversations -> SUBSET Relays]
    BY <1>1, <1>2, SelectorFacts
  <1>4. /\ t \in Selectors /\ t.aggregate = s.aggregate
        /\ t.failoverIndex = s.failoverIndex /\ t.requestIndex = s.requestIndex
        /\ t.weightedIndex = s.weightedIndex /\ t.turns = s.turns
        /\ t.assignments = [s.assignments EXCEPT ![c] = relay]
        /\ t.kept = [s.kept EXCEPT ![c] = @ \cup {relay}]
    BY <1>1, <1>3 DEF Selectors, Assigned
  <1>5. Schedule(t) = Schedule(s)
    BY <1>4 DEF Schedule
  <1>6. InRange(t)
    BY <1>1, <1>4, <1>5 DEF InRange
  <1>7. Shared(t)
    BY <1>1, <1>4, <1>5 DEF Shared, SharedByWeight, SharedEvenly
  <1>8. Stays(t)
    <2> SUFFICES ASSUME NEW d \in Conversations
                 PROVE  /\ t.assignments[d] \in MemberSet(t.aggregate) \cup {Absent}
                        /\ t.kept[d] \subseteq {t.assignments[d]}
                        /\ t.assignments[d] = Absent => t.kept[d] = {}
      BY DEF Stays
    <2>1. /\ s.assignments[d] \in MemberSet(s.aggregate) \cup {Absent}
          /\ s.kept[d] \subseteq {s.assignments[d]}
          /\ s.assignments[d] = Absent => s.kept[d] = {}
      BY <1>1 DEF Stays
    <2>2. s.assignments \in [Conversations -> Relays \cup {Absent}] /\ s.kept \in [Conversations -> SUBSET Relays]
      BY <1>1, SelectorFacts
    <2>3. CASE d = c
      <3>1. t.assignments[d] = relay /\ t.kept[d] = s.kept[d] \cup {relay}
        BY <1>4, <2>2, <2>3
      <3> QED
        BY <1>2, <1>4, <2>1, <2>3, <3>1
    <2>4. CASE d # c
      <3>1. t.assignments[d] = s.assignments[d] /\ t.kept[d] = s.kept[d]
        BY <1>4, <2>2, <2>4
      <3> QED
        BY <1>4, <2>1, <3>1
    <2> QED
      BY <2>3, <2>4
  <1> QED
    BY <1>4, <1>6, <1>7, <1>8 DEF SelectorOK

\* A turn by any strategy.  Failover takes none, and names the member it is at.
LEMMA EveryTurnOK ==
  ASSUME NEW s, SelectorOK(s), NEW c \in Conversations \cup {NoConversation}
  PROVE  /\ Turn(s, c).relay \in MemberSet(s.aggregate)
         /\ SelectorOK(Turn(s, c).selector) /\ Turn(s, c).selector.aggregate = s.aggregate
         /\ s.aggregate.strategy = "failover" =>
               /\ Turn(s, c).relay = MemberAt(s, s.failoverIndex) /\ Turn(s, c).selector = s
  <1>1. s \in Selectors /\ s.aggregate \in Aggregates /\ InRange(s) /\ Stays(s)
    BY SelectorFacts DEF SelectorOK
  <1>2. CASE s.aggregate.strategy = "weightedRoundRobin"
    BY <1>2, WeightedTurnOK DEF Turn, TurnOK
  <1>3. CASE s.aggregate.strategy = "requestRoundRobin"
    BY <1>3, NextTurnOK DEF Turn, TurnOK
  <1>4. CASE s.aggregate.strategy = "failover"
    <2> DEFINE n == Len(s.aggregate.members)
               i == s.failoverIndex
               turn == [relay |-> MemberAt(s, i), selector |-> s]
    <2>1. n \in Nat \ {0} /\ i \in Nat /\ i < n
      BY <1>1, AggregateFacts, SelectorFacts DEF InRange
    <2>2. (i % n) + 1 \in 1 .. n
      <3> HIDE DEF i, n
      <3> QED
        BY <2>1, NextIndex
    <2>3. MemberAt(s, i) \in MemberSet(s.aggregate)
      BY <1>1, <2>2, AggregateFacts DEF MemberAt
    <2>4. Turn(s, c) = turn
      BY <1>4 DEF Turn
    <2> QED
      BY <2>3, <2>4
  <1>5. CASE s.aggregate.strategy = "conversationRoundRobin"
    <2>1. Turn(s, c) = ConversationTurn(s, c)
      BY <1>5 DEF Turn
    <2>2. TurnOK(NextTurn(s), s)
      BY <1>5, NextTurnOK
    <2>3. CASE c = NoConversation
      BY <1>5, <2>1, <2>2, <2>3 DEF ConversationTurn, TurnOK
    <2>4. CASE c # NoConversation
      <3> DEFINE turn == IF s.assignments[c] # Absent THEN [relay |-> s.assignments[c], selector |-> s]
                         ELSE NextTurn(s)
                 t == [turn.selector EXCEPT !.assignments[c] = turn.relay, !.kept[c] = @ \cup {turn.relay}]
      <3>1. c \in Conversations
        BY <2>4
      <3>2. /\ turn.relay \in MemberSet(s.aggregate)
            /\ SelectorOK(turn.selector) /\ turn.selector.aggregate = s.aggregate
            /\ turn.selector.assignments[c] \in {Absent, turn.relay}
        <4>1. CASE s.assignments[c] # Absent
          <5>1. s.assignments[c] \in MemberSet(s.aggregate)
            BY <1>1, <3>1, <4>1 DEF Stays
          <5> QED
            BY <4>1, <5>1
        <4>2. CASE s.assignments[c] = Absent
          BY <2>2, <4>2 DEF TurnOK
        <4> QED
          BY <4>1, <4>2
      <3>3. SelectorOK(t) /\ t.aggregate = s.aggregate
        <4>1. Assigned(t, turn.selector, c, turn.relay)
          BY DEF Assigned
        <4> HIDE DEF t, turn
        <4> QED
          BY <3>1, <3>2, <4>1, AssignmentOK
      <3>4. ConversationTurn(s, c).relay = turn.relay /\ ConversationTurn(s, c).selector = t
        BY <2>4 DEF ConversationTurn, NextTurn
      <3> HIDE DEF t, turn
      <3> QED
        BY <1>5, <2>1, <3>2, <3>3, <3>4
    <2> QED
      BY <2>3, <2>4
  <1>6. s.aggregate.strategy \in Strategies
    BY <1>1, AggregateFacts
  <1> QED
    BY <1>2, <1>3, <1>4, <1>5, <1>6 DEF Strategies

\* Rounds times turns.
LEMMA TimesMonotone ==
  ASSUME NEW a \in Nat, NEW b \in Nat, NEW w \in Nat, a <= b
  PROVE  a * w \in Nat /\ b * w \in Nat /\ a * w <= b * w /\ (a + 1) * w = a * w + w
  <1>1. PICK d \in Nat : b = a + d
    <2>1. b - a \in Nat /\ b = a + (b - a)
      OBVIOUS
    <2> QED
      BY <2>1
  <1>2. (a + d) * w = a * w + d * w /\ d * w \in Nat /\ a * w \in Nat /\ (a + 1) * w = a * w + w
    OBVIOUS
  <1> QED
    BY <1>1, <1>2

\* What is shared is fair, whatever the strategy.
LEMMA SharedIsFair ==
  ASSUME NEW s, SelectorOK(s), Distinct(s.aggregate),
         NEW j \in DOMAIN s.aggregate.members, NEW k \in DOMAIN s.aggregate.members,
         NEW rounds \in Nat,
         s.turns[s.aggregate.members[j].relay] > rounds * Share(s.aggregate, j)
  PROVE  s.turns[s.aggregate.members[k].relay] >= rounds * Share(s.aggregate, k)
  <1> DEFINE name(i) == s.aggregate.members[i].relay
             weight(i) == s.aggregate.members[i].weight
             count(i) == Cardinality(Places(Schedule(s), s.weightedIndex, name(i)))
             all(i) == Cardinality(Places(Schedule(s), Len(Schedule(s)), name(i)))
             n == Len(s.aggregate.members)
  <1>1. /\ s \in Selectors /\ s.aggregate \in Aggregates /\ Members(s.aggregate)
        /\ InRange(s) /\ Shared(s)
    BY SelectorFacts, AggregateFacts DEF SelectorOK
  <1>2. DOMAIN s.aggregate.members = 1 .. n
    BY <1>1, AggregateFacts
  <1>3. \A i \in 1 .. n : name(i) \in Relays /\ weight(i) \in Nat \ {0} /\ s.turns[name(i)] \in Nat
    <2>1. s.turns \in [Relays -> Nat]
      BY <1>1, SelectorFacts
    <2> QED
      BY <1>1, <2>1, AggregateFacts
  <1>4. CASE s.aggregate.strategy = "weightedRoundRobin"
    <2>1. PICK done \in Nat : \A i \in 1 .. n : s.turns[name(i)] = done * weight(i) + count(i)
      BY <1>1, <1>2, <1>4 DEF Shared, SharedByWeight
    <2>2. ASSUME NEW i \in 1 .. n PROVE count(i) \in Nat /\ count(i) <= weight(i)
      <3> DEFINE P == Places(Schedule(s), s.weightedIndex, name(i))
                 Q == Places(Schedule(s), Len(Schedule(s)), name(i))
      <3>1. s.weightedIndex \in Nat /\ Len(Schedule(s)) \in Nat /\ s.weightedIndex < Len(Schedule(s))
        BY <1>1, SelectorFacts, ScheduleShares DEF InRange
      <3>2. P \subseteq Q /\ Q \subseteq 1 .. Len(Schedule(s))
        BY <3>1 DEF Places
      <3>3. IsFiniteSet(Q)
        <4>1. IsFiniteSet(1 .. Len(Schedule(s)))
          BY <3>1, FS_Interval
        <4> HIDE DEF Q
        <4> QED
          BY <3>2, <4>1, FS_Subset
      <3>4. Cardinality(P) \in Nat /\ Cardinality(P) <= Cardinality(Q)
        <4> HIDE DEF P, Q
        <4> QED
          BY <3>2, <3>3, FS_Subset, FS_CardinalityType
      <3>5. Cardinality(Q) = weight(i)
        BY <1>1, AllPlaces
      <3> QED
        BY <3>4, <3>5
    <2>3. Share(s.aggregate, j) = weight(j) /\ Share(s.aggregate, k) = weight(k)
      BY <1>4 DEF Share
    <2>4. /\ s.turns[name(j)] = done * weight(j) + count(j)
          /\ s.turns[name(k)] = done * weight(k) + count(k)
          /\ count(j) \in Nat /\ count(j) <= weight(j) /\ count(k) \in Nat
          /\ weight(j) \in Nat /\ weight(k) \in Nat
      BY <1>2, <1>3, <2>1, <2>2
    <2>5. s.turns[name(j)] > rounds * weight(j)
      BY <2>3
    <2> HIDE DEF name, weight, count, n
    <2>6. rounds <= done
      <3> SUFFICES ASSUME done + 1 <= rounds PROVE FALSE
        OBVIOUS
      <3>1. (done + 1) * weight(j) <= rounds * weight(j) /\ rounds * weight(j) \in Nat
        BY <2>4, TimesMonotone
      <3>2. (done + 1) * weight(j) = done * weight(j) + weight(j) /\ done * weight(j) \in Nat
        BY <2>4, TimesMonotone
      <3> QED
        BY <2>4, <2>5, <3>1, <3>2
    <2>7. rounds * weight(k) <= done * weight(k) /\ rounds * weight(k) \in Nat /\ done * weight(k) \in Nat
      BY <2>4, <2>6, TimesMonotone
    <2>8. s.turns[name(k)] >= rounds * weight(k)
      BY <2>4, <2>7
    <2> QED
      BY <2>3, <2>8 DEF name
  <1>5. CASE s.aggregate.strategy = "failover"
    <2>1. s.turns[name(j)] = 0 /\ Share(s.aggregate, j) = 1
      BY <1>1, <1>2, <1>3, <1>5 DEF Shared, Share
    <2> QED
      BY <2>1
  <1>6. CASE s.aggregate.strategy \notin {"weightedRoundRobin", "failover"}
    <2>1. PICK done \in Nat :
             \A i \in 1 .. n : s.turns[name(i)] = IF i <= s.requestIndex THEN done + 1 ELSE done
      BY <1>1, <1>2, <1>6 DEF Shared, SharedEvenly
    <2>2. Share(s.aggregate, j) = 1 /\ Share(s.aggregate, k) = 1
      BY <1>6 DEF Share
    <2>3. s.turns[name(j)] <= done + 1 /\ s.turns[name(k)] >= done
      <3>1. /\ s.turns[name(j)] = IF j <= s.requestIndex THEN done + 1 ELSE done
            /\ s.turns[name(k)] = IF k <= s.requestIndex THEN done + 1 ELSE done
        BY <1>2, <2>1
      <3> HIDE DEF name
      <3> QED
        BY <3>1
    <2>4. rounds * Share(s.aggregate, j) = rounds /\ rounds * Share(s.aggregate, k) = rounds
      BY <2>2
    <2>5. s.turns[name(j)] \in Nat /\ s.turns[name(k)] \in Nat
      BY <1>2, <1>3
    <2> QED
      BY <2>3, <2>4, <2>5
  <1> QED
    BY <1>4, <1>5, <1>6

\* A conversation has stayed with one member, or with none yet.
LEMMA StaysIsOne ==
  ASSUME NEW s, SelectorOK(s), NEW c \in Conversations
  PROVE  Cardinality(s.kept[c]) <= 1
  <1>1. s.kept[c] \subseteq {s.assignments[c]}
    BY DEF SelectorOK, Stays
  <1>2. IsFiniteSet({s.assignments[c]}) /\ Cardinality({s.assignments[c]}) = 1
    BY FS_Singleton
  <1> QED
    BY <1>1, <1>2, FS_Subset

\* What the selector keeps is fair.
LEMMA SharesFollow ==
  ASSUME selector # Absent => SelectorOK(selector)
  PROVE  SharesAreFair
  <1> SUFFICES ASSUME selector # Absent, SelectorOK(selector)
               PROVE  SharesAreFair
    BY DEF SharesAreFair
  <1>1. ASSUME Distinct(selector.aggregate),
               NEW j \in DOMAIN selector.aggregate.members, NEW k \in DOMAIN selector.aggregate.members,
               NEW rounds \in 0 .. selector.turns[selector.aggregate.members[j].relay],
               selector.turns[selector.aggregate.members[j].relay] > rounds * Share(selector.aggregate, j)
        PROVE  selector.turns[selector.aggregate.members[k].relay] >= rounds * Share(selector.aggregate, k)
    <2>1. rounds \in Nat
      OBVIOUS
    <2> QED
      BY <1>1, <2>1, SharedIsFair
  <1> QED
    BY <1>1, StaysIsOne DEF SharesAreFair

\* An event keeps the selector's invariant; only a failure of failover moves it.
LEMMA EventOK ==
  ASSUME selector # Absent => SelectorOK(selector),
         NEW settings, NEW failed \in BOOLEAN, AfterEvent(settings, failed) # Absent
  PROVE  LET t == AfterEvent(settings, failed) IN
         /\ selector # Absent /\ settings.aggregate # Absent
         /\ SelectorOK(t) /\ t.aggregate = selector.aggregate
         /\ (failed /\ selector.aggregate.strategy = "failover") =>
               t.failoverIndex = (selector.failoverIndex + 1) % Len(selector.aggregate.members)
         /\ ~failed => t = selector
  <1> DEFINE s == selector
             n == Len(s.aggregate.members)
             i == s.failoverIndex
             t == [s EXCEPT !.failoverIndex = (@ + 1) % n]
  <1>1. selector # Absent /\ settings.aggregate # Absent /\ SelectorOK(selector)
    BY DEF AfterEvent
  <1>2. CASE ~(failed /\ s.aggregate.strategy = "failover")
    BY <1>1, <1>2 DEF AfterEvent
  <1>3. CASE failed /\ s.aggregate.strategy = "failover"
    <2>1. /\ s \in Selectors /\ s.aggregate \in Aggregates
          /\ InRange(s) /\ Shared(s) /\ Stays(s)
      BY <1>1, SelectorFacts DEF SelectorOK
    <2>2. n \in Nat \ {0} /\ i \in Nat /\ i < n
      BY <2>1, AggregateFacts, SelectorFacts DEF InRange
    <2>3. (i + 1) % n \in Nat /\ (i + 1) % n < n
      <3> HIDE DEF i, n
      <3> QED
        BY <2>2, NextIndex
    <2>4. /\ t \in Selectors /\ t.aggregate = s.aggregate
          /\ t.failoverIndex = (i + 1) % n /\ t.requestIndex = s.requestIndex
          /\ t.weightedIndex = s.weightedIndex /\ t.turns = s.turns
          /\ t.assignments = s.assignments /\ t.kept = s.kept
      <3> HIDE DEF n
      <3> QED
        BY <2>1, <2>3 DEF Selectors
    <2>5. AfterEvent(settings, failed) = t
      BY <1>1, <1>3 DEF AfterEvent
    <2> HIDE DEF t
    <2>6. Schedule(t) = Schedule(s)
      BY <2>4 DEF Schedule
    <2>7. SelectorOK(t)
      <3>1. InRange(t)
        BY <2>1, <2>3, <2>4, <2>6 DEF InRange
      <3>2. Shared(t)
        BY <2>1, <2>4, <2>6 DEF Shared, SharedByWeight, SharedEvenly
      <3>3. Stays(t)
        BY <2>1, <2>4 DEF Stays
      <3> QED
        BY <2>4, <3>1, <3>2, <3>3 DEF SelectorOK
    <2> QED
      BY <1>1, <1>3, <2>4, <2>5, <2>7
  <1> QED
    BY <1>2, <1>3

\* The place of the i-th member of a circle that begins at the first.
LEMMA CirclePlace ==
  ASSUME NEW n \in Nat \ {0}, NEW first \in 1 .. n, NEW i \in 1 .. n
  PROVE  /\ ((first + i - 2) % n) + 1 \in 1 .. n
         /\ ((first + i - 2) % n) + 1 = IF first + i - 1 <= n THEN first + i - 1 ELSE first + i - 1 - n
  <1>1. PICK j \in Nat : j = first + i - 2
    OBVIOUS
  <1>2. j < 2 * n
    BY <1>1
  <1>3. j % n = IF j < n THEN j ELSE j - n
    BY <1>2, OneRound
  <1>4. (first + i - 2) % n = IF first + i - 2 < n THEN first + i - 2 ELSE first + i - 2 - n
    BY <1>1, <1>3
  <1> QED
    BY <1>4

\* A circle holds every member, and none twice if none is taken twice.
LEMMA CircleFacts ==
  ASSUME NEW a \in Aggregates, NEW first \in DOMAIN a.members
  PROVE  LET c == Circle(a.members, first)  n == Len(a.members) IN
         /\ c \in Seq(Relays) /\ Len(c) = n /\ DOMAIN c = 1 .. n /\ n \in Nat \ {0}
         /\ {c[i] : i \in 1 .. n} = MemberSet(a)
         /\ Distinct(a) => \A i, j \in 1 .. n : c[i] = c[j] => i = j
  <1> DEFINE n == Len(a.members)
             c == Circle(a.members, first)
             place(i) == ((first + i - 2) % n) + 1
  <1>1. /\ n \in Nat \ {0} /\ DOMAIN a.members = 1 .. n /\ first \in 1 .. n
        /\ \A k \in 1 .. n : a.members[k].relay \in Relays
    BY AggregateFacts
  <1>2. \A i \in 1 .. n : /\ place(i) \in 1 .. n
                          /\ place(i) = IF first + i - 1 <= n THEN first + i - 1 ELSE first + i - 1 - n
    <2> HIDE DEF n
    <2> QED
      BY <1>1, CirclePlace
  <1>3. c = [i \in 1 .. n |-> a.members[place(i)].relay]
    BY DEF Circle
  <1> HIDE DEF n, c, place
  <1>4. \A i \in 1 .. n : c[i] = a.members[place(i)].relay
    BY <1>3
  <1>5. c \in Seq(Relays) /\ Len(c) = n /\ DOMAIN c = 1 .. n
    <2>1. c \in [1 .. n -> Relays]
      BY <1>1, <1>2, <1>3
    <2> QED
      BY <1>1, <1>3, <2>1
  <1>6. ASSUME NEW i \in 1 .. n PROVE c[i] \in MemberSet(a)
    BY <1>1, <1>2, <1>4 DEF MemberSet
  <1>7. ASSUME NEW x \in MemberSet(a) PROVE x \in {c[i] : i \in 1 .. n}
    <2>1. PICK k \in 1 .. n : x = a.members[k].relay
      BY <1>1 DEF MemberSet
    <2>2. PICK i \in 1 .. n : IF first + i - 1 <= n THEN first + i - 1 = k ELSE first + i - 1 - n = k
      <3>1. CASE first <= k
        <4>1. k - first + 1 \in 1 .. n /\ first + (k - first + 1) - 1 = k
          BY <1>1, <3>1
        <4> QED
          BY <1>1, <4>1
      <3>2. CASE first > k
        <4>1. k - first + 1 + n \in 1 .. n /\ first + (k - first + 1 + n) - 1 = k + n
          BY <1>1, <3>2
        <4> QED
          BY <1>1, <4>1
      <3> QED
        BY <1>1, <3>1, <3>2
    <2>3. place(i) = k
      BY <1>1, <1>2, <2>2
    <2> QED
      BY <1>4, <2>1, <2>3
  <1>8. ASSUME Distinct(a), NEW i \in 1 .. n, NEW j \in 1 .. n, c[i] = c[j] PROVE i = j
    <2>1. PICK x \in 1 .. n, y \in 1 .. n :
             /\ x = place(i) /\ y = place(j)
             /\ x = IF first + i - 1 <= n THEN first + i - 1 ELSE first + i - 1 - n
             /\ y = IF first + j - 1 <= n THEN first + j - 1 ELSE first + j - 1 - n
      BY <1>2
    <2>2. a.members[x].relay = a.members[y].relay
      BY <1>4, <1>8, <2>1
    <2>3. x = y
      BY <1>1, <1>8, <2>2 DEF Distinct
    <2> QED
      BY <1>1, <2>1, <2>3
  <1>9. {c[i] : i \in 1 .. n} = MemberSet(a)
    BY <1>6, <1>7
  <1> QED
    BY <1>1, <1>5, <1>8, <1>9 DEF c, n

\* Whoever is a member has a first place.
LEMMA FirstExists ==
  ASSUME NEW a \in Aggregates, NEW relay \in MemberSet(a)
  PROVE  \E k \in DOMAIN a.members : IsFirst(a.members, relay, k)
  <1> SUFFICES ASSUME \A k \in DOMAIN a.members : ~IsFirst(a.members, relay, k)
               PROVE  FALSE
    OBVIOUS
  <1> DEFINE n == Len(a.members)
             S == {m \in Nat : \A j \in 1 .. m : j \in 1 .. n => a.members[j].relay # relay}
  <1>1. n \in Nat \ {0} /\ DOMAIN a.members = 1 .. n
    BY AggregateFacts
  <1>2. 0 \in S
    OBVIOUS
  <1>3. ASSUME NEW m \in Nat, m \in S PROVE m + 1 \in S
    <2> SUFFICES ASSUME m + 1 \in 1 .. n, a.members[m + 1].relay = relay PROVE FALSE
      BY <1>3
    <2>1. \A j \in 1 .. (m + 1) - 1 : a.members[j].relay # relay
      BY <1>1, <1>3
    <2> QED
      BY <1>1, <2>1 DEF IsFirst
  <1>4. \A m \in Nat : m \in S
    <2> HIDE DEF S
    <2> QED
      BY <1>2, <1>3, SetInduction
  <1>5. PICK k \in 1 .. n : a.members[k].relay = relay
    BY <1>1 DEF MemberSet
  <1>6. n \in S
    BY <1>1, <1>4
  <1> QED
    BY <1>1, <1>5, <1>6

\* The chosen member and its fallbacks are a circle from its first place.
LEMMA CandidatesAreCircle ==
  ASSUME NEW settings, settings.aggregate \in Aggregates, NEW relay \in MemberSet(settings.aggregate)
  PROVE  \E first \in DOMAIN settings.aggregate.members :
            /\ IsFirst(settings.aggregate.members, relay, first)
            /\ <<relay>> \o Fallbacks(settings, relay) = Circle(settings.aggregate.members, first)
            /\ (<<relay>> \o Fallbacks(settings, relay))[1] = relay
  <1> DEFINE a == settings.aggregate
             members == a.members
             n == Len(members)
             first == CHOOSE k \in DOMAIN members : IsFirst(members, relay, k)
             f == [offset \in 1 .. n - 1 |-> members[((first + offset - 1) % n) + 1].relay]
             c == Circle(members, first)
             u == <<relay>> \o f
  <1>1. first \in DOMAIN members /\ IsFirst(members, relay, first)
    BY FirstExists
  <1>2. Fallbacks(settings, relay) = f
    BY DEF Fallbacks
  <1> HIDE DEF first
  <1>3. /\ n \in Nat \ {0} /\ DOMAIN members = 1 .. n /\ first \in 1 .. n
        /\ \A k \in 1 .. n : members[k].relay \in Relays
    BY <1>1, AggregateFacts
  <1>4. \A i \in 1 .. n : ((first + i - 2) % n) + 1 \in 1 .. n
    <2> HIDE DEF n
    <2> QED
      BY <1>3, CirclePlace
  <1>5. \A i \in 1 .. n - 1 : (first + i - 1) = first + (i + 1) - 2 /\ i + 1 \in 1 .. n
    <2> HIDE DEF n
    <2> QED
      BY <1>3
  <1>6. \A i \in 1 .. n - 1 : f[i] = members[((first + (i + 1) - 2) % n) + 1].relay /\ f[i] \in Relays
    BY <1>3, <1>4, <1>5
  <1>7. f \in Seq(Relays) /\ Len(f) = n - 1
    <2>1. f \in [1 .. n - 1 -> Relays]
      <3> HIDE DEF n, members
      <3> QED
        BY <1>6
    <2>2. n - 1 \in Nat
      <3> HIDE DEF n
      <3> QED
        BY <1>3
    <2> HIDE DEF n
    <2> QED
      BY <2>1, <2>2
  <1>8. Len(u) = n /\ u[1] = relay /\ \A i \in 1 .. n - 1 : u[i + 1] = f[i]
    <2> HIDE DEF f, n
    <2>1. n \in Nat /\ Len(<<relay>>) = 1
      BY <1>3
    <2> QED
      BY <1>7, <2>1
  <1>9. members[((first + 1 - 2) % n) + 1].relay = relay
    <2>1. ((first + 1 - 2) % n) + 1 = IF first + 1 - 1 <= n THEN first + 1 - 1 ELSE first + 1 - 1 - n
      <3> HIDE DEF n
      <3>1. 1 \in 1 .. n
        BY <1>3
      <3> QED
        BY <1>3, <3>1, CirclePlace
    <2>2. ((first + 1 - 2) % n) + 1 = first
      <3> HIDE DEF n
      <3> QED
        BY <1>3, <2>1
    <2> QED
      BY <1>1, <2>2 DEF IsFirst
  <1>10. \A i \in 1 .. n : u[i] = members[((first + i - 2) % n) + 1].relay
    <2> SUFFICES ASSUME NEW i \in 1 .. n PROVE u[i] = members[((first + i - 2) % n) + 1].relay
      OBVIOUS
    <2>1. CASE i = 1
      BY <1>8, <1>9, <2>1
    <2>2. CASE i # 1
      <3>1. PICK j \in 1 .. n - 1 : i = j + 1
        <4> HIDE DEF n
        <4>1. i - 1 \in 1 .. n - 1 /\ i = (i - 1) + 1
          BY <1>3, <2>2
        <4> QED
          BY <4>1
      <3> HIDE DEF u, f, n
      <3> QED
        BY <1>6, <1>8, <3>1
    <2> QED
      BY <2>1, <2>2
  <1>11. u = c
    <2>1. u \in Seq(Relays)
      <3>1. relay \in Relays
        BY <1>1, <1>3 DEF IsFirst
      <3>2. <<relay>> \in Seq(Relays)
        BY <3>1
      <3> HIDE DEF f
      <3> QED
        BY <1>7, <3>2
    <2>2. DOMAIN u = 1 .. n /\ u = [i \in 1 .. n |-> u[i]]
      <3> HIDE DEF u, n
      <3> QED
        BY <1>8, <2>1
    <2>3. c = [i \in 1 .. n |-> members[((first + i - 2) % n) + 1].relay]
      BY DEF Circle
    <2> HIDE DEF u, c
    <2> QED
      BY <1>10, <2>2, <2>3
  <1> QED
    BY <1>1, <1>2, <1>8, <1>11

------------------------------------------------------------------------------
\* The steps.

\* A request of the proxy as a record.
LEMMA WorksFacts ==
  ASSUME NEW w \in Works
  PROVE  /\ w.stage \in {"idle", "refreshing", "begun", "trying", "answered"}
         /\ w.settings \in ProxySettings \cup {Absent}
         /\ w.conversation \in Conversations \cup {NoConversation}
         /\ w.candidates \in Seq(Relays) /\ w.tried \in Seq(Relays)
         /\ w.answer \in Answers \cup {Absent}
  BY DEF Works

\* A request that has not begun.
LEMMA IdleFacts ==
  /\ Idle \in Works /\ WorkOK(Idle)
  /\ Idle.settings = Absent /\ Idle.tried = <<>> /\ Idle.candidates = <<>> /\ Idle.answer = Absent
  <1>1. <<>> \in Seq(Relays)
    OBVIOUS
  <1> QED
    BY <1>1 DEF Idle, Works, WorkOK

\* One request changes.
Replaced(r, w) == work' = [work EXCEPT ![r] = w]

\* A request replaced by one of the right kind leaves the others as they are.
LEMMA WorkReplaced ==
  ASSUME ProxyInv, NEW r \in Requests, NEW w \in Works, WorkOK(w), Replaced(r, w)
  PROVE  /\ work' \in [Requests -> Works] /\ work'[r] = w
         /\ \A q \in Requests : q # r => work'[q] = work[q]
         /\ \A q \in Requests : WorkOK(work'[q])
  <1>1. work \in [Requests -> Works] /\ \A q \in Requests : WorkOK(work[q])
    BY DEF ProxyInv
  <1>2. work'[r] = w /\ \A q \in Requests : q # r => work'[q] = work[q]
    BY <1>1 DEF Replaced
  <1>3. work' \in [Requests -> Works]
    BY <1>1 DEF Replaced
  <1>4. \A q \in Requests : WorkOK(work'[q])
    BY <1>1, <1>2, Zenon
  <1> QED
    BY <1>2, <1>3, <1>4

\* A request that stays alone and does not change is still pointed to.
LEMMA StillPointed ==
  ASSUME NEW q, Pointed(q), work'[q] = work[q],
         q \in alone' => q \in alone /\ selector' = selector
  PROVE  Pointed(q)'
  BY DEF Pointed, Candidate, MemberAt

\* What is left to show of a step of one request.
LEMMA RequestStep ==
  ASSUME ProxyInv, NEW r \in Requests, work[r].stage # "refreshing",
         NEW w \in Works, WorkOK(w), Replaced(r, w),
         UNCHANGED <<onDisk, cached, refreshing>>,
         selector' # Absent => SelectorOK(selector'),
         \A q \in alone' : q # r => q \in alone /\ selector' = selector,
         Pointed(r)'
  PROVE  ProxyInv'
  <1>1. /\ work' \in [Requests -> Works] /\ work'[r] = w
        /\ \A q \in Requests : q # r => work'[q] = work[q]
        /\ \A q \in Requests : WorkOK(work'[q])
    BY WorkReplaced
  <1>2. \A q \in Requests : Pointed(q)'
    <2> SUFFICES ASSUME NEW q \in Requests PROVE Pointed(q)'
      OBVIOUS
    <2>1. CASE q = r
      BY <2>1
    <2>2. CASE q # r
      BY <1>1, <2>2, StillPointed DEF ProxyInv
    <2> QED
      BY <2>1, <2>2
  <1>3. SettingsOK'
    BY <1>1 DEF ProxyInv, SettingsOK
  <1> QED
    BY <1>1, <1>2, <1>3 DEF ProxyInv, WorkOK, SelectorOK, Asking

\* Nothing is under way, and there is no selector.
LEMMA ProxyInitOK == ProxyInit => ProxyInv
  <1> SUFFICES ASSUME ProxyInit PROVE ProxyInv
    OBVIOUS
  <1>1. work \in [Requests -> Works] /\ \A r \in Requests : WorkOK(work[r])
    BY IdleFacts DEF ProxyInit
  <1>2. \A r \in Requests : Pointed(r)
    BY DEF ProxyInit, Pointed
  <1>3. SettingsOK
    BY ProxyAssumption DEF ProxyInit, SettingsOK
  <1> QED
    BY <1>1, <1>2, <1>3 DEF ProxyInv, ProxyInit

\* What changes the settings, the clock or nothing leaves selector and requests.
LEMMA QuietOK ==
  ASSUME ProxyInv, UNCHANGED <<refreshing, selector, work, alone>>,
         onDisk' \in ProxySettings \cup {Unreadable}, cached' \in ProxySettings
  PROVE  ProxyInv'
  <1>1. \A q \in Requests : Pointed(q)'
    <2> SUFFICES ASSUME NEW q \in Requests PROVE Pointed(q)'
      OBVIOUS
    <2> QED
      BY StillPointed DEF ProxyInv
  <1>2. SettingsOK'
    BY DEF ProxyInv, SettingsOK
  <1> QED
    BY <1>1, <1>2 DEF ProxyInv, WorkOK, SelectorOK, Asking

\* The selector a request or a probe works on.
LEMMA SelectorForOK ==
  ASSUME selector # Absent => SelectorOK(selector),
         NEW settings \in ProxySettings, settings.aggregate # Absent, ValidMembers(settings)
  PROVE  /\ settings.aggregate \in Aggregates
         /\ SelectorOK(SelectorFor(settings)) /\ SelectorFor(settings).aggregate = settings.aggregate
  <1>1. settings.aggregate \in Aggregates
    BY DEF Aggregates, ValidMembers
  <1> QED
    BY <1>1, NewSelectorOK DEF SelectorFor

\* A probe of the selection, with no request (relayProxyStatus).
LEMMA ProbeOK == ASSUME ProxyInv, Probe PROVE ProxyInv'
  <1>1. selector' # Absent => SelectorOK(selector')
    <2>1. selector # Absent => SelectorOK(selector)
      BY DEF ProxyInv
    <2>2. CASE onDisk.aggregate # Absent /\ ValidMembers(onDisk)
      <3>1. SelectorOK(SelectorFor(onDisk))
        BY <2>1, <2>2, SelectorForOK DEF Probe
      <3> QED
        BY <2>2, <3>1 DEF Probe
    <2>3. CASE ~(onDisk.aggregate # Absent /\ ValidMembers(onDisk))
      <3>1. selector' = Absent \/ selector' = selector
        BY <2>3 DEF Probe
      <3> QED
        BY <2>1, <3>1
    <2> QED
      BY <2>2, <2>3
  <1>2. work' = work /\ onDisk' = onDisk /\ cached' = cached /\ refreshing' = refreshing
    BY DEF Probe
  <1>3. \A q \in Requests : Pointed(q)'
    <2> SUFFICES ASSUME NEW q \in Requests PROVE Pointed(q)'
      OBVIOUS
    <2>1. q \in alone' => q \in alone /\ selector' = selector
      BY DEF Probe
    <2> QED
      BY <1>2, <2>1, StillPointed DEF ProxyInv
  <1>4. SettingsOK'
    BY <1>2 DEF ProxyInv, SettingsOK
  <1> QED
    BY <1>1, <1>2, <1>3, <1>4 DEF ProxyInv, WorkOK, SelectorOK, Asking

\* What a request begins with.
Begun(stage, settings) == [Idle EXCEPT !.stage = stage, !.settings = settings]

\* A request that has read the settings, or is about to read them again.
LEMMA BegunOK ==
  ASSUME NEW stage \in {"refreshing", "begun"}, NEW settings \in ProxySettings
  PROVE  /\ Begun(stage, settings) \in Works /\ WorkOK(Begun(stage, settings))
         /\ Begun(stage, settings).stage = stage
  <1>1. <<>> \in Seq(Relays)
    OBVIOUS
  <1> QED
    BY <1>1 DEF Begun, Idle, Works, WorkOK

\* A request begins: from the cached settings or by refreshing them.
LEMMA BeginOK == ASSUME ProxyInv, NEW r \in Requests, Begin(r) PROVE ProxyInv'
  <1>1. /\ work[r].stage = "idle" /\ selector' = selector /\ alone' = alone
        /\ onDisk' = onDisk /\ cached' = cached /\ onDisk \in ProxySettings \cup {Unreadable} /\ cached \in ProxySettings
        /\ refreshing = Absent /\ (selector # Absent => SelectorOK(selector))
    BY DEF Begin, ProxyInv, SettingsOK
  <1>2. CASE fresh
    <2> DEFINE w == Begun("begun", cached)
    <2>1. Replaced(r, w) /\ refreshing' = refreshing
      BY <1>2 DEF Begin, Replaced, Begun
    <2>2. w \in Works /\ WorkOK(w) /\ w.stage = "begun"
      BY <1>1, BegunOK
    <2> HIDE DEF w
    <2>3. Pointed(r)'
      <3>1. work'[r].stage = "begun"
        BY <2>1, <2>2, WorkReplaced
      <3> QED
        BY <3>1 DEF Pointed
    <2>4. UNCHANGED <<onDisk, cached, refreshing>> /\ work[r].stage # "refreshing"
      BY <1>1, <2>1
    <2>5. selector' # Absent => SelectorOK(selector')
      BY <1>1
    <2>6. \A q \in alone' : q # r => q \in alone /\ selector' = selector
      BY <1>1
    <2> QED
      BY <2>1, <2>2, <2>3, <2>4, <2>5, <2>6, RequestStep
  <1>3. CASE ~fresh
    <2> DEFINE settings == IF onDisk = Unreadable THEN cached ELSE onDisk
               w == Begun("refreshing", settings)
    <2>1. Replaced(r, w) /\ refreshing' = r
      BY <1>3 DEF Begin, Replaced, Begun
    <2>2. w \in Works /\ WorkOK(w) /\ w.stage = "refreshing"
      <3>1. settings \in ProxySettings
        BY <1>1
      <3> HIDE DEF settings
      <3> QED
        BY <3>1, BegunOK
    <2> HIDE DEF w
    <2>3. /\ work' \in [Requests -> Works] /\ work'[r] = w
          /\ \A q \in Requests : q # r => work'[q] = work[q]
          /\ \A q \in Requests : WorkOK(work'[q])
      BY <2>1, <2>2, WorkReplaced
    <2>4. \A q \in Requests : Pointed(q)'
      <3> SUFFICES ASSUME NEW q \in Requests PROVE Pointed(q)'
        OBVIOUS
      <3>1. CASE q = r
        BY <2>2, <2>3, <3>1 DEF Pointed
      <3>2. CASE q # r
        BY <1>1, <2>3, <3>2, StillPointed DEF ProxyInv
      <3> QED
        BY <3>1, <3>2
    <2>5. SettingsOK'
      BY <1>1, <2>1, <2>2, <2>3 DEF SettingsOK
    <2> QED
      BY <1>1, <2>3, <2>4, <2>5 DEF ProxyInv, WorkOK, SelectorOK, Asking
  <1> QED
    BY <1>2, <1>3

\* A request whose settings have been read goes on with them.
LEMMA RefreshedOK ==
  ASSUME NEW w \in Works, WorkOK(w), w.stage = "refreshing"
  PROVE  /\ [w EXCEPT !.stage = "begun"] \in Works /\ WorkOK([w EXCEPT !.stage = "begun"])
         /\ [w EXCEPT !.stage = "begun"].stage = "begun" /\ w.settings \in ProxySettings
  BY DEF Works, WorkOK

\* A request has refreshed the settings.
LEMMA RefreshOK == ASSUME ProxyInv, NEW r \in Requests, Refresh(r) PROVE ProxyInv'
  <1> DEFINE w == [work[r] EXCEPT !.stage = "begun"]
  <1>1. /\ refreshing = r /\ work[r].stage = "refreshing" /\ work[r] \in Works /\ WorkOK(work[r])
        /\ refreshing' = Absent /\ cached' = work[r].settings
        /\ onDisk' = onDisk /\ selector' = selector /\ alone' = alone
        /\ onDisk \in ProxySettings \cup {Unreadable} /\ (selector # Absent => SelectorOK(selector))
        /\ work \in [Requests -> Works]
    BY DEF Refresh, ProxyInv, SettingsOK
  <1>2. w \in Works /\ WorkOK(w) /\ w.stage = "begun" /\ work[r].settings \in ProxySettings
    BY <1>1, RefreshedOK
  <1>3. Replaced(r, w)
    BY <1>1 DEF Refresh, Replaced
  <1> HIDE DEF w
  <1>4. /\ work' \in [Requests -> Works] /\ work'[r] = w
        /\ \A q \in Requests : q # r => work'[q] = work[q]
        /\ \A q \in Requests : WorkOK(work'[q])
    BY <1>2, <1>3, WorkReplaced
  <1>5. \A q \in Requests : Pointed(q)'
    <2> SUFFICES ASSUME NEW q \in Requests PROVE Pointed(q)'
      OBVIOUS
    <2>1. CASE q = r
      BY <1>2, <1>4, <2>1 DEF Pointed
    <2>2. CASE q # r
      BY <1>1, <1>4, <2>2, StillPointed DEF ProxyInv
    <2> QED
      BY <2>1, <2>2
  <1>6. SettingsOK'
    <2>1. Absent \notin Requests
      BY ProxyAssumption
    <2>2. onDisk' \in ProxySettings \cup {Unreadable} /\ cached' \in ProxySettings /\ refreshing' = Absent
      BY <1>1, <1>2
    <2> QED
      BY <2>1, <2>2 DEF SettingsOK
  <1> QED
    BY <1>1, <1>4, <1>5, <1>6 DEF ProxyInv, WorkOK, SelectorOK, Asking

\* What the invariant says of one request.
LEMMA RequestFacts ==
  ASSUME ProxyInv, NEW r \in Requests
  PROVE  /\ work \in [Requests -> Works] /\ work[r] \in Works /\ WorkOK(work[r]) /\ Pointed(r)
         /\ (selector # Absent => SelectorOK(selector))
  BY DEF ProxyInv

\* A request that ends is bound by nothing.
Answered(w, answerGiven, tried) ==
    [w EXCEPT !.stage = "answered", !.answer = answerGiven, !.tried = tried]

\* A request that has its answer.
LEMMA AnsweredOK ==
  ASSUME NEW w \in Works, NEW given \in Answers, NEW tried \in Seq(Relays)
  PROVE  /\ Answered(w, given, tried) \in Works /\ WorkOK(Answered(w, given, tried))
         /\ Answered(w, given, tried).stage = "answered"
         /\ Answered(w, given, tried).answer = given /\ Answered(w, given, tried).tried = tried
         /\ Answered(w, given, tried).settings = w.settings
  BY DEF Answered, Works, WorkOK

\* Giving an answer replaces the request.
LEMMA AnswerReplaces ==
  ASSUME work \in [Requests -> Works], NEW r \in Requests, NEW given, NEW tried, Answer(r, given, tried)
  PROVE  Replaced(r, Answered(work[r], given, tried))
  BY DEF Answer, Replaced, Answered

\* The end of a request, with what it did to the selector.
LEMMA AnswerOK ==
  ASSUME ProxyInv, NEW r \in Requests, work[r].stage # "refreshing",
         NEW given \in Answers, NEW tried \in Seq(Relays), Answer(r, given, tried),
         UNCHANGED <<onDisk, cached, refreshing>>,
         selector' # Absent => SelectorOK(selector'),
         \A q \in alone' : q # r => q \in alone /\ selector' = selector
  PROVE  ProxyInv'
  <1> DEFINE w == Answered(work[r], given, tried)
  <1>1. w \in Works /\ WorkOK(w) /\ w.stage = "answered"
    BY RequestFacts, AnsweredOK
  <1>2. Replaced(r, w)
    BY RequestFacts, AnswerReplaces
  <1> HIDE DEF w
  <1>3. Pointed(r)'
    <2>1. work'[r].stage = "answered"
      BY <1>1, <1>2, WorkReplaced
    <2> QED
      BY <2>1 DEF Pointed
  <1> QED
    BY <1>1, <1>2, <1>3, RequestStep

\* No supplier has been asked.
LEMMA EmptyIsSeq == <<>> \in Seq(Relays)
  OBVIOUS

\* A request that no supplier can serve.
LEMMA TurnAwayOK == ASSUME ProxyInv, NEW r \in Requests, TurnAway(r) PROVE ProxyInv'
  <1> DEFINE w == [Idle EXCEPT !.stage = "answered", !.answer = "rejected"]
  <1>1. w \in Works /\ WorkOK(w) /\ w.stage = "answered"
    BY EmptyIsSeq DEF Idle, Works, WorkOK, Answers
  <1>2. Replaced(r, w) /\ work[r].stage = "idle"
    BY DEF TurnAway, Replaced
  <1> HIDE DEF w
  <1>3. /\ UNCHANGED <<onDisk, cached, refreshing>> /\ selector' = selector /\ alone' = alone
        /\ (selector # Absent => SelectorOK(selector))
    BY DEF TurnAway, ProxyInv
  <1>4. Pointed(r)'
    <2>1. work'[r].stage = "answered"
      BY <1>1, <1>2, WorkReplaced
    <2> QED
      BY <2>1 DEF Pointed
  <1> QED
    BY <1>1, <1>2, <1>3, <1>4, RequestStep

\* A request with an answer ends.
LEMMA LeaveOK == ASSUME ProxyInv, NEW r \in Requests, Leave(r) PROVE ProxyInv'
  <1>1. Replaced(r, Idle) /\ work[r].stage = "answered"
    BY DEF Leave, Replaced
  <1>2. /\ UNCHANGED <<onDisk, cached, refreshing>> /\ selector' = selector /\ alone' = alone \ {r}
        /\ (selector # Absent => SelectorOK(selector))
    BY DEF Leave, ProxyInv
  <1>3. Pointed(r)'
    BY <1>2 DEF Pointed
  <1> QED
    BY <1>1, <1>2, <1>3, IdleFacts, RequestStep

\* A request that has one supplier to ask.
AsksOne(w, relay) == [w EXCEPT !.stage = "trying", !.candidates = <<relay>>]

\* A request that asks one supplier and no other.
LEMMA AsksOneOK ==
  ASSUME NEW w \in Works, WorkOK(w), w.stage = "begun", w.settings.aggregate = Absent, NEW relay \in Relays
  PROVE  /\ AsksOne(w, relay) \in Works /\ WorkOK(AsksOne(w, relay))
         /\ AsksOne(w, relay).settings.aggregate = Absent
  <1> DEFINE v == AsksOne(w, relay)
  <1>1. <<relay>> \in Seq(Relays) /\ Len(<<relay>>) = 1
    OBVIOUS
  <1>2. /\ v \in Works /\ v.stage = "trying" /\ v.settings = w.settings /\ v.candidates = <<relay>>
        /\ v.tried = w.tried /\ v.answer = w.answer
    BY <1>1 DEF Works, AsksOne
  <1>3. w.tried = <<>> /\ w.settings \in ProxySettings /\ w.answer = Absent
    BY DEF WorkOK
  <1> HIDE DEF v
  <1>4. Asking(v)
    BY <1>1, <1>2, <1>3 DEF Asking
  <1> QED
    BY <1>2, <1>3, <1>4 DEF WorkOK, v

\* Without an aggregate there is nothing to point to.
LEMMA PointsNowhere ==
  ASSUME selector' # Absent => SelectorOK(selector'), NEW r, work'[r].settings.aggregate = Absent
  PROVE  Pointed(r)'
  <1> SUFFICES ASSUME selector' # Absent PROVE selector'.aggregate # Absent
    BY DEF Pointed
  <1>1. selector'.aggregate \in Aggregates
    BY SelectorFacts DEF SelectorOK
  <1> QED
    BY <1>1, AggregateFacts

\* What such a request's selection must leave alone.
LEMMA AskOneStep ==
  ASSUME ProxyInv, NEW r \in Requests, work[r].stage = "begun", work[r].settings.aggregate = Absent,
         NEW relay \in Relays, Replaced(r, AsksOne(work[r], relay)),
         UNCHANGED <<onDisk, cached, refreshing>>,
         selector' # Absent => SelectorOK(selector'),
         \A q \in alone' : q # r => q \in alone /\ selector' = selector
  PROVE  ProxyInv'
  <1> DEFINE w == AsksOne(work[r], relay)
  <1>1. w \in Works /\ WorkOK(w) /\ w.settings.aggregate = Absent
    BY RequestFacts, AsksOneOK
  <1>2. Replaced(r, w)
    OBVIOUS
  <1> HIDE DEF w
  <1>3. Pointed(r)'
    <2>1. work'[r].settings.aggregate = Absent
      BY <1>1, <1>2, WorkReplaced
    <2> QED
      BY <2>1, PointsNowhere
  <1> QED
    BY <1>1, <1>2, <1>3, RequestStep

\* A request whose model names its supplier.
LEMMA RouteOK == ASSUME ProxyInv, NEW r \in Requests, Route(r) PROVE ProxyInv'
  <1> DEFINE settings == work[r].settings
  <1>1. /\ work[r].stage = "begun" /\ settings.aggregate = Absent /\ settings.route # Absent
        /\ UNCHANGED <<onDisk, cached, refreshing>> /\ selector' = selector /\ alone' = alone
        /\ (selector # Absent => SelectorOK(selector))
    BY DEF Route, ProxyInv
  <1>2. CASE settings.route \in settings.usable \ {settings.active}
    <2>1. Replaced(r, AsksOne(work[r], settings.route))
      BY <1>2, RequestFacts DEF Route, Replaced, AsksOne
    <2>2. settings.route \in Relays
      <3>1. settings \in ProxySettings
        BY <1>1, RequestFacts DEF WorkOK
      <3> QED
        BY <1>1, <3>1, ProxyAssumption
    <2> QED
      BY <1>1, <2>1, <2>2, AskOneStep
  <1>3. CASE settings.route \notin settings.usable \ {settings.active}
    <2>1. Answer(r, "rejected", <<>>)
      BY <1>3 DEF Route
    <2>2. "rejected" \in Answers
      BY DEF Answers
    <2> QED
      BY <1>1, <2>1, <2>2, EmptyIsSeq, AnswerOK
  <1> QED
    BY <1>2, <1>3

\* A request to the active supplier.
LEMMA SelectActiveOK == ASSUME ProxyInv, NEW r \in Requests, SelectActive(r) PROVE ProxyInv'
  <1>1. /\ work[r].stage = "begun" /\ work[r].settings.aggregate = Absent
        /\ UNCHANGED <<onDisk, cached, refreshing>> /\ selector' = Absent
        /\ alone' = (IF selector' = selector THEN alone ELSE alone \cap {r})
    BY DEF SelectActive, Moved
  <1>2. Replaced(r, AsksOne(work[r], work[r].settings.active))
    BY RequestFacts DEF SelectActive, Replaced, AsksOne
  <1>3. work[r].settings.active \in Relays
    <2>1. work[r].settings \in ProxySettings
      BY <1>1, RequestFacts DEF WorkOK
    <2> QED
      BY <2>1, ProxyAssumption
  <1>4. \A q \in alone' : q # r => q \in alone /\ selector' = selector
    BY <1>1
  <1> QED
    BY <1>1, <1>2, <1>3, <1>4, AskOneStep

\* A request that asks the members of an aggregate.
AsksCircle(w, conversation, candidates) ==
    [w EXCEPT !.stage = "trying", !.conversation = conversation, !.candidates = candidates]

\* A request that asks the members of an aggregate round the circle.
LEMMA AsksCircleOK ==
  ASSUME NEW w \in Works, WorkOK(w), w.stage = "begun", w.settings.aggregate \in Aggregates,
         NEW c \in Conversations \cup {NoConversation}, NEW first \in DOMAIN w.settings.aggregate.members,
         NEW candidates, candidates = Circle(w.settings.aggregate.members, first)
  PROVE  LET v == AsksCircle(w, c, candidates) IN
         /\ v \in Works /\ WorkOK(v) /\ v.settings = w.settings
         /\ v.candidates = candidates /\ v.tried = <<>>
  <1> DEFINE v == AsksCircle(w, c, candidates)
  <1>1. candidates \in Seq(Relays) /\ Len(candidates) \in Nat \ {0}
    BY CircleFacts
  <1>2. /\ v \in Works /\ v.stage = "trying" /\ v.settings = w.settings /\ v.candidates = candidates
        /\ v.tried = w.tried /\ v.answer = w.answer
    BY <1>1 DEF Works, AsksCircle
  <1>3. w.tried = <<>> /\ w.settings \in ProxySettings /\ w.answer = Absent
    BY DEF WorkOK
  <1> HIDE DEF v
  <1>4. Asking(v)
    BY <1>1, <1>2, <1>3, AggregateFacts DEF Asking
  <1> QED
    BY <1>2, <1>3, <1>4 DEF WorkOK, v

\* A request to an aggregate: its turn moves the selector, or its conversation's
\* member is taken, and the members after it are its fallbacks.
LEMMA SelectMemberOK ==
  ASSUME ProxyInv, NEW r \in Requests, NEW c \in Conversations \cup {NoConversation}, SelectMember(r, c)
  PROVE  ProxyInv'
  <1> DEFINE settings == work[r].settings
             s == SelectorFor(settings)
             turn == Turn(s, c)
             candidates == <<turn.relay>> \o Fallbacks(settings, turn.relay)
             w == AsksCircle(work[r], c, candidates)
  <1>1. /\ work[r].stage = "begun" /\ settings.aggregate # Absent
        /\ UNCHANGED <<onDisk, cached, refreshing>>
        /\ (selector # Absent => SelectorOK(selector))
        /\ settings \in ProxySettings
    BY RequestFacts DEF SelectMember, WorkOK
  <1>2. CASE ~ValidMembers(settings)
    <2>1. Answer(r, "rejected", <<>>) /\ selector' = selector /\ alone' = alone
      BY <1>2 DEF SelectMember
    <2>2. "rejected" \in Answers
      BY DEF Answers
    <2> QED
      BY <1>1, <2>1, <2>2, EmptyIsSeq, AnswerOK
  <1>3. CASE ValidMembers(settings)
    <2>1. settings.aggregate \in Aggregates /\ SelectorOK(s) /\ s.aggregate = settings.aggregate
      BY <1>1, <1>3, SelectorForOK
    <2>2. /\ turn.relay \in MemberSet(settings.aggregate)
          /\ SelectorOK(turn.selector) /\ turn.selector.aggregate = settings.aggregate
          /\ settings.aggregate.strategy = "failover" =>
                turn.relay = MemberAt(s, s.failoverIndex) /\ turn.selector = s
      <3> HIDE DEF s
      <3> QED
        BY <2>1, EveryTurnOK
    <2>3. /\ selector' = turn.selector
          /\ alone' = (IF selector' = selector THEN alone ELSE {}) \cup {r}
          /\ Replaced(r, w)
      BY <1>3, RequestFacts DEF SelectMember, Replaced, AsksCircle
    <2> HIDE DEF turn, s
    <2>4. PICK first \in DOMAIN settings.aggregate.members :
             candidates = Circle(settings.aggregate.members, first) /\ candidates[1] = turn.relay
      BY <2>1, <2>2, CandidatesAreCircle
    <2> HIDE DEF candidates
    <2>6. /\ w \in Works /\ WorkOK(w) /\ w.settings = settings
          /\ w.candidates = candidates /\ w.tried = <<>>
      <3>1. work[r] \in Works /\ WorkOK(work[r])
        BY RequestFacts
      <3> QED
        BY <1>1, <2>1, <2>4, <3>1, AsksCircleOK
    <2> HIDE DEF w
    <2>7. Pointed(r)'
      <3> SUFFICES ASSUME selector'.aggregate.strategy = "failover"
                   PROVE  MemberAt(selector', selector'.failoverIndex) = Candidate(r)'
        BY DEF Pointed, MemberAt
      <3>1. work'[r] = w
        BY <2>3, <2>6, WorkReplaced
      <3>2. Candidate(r)' = candidates[1]
        BY <2>6, <3>1 DEF Candidate
      <3>3. selector' = s /\ turn.relay = MemberAt(s, s.failoverIndex)
        BY <2>2, <2>3
      <3> QED
        BY <2>4, <3>2, <3>3
    <2>8. selector' # Absent => SelectorOK(selector')
      BY <2>2, <2>3
    <2>9. \A q \in alone' : q # r => q \in alone /\ selector' = selector
      BY <2>3
    <2>10. work[r].stage # "refreshing"
      BY <1>1
    <2> HIDE DEF settings
    <2> QED
      BY <1>1, <2>3, <2>6, <2>7, <2>8, <2>9, <2>10, RequestStep
  <1> QED
    BY <1>2, <1>3

\* The suppliers tried, with the one under way.
LEMMA TriedFacts ==
  ASSUME NEW w \in Works, Asking(w)
  PROVE  LET k == Len(w.tried) + 1
             t == Append(w.tried, w.candidates[k]) IN
         /\ k \in 1 .. Len(w.candidates) /\ t \in Seq(Relays) /\ Len(t) = k
         /\ \A i \in 1 .. k : t[i] = w.candidates[i]
         /\ t[k] = w.candidates[k]
  <1>1. w.tried \in Seq(Relays) /\ w.candidates \in Seq(Relays)
    BY WorksFacts
  <1>2. PICK p \in Seq(Relays), c \in Seq(Relays) : p = w.tried /\ c = w.candidates
    BY <1>1
  <1>3. Len(p) \in Nat /\ Len(c) \in Nat /\ Len(p) < Len(c) /\ \A i \in 1 .. Len(p) : p[i] = c[i]
    BY <1>2 DEF Asking
  <1>4. Len(p) + 1 \in 1 .. Len(c) /\ c[Len(p) + 1] \in Relays
    BY <1>3
  <1>5. /\ Append(p, c[Len(p) + 1]) \in Seq(Relays) /\ Len(Append(p, c[Len(p) + 1])) = Len(p) + 1
        /\ \A i \in 1 .. Len(p) : Append(p, c[Len(p) + 1])[i] = p[i]
        /\ Append(p, c[Len(p) + 1])[Len(p) + 1] = c[Len(p) + 1]
    BY <1>3, <1>4
  <1>6. \A i \in 1 .. Len(p) + 1 : Append(p, c[Len(p) + 1])[i] = c[i]
    BY <1>3, <1>5
  <1> QED
    BY <1>2, <1>4, <1>5, <1>6

\* An answer of a supplier: the selector may change only for this aggregate, and
\* a request whose rotation another one moves is no longer alone.
LEMMA AttemptFacts ==
  ASSUME ProxyInv, NEW r \in Requests, NEW failed \in BOOLEAN, Attempt(r, failed)
  PROVE  /\ work[r].stage = "trying" /\ work[r].settings \in ProxySettings
         /\ work[r] \in Works /\ WorkOK(work[r]) /\ Asking(work[r]) /\ Tried(r) \in Seq(Relays)
         /\ UNCHANGED <<onDisk, cached, refreshing>>
         /\ selector' = AfterEvent(work[r].settings, failed)
         /\ (selector' # Absent => SelectorOK(selector'))
         /\ \A q \in alone' : q \in alone /\ (q # r => selector' = selector)
  <1>1. /\ work[r].stage = "trying" /\ UNCHANGED <<onDisk, cached, refreshing>>
        /\ selector' = AfterEvent(work[r].settings, failed)
        /\ alone' = (IF selector' = selector THEN alone ELSE alone \cap {r})
    BY DEF Attempt, Recorded, Moved
  <1>2. /\ work[r] \in Works /\ WorkOK(work[r]) /\ Asking(work[r]) /\ work[r].settings \in ProxySettings
        /\ (selector # Absent => SelectorOK(selector))
    BY <1>1, RequestFacts DEF WorkOK
  <1>3. Tried(r) \in Seq(Relays)
    BY <1>2, TriedFacts DEF Tried, Candidate
  <1>4. selector' # Absent => SelectorOK(selector')
    BY <1>1, <1>2, EventOK
  <1> QED
    BY <1>1, <1>2, <1>3, <1>4

\* The request ends with that answer.
LEMMA EndOK ==
  ASSUME ProxyInv, NEW r \in Requests, NEW failed \in BOOLEAN, Attempt(r, failed),
         NEW given \in Answers, Answer(r, given, Tried(r))
  PROVE  ProxyInv'
  BY AttemptFacts, AnswerOK

\* The member after the one at an index is the next of the circle.
LEMMA CircleGoesOn ==
  ASSUME NEW a \in Aggregates, Distinct(a), NEW first \in DOMAIN a.members,
         NEW index \in Nat, index < Len(a.members),
         NEW k \in Nat \ {0}, k < Len(a.members),
         a.members[(index % Len(a.members)) + 1].relay = Circle(a.members, first)[k]
  PROVE  a.members[(((index + 1) % Len(a.members)) % Len(a.members)) + 1].relay
            = Circle(a.members, first)[k + 1]
  <1> DEFINE n == Len(a.members)
             after == (index + 1) % n
             place(i) == ((first + i - 2) % n) + 1
  <1>1. n \in Nat \ {0} /\ DOMAIN a.members = 1 .. n
    BY AggregateFacts
  <1>2. Circle(a.members, first)[k] = a.members[place(k)].relay
        /\ Circle(a.members, first)[k + 1] = a.members[place(k + 1)].relay
    <2>1. k \in 1 .. n /\ k + 1 \in 1 .. n
      BY <1>1
    <2>2. Circle(a.members, first) = [i \in 1 .. n |-> a.members[place(i)].relay]
      BY DEF Circle
    <2> HIDE DEF n, place
    <2> QED
      BY <2>1, <2>2
  <1>3. index % n = index /\ after \in Nat /\ after < n /\ after = IF index + 1 < n THEN index + 1 ELSE 0
    <2> HIDE DEF n
    <2> QED
      BY <1>1, NextIndex
  <1>4. after % n = after
    <2> HIDE DEF n, after
    <2> QED
      BY <1>1, <1>3, NextIndex
  <1>5. PICK x \in 1 .. n, y \in 1 .. n :
           /\ x = place(k) /\ y = place(k + 1)
           /\ x = IF first + k - 1 <= n THEN first + k - 1 ELSE first + k - 1 - n
           /\ y = IF first + (k + 1) - 1 <= n THEN first + (k + 1) - 1 ELSE first + (k + 1) - 1 - n
    <2>1. k \in 1 .. n /\ k + 1 \in 1 .. n /\ first \in 1 .. n
      BY <1>1
    <2> HIDE DEF n
    <2>2. /\ place(k) \in 1 .. n
          /\ place(k) = IF first + k - 1 <= n THEN first + k - 1 ELSE first + k - 1 - n
      BY <1>1, <2>1, CirclePlace
    <2>3. /\ place(k + 1) \in 1 .. n
          /\ place(k + 1) = IF first + (k + 1) - 1 <= n THEN first + (k + 1) - 1 ELSE first + (k + 1) - 1 - n
      BY <1>1, <2>1, CirclePlace
    <2> HIDE DEF place
    <2> QED
      BY <2>2, <2>3
  <1>6. a.members[index + 1].relay = a.members[x].relay
    BY <1>2, <1>3, <1>5
  <1>7. index + 1 = x
    <2>1. index + 1 \in DOMAIN a.members /\ x \in DOMAIN a.members
      BY <1>1
    <2> HIDE DEF n, place, after
    <2> QED
      BY <1>6, <2>1 DEF Distinct
  <1>8. after + 1 = y
    <2>1. first \in 1 .. n
      BY <1>1
    <2> HIDE DEF n, place, after
    <2> QED
      BY <1>1, <1>3, <1>5, <1>7, <2>1
  <1> QED
    <2>1. (after % n) + 1 = place(k + 1)
      <3> HIDE DEF n, place, after
      <3> QED
        BY <1>4, <1>5, <1>8
    <2>2. a.members[(after % n) + 1].relay = a.members[place(k + 1)].relay
      <3> HIDE DEF n, place, after
      <3> QED
        BY <2>1
    <2> QED
      BY <1>2, <2>2

\* One supplier more has been tried.
LEMMA TriedMore ==
  ASSUME NEW w \in Works, WorkOK(w), w.stage = "trying", NEW t \in Seq(Relays),
         NEW k, k = Len(w.tried) + 1, k # Len(w.candidates), Len(t) = k,
         \A i \in 1 .. k : t[i] = w.candidates[i]
  PROVE  LET v == [w EXCEPT !.tried = t] IN
         /\ v \in Works /\ WorkOK(v) /\ v.settings = w.settings
         /\ v.candidates = w.candidates /\ v.tried = t
  <1> DEFINE v == [w EXCEPT !.tried = t]
  <1>1. /\ v \in Works /\ v.stage = "trying" /\ v.settings = w.settings /\ v.candidates = w.candidates
        /\ v.tried = t /\ v.answer = w.answer
    BY DEF Works
  <1>2. Asking(w) /\ w.settings \in ProxySettings /\ w.answer = Absent
    BY DEF WorkOK
  <1>3. Len(t) < Len(w.candidates)
    <2>1. Len(w.tried) \in Nat /\ Len(w.candidates) \in Nat /\ Len(w.tried) < Len(w.candidates)
      BY <1>2, WorksFacts DEF Asking
    <2> QED
      BY <2>1
  <1>4. DOMAIN t = 1 .. k
    OBVIOUS
  <1> HIDE DEF v
  <1>5. Asking(v)
    BY <1>1, <1>2, <1>3, <1>4 DEF Asking
  <1> QED
    BY <1>1, <1>2, <1>5 DEF WorkOK, v

\* The next of the circle is asked instead, and the failover points at it too,
\* as long as the request is alone.
LEMMA FallBackOK == ASSUME ProxyInv, NEW r \in Requests, FallBack(r) PROVE ProxyInv'
  <1> DEFINE w == work[r]
             t == Tried(r)
             v == [w EXCEPT !.tried = t]
             k == Len(w.tried) + 1
  <1>1. Attempt(r, TRUE) /\ k # Len(w.candidates)
    BY DEF FallBack, IsLast
  <1>2. /\ w.stage = "trying" /\ w.settings \in ProxySettings
        /\ w \in Works /\ WorkOK(w) /\ Asking(w) /\ t \in Seq(Relays)
        /\ UNCHANGED <<onDisk, cached, refreshing>>
        /\ selector' = AfterEvent(w.settings, TRUE)
        /\ (selector' # Absent => SelectorOK(selector'))
        /\ \A q \in alone' : q \in alone /\ (q # r => selector' = selector)
    BY <1>1, AttemptFacts
  <1>3. /\ k \in 1 .. Len(w.candidates) /\ Len(t) = k
        /\ \A i \in 1 .. k : t[i] = w.candidates[i]
    BY <1>2, TriedFacts DEF Tried, Candidate
  <1>4. Replaced(r, v)
    BY RequestFacts DEF FallBack, Replaced
  <1> HIDE DEF t
  <1>5. v \in Works /\ WorkOK(v) /\ v.settings = w.settings /\ v.candidates = w.candidates /\ v.tried = t
    <2> HIDE DEF w
    <2> QED
      BY <1>1, <1>2, <1>3, TriedMore
  <1> HIDE DEF v
  <1>6. work'[r] = v
    BY <1>4, <1>5, WorkReplaced
  <1>7. Pointed(r)'
    <2> SUFFICES ASSUME r \in alone', selector' # Absent, selector'.aggregate = w.settings.aggregate,
                        selector'.aggregate.strategy = "failover", Distinct(selector'.aggregate)
                 PROVE  MemberAt(selector', selector'.failoverIndex) = Candidate(r)'
      BY <1>5, <1>6 DEF Pointed, MemberAt
    <2> DEFINE a == selector.aggregate
               n == Len(a.members)
               i == selector.failoverIndex
    <2>1. /\ selector # Absent /\ w.settings.aggregate # Absent /\ selector'.aggregate = a
          /\ (a.strategy = "failover" => selector'.failoverIndex = (i + 1) % n)
      <3>1. (selector # Absent => SelectorOK(selector))
        BY RequestFacts
      <3> HIDE DEF w
      <3> QED
        BY <1>2, <3>1, EventOK
    <2>2. MemberAt(selector, i) = Candidate(r)
      BY <1>2, <2>1, RequestFacts DEF Pointed
    <2>3. a \in Aggregates /\ i \in Nat /\ i < n
      BY <2>1, RequestFacts, SelectorFacts DEF SelectorOK, InRange
    <2>4. PICK first \in DOMAIN a.members : w.candidates = Circle(a.members, first)
      BY <1>2, <2>1 DEF Asking
    <2>5. k \in Nat \ {0} /\ k < n
      <3>1. Len(w.candidates) = n /\ n \in Nat
        BY <2>3, <2>4, CircleFacts
      <3> HIDE DEF w, n, k
      <3> QED
        BY <1>1, <1>3, <3>1
    <2>6. a.members[(i % n) + 1].relay = Circle(a.members, first)[k]
      BY <2>2, <2>4 DEF MemberAt, Candidate
    <2>7. a.members[(((i + 1) % n) % n) + 1].relay = Circle(a.members, first)[k + 1]
      BY <2>1, <2>3, <2>5, <2>6, CircleGoesOn
    <2>8. Candidate(r)' = Circle(a.members, first)[k + 1]
      BY <1>3, <1>5, <1>6, <2>4 DEF Candidate
    <2>9. MemberAt(selector', selector'.failoverIndex) = a.members[(((i + 1) % n) % n) + 1].relay
      BY <2>1 DEF MemberAt
    <2> QED
      BY <2>7, <2>8, <2>9
  <1>8. w.stage # "refreshing"
    BY <1>2
  <1> QED
    BY <1>2, <1>4, <1>5, <1>7, <1>8, RequestStep

\* Every step keeps the invariant.
LEMMA ProxyStepOK == ASSUME ProxyInv, [ProxyNext]_proxyVars PROVE ProxyInv'
  <1>1. onDisk \in ProxySettings \cup {Unreadable} /\ cached \in ProxySettings
    BY DEF ProxyInv, SettingsOK
  <1>2. CASE UNCHANGED proxyVars
    BY <1>1, <1>2, QuietOK DEF proxyVars
  <1>3. ASSUME NEW s \in ProxySettings \cup {Unreadable}, SaveSettings(s) PROVE ProxyInv'
    BY <1>1, <1>3, QuietOK DEF SaveSettings
  <1>4. ASSUME NEW s \in ProxySettings, BridgeSaves(s) PROVE ProxyInv'
    BY <1>4, QuietOK DEF BridgeSaves
  <1>5. CASE Expire
    BY <1>1, <1>5, QuietOK DEF Expire
  <1>6. CASE ProxyDone
    BY <1>2, <1>6 DEF ProxyDone
  <1>7. ASSUME NEW r \in Requests,
               Refuse(r) \/ GiveUp(r) \/ PassOn(r) \/ Succeed(r)
        PROVE  ProxyInv'
    <2>1. {"refused", "failed", "passed", "ok"} \subseteq Answers /\ TRUE \in BOOLEAN /\ FALSE \in BOOLEAN
      BY DEF Answers
    <2>2. CASE Refuse(r)
      BY <2>1, <2>2, EndOK DEF Refuse
    <2>3. CASE GiveUp(r)
      BY <2>1, <2>3, EndOK DEF GiveUp
    <2>4. CASE PassOn(r)
      BY <2>1, <2>4, EndOK DEF PassOn
    <2>5. CASE Succeed(r)
      BY <2>1, <2>5, EndOK DEF Succeed
    <2> QED
      BY <1>7, <2>2, <2>3, <2>4, <2>5
  <1>8. ASSUME NEW r \in Requests,
               \/ Begin(r) \/ Refresh(r) \/ TurnAway(r) \/ Route(r) \/ SelectActive(r)
               \/ \E c \in Conversations \cup {NoConversation} : SelectMember(r, c)
               \/ FallBack(r) \/ Leave(r)
        PROVE  ProxyInv'
    BY <1>8, BeginOK, RefreshOK, TurnAwayOK, RouteOK, SelectActiveOK, SelectMemberOK, FallBackOK, LeaveOK
  <1> QED
    BY <1>2, <1>3, <1>4, <1>5, <1>6, <1>7, <1>8, ProbeOK DEF ProxyNext

\* The types, and what the steps keep of the selector and the requests: a member
\* taken once has had its weight of turns in every round that is over and those
\* of this round up to the index; a request has asked the first of its
\* candidates, which are the members in a circle; and while no other request
\* moves the rotation, the failover points at the one it asks.
THEOREM ProxyInvariant == ProxySpec => []ProxyInv
  BY ProxyInitOK, ProxyStepOK, PTL DEF ProxySpec

\* Under any aggregates, weights, requests and settings saved meanwhile, no member
\* begins a round before the others have had their shares of those before, and a
\* conversation stays with its member (selectNextRequest, selectNextWeighted,
\* selectForConversation).
THEOREM TurnsAreFair == ProxySpec => []SharesAreFair
  <1>1. ProxyInv => SharesAreFair
    BY SharesFollow DEF ProxyInv
  <1> QED
    BY <1>1, ProxyInvariant, PTL

------------------------------------------------------------------------------
\* What a request that is asking suppliers may do in a step.
Goes(r) ==
    \/ work'[r] = work[r]
    \/ FallBack(r) \/ Refuse(r) \/ GiveUp(r) \/ PassOn(r) \/ Succeed(r)

\* A request that is asking suppliers goes on in no other way.
LEMMA TryingGoes ==
  ASSUME ProxyInv, ProxyNext, NEW r \in Requests, work[r].stage = "trying"
  PROVE  Goes(r)
  <1>1. work \in [Requests -> Works]
    BY DEF ProxyInv
  <1>2. ASSUME work' = work PROVE Goes(r)
    BY <1>2 DEF Goes
  <1>3. CASE \/ \E s \in ProxySettings \cup {Unreadable} : SaveSettings(s)
             \/ \E s \in ProxySettings : BridgeSaves(s)
             \/ Expire \/ Probe \/ ProxyDone
    BY <1>2, <1>3 DEF SaveSettings, BridgeSaves, Expire, Probe, ProxyDone, proxyVars
  <1>4. ASSUME NEW q \in Requests, q # r, NEW w, work' = [work EXCEPT ![q] = w] PROVE Goes(r)
    BY <1>1, <1>4 DEF Goes
  <1>5. ASSUME NEW q \in Requests, Begin(q) PROVE Goes(r)
    <2>1. q # r
      BY <1>5 DEF Begin
    <2>2. \E w : work' = [work EXCEPT ![q] = w]
      BY <1>5 DEF Begin
    <2> QED
      BY <1>4, <2>1, <2>2
  <1>6. ASSUME NEW q \in Requests, Refresh(q) PROVE Goes(r)
    <2>1. q # r
      BY <1>6 DEF Refresh, ProxyInv, SettingsOK
    <2> QED
      BY <1>1, <1>6, <2>1 DEF Goes, Refresh
  <1>7. ASSUME NEW q \in Requests, TurnAway(q) \/ Leave(q) PROVE Goes(r)
    <2>1. q # r
      BY <1>7 DEF TurnAway, Leave
    <2> QED
      BY <1>1, <1>7, <2>1 DEF Goes, TurnAway, Leave
  <1>8. ASSUME NEW q \in Requests, Route(q) \/ SelectActive(q) PROVE Goes(r)
    <2>1. q # r
      BY <1>8 DEF Route, SelectActive
    <2> QED
      BY <1>1, <1>8, <2>1 DEF Goes, Route, SelectActive, Answer
  <1>9. ASSUME NEW q \in Requests, NEW c \in Conversations \cup {NoConversation}, SelectMember(q, c)
        PROVE  Goes(r)
    <2>1. q # r
      BY <1>9 DEF SelectMember
    <2> QED
      BY <1>1, <1>9, <2>1 DEF Goes, SelectMember, Answer
  <1>10. ASSUME NEW q \in Requests, FallBack(q) \/ Refuse(q) \/ GiveUp(q) \/ PassOn(q) \/ Succeed(q)
         PROVE  Goes(r)
    <2>1. CASE q = r
      BY <1>10, <2>1 DEF Goes
    <2>2. CASE q # r
      BY <1>1, <1>10, <2>2 DEF Goes, FallBack, Refuse, GiveUp, PassOn, Succeed, Answer
    <2> QED
      BY <2>1, <2>2
  <1> QED
    BY <1>3, <1>5, <1>6, <1>7, <1>8, <1>9, <1>10 DEF ProxyNext

\* The first suppliers of those to ask, none twice if none is taken twice; all of
\* them are all members.
LEMMA AskedOnce ==
  ASSUME NEW w \in Works, Asking(w), NEW t \in Seq(Relays), Len(t) <= Len(w.candidates),
         \A i \in 1 .. Len(t) : t[i] = w.candidates[i]
  PROVE  /\ (w.settings.aggregate # Absent => Distinct(w.settings.aggregate)) => IsInjective(t)
         /\ (w.settings.aggregate # Absent /\ Len(t) = Len(w.candidates)) =>
               /\ ToSet(t) = MemberSet(w.settings.aggregate)
               /\ Len(t) = Len(w.settings.aggregate.members)
  <1> DEFINE a == w.settings.aggregate
             c == w.candidates
  <1>1. Len(t) \in Nat /\ DOMAIN t = 1 .. Len(t)
    OBVIOUS
  <1>2. CASE a = Absent
    <2>1. Len(c) = 1
      BY <1>2 DEF Asking
    <2>2. \A i, j \in 1 .. Len(t) : i = j
      BY <1>1, <2>1
    <2> QED
      BY <1>1, <1>2, <2>2 DEF IsInjective
  <1>3. CASE a # Absent
    <2>1. a \in Aggregates
      BY <1>3 DEF Asking
    <2>2. PICK first \in DOMAIN a.members : c = Circle(a.members, first)
      BY <1>3 DEF Asking
    <2> DEFINE n == Len(a.members)
    <2>3. /\ Len(c) = n /\ n \in Nat
          /\ {c[i] : i \in 1 .. n} = MemberSet(a)
          /\ Distinct(a) => \A i, j \in 1 .. n : c[i] = c[j] => i = j
      <3> DEFINE d == Circle(a.members, first)
      <3>1. /\ Len(d) = n /\ n \in Nat
            /\ {d[i] : i \in 1 .. n} = MemberSet(a)
            /\ Distinct(a) => \A i, j \in 1 .. n : d[i] = d[j] => i = j
        BY <2>1, CircleFacts
      <3> HIDE DEF a, n, c, d
      <3> QED
        BY <2>2, <3>1 DEF d
    <2> HIDE DEF a, c, n
    <2>4. \A i \in 1 .. Len(t) : i \in 1 .. n /\ t[i] = c[i]
      BY <1>1, <2>3 DEF c
    <2>5. Distinct(a) => IsInjective(t)
      BY <1>1, <2>3, <2>4 DEF IsInjective
    <2>6. Len(t) = Len(c) => ToSet(t) = MemberSet(a) /\ Len(t) = n
      <3> SUFFICES ASSUME Len(t) = Len(c) PROVE ToSet(t) = MemberSet(a)
        BY <2>3
      <3>1. ToSet(t) = {t[i] : i \in 1 .. n}
        BY <1>1, <2>3 DEF ToSet
      <3> QED
        BY <1>1, <2>3, <2>4, <3>1
    <2> QED
      BY <1>3, <2>5, <2>6 DEF a, c, n
  <1> QED
    BY <1>2, <1>3

\* What FailoverIsThorough says of one request in one step.
Thorough(r) ==
    LET settings == work[r].settings  tried == work'[r].tried
        IsOnce == settings.aggregate # Absent => Distinct(settings.aggregate)
    IN work[r].stage = "trying" =>
       /\ IsOnce => IsInjective(tried)
       /\ (work'[r].answer = "failed" /\ settings.aggregate # Absent) =>
             /\ ToSet(tried) = MemberSet(settings.aggregate)
             /\ Len(tried) = Len(settings.aggregate.members)
       /\ (/\ work'[r].answer = "ok" /\ r \in alone /\ selector # Absent
           /\ selector.aggregate = settings.aggregate
           /\ selector.aggregate.strategy = "failover" /\ IsOnce) =>
             MemberAt(selector', selector'.failoverIndex) = Last(tried)

\* Each of these is what FailoverIsThorough asks of the step.
LEMMA EveryStepIsThorough ==
  ASSUME ProxyInv, ProxyNext, NEW r \in Requests
  PROVE  Thorough(r)
  <1> SUFFICES ASSUME work[r].stage = "trying" PROVE Thorough(r)
    BY DEF Thorough
  <1> DEFINE w == work[r]
  <1>1. /\ w \in Works /\ Asking(w) /\ w.answer = Absent /\ work \in [Requests -> Works]
        /\ Pointed(r) /\ (selector # Absent => SelectorOK(selector))
    BY RequestFacts DEF WorkOK
  <1>2. Absent \notin Answers
    BY ProxyAssumption
  <1>3. /\ Len(w.tried) + 1 \in 1 .. Len(w.candidates)
        /\ Tried(r) \in Seq(Relays) /\ Len(Tried(r)) = Len(w.tried) + 1
        /\ \A i \in 1 .. Len(Tried(r)) : Tried(r)[i] = w.candidates[i]
        /\ Last(Tried(r)) = Candidate(r)
    BY <1>1, TriedFacts DEF Tried, Candidate, Last
  <1>4. ASSUME work'[r].tried = Tried(r), work'[r].answer \notin {"failed", "ok"} PROVE Thorough(r)
    <2>1. Len(Tried(r)) <= Len(w.candidates)
      BY <1>1, <1>3
    <2>2. (w.settings.aggregate # Absent => Distinct(w.settings.aggregate)) => IsInjective(Tried(r))
      BY <1>1, <1>3, <2>1, AskedOnce
    <2> QED
      BY <1>4, <2>2 DEF Thorough
  <1>5. CASE work'[r] = work[r]
    <2>1. w.tried \in Seq(Relays) /\ Len(w.tried) <= Len(w.candidates) /\ \A i \in 1 .. Len(w.tried) : w.tried[i] = w.candidates[i]
      <3>1. w.tried \in Seq(Relays) /\ w.candidates \in Seq(Relays)
        BY <1>1, WorksFacts
      <3>2. Len(w.tried) \in Nat /\ Len(w.candidates) \in Nat /\ DOMAIN w.tried = 1 .. Len(w.tried)
        BY <3>1
      <3> QED
        BY <1>1, <3>1, <3>2 DEF Asking
    <2>2. (w.settings.aggregate # Absent => Distinct(w.settings.aggregate)) => IsInjective(w.tried)
      BY <1>1, <2>1, AskedOnce
    <2>3. work'[r].answer \notin {"failed", "ok"}
      BY <1>1, <1>2, <1>5 DEF Answers
    <2> QED
      BY <1>5, <2>2, <2>3 DEF Thorough
  <1>6. CASE FallBack(r)
    <2>1. work'[r].tried = Tried(r) /\ work'[r].answer = Absent
      BY <1>1, <1>6 DEF FallBack, Works
    <2>2. work'[r].answer \notin {"failed", "ok"}
      BY <1>2, <2>1 DEF Answers
    <2> QED
      BY <1>4, <2>1, <2>2
  <1>7. ASSUME NEW given \in Answers, Answer(r, given, Tried(r))
        PROVE  work'[r].tried = Tried(r) /\ work'[r].answer = given
    <2> DEFINE v == Answered(work[r], given, Tried(r))
    <2>1. work'[r] = v
      BY <1>1, <1>7, AnswerReplaces DEF Replaced
    <2>2. v.tried = Tried(r) /\ v.answer = given
      BY <1>1, <1>3, AnsweredOK
    <2> QED
      BY <2>1, <2>2
  <1>8. CASE Refuse(r) \/ PassOn(r)
    BY <1>4, <1>7, <1>8 DEF Refuse, PassOn, Answers
  <1>9. CASE GiveUp(r)
    <2>1. work'[r].tried = Tried(r) /\ work'[r].answer = "failed" /\ Len(Tried(r)) = Len(w.candidates)
      BY <1>3, <1>7, <1>9 DEF GiveUp, IsLast, Answers
    <2>2. Len(Tried(r)) <= Len(w.candidates)
      BY <1>3, <2>1
    <2>3. /\ (w.settings.aggregate # Absent => Distinct(w.settings.aggregate)) => IsInjective(Tried(r))
          /\ (w.settings.aggregate # Absent /\ Len(Tried(r)) = Len(w.candidates)) =>
                /\ ToSet(Tried(r)) = MemberSet(w.settings.aggregate)
                /\ Len(Tried(r)) = Len(w.settings.aggregate.members)
      BY <1>1, <1>3, <2>2, AskedOnce
    <2> QED
      BY <2>1, <2>3 DEF Thorough
  <1>10. CASE Succeed(r)
    <2>1. work'[r].tried = Tried(r) /\ work'[r].answer = "ok"
      BY <1>7, <1>10 DEF Succeed, Answers
    <2>2. (w.settings.aggregate # Absent => Distinct(w.settings.aggregate)) => IsInjective(Tried(r))
      <3>1. Len(Tried(r)) <= Len(w.candidates)
        BY <1>3
      <3> QED
        BY <1>1, <1>3, <3>1, AskedOnce
    <2>3. ASSUME r \in alone, selector # Absent, selector.aggregate = w.settings.aggregate,
                 selector.aggregate.strategy = "failover",
                 w.settings.aggregate # Absent => Distinct(w.settings.aggregate)
          PROVE  MemberAt(selector', selector'.failoverIndex) = Last(Tried(r))
      <3>1. selector.aggregate # Absent
        BY <1>1, <2>3, SelectorFacts, AggregateFacts DEF SelectorOK
      <3>2. selector' = selector
        BY <1>10, <2>3, <3>1 DEF Succeed, Attempt, Recorded, AfterEvent
      <3>3. MemberAt(selector, selector.failoverIndex) = Candidate(r)
        BY <1>1, <2>3, <3>1 DEF Pointed
      <3> QED
        BY <1>3, <3>2, <3>3
    <2> QED
      BY <2>1, <2>2, <2>3 DEF Thorough
  <1> QED
    BY <1>5, <1>6, <1>8, <1>9, <1>10, TryingGoes DEF Goes

\* However requests and saves interleave, a request says that all suppliers failed
\* only when it has asked every member, asks none twice, and, alone, leaves the
\* failover at the member that answered (forwardRelayProxy, recordEvent).
THEOREM RequestsFailOverThoroughly == ProxySpec => FailoverIsThorough
  <1> DEFINE A == \A r \in Requests : Thorough(r)
  <1>1. ProxyInv /\ [ProxyNext]_proxyVars => [A]_proxyVars
    BY EveryStepIsThorough
  <1>2. FailoverIsThorough <=> [][A]_proxyVars
    BY DEF FailoverIsThorough, Thorough
  <1> HIDE DEF A
  <1> QED
    BY <1>1, <1>2, ProxyInvariant, PTL DEF ProxySpec

------------------------------------------------------------------------------
\* The relay switch.

USE ConstantsAssumption
USE DEF Writing, Undoing, Switching

LEMMA MigratedType ==
    ASSUME NEW s \in Settings, auth \in Logins \cup {None}
    PROVE  /\ Migrated(s) \in Settings
           /\ Migrated(s).active = s.active
           /\ \A p \in Profiles : s.bound[p] # None => Migrated(s).bound[p] = s.bound[p]
           /\ Bound(s) \subseteq Bound(Migrated(s)) \cup {None}
  <1>1. CASE s.bound[s.active] = None
    BY <1>1 DEF Migrated, Settings, Bound
  <1>2. CASE s.bound[s.active] # None
    BY <1>2 DEF Migrated, Settings, Bound
  <1> QED
    BY <1>1, <1>2

LEMMA RefreshedType ==
    ASSUME NEW s \in Settings, auth \in Logins \cup {None}
    PROVE  /\ Refreshed(s) \in Settings
           /\ Refreshed(s).active = s.active
           /\ \A p \in Profiles \ {s.active} : Refreshed(s).bound[p] = s.bound[p]
  BY DEF Refreshed, Settings

\* What the operations on a profile's snapshot return.
LEMMA EditType ==
    ASSUME NEW s \in Settings, NEW p \in Profiles, NEW l \in Logins \cup {None},
           approvals \in ConfigTexts \cup {NoConfig}, auth \in Logins \cup {None}
    PROVE  /\ [s EXCEPT !.bound[p] = l] \in Settings
           /\ Backfilled(s, p) \in Settings
           /\ Backfilled(s, p).active = s.active
           /\ Backfilled(s, p).bound[p] = auth
  BY DEF Backfilled, Settings, ConfigTexts

LEMMA InitIInv == Init => IInv
  <1> SUFFICES ASSUME Init PROVE IInv
    OBVIOUS
  <1>1. disk \in Settings
    BY MigratedType DEF Init
  <1> QED
    BY <1>1 DEF Init, IInv, TypeOK, Live, ConfigTexts, Held, InFlight, EntryKept, LoginInUseSurvives,
       CatalogsLead, CatalogPresent, AsCaptured

-----------------------------------------------------------------------------
\* Types.

LEMMA TypeStep == TypeOK /\ Held /\ [Next]_vars => (TypeOK /\ Held)'
  <1> SUFFICES ASSUME TypeOK, Held, [Next]_vars PROVE (TypeOK /\ Held)'
    OBVIOUS
  <1> USE DEF TypeOK, Held, InFlight, live, Live, Goto, Stored, Fault, Operation
  <1>a. Migrated(disk) \in Settings /\ Migrated(form) \in Settings
    BY MigratedType
  <1>1. ASSUME NEW q \in Profiles, Choose(q) PROVE (TypeOK /\ Held)'
    <2> DEFINE generated == IF ModeOf[q] = "official" THEN form.approvals[q] ELSE None
               prepared == [form EXCEPT !.active = q, !.approvals[q] = generated]
    <2>1. prepared \in Settings
      BY DEF Settings, ConfigTexts
    <2>2. form.active \in Profiles
      BY DEF Settings
    <2>3. Backfilled(prepared, form.active) \in Settings
      BY <2>1, <2>2, EditType, approvals \in ConfigTexts \cup {NoConfig}, auth \in Logins \cup {None}
    <2>4. next' \in Settings
      BY <1>1, <2>1, <2>3 DEF Choose
    <2> QED
      BY <1>1, <2>4 DEF Choose
  <1>2. CASE SaveChoice \/ SaveMode \/ Prepare
    <2>1. CASE SaveChoice
      BY <2>1, MigratedType DEF SaveChoice
    <2>2. CASE SaveMode
      BY <2>2, <1>a DEF SaveMode
    <2>3. CASE Prepare
      BY <2>3, <1>a, RefreshedType DEF Prepare
    <2> QED
      BY <1>2, <2>1, <2>2, <2>3
  <1>3. CASE Refused \/ Capture \/ WriteCatalog \/ Maintain \/ StepFails \/ ReportFailure
    BY <1>3 DEF Refused, Capture, WriteCatalog, Maintain, StepFails, ReportFailure
  <1>4. CASE WriteConfig \/ WriteAuth
    BY <1>4 DEF WriteConfig, WriteAuth, Target, PreserveLiveHookState, Settings, ConfigTexts
  <1>5. CASE WriteFails \/ UndoAuth \/ UndoConfig \/ UndoCatalog \/ UndoFails
    BY <1>5 DEF WriteFails, UndoFrom, UndoAuth, UndoConfig, UndoCatalog, UndoFails
  <1>6. CASE Crash \/ Reload
    BY <1>6, <1>a DEF Crash, Reload
  <1>7. ASSUME NEW p \in Profiles, Bind(p) PROVE (TypeOK /\ Held)'
    BY <1>7, <1>a, EditType DEF Bind, BetweenSwitches
  <1>8. ASSUME NEW p \in Profiles, Unbind(p) PROVE (TypeOK /\ Held)'
    <2>1. [Migrated(disk) EXCEPT !.bound[p] = None] \in Settings
      BY <1>a, EditType
    <2> QED
      BY <1>8, <2>1, MigratedType DEF Unbind, BetweenSwitches
  <1>9. ASSUME NEW p \in Profiles, ImportCurrent(p) PROVE (TypeOK /\ Held)'
    <2>1. Backfilled(Migrated(disk), p) \in Settings
      BY <1>a, EditType
    <2> QED
      BY <1>9, <2>1, MigratedType DEF ImportCurrent, BetweenSwitches
  <1>10. ASSUME NEW p \in Profiles, Activate(p) \/ ActivateTorn(p) PROVE (TypeOK /\ Held)'
    <2>1. Migrated(disk).bound[p] \in Logins \cup {None}
      BY <1>a DEF Settings
    <2> QED
      BY <1>10, <1>a, <2>1 DEF Activate, ActivateTorn, BetweenSwitches
  <1>11. CASE BackUpLogin \/ RemoveLogin
    BY <1>11 DEF BackUpLogin, RemoveLogin
  <1>12. CASE AppStep
    BY <1>12 DEF AppStep, AppStarts, AppQuits, AppLogin, AppApproves, ConfigTexts
  <1>13. CASE UNCHANGED vars
    BY <1>13 DEF vars
  <1>14. ASSUME NEW a \in ConfigTexts \cup {NoConfig}, EditConfig(a) PROVE (TypeOK /\ Held)'
    BY <1>14 DEF EditConfig
  <1> QED
    BY <1>1, <1>2, <1>3, <1>4, <1>5, <1>6, <1>7, <1>8, <1>9, <1>10, <1>11, <1>12, <1>13, <1>14
    DEF Next, Switch, UserStep

-----------------------------------------------------------------------------
\* The login in use when a switch began.

LEMMA EntryStep == TypeOK /\ Held /\ EntryKept /\ [Next]_vars => EntryKept'
  <1> SUFFICES ASSUME TypeOK, Held, EntryKept, [Next]_vars PROVE EntryKept'
    OBVIOUS
  <1> USE DEF TypeOK, EntryKept, LoginInUseSurvives, Kept, Bound, live, Goto, Stored, Fault,
              Operation
  <1>a. /\ Migrated(disk) \in Settings /\ Migrated(disk).active = disk.active
        /\ \A p \in Profiles : disk.bound[p] # None => Migrated(disk).bound[p] = disk.bound[p]
    BY MigratedType DEF Live
  <1>b. /\ Migrated(form) \in Settings /\ Migrated(form).active = form.active
        /\ \A p \in Profiles : form.bound[p] # None => Migrated(form).bound[p] = form.bound[p]
    BY MigratedType DEF Live
  <1>1. ASSUME NEW q \in Profiles, Choose(q) PROVE EntryKept'
    <2> DEFINE generated == IF ModeOf[q] = "official" THEN form.approvals[q] ELSE None
               prepared == [form EXCEPT !.active = q, !.approvals[q] = generated]
    <2>1. prepared \in Settings /\ prepared.active = q
      BY DEF Settings, ConfigTexts
    <2>2. form.active \in Profiles
      BY DEF Settings
    <2>3. /\ Backfilled(prepared, form.active).active = q
          /\ Backfilled(prepared, form.active).bound[form.active] = auth
      BY <2>1, <2>2, EditType, approvals \in ConfigTexts \cup {NoConfig}, auth \in Logins \cup {None}
      DEF Live
    <2>4. CASE form.active = q
      BY <1>1, <2>4 DEF Choose
    <2>5. CASE form.active # q
      BY <1>1, <2>2, <2>3, <2>5 DEF Choose
    <2> QED
      BY <2>4, <2>5
  <1>2. CASE SaveChoice
    <2>1. next \in Settings
      BY <1>2 DEF SaveChoice, Held
    <2>2. /\ Migrated(next).active = next.active
          /\ \A p \in Profiles : next.bound[p] # None => Migrated(next).bound[p] = next.bound[p]
      BY <2>1, MigratedType DEF Live
    <2> QED
      BY <1>2, <2>1, <2>2 DEF SaveChoice
  <1>3. CASE SaveMode
    BY <1>3, <1>b DEF SaveMode
  <1>4. CASE Prepare
    <2>1. /\ Refreshed(Migrated(disk)).active = disk.active
          /\ \A p \in Profiles \ {disk.active} :
                Refreshed(Migrated(disk)).bound[p] = Migrated(disk).bound[p]
      BY <1>a, RefreshedType DEF Live
    <2> QED
      BY <1>4, <1>a, <2>1 DEF Prepare
  <1>5. CASE Refused \/ Capture \/ WriteCatalog \/ Maintain \/ StepFails \/ ReportFailure
    BY <1>5 DEF Refused, Capture, WriteCatalog, Maintain, StepFails, ReportFailure
  <1>6. CASE WriteConfig \/ WriteAuth
    BY <1>6 DEF WriteConfig, WriteAuth
  <1>7. CASE WriteFails \/ UndoAuth \/ UndoConfig \/ UndoCatalog \/ UndoFails
    BY <1>7 DEF WriteFails, UndoFrom, UndoAuth, UndoConfig, UndoCatalog, UndoFails
  <1>8. CASE Crash \/ Reload
    BY <1>8, <1>a DEF Crash, Reload
  <1>9. ASSUME NEW p \in Profiles,
               Bind(p) \/ Unbind(p) \/ ImportCurrent(p) \/ Activate(p) \/ ActivateTorn(p)
        PROVE EntryKept'
    BY <1>9 DEF Bind, Unbind, ImportCurrent, Activate, ActivateTorn, BetweenSwitches
  <1>10. CASE BackUpLogin \/ RemoveLogin
    BY <1>10 DEF BackUpLogin, RemoveLogin
  <1>11. CASE AppStep
    BY <1>11 DEF AppStep, AppStarts, AppQuits, AppLogin, AppApproves
  <1>12. CASE UNCHANGED vars
    BY <1>12 DEF vars
  <1>13. ASSUME NEW a \in ConfigTexts \cup {NoConfig}, EditConfig(a) PROVE EntryKept'
    BY <1>13 DEF EditConfig
  <1> QED
    BY <1>1, <1>2, <1>3, <1>4, <1>5, <1>6, <1>7, <1>8, <1>9, <1>10, <1>11, <1>12, <1>13
    DEF Next, Switch, UserStep

-----------------------------------------------------------------------------
\* The model catalog config.toml names.

LEMMA CatalogsStep == TypeOK /\ Held /\ CatalogsLead /\ [Next]_vars => CatalogsLead'
  <1> SUFFICES ASSUME TypeOK, Held, CatalogsLead, [Next]_vars PROVE CatalogsLead'
    OBVIOUS
  <1> USE DEF TypeOK, Held, InFlight, CatalogsLead, CatalogPresent, Target, live, Live, Goto,
              Stored, Fault, Operation
  <1>1. CASE (\E q \in Profiles : Choose(q)) \/ SaveChoice \/ SaveMode \/ Prepare \/ Refused
    <2>1. /\ pc' \in {"save", "prepare", "idle", "lock"}
          /\ UNCHANGED <<named, catalogs, rollback>>
      BY <1>1 DEF Choose, SaveChoice, SaveMode, Prepare, Refused
    <2> QED
      BY <2>1
  <1>2. CASE Capture
    BY <1>2 DEF Capture
  <1>3. CASE WriteCatalog
    BY <1>3 DEF WriteCatalog
  <1>4. CASE WriteConfig
    BY <1>4 DEF WriteConfig
  <1>5. CASE WriteAuth \/ Maintain \/ StepFails \/ ReportFailure
    BY <1>5 DEF WriteAuth, Maintain, StepFails, ReportFailure
  <1>6. CASE WriteFails
    <2>1. CASE pc = "catalog"
      BY <1>6, <2>1 DEF WriteFails, UndoFrom
    <2>2. CASE pc # "catalog"
      BY <1>6, <2>2 DEF WriteFails, UndoFrom
    <2> QED
      BY <2>1, <2>2
  <1>7. CASE UndoAuth \/ UndoConfig \/ UndoCatalog
    BY <1>7 DEF UndoAuth, UndoConfig, UndoCatalog
  <1>8. CASE UndoFails
    BY <1>8 DEF UndoFails
  <1>9. CASE Crash \/ Reload
    BY <1>9 DEF Crash, Reload
  <1>10. CASE UserStep
    <2>1. /\ pc' \in {"idle", "remove"} /\ UNCHANGED <<catalogs, rollback>>
          /\ named' \in {None, named}
      BY <1>10 DEF UserStep, EditConfig, Bind, Unbind, ImportCurrent, Activate, ActivateTorn, BackUpLogin,
         RemoveLogin, Reload, BetweenSwitches
    <2> QED
      BY <2>1
  <1>11. CASE AppStep
    BY <1>11 DEF AppStep, AppStarts, AppQuits, AppLogin, AppApproves
  <1>12. CASE UNCHANGED vars
    BY <1>12 DEF vars
  <1> QED
    BY <1>1, <1>2, <1>3, <1>4, <1>5, <1>6, <1>7, <1>8, <1>9, <1>10, <1>11, <1>12
    DEF Next, Switch

-----------------------------------------------------------------------------
\* The captured files.

LEMMA CapturedStep == TypeOK /\ Held /\ AsCaptured /\ [Next]_vars => AsCaptured'
  <1> SUFFICES ASSUME TypeOK, Held, AsCaptured, [Next]_vars, ~RaceWindow PROVE AsCaptured'
    BY DEF AsCaptured
  <1> USE DEF TypeOK, Held, InFlight, AsCaptured, Pure, Target, live, Live, Goto,
              Stored, Fault, Operation
  <1>1. CASE (\E q \in Profiles : Choose(q)) \/ SaveChoice \/ SaveMode \/ Prepare \/ Refused
    BY <1>1 DEF Choose, SaveChoice, SaveMode, Prepare, Refused
  <1>2. CASE Capture
    BY <1>2 DEF Capture
  <1>3. CASE WriteCatalog
    BY <1>3 DEF WriteCatalog
  <1>4. CASE WriteConfig \/ WriteAuth
    BY <1>4 DEF WriteConfig, WriteAuth, PreserveLiveHookState, WritesAuth
  <1>5. CASE Maintain \/ StepFails \/ ReportFailure
    BY <1>5 DEF Maintain, StepFails, ReportFailure
  <1>6. CASE WriteFails
    BY <1>6 DEF WriteFails, UndoFrom
  <1>7. CASE UndoAuth \/ UndoConfig \/ UndoCatalog
    BY <1>7 DEF UndoAuth, UndoConfig, UndoCatalog
  <1>8. CASE UndoFails
    BY <1>8 DEF UndoFails
  <1>9. CASE Crash \/ Reload
    BY <1>9 DEF Crash, Reload
  <1>10. CASE UserStep
    BY <1>10 DEF UserStep, EditConfig, Bind, Unbind, ImportCurrent, Activate, ActivateTorn, BackUpLogin,
       RemoveLogin, Reload, BetweenSwitches
  <1>11. CASE AppStep
    BY <1>11 DEF AppStep, AppStarts, AppQuits, AppLogin, AppApproves, AppMayAct
  <1>12. CASE UNCHANGED vars
    BY <1>12 DEF vars
  <1> QED
    BY <1>1, <1>2, <1>3, <1>4, <1>5, <1>6, <1>7, <1>8, <1>9, <1>10, <1>11, <1>12
    DEF Next, Switch

-----------------------------------------------------------------------------
\* The theorems.

LEMMA Inductive == Spec => []IInv
  <1>1. IInv /\ [Next]_vars => IInv'
    BY TypeStep, EntryStep, CatalogsStep, CapturedStep DEF IInv
  <1> QED
    BY InitIInv, <1>1, PTL DEF Spec

\* Every variable keeps the type the files, the settings and the page of the
\* code have (types.go:102-141, relay.go:359-371).
THEOREM TypeCorrect == Spec => []TypeOK
  <1>1. IInv => TypeOK
    BY DEF IInv
  <1> QED
    BY Inductive, <1>1, PTL

\* No switch and no clearing of auth.json loses the login that was in use when
\* it began, wherever it fails or the manager dies, also when the application
\* starts or writes in the middle of it (relay.go:634-653, 722-750, 822-877).
THEOREM LoginSafe == Spec => []LoginInUseSurvives
  <1>1. IInv => LoginInUseSurvives
    BY DEF IInv, EntryKept
  <1> QED
    BY Inductive, <1>1, PTL

\* While no restore has failed, config.toml never names a model catalog that is
\* not on disk: catalogs are written before it and removed after it
\* (relay.go:391-430, 500-525).
THEOREM CatalogsPresent == Spec => []CatalogPresent
  <1>1. IInv => CatalogPresent
    BY DEF IInv, CatalogsLead, CatalogPresent
  <1> QED
    BY Inductive, <1>1, PTL

\* If the application neither starts nor writes within a switch, a switch whose
\* writing failed has put every live file back (relay.go:420-430).
THEOREM FailedUndone == ASSUME RaceWindow = FALSE PROVE Spec => []FailedSwitchUndone
  <1>1. IInv => FailedSwitchUndone
    <2> SUFFICES ASSUME IInv, pc = "undone", rollback = "ok"
                 PROVE saved = [named |-> named, approvals |-> approvals, auth |-> auth,
                                catalogs |-> catalogs]
      BY DEF FailedSwitchUndone
    <2>1. saved \in Live
      BY DEF IInv, Held, InFlight
    <2>2. named = saved.named
      BY DEF IInv, CatalogsLead
    <2>3. approvals = saved.approvals /\ auth = saved.auth /\ catalogs = saved.catalogs
      BY RaceWindow = FALSE DEF IInv, AsCaptured, InFlight
    <2> QED
      BY <2>1, <2>2, <2>3 DEF Live
  <1> QED
    BY Inductive, <1>1, PTL

\* If the application neither starts nor writes within a switch, no step but the
\* application's own changes which hooks are approved, as long as the texts can
\* be read and parsed (relay.go:385-387, 433-457).
THEOREM ApprovalsStay == ASSUME RaceWindow = FALSE PROVE Spec => ApprovalsKept
  <1> DEFINE Allowed == \/ app = "running"
                        \/ {approvals, approvals'} \cap {Unparsable, NoConfig} # {}
  <1>1. IInv /\ [Next]_vars => [approvals' # approvals => Allowed]_vars
    <2> SUFFICES ASSUME IInv, Next, approvals' # approvals PROVE Allowed
      BY DEF vars, live
    <2>1. CASE WriteConfig
      BY <2>1, RaceWindow = FALSE
      DEF WriteConfig, PreserveLiveHookState, IInv, AsCaptured, InFlight, Writing
    <2>2. CASE UndoConfig
      BY <2>2, RaceWindow = FALSE
      DEF UndoConfig, PreserveLiveHookState, IInv, AsCaptured, InFlight, Undoing
    <2>3. CASE AppStep
      BY <2>3 DEF AppStep, AppStarts, AppQuits, AppLogin, AppApproves, live
    <2>4. ~Switch \/ WriteConfig \/ UndoConfig
      BY DEF Switch, Choose, SaveChoice, SaveMode, Prepare, Refused, Capture, WriteCatalog,
         WriteAuth, Maintain, StepFails, WriteFails, UndoAuth, UndoCatalog, UndoFails,
         ReportFailure, Crash, live
    <2>5. ~UserStep \/ \E a \in ConfigTexts \cup {NoConfig} : EditConfig(a)
      BY DEF UserStep, Bind, Unbind, ImportCurrent, Activate, ActivateTorn, BackUpLogin,
         RemoveLogin, Reload, live
    <2>6. CASE \E a \in ConfigTexts \cup {NoConfig} : EditConfig(a)
      BY <2>6 DEF EditConfig
    <2> QED
      BY <2>1, <2>2, <2>3, <2>4, <2>5, <2>6 DEF Next
  <1> QED
    BY Inductive, <1>1, PTL DEF Spec, ApprovalsKept

\* If the application neither starts nor writes within a switch, a switch to a
\* pure API profile leaves auth.json alone, also when it is rolled back
\* (relay.go:399-402, 420-430; release-notes/RELEASE_NOTES_v1.1.34.md:5).
THEOREM PureSwitches == ASSUME RaceWindow = FALSE PROVE Spec => PureKeepsLogin
  <1>1. IInv /\ [Next]_vars =>
           [(pc \in Switching \ {"save"} /\ Pure(Target)) => auth' = auth]_vars
    <2> SUFFICES ASSUME IInv, Next, pc \in Switching \ {"save"}, Pure(Target)
                 PROVE auth' = auth
      BY DEF vars, live
    <2>1. CASE WriteAuth
      BY <2>1 DEF WriteAuth, WritesAuth
    <2>2. CASE UndoAuth
      BY <2>2, RaceWindow = FALSE DEF UndoAuth, IInv, AsCaptured, InFlight
    <2>3. CASE AppStep
      BY <2>3, RaceWindow = FALSE
      DEF AppStep, AppMayAct, AppStarts, AppQuits, AppLogin, AppApproves, live
    <2>4. ~Switch \/ WriteAuth \/ UndoAuth \/ auth' = auth
      BY DEF Switch, Choose, SaveChoice, SaveMode, Prepare, Refused, Capture, WriteCatalog,
         WriteConfig, Maintain, StepFails, WriteFails, UndoConfig, UndoCatalog, UndoFails,
         ReportFailure, Crash, live
    <2>5. CASE UserStep
      BY <2>5 DEF UserStep, EditConfig, Bind, Unbind, ImportCurrent, Activate, ActivateTorn, BackUpLogin,
         RemoveLogin, Reload, BetweenSwitches, live
    <2> QED
      BY <2>1, <2>2, <2>3, <2>4, <2>5 DEF Next
  <1> QED
    BY Inductive, <1>1, PTL DEF Spec, PureKeepsLogin

\* If the application neither starts nor writes within a switch, a switch keeps
\* to what is its own.
THEOREM SwitchKeepsToItsOwn == ASSUME RaceWindow = FALSE PROVE Spec => OthersUntouched
  BY ApprovalsStay, PureSwitches DEF OthersUntouched
=============================================================================
