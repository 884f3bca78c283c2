----------------------------- MODULE MindProofs ------------------------------
(***************************************************************************)
(* Proofs about Mind, for any events, budget, limits and number of         *)
(* crashes.                                                                *)
(*                                                                         *)
(* The argument.  What is on disk names the events that are in memory, so  *)
(* a crash loses none of them; what a turn has in hand is at most one item *)
(* out of the room, that may be spoken in the world it was let out for,    *)
(* and events of the journal.  From this follow Kept and Agrees.  With the *)
(* timer alone taking turns, an event is in one place at a time: to come,  *)
(* waiting, in hand, due in the journal, asked for, or told; and what a    *)
(* turn counts as spent is what the journal says.  A crash or a switch of  *)
(* a source in the middle of an event is what makes either sum grow.       *)
(***************************************************************************)
EXTENDS Mind, WellFoundedInduction, TLAPS

-----------------------------------------------------------------------------
(* Sequences.                                                              *)

LEMMA SmallestIn ==
  ASSUME NEW S, S \subseteq Nat, S # {}
  PROVE  \E x \in S : \A y \in S : x <= y
<1>1. PICK x \in S : \A y \in S : ~ (<<y, x>> \in OpToRel(<, Nat))
  BY WFMin, NatLessThanWellFounded, Zenon
<1>2. \A y \in S : ~ (y < x)
  BY <1>1, Zenon DEF OpToRel
<1>3. \A y \in S : x =< y
  BY <1>2
<1> QED
  BY <1>3

(* f is the table from which Among takes its last entry.                   *)
Table(s, S, f, n) ==
  f = [i \in 0..n |->
         IF i = 0 THEN <<>>
         ELSE IF s[i] \in S THEN Append(f[i - 1], s[i]) ELSE f[i - 1]]

LEMMA TableExists ==
  ASSUME NEW s, NEW S, NEW n \in Nat
  PROVE  \E f : Table(s, S, f, n)
<1> DEFINE Bad == {k \in Nat : ~ \E f : Table(s, S, f, k)}
<1> SUFFICES ASSUME Bad # {} PROVE FALSE
  OBVIOUS
<1>1. PICK m \in Bad : \A k \in Bad : m <= k
  BY SmallestIn
<1>2. CASE m = 0
  <2> DEFINE f == [i \in 0..0 |-> <<>>]
  <2>1. Table(s, S, f, 0)
    BY DEF Table
  <2> QED
    BY <1>1, <1>2, <2>1
<1>3. CASE m # 0
  <2>1. m - 1 \in Nat /\ m - 1 \notin Bad
    BY <1>1, <1>3
  <2>2. PICK f : Table(s, S, f, m - 1)
    BY <2>1
  <2> DEFINE g == [i \in 0..m |->
                     IF i < m THEN f[i]
                     ELSE IF s[m] \in S THEN Append(f[m - 1], s[m]) ELSE f[m - 1]]
  <2>3. \A i \in 0..(m - 1) :
          f[i] = IF i = 0 THEN <<>>
                 ELSE IF s[i] \in S THEN Append(f[i - 1], s[i]) ELSE f[i - 1]
    BY <2>2 DEF Table
  <2>4. \A i \in 0..m :
          g[i] = IF i = 0 THEN <<>>
                 ELSE IF s[i] \in S THEN Append(g[i - 1], s[i]) ELSE g[i - 1]
    <3> SUFFICES ASSUME NEW i \in 0..m
                 PROVE  g[i] = IF i = 0 THEN <<>>
                               ELSE IF s[i] \in S THEN Append(g[i - 1], s[i])
                                                  ELSE g[i - 1]
      OBVIOUS
    <3>1. CASE i = 0
      BY <1>3, <2>3, <3>1
    <3>2. CASE i # 0
      <4>1. i - 1 \in 0..m /\ i - 1 < m /\ g[i - 1] = f[i - 1]
        BY <3>2
      <4>2. CASE i < m
        BY <2>3, <3>2, <4>1, <4>2
      <4>3. CASE i = m
        BY <3>2, <4>1, <4>3
      <4> QED
        BY <4>2, <4>3
    <3> QED
      BY <3>1, <3>2
  <2>5. Table(s, S, g, m)
    BY <2>4 DEF Table
  <2> QED
    BY <1>1, <2>5
<1> QED
  BY <1>2, <1>3

LEMMA AmongTable ==
  ASSUME NEW T, NEW s \in Seq(T), NEW S
  PROVE  \E f : Table(s, S, f, Len(s)) /\ Among(s, S) = f[Len(s)]
<1> DEFINE f == CHOOSE u : Table(s, S, u, Len(s))
<1>1. Table(s, S, f, Len(s))
  BY TableExists
<1>2. Among(s, S) = f[Len(s)]
  BY Zenon DEF Among, Table
<1> QED
  BY <1>1, <1>2

(* What Among picks, and that it picks it once.                            *)
Picks(s, S, r, g, n) ==
  /\ g \in [1..Len(r) -> 1..n]
  /\ \A k \in 1..Len(r) : r[k] = s[g[k]] /\ s[g[k]] \in S
  /\ \A k, l \in 1..Len(r) : g[k] = g[l] => k = l
  /\ \A j \in 1..n : s[j] \in S => \E k \in 1..Len(r) : g[k] = j

LEMMA PicksAnother ==
  ASSUME NEW T, NEW s \in Seq(T), NEW S, NEW r \in Seq(T), NEW g,
         NEW n \in Nat \ {0}, n <= Len(s), Picks(s, S, r, g, n - 1), s[n] \in S
  PROVE  \E h : Picks(s, S, Append(r, s[n]), h, n)
<1> DEFINE a == Append(r, s[n])
<1> DEFINE h == [k \in 1..Len(a) |-> IF k <= Len(r) THEN g[k] ELSE n]
<1>1. /\ Len(a) = Len(r) + 1 /\ Len(r) \in Nat
      /\ \A k \in 1..Len(r) : a[k] = r[k] /\ k \in 1..Len(a)
      /\ a[Len(a)] = s[n] /\ Len(a) \in 1..Len(a)
  OBVIOUS
<1>2. \A k \in 1..Len(r) : g[k] \in 1..(n - 1) /\ h[k] = g[k]
  BY <1>1 DEF Picks
<1>3. h[Len(a)] = n
  BY <1>1
<1>4. \A k \in 1..Len(a) : k \in 1..Len(r) \/ k = Len(a)
  BY <1>1
<1>5. h \in [1..Len(a) -> 1..n]
  <2>1. ASSUME NEW k \in 1..Len(a) PROVE h[k] \in 1..n
    <3>1. CASE k \in 1..Len(r)
      <4>1. g[k] \in 1..(n - 1) /\ h[k] = g[k]
        BY <1>2, <3>1
      <4> QED
        BY <4>1
    <3>2. CASE k = Len(a)
      BY <1>3, <3>2
    <3> QED
      BY <1>4, <3>1, <3>2
  <2> QED
    BY <2>1
<1>6. \A k \in 1..Len(a) : a[k] = s[h[k]] /\ s[h[k]] \in S
  BY <1>1, <1>2, <1>3, <1>4 DEF Picks
<1>7. \A k, l \in 1..Len(a) : h[k] = h[l] => k = l
  <2> SUFFICES ASSUME NEW k \in 1..Len(a), NEW l \in 1..Len(a), h[k] = h[l]
               PROVE  k = l
    OBVIOUS
  <2>1. CASE k \in 1..Len(r) /\ l \in 1..Len(r)
    BY <1>2, <2>1 DEF Picks
  <2>2. CASE k \in 1..Len(r) /\ l = Len(a)
    <3>1. h[k] \in 1..(n - 1) /\ h[l] = n
      BY <1>2, <1>3, <2>2
    <3> QED
      BY <3>1
  <2>3. CASE k = Len(a) /\ l \in 1..Len(r)
    <3>1. h[l] \in 1..(n - 1) /\ h[k] = n
      BY <1>2, <1>3, <2>3
    <3> QED
      BY <3>1
  <2> QED
    BY <1>4, <2>1, <2>2, <2>3
<1>8. ASSUME NEW j \in 1..n, s[j] \in S PROVE \E k \in 1..Len(a) : h[k] = j
  <2>1. CASE j = n
    BY <1>1, <1>3, <2>1
  <2>2. CASE j # n
    <3>1. j \in 1..(n - 1)
      BY <2>2
    <3>2. PICK k \in 1..Len(r) : g[k] = j
      BY <1>8, <3>1 DEF Picks
    <3> QED
      BY <1>1, <1>2, <3>2
  <2> QED
    BY <2>1, <2>2
<1> HIDE DEF a, h
<1>9. Picks(s, S, a, h, n)
  BY <1>5, <1>6, <1>7, <1>8 DEF Picks
<1> QED
  BY <1>9 DEF a

LEMMA PicksOver ==
  ASSUME NEW T, NEW s \in Seq(T), NEW S, NEW r \in Seq(T), NEW g,
         NEW n \in Nat \ {0}, Picks(s, S, r, g, n - 1), s[n] \notin S
  PROVE  Picks(s, S, r, g, n)
<1>1. g \in [1..Len(r) -> 1..n]
  <2>1. \A k \in 1..Len(r) : g[k] \in 1..(n - 1)
    BY DEF Picks
  <2>2. \A k \in 1..Len(r) : g[k] \in 1..n
    BY <2>1
  <2> QED
    BY <2>2 DEF Picks
<1>2. \A j \in 1..n : s[j] \in S => j \in 1..(n - 1)
  OBVIOUS
<1> QED
  BY <1>1, <1>2 DEF Picks

LEMMA AmongPicks ==
  ASSUME NEW T, NEW s \in Seq(T), NEW S
  PROVE  /\ Among(s, S) \in Seq(T) /\ Len(Among(s, S)) <= Len(s)
         /\ Len(Among(s, S)) = Len(s) => Among(s, S) = s
         /\ \E g : Picks(s, S, Among(s, S), g, Len(s))
<1>1. PICK f : Table(s, S, f, Len(s)) /\ Among(s, S) = f[Len(s)]
  BY AmongTable
<1>2. \A i \in 0..Len(s) :
        f[i] = IF i = 0 THEN <<>>
               ELSE IF s[i] \in S THEN Append(f[i - 1], s[i]) ELSE f[i - 1]
  BY <1>1 DEF Table
<1> DEFINE P(i) == /\ f[i] \in Seq(T) /\ Len(f[i]) <= i
                   /\ Len(f[i]) = i => \A k \in 1..i : f[i][k] = s[k]
                   /\ \E g : Picks(s, S, f[i], g, i)
<1> DEFINE Bad == {i \in 0..Len(s) : ~ P(i)}
<1>3. Bad = {}
  <2> SUFFICES ASSUME Bad # {} PROVE FALSE
    OBVIOUS
  <2>0. Bad \subseteq Nat
    OBVIOUS
  <2>1. PICK m \in Bad : \A k \in Bad : m <= k
    BY <2>0, SmallestIn
  <2>2. CASE m = 0
    <3>1. f[0] = <<>>
      BY <1>2
    <3>2. Picks(s, S, <<>>, <<>>, 0)
      BY DEF Picks
    <3>3. P(0)
      BY <3>1, <3>2
    <3> QED
      BY <2>1, <2>2, <3>3
  <2>3. CASE m # 0
    <3> DEFINE r == f[m - 1]
    <3>1. m \in 1..Len(s) /\ m - 1 \in 0..Len(s) /\ m - 1 \notin Bad /\ s[m] \in T
      BY <2>1, <2>3
    <3>2. P(m - 1)
      BY <3>1
    <3>3. PICK g : Picks(s, S, r, g, m - 1)
      BY <3>2
    <3>4. f[m] = IF s[m] \in S THEN Append(r, s[m]) ELSE r
      BY <1>2, <2>3, <3>1
    <3>5. r \in Seq(T) /\ Len(r) \in Nat /\ Len(r) <= m - 1
          /\ (Len(r) = m - 1 => \A k \in 1..(m - 1) : r[k] = s[k])
      BY <3>2
    <3> HIDE DEF P, r
    <3>6. CASE s[m] \in S
      <4>1. /\ f[m] = Append(r, s[m]) /\ f[m] \in Seq(T) /\ Len(f[m]) = Len(r) + 1
            /\ f[m][Len(r) + 1] = s[m] /\ \A k \in 1..Len(r) : f[m][k] = r[k]
        BY <3>1, <3>4, <3>5, <3>6
      <4>2. \E h : Picks(s, S, f[m], h, m)
        BY <3>1, <3>3, <3>5, <3>6, <4>1, PicksAnother
      <4>3. Len(f[m]) <= m /\ (Len(f[m]) = m => \A k \in 1..m : f[m][k] = s[k])
        BY <3>1, <3>5, <4>1
      <4> QED
        BY <2>1, <4>1, <4>2, <4>3 DEF P
    <3>7. CASE s[m] \notin S
      <4>1. f[m] = r
        BY <3>4, <3>7
      <4>2. Picks(s, S, f[m], g, m)
        BY <3>1, <3>3, <3>5, <3>7, <4>1, PicksOver
      <4>3. Len(f[m]) <= m /\ Len(f[m]) # m
        BY <3>1, <3>5, <4>1
      <4> QED
        BY <2>1, <3>5, <4>1, <4>2, <4>3 DEF P
    <3> QED
      BY <3>6, <3>7
  <2> QED
    BY <2>2, <2>3
<1>4. P(Len(s))
  BY <1>3
<1>5. Len(Among(s, S)) = Len(s) => Among(s, S) = s
  BY <1>1, <1>4
<1> QED
  BY <1>1, <1>4, <1>5

-----------------------------------------------------------------------------
(* Policy.                                                                 *)

LEMMA EventsAre ==
  ASSUME NEW e \in Event
  PROVE  Events[e] \in Happening /\ e \in 1..Len(Events)
<1>1. Events \in Seq(Happening)
  BY MindAssumption DEF Happening
<1>2. DOMAIN Events = 1..Len(Events)
  BY <1>1
<1> QED
  BY <1>1, <1>2 DEF Event

LEMMA LoudnessIs ==
  ASSUME NEW s \in SURFACES
  PROVE  Loudness(s) \in 0..5
  BY DEF SURFACES, Loudness

LEMMA CapIs ==
  ASSUME NEW s \in SURFACES, NEW c \in SURFACES
  PROVE  /\ Cap(s, c) \in SURFACES
         /\ Spoken(Cap(s, c)) <=> Spoken(s) /\ Spoken(c)
<1>1. Loudness(s) \in 0..5 /\ Loudness(c) \in 0..5 /\ Loudness("speak") = 4
  BY LoudnessIs DEF Loudness
<1>2. CASE Loudness(s) <= Loudness(c)
  BY <1>1, <1>2 DEF Cap, Spoken
<1>3. CASE Loudness(s) > Loudness(c)
  BY <1>1, <1>3 DEF Cap, Spoken
<1> QED
  BY <1>1, <1>2, <1>3

LEMMA SpokenIsVisible ==
  ASSUME NEW s \in SURFACES, Spoken(s)
  PROVE  Visible(s)
<1>1. Loudness(s) \in 0..5 /\ Loudness("speak") = 4 /\ Loudness("island") = 3
  BY LoudnessIs DEF Loudness
<1> QED
  BY <1>1 DEF Spoken, Visible

LEMMA Quiet ==
  /\ "silent" \in SURFACES /\ ~ Spoken("silent")
  /\ "activity" \in SURFACES /\ ~ Spoken("activity")
  /\ "island" \in SURFACES /\ ~ Spoken("island")
  /\ "speak" \in SURFACES /\ Spoken("speak")
  BY DEF SURFACES, Spoken, Loudness

LEMMA CeilingIs ==
  ASSUME NEW event \in Happening, NEW read \in BOOLEAN
  PROVE  Ceiling(event, read) \in SURFACES
  BY CapIs, Quiet DEF Ceiling, Happening

LEMMA RulesAre ==
  /\ DOMAIN RULES = 1..9 /\ RULES[9] = "allowed" /\ RULES[2] = "daily-budget"
  /\ RULES[1] = "initiative-paused"
  BY DEF RULES

LEMMA FirstRule ==
  ASSUME NEW event, NEW world0, NEW read, NEW s
  PROVE  \E i \in 1..9 :
           /\ Deciding(event, world0, read, s) = RULES[i]
           /\ Applies(RULES[i], event, world0, read, s)
           /\ \A j \in 1..(i - 1) : ~ Applies(RULES[j], event, world0, read, s)
<1> DEFINE A(i) == Applies(RULES[i], event, world0, read, s)
           I == {i \in 1..9 : A(i)}
           First(i) == A(i) /\ \A j \in 1..(i - 1) : ~ A(j)
<1>1. A(9)
  BY RulesAre DEF Applies
<1>2. I \subseteq Nat /\ I # {}
  BY <1>1
<1>3. PICK i \in I : \A j \in I : i <= j
  BY <1>2, SmallestIn
<1> HIDE DEF A
<1>4. First(i)
  BY <1>3
<1>5. \E k \in DOMAIN RULES : First(k)
  BY <1>3, <1>4, RulesAre
<1> DEFINE c == CHOOSE k \in DOMAIN RULES : First(k)
<1>6. c \in 1..9 /\ First(c)
  BY <1>5, RulesAre, Zenon
<1>7. Deciding(event, world0, read, s) = RULES[c]
  BY Zenon DEF Deciding, A
<1> HIDE DEF c
<1> QED
  BY <1>6, <1>7 DEF A

(* What is spoken at all is judged by the same rules however loud.         *)
LEMMA SameRule ==
  ASSUME NEW event, NEW world0, NEW read, NEW s \in SURFACES, NEW r \in SURFACES,
         Spoken(s), Spoken(r)
  PROVE  Deciding(event, world0, read, s) = Deciding(event, world0, read, r)
<1>1. ASSUME NEW rule0
      PROVE  Applies(rule0, event, world0, read, s)
               <=> Applies(rule0, event, world0, read, r)
  BY SpokenIsVisible DEF Applies
<1>2. PICK i \in 1..9 :
        /\ Deciding(event, world0, read, s) = RULES[i]
        /\ Applies(RULES[i], event, world0, read, s)
        /\ \A j \in 1..(i - 1) : ~ Applies(RULES[j], event, world0, read, s)
  BY FirstRule
<1>3. PICK k \in 1..9 :
        /\ Deciding(event, world0, read, r) = RULES[k]
        /\ Applies(RULES[k], event, world0, read, r)
        /\ \A j \in 1..(k - 1) : ~ Applies(RULES[j], event, world0, read, r)
  BY FirstRule
<1>4. k \notin 1..(i - 1) /\ i \notin 1..(k - 1)
  BY <1>1, <1>2, <1>3
<1>5. i = k
  BY <1>4
<1> QED
  BY <1>2, <1>3, <1>5

LEMMA BudgetRules ==
  ASSUME NEW event, NEW world0, NEW read, NEW s, "daily-budget" \in world0
  PROVE  Deciding(event, world0, read, s) \in {"initiative-paused", "daily-budget"}
<1>1. PICK i \in 1..9 :
        /\ Deciding(event, world0, read, s) = RULES[i]
        /\ \A j \in 1..(i - 1) : ~ Applies(RULES[j], event, world0, read, s)
  BY FirstRule
<1>2. Applies(RULES[2], event, world0, read, s)
  BY RulesAre DEF Applies
<1>3. i \in 1..2
  BY <1>1, <1>2
<1> QED
  BY <1>1, <1>3, RulesAre

LEMMA EvaluateIs ==
  ASSUME NEW event \in Happening, NEW world0, NEW read \in BOOLEAN,
         NEW wanted \in SURFACES
  PROVE  /\ evaluate(event, world0, read, wanted).surface \in SURFACES
         /\ evaluate(event, world0, read, wanted).rule \in {RULES[i] : i \in DOMAIN RULES}
         /\ evaluate(event, world0, read, wanted).rule =
              Deciding(event, world0, read, Cap(wanted, Ceiling(event, read)))
<1> DEFINE c == Ceiling(event, read)
           s == Cap(wanted, c)
           r == Deciding(event, world0, read, s)
<1>1. c \in SURFACES /\ s \in SURFACES
  BY CeilingIs, CapIs
<1>2. r \in {RULES[i] : i \in DOMAIN RULES}
  BY FirstRule, RulesAre
<1>3. evaluate(event, world0, read, wanted)
        = [rule |-> r, surface |-> Quieted(r, s, c)]
  BY DEF evaluate
<1> HIDE DEF c, s, r
<1>4. Quieted(r, s, c) \in SURFACES
  BY <1>1, CapIs, Quiet DEF Quieted
<1> QED
  BY <1>2, <1>3, <1>4 DEF c, s, r

(* An item of which policy says it may be spoken may be as loud as it is.  *)
LEMMA SayableIsSaid ==
  ASSUME NEW event \in Happening, NEW world0, NEW read \in BOOLEAN,
         Spoken(evaluate(event, world0, read, "speak").surface)
  PROVE  Spoken(evaluate(event, world0, read, event.wanted).surface)
<1> DEFINE c == Ceiling(event, read)
           s == Cap("speak", c)
           q == Cap(event.wanted, c)
           r == Deciding(event, world0, read, s)
<1>1. /\ c \in SURFACES
      /\ event.ceiling \in SURFACES /\ event.wanted \in SURFACES
      /\ Loudness(event.ceiling) <= Loudness(event.wanted)
  BY CeilingIs DEF Happening
<1>2. s \in SURFACES /\ q \in SURFACES
  BY <1>1, CapIs, Quiet
<1>3. evaluate(event, world0, read, "speak").surface = Quieted(r, s, c)
  BY DEF evaluate
<1>4. Spoken(Quieted(r, s, c))
  BY <1>3
<1> HIDE DEF r, s, q, c
<1>5. /\ r \notin {"initiative-paused", "daily-budget", "conversation-active",
                   "windows-busy", "asleep", "quiet-hours", "nobody-present"}
      /\ Quieted(r, s, c) = s
  BY <1>1, <1>4, CapIs, Quiet DEF Quieted
<1>6. Spoken(s) /\ Spoken(c)
  BY <1>1, <1>4, <1>5, CapIs, Quiet DEF s
<1>7. Spoken(event.wanted)
  <2>1. c = event.ceiling \/ c = Cap(event.ceiling, "speak")
        \/ c = Cap(event.ceiling, "island")
        \/ c = Cap(Cap(event.ceiling, "speak"), "island")
    BY DEF Ceiling, c
  <2>2. Spoken(event.ceiling)
    BY <1>1, <1>6, <2>1, CapIs, Quiet
  <2> QED
    BY <1>1, <2>2, LoudnessIs, Quiet DEF Spoken
<1>8. Spoken(q)
  BY <1>1, <1>6, <1>7, CapIs DEF q
<1>9. Deciding(event, world0, read, q) = r
  BY <1>2, <1>6, <1>8, SameRule DEF r
<1>10. evaluate(event, world0, read, event.wanted).surface = Quieted(r, q, c)
  BY <1>9 DEF evaluate, q, c
<1>11. Quieted(r, q, c) = q
  BY <1>5 DEF Quieted
<1> QED
  BY <1>8, <1>10, <1>11

-----------------------------------------------------------------------------
(* What is held.                                                           *)

LEMMA NewestIs ==
  ASSUME NEW T, NEW s \in Seq(T), NEW n \in Nat, Len(s) > n
  PROVE  /\ Newest(s, n) \in Seq(T) /\ Len(Newest(s, n)) = n
         /\ \A k \in 1..n : Newest(s, n)[k] = s[Len(s) - n + k]
                            /\ Len(s) - n + k \in 1..Len(s)
<1>1. Len(s) \in Nat /\ Len(s) - n + 1 \in 1..(Len(s) + 1)
  OBVIOUS
<1> QED
  BY <1>1 DEF Newest

Distinct(r) == \A i, j \in DOMAIN r : r[i].e = r[j].e => i = j
Has(r, e) == \E i \in DOMAIN r : r[i].e = e

(* What is on disk names the same events as what is in memory.             *)
HeldOK ==
  /\ room \in Seq(Item) /\ file \in Seq(Item) /\ Len(room) <= MOST_HELD
  /\ old \subseteq {room[i].e : i \in DOMAIN room}
  /\ Len(file) = Len(room) /\ \A i \in DOMAIN room : file[i].e = room[i].e
  /\ Distinct(room)

(* Some members of a sequence of items.                                    *)
LEMMA Thinned ==
  ASSUME NEW r \in Seq(Item), NEW S, Distinct(r)
  PROVE  /\ Among(r, S) \in Seq(Item) /\ Len(Among(r, S)) <= Len(r)
         /\ Len(Among(r, S)) = Len(r) => Among(r, S) = r
         /\ Distinct(Among(r, S))
         /\ \A k \in DOMAIN Among(r, S) :
              Among(r, S)[k] \in S
              /\ \E i \in DOMAIN r : r[i] = Among(r, S)[k]
         /\ \A i \in DOMAIN r : r[i] \in S => Has(Among(r, S), r[i].e)
<1> DEFINE a == Among(r, S)
<1>1. PICK g : Picks(r, S, a, g, Len(r))
  BY AmongPicks
<1>2. /\ a \in Seq(Item) /\ Len(a) <= Len(r) /\ (Len(a) = Len(r) => a = r)
      /\ DOMAIN a = 1..Len(a) /\ DOMAIN r = 1..Len(r)
  BY AmongPicks
<1> HIDE DEF a
<1>3. \A k \in DOMAIN a : g[k] \in DOMAIN r /\ a[k] = r[g[k]] /\ a[k] \in S
  BY <1>1, <1>2 DEF Picks
<1>4. Distinct(a)
  <2> SUFFICES ASSUME NEW i \in DOMAIN a, NEW j \in DOMAIN a, a[i].e = a[j].e
               PROVE  i = j
    BY DEF Distinct
  <2>1. r[g[i]].e = r[g[j]].e /\ g[i] \in DOMAIN r /\ g[j] \in DOMAIN r
    BY <1>3
  <2>2. g[i] = g[j]
    BY <2>1 DEF Distinct
  <2> QED
    BY <1>1, <1>2, <2>2 DEF Picks
<1>5. \A i \in DOMAIN r : r[i] \in S => Has(a, r[i].e)
  <2> SUFFICES ASSUME NEW i \in DOMAIN r, r[i] \in S PROVE Has(a, r[i].e)
    OBVIOUS
  <2>1. PICK k \in 1..Len(a) : g[k] = i
    BY <1>1, <1>2 DEF Picks
  <2>2. k \in DOMAIN a /\ a[k] = r[i]
    BY <1>2, <1>3, <2>1
  <2> QED
    BY <2>2 DEF Has
<1> QED
  BY <1>2, <1>3, <1>4, <1>5 DEF a

LEMMA HoldFacts ==
  ASSUME HeldOK, NEW h \in InHand, NEW why, hold(h, why)
  PROVE  /\ HeldOK'
         /\ \A e : Has(room', e) => Has(room, e) \/ e = h.e
         /\ \A i \in DOMAIN room : \/ Has(room', room[i].e)
                                   \/ room[i].e \in old
                                   \/ Len(room') = MOST_HELD
<1>1. CASE ~ (why \in WAITING_FOR /\ \A i \in DOMAIN room : room[i].e # h.e)
  <2>1. UNCHANGED held
    BY <1>1 DEF hold
  <2> QED
    BY <2>1 DEF held, HeldOK, Has, Distinct
<1>2. CASE why \in WAITING_FOR /\ \A i \in DOMAIN room : room[i].e # h.e
  <2> DEFINE kept == Among(room, Fresh)
             new == [e |-> h.e, read |-> h.read]
             all == Append(kept, new)
  <2>1. /\ room' = IF Len(all) > MOST_HELD THEN Newest(all, MOST_HELD) ELSE all
        /\ file' = room' /\ old' = {}
    BY <1>2 DEF hold
  <2>2. room \in Seq(Item) /\ Distinct(room) /\ MOST_HELD \in Nat \ {0}
    BY MindAssumption DEF HeldOK
  <2>3. /\ kept \in Seq(Item) /\ Len(kept) <= Len(room) /\ Distinct(kept)
        /\ \A k \in DOMAIN kept : \E i \in DOMAIN room : room[i] = kept[k]
        /\ \A i \in DOMAIN room : room[i] \in Fresh => Has(kept, room[i].e)
    BY <2>2, Thinned
  <2>4. new \in Item /\ new.e = h.e
    BY DEF InHand, Item
  <2> HIDE DEF kept, new
  <2>5. /\ all \in Seq(Item) /\ Len(all) = Len(kept) + 1 /\ all[Len(all)] = new
        /\ \A k \in 1..Len(kept) : all[k] = kept[k]
        /\ DOMAIN all = 1..Len(all) /\ DOMAIN kept = 1..Len(kept) /\ Len(kept) \in Nat
    BY <2>3, <2>4
  <2> HIDE DEF all
  <2>6. \A k \in 1..Len(kept) : kept[k].e # h.e
    BY <1>2, <2>3, <2>5
  <2>7. Distinct(all)
    <3> SUFFICES ASSUME NEW i \in 1..Len(all), NEW j \in 1..Len(all),
                        all[i].e = all[j].e
                 PROVE  i = j
      BY <2>5 DEF Distinct
    <3>1. CASE i \in 1..Len(kept) /\ j \in 1..Len(kept)
      BY <2>3, <2>5, <3>1 DEF Distinct
    <3>2. CASE i \in 1..Len(kept) /\ j = Len(all)
      BY <2>4, <2>5, <2>6, <3>2
    <3>3. CASE i = Len(all) /\ j \in 1..Len(kept)
      BY <2>4, <2>5, <2>6, <3>3
    <3> QED
      BY <2>5, <3>1, <3>2, <3>3
  <2>8. \A k \in DOMAIN all : Has(room, all[k].e) \/ all[k].e = h.e
    <3>1. \A k \in DOMAIN all : k \in 1..Len(kept) \/ k = Len(all)
      BY <2>5
    <3> QED
      BY <2>3, <2>4, <2>5, <3>1 DEF Has
  <2>9. \A i \in DOMAIN room : Has(all, room[i].e) \/ room[i].e \in old
    <3>1. \A k \in DOMAIN kept : k \in DOMAIN all /\ all[k] = kept[k]
      BY <2>5
    <3>2. \A i \in DOMAIN room : room[i].e \notin old => room[i] \in Fresh
      BY <2>2 DEF Fresh
    <3> QED
      BY <2>3, <3>1, <3>2 DEF Has
  <2>10. /\ room' \in Seq(Item) /\ Len(room') <= MOST_HELD /\ Distinct(room')
         /\ \A k \in DOMAIN room' : \E l \in DOMAIN all : room'[k] = all[l]
         /\ Len(room') = MOST_HELD \/ room' = all
    <3>1. CASE Len(all) > MOST_HELD
      <4> DEFINE d == Len(all) - MOST_HELD
      <4>1. /\ room' \in Seq(Item) /\ Len(room') = MOST_HELD
            /\ DOMAIN room' = 1..MOST_HELD
            /\ \A k \in 1..MOST_HELD : room'[k] = all[d + k] /\ d + k \in 1..Len(all)
        <5>1. /\ Newest(all, MOST_HELD) \in Seq(Item)
              /\ Len(Newest(all, MOST_HELD)) = MOST_HELD
              /\ \A k \in 1..MOST_HELD :
                   /\ Newest(all, MOST_HELD)[k] = all[Len(all) - MOST_HELD + k]
                   /\ Len(all) - MOST_HELD + k \in 1..Len(all)
          BY <2>2, <2>5, <3>1, NewestIs
        <5>2. room' = Newest(all, MOST_HELD)
          BY <2>1, <3>1 DEF all
        <5> QED
          BY <5>1, <5>2
      <4>2. \A i, j \in DOMAIN room' : room'[i].e = room'[j].e => i = j
        <5> SUFFICES ASSUME NEW i \in 1..MOST_HELD, NEW j \in 1..MOST_HELD,
                            room'[i].e = room'[j].e
                     PROVE  i = j
          BY <4>1
        <5>1. d + i = d + j
          BY <2>5, <2>7, <4>1 DEF Distinct
        <5> QED
          BY <2>2, <2>5, <5>1
      <4>3. \A k \in DOMAIN room' : \E l \in DOMAIN all : room'[k] = all[l]
        BY <2>5, <4>1
      <4> QED
        BY <2>2, <4>1, <4>2, <4>3 DEF Distinct
    <3>2. CASE ~ (Len(all) > MOST_HELD)
      BY <2>1, <2>2, <2>5, <2>7, <3>2 DEF all
    <3> QED
      BY <3>1, <3>2
  <2>11. HeldOK'
    BY <2>1, <2>10 DEF HeldOK, Distinct
  <2>12. \A e : Has(room', e) => Has(room, e) \/ e = h.e
    BY <2>8, <2>10 DEF Has
  <2> QED
    BY <2>9, <2>10, <2>11, <2>12
<1> QED
  BY <1>1, <1>2

LEMMA ReleaseFacts ==
  ASSUME HeldOK, NEW t \in Thread, hands \in [Thread -> Seq(InHand)],
         NEW now \in Seq(Item), Len(now) = Len(room),
         \A i \in DOMAIN room : now[i].e = room[i].e,
         NEW S, release(t, now, S)
  PROVE  /\ HeldOK'
         /\ hands' \in [Thread -> Seq(InHand)]
         /\ \A u \in Thread : u # t => hands'[u] = hands[u]
         /\ \/ hands'[t] = <<>>
            \/ /\ Len(hands'[t]) = 1 /\ hands'[t][1].released
               /\ \E i \in DOMAIN now :
                    now[i] \in S /\ hands'[t][1].e = now[i].e
                    /\ hands'[t][1].read = now[i].read
               /\ Has(room, hands'[t][1].e) /\ ~ Has(room', hands'[t][1].e)
         /\ \A e : Has(room', e) => Has(room, e)
         /\ \A i \in DOMAIN room :
              \/ Has(room', room[i].e)
              \/ room[i].e \in old
              \/ \E j \in DOMAIN hands'[t] :
                   hands'[t][j].e = room[i].e /\ hands'[t][j].released
<1> DEFINE fits  == {i \in DOMAIN now : now[i] \in Fresh \cap S}
           first == CHOOSE i \in fits : \A j \in fits : i <= j
           freed == IF fits = {} THEN <<>> ELSE <<now[first]>>
           keeps == Among(now, Fresh \ Range(freed))
           given == [i \in DOMAIN freed |->
                       [e |-> freed[i].e, released |-> TRUE, read |-> freed[i].read]]
<1>1. /\ hands' = [hands EXCEPT ![t] = given]
      /\ room' = keeps /\ old' = {}
      /\ file' = IF Len(keeps) # Len(room) THEN keeps ELSE file
  BY DEF release
<1>2. /\ DOMAIN now = DOMAIN room /\ DOMAIN now = 1..Len(now)
      /\ room \in Seq(Item) /\ file \in Seq(Item) /\ Distinct(now)
  <2>1. room \in Seq(Item) /\ file \in Seq(Item) /\ DOMAIN now = DOMAIN room
        /\ DOMAIN now = 1..Len(now)
    BY DEF HeldOK
  <2> QED
    BY <2>1 DEF HeldOK, Distinct
<1>3. fits # {} => first \in fits
  <2>1. fits \subseteq Nat
    BY <1>2
  <2>2. fits # {} => \E i \in fits : \A j \in fits : i <= j
    BY <2>1, SmallestIn
  <2> QED
    BY <2>2
<1>4. /\ keeps \in Seq(Item) /\ Len(keeps) <= Len(now) /\ Distinct(keeps)
      /\ Len(keeps) = Len(now) => keeps = now
      /\ \A k \in DOMAIN keeps :
           /\ keeps[k] \in Fresh \ Range(freed)
           /\ \E i \in DOMAIN now : now[i] = keeps[k]
      /\ \A i \in DOMAIN now : now[i] \in Fresh \ Range(freed) => Has(keeps, now[i].e)
  <2> HIDE DEF freed
  <2> QED
    BY <1>2, Thinned
<1>5. \/ fits = {} /\ freed = <<>> /\ Range(freed) = {}
      \/ /\ first \in fits /\ freed = <<now[first]>>
         /\ Range(freed) = {now[first]}
  <2>1. Range(<<>>) = {} /\ \A x : Range(<<x>>) = {x}
    BY DEF Range
  <2>2. fits = {} => freed = <<>>
    OBVIOUS
  <2>3. fits # {} => freed = <<now[first]>>
    OBVIOUS
  <2> HIDE DEF freed, fits, first
  <2> QED
    BY <1>3, <2>1, <2>2, <2>3
<1>6. HeldOK'
  <2>1. Len(room') <= MOST_HELD /\ room' \in Seq(Item) /\ Distinct(room')
    BY <1>1, <1>2, <1>4, MindAssumption DEF HeldOK
  <2>2. CASE Len(keeps) # Len(room)
    BY <1>1, <2>1, <2>2 DEF HeldOK, Distinct
  <2>3. CASE Len(keeps) = Len(room)
    <3>1. room' = now /\ file' = file
      BY <1>1, <1>4, <2>3
    <3> QED
      BY <1>1, <1>2, <2>1, <3>1 DEF HeldOK, Distinct
  <2> QED
    BY <2>2, <2>3
<1> HIDE DEF keeps, first, fits
<1>7. \A e : Has(room', e) => Has(room, e)
  <2> SUFFICES ASSUME NEW e, Has(room', e) PROVE Has(room, e)
    OBVIOUS
  <2>1. PICK k \in DOMAIN keeps : keeps[k].e = e
    BY <1>1 DEF Has
  <2>2. PICK i \in DOMAIN now : now[i] = keeps[k]
    BY <1>4
  <2> QED
    BY <1>2, <2>1, <2>2 DEF Has
<1>10. ASSUME NEW i \in DOMAIN room,
              room[i].e \notin old, now[i] \notin Range(freed)
       PROVE  Has(room', room[i].e)
  <2>1. now[i] \in Item /\ now[i].e = room[i].e
    BY <1>2, <1>10
  <2>2. now[i] \in Fresh \ Range(freed)
    BY <1>10, <2>1 DEF Fresh
  <2> QED
    BY <1>1, <1>2, <1>4, <2>1, <2>2
<1>8. CASE fits = {} /\ freed = <<>> /\ Range(freed) = {}
  <2>1. given = <<>>
    BY <1>8
  <2>2. hands' \in [Thread -> Seq(InHand)] /\ hands'[t] = <<>>
        /\ \A u \in Thread : u # t => hands'[u] = hands[u]
    BY <1>1, <2>1
  <2>3. \A i \in DOMAIN room : Has(room', room[i].e) \/ room[i].e \in old
    BY <1>8, <1>10
  <2> QED
    BY <1>6, <1>7, <2>2, <2>3
<1>9. CASE /\ first \in fits /\ freed = <<now[first]>>
           /\ Range(freed) = {now[first]}
  <2> DEFINE one == [e |-> now[first].e, released |-> TRUE, read |-> now[first].read]
  <2>1. first \in DOMAIN now /\ now[first] \in Fresh \cap S /\ now[first] \in Item
    BY <1>2, <1>9 DEF fits
  <2>2. one \in InHand
    BY <2>1 DEF InHand, Item
  <2>3. given = <<one>>
    <3>1. DOMAIN freed = {1} /\ freed[1] = now[first]
      BY <1>9
    <3>2. given = [i \in {1} |-> one]
      BY <3>1
    <3>3. [i \in {1} |-> one] = <<one>>
      <4> HIDE DEF one
      <4>1. {1} = 1..1
        OBVIOUS
      <4>2. [i \in 1..1 |-> one] = <<one>>
        OBVIOUS
      <4> QED
        BY <4>1, <4>2
    <3> QED
      BY <3>2, <3>3
  <2> HIDE DEF given, freed, one
  <2>4. /\ hands' \in [Thread -> Seq(InHand)] /\ hands'[t] = <<one>>
        /\ \A u \in Thread : u # t => hands'[u] = hands[u]
    <3>1. <<one>> \in Seq(InHand)
      BY <2>2
    <3> QED
      BY <1>1, <2>3, <3>1
  <2>5. Len(hands'[t]) = 1 /\ hands'[t][1] = one /\ 1 \in DOMAIN hands'[t]
    BY <2>2, <2>4
  <2>6. Has(room, one.e)
    BY <1>2, <2>1 DEF Has, one
  <2>7. ~ Has(room', one.e)
    <3> SUFFICES ASSUME NEW k \in DOMAIN keeps, keeps[k].e = now[first].e
                 PROVE  FALSE
      BY <1>1 DEF Has, one
    <3>1. PICK i \in DOMAIN now : now[i] = keeps[k]
      BY <1>4
    <3>2. i = first
      BY <1>2, <2>1, <3>1 DEF Distinct
    <3> QED
      BY <1>4, <1>9, <3>1, <3>2
  <2>8. \A i \in DOMAIN room :
          Has(room', room[i].e) \/ room[i].e \in old \/ room[i].e = one.e
    <3> SUFFICES ASSUME NEW i \in DOMAIN room, room[i].e \notin old,
                        room[i].e # one.e
                 PROVE  Has(room', room[i].e)
      OBVIOUS
    <3>1. now[i] # now[first]
      BY DEF one
    <3> QED
      BY <1>9, <1>10, <3>1
  <2> QED
    <3>1. one.released /\ one.read = now[first].read /\ one.e = now[first].e
      BY DEF one
    <3>2. /\ Len(hands'[t]) = 1 /\ hands'[t][1].released
          /\ \E i \in DOMAIN now :
               now[i] \in S /\ hands'[t][1].e = now[i].e
               /\ hands'[t][1].read = now[i].read
          /\ Has(room, hands'[t][1].e) /\ ~ Has(room', hands'[t][1].e)
      BY <2>1, <2>5, <2>6, <2>7, <3>1
    <3> QED
      BY <1>6, <1>7, <2>4, <2>5, <2>8, <3>1, <3>2
<1> QED
  BY <1>5, <1>8, <1>9

(* What a turn takes from the journal, each event once.                    *)
LEMMA OldestFacts ==
  ASSUME NEW n \in Nat, pending \subseteq Event
  PROVE  /\ Oldest(n) \in Seq(Event) /\ Len(Oldest(n)) <= n
         /\ \A i, j \in DOMAIN Oldest(n) : Oldest(n)[i] = Oldest(n)[j] => i = j
         /\ \A i \in DOMAIN Oldest(n) : Oldest(n)[i] \in pending
<1> DEFINE every == [i \in Event |-> i]
           ids == Among(every, pending)
           m == IF Len(ids) < n THEN Len(ids) ELSE n
<1>1. Event = 1..Len(Events) /\ Len(Events) \in Nat
  BY MindAssumption DEF Event
<1>2. every \in Seq(Event) /\ DOMAIN every = Event
  BY <1>1
<1>3. PICK g : Picks(every, pending, ids, g, Len(every))
  BY <1>2, AmongPicks
<1>4. ids \in Seq(Event) /\ Len(ids) \in Nat /\ Len(every) = Len(Events)
  <2>1. ids \in Seq(Event)
    BY <1>2, AmongPicks, Zenon
  <2> QED
    BY <1>1, <1>2, <2>1
<1>5. \A k \in 1..Len(ids) : ids[k] = g[k] /\ ids[k] \in pending
  BY <1>1, <1>2, <1>3, <1>4 DEF Picks
<1>6. \A k, l \in 1..Len(ids) : ids[k] = ids[l] => k = l
  BY <1>3, <1>5 DEF Picks
<1> HIDE DEF ids
<1>7. /\ m \in 0..Len(ids) /\ m <= n
      /\ SubSeq(ids, 1, m) \in Seq(Event) /\ Len(SubSeq(ids, 1, m)) = m
      /\ DOMAIN SubSeq(ids, 1, m) = 1..m
      /\ \A k \in 1..m : SubSeq(ids, 1, m)[k] = ids[k] /\ k \in 1..Len(ids)
  BY <1>4
<1>8. Oldest(n) = SubSeq(ids, 1, m)
  BY DEF Oldest, ids
<1> HIDE DEF m
<1> QED
  BY <1>5, <1>6, <1>7, <1>8

-----------------------------------------------------------------------------
(* Where a thread stands.                                                  *)

StoredOK ==
  /\ arrived \in 0..Len(Events) /\ pending \subseteq 1..arrived
  /\ tokens \in Nat /\ paid \in Nat
  /\ world \subseteq Changing /\ off \subseteq Event
  /\ told \in [Event -> Nat] /\ cuts \in 0..MaxCuts
  /\ air \in Thread \cup {None}

TurnsOK ==
  /\ pc \in [Thread -> {"idle", "offer", "take", "judge", "think", "say",
                        "voice", "text", "note", "asked"}]
  /\ hands \in [Thread -> Seq(InHand)]
  /\ args \in [Thread -> SUBSET Changing]
  /\ base \in [Thread -> [on : SUBSET Changing, tokens : Nat]]
  /\ surface \in [Thread -> SURFACES]
  /\ rule \in [Thread -> {RULES[i] : i \in DOMAIN RULES}]
  /\ cost \in [Thread -> 0..1]
  /\ offered \in [Thread -> SUBSET HINDRANCES]

Alone == {"idle", "offer", "take"}

(* What a turn holds: at most one item out of the room, and it comes first *)
(* and an event of the journal once.                                       *)
Shape(t) ==
  /\ Len(hands[t]) <= MAX_EVENTS_PER_TURN + 1
  /\ pc[t] \in {"idle", "offer"} => hands[t] = <<>>
  /\ pc[t] \notin Alone => hands[t] # <<>>
  /\ pc[t] = "take" => \A i \in DOMAIN hands[t] : hands[t][i].released
  /\ pc[t] = "asked" => t = Loop /\ Len(hands[t]) = 1
  /\ \A i \in DOMAIN hands[t] : hands[t][i].released => i = 1
  /\ \A i, j \in DOMAIN hands[t] :
       ~ hands[t][i].released /\ ~ hands[t][j].released
       /\ hands[t][i].e = hands[t][j].e => i = j
  /\ pc[t] \in {"judge", "think", "asked"} \cup Alone => cost[t] = 0

(* What was let out of the room may be spoken in the world it was let out  *)
(* for.                                                                    *)
Offers(t) ==
  \A i \in DOMAIN hands[t] :
    hands[t][i].released /\ pc[t] \in {"take", "judge"}
      => Spoken(evaluate(Events[hands[t][i].e], offered[t], hands[t][i].read,
                         "speak").surface)

Same(t) ==
  /\ pc'[t] = pc[t] /\ hands'[t] = hands[t] /\ args'[t] = args[t]
  /\ base'[t] = base[t] /\ surface'[t] = surface[t] /\ rule'[t] = rule[t]
  /\ cost'[t] = cost[t] /\ offered'[t] = offered[t]

Threads == \A t \in Thread : Shape(t) /\ Offers(t)

Safe == StoredOK /\ HeldOK /\ TurnsOK /\ Threads

(* A step of t leaves the other thread where it is.                        *)
Moves(t) ==
  TurnsOK' /\ Shape(t)' /\ Offers(t)' /\ \A u \in Thread \ {t} : Same(u)

LEMMA HeadIs ==
  ASSUME NEW T, NEW s \in Seq(T), s # <<>>
  PROVE  /\ Head(s) = s[1] /\ s[1] \in T /\ 1 \in DOMAIN s /\ Len(s) \in Nat \ {0}
         /\ Tail(s) \in Seq(T) /\ Len(Tail(s)) = Len(s) - 1
         /\ DOMAIN Tail(s) = 1..(Len(s) - 1) /\ DOMAIN s = 1..Len(s)
         /\ \A i \in 1..(Len(s) - 1) : Tail(s)[i] = s[i + 1] /\ i + 1 \in DOMAIN s
  OBVIOUS

LEMMA HandIs ==
  ASSUME TurnsOK, NEW t \in Thread, Shape(t), pc[t] \notin Alone
  PROVE  /\ Head(hands[t]) = hands[t][1] /\ hands[t][1] \in InHand
         /\ 1 \in DOMAIN hands[t] /\ Len(hands[t]) \in Nat \ {0}
         /\ Tail(hands[t]) \in Seq(InHand) /\ Len(Tail(hands[t])) = Len(hands[t]) - 1
         /\ DOMAIN Tail(hands[t]) = 1..(Len(hands[t]) - 1)
         /\ DOMAIN hands[t] = 1..Len(hands[t])
         /\ \A i \in 1..(Len(hands[t]) - 1) :
              Tail(hands[t])[i] = hands[t][i + 1] /\ i + 1 \in DOMAIN hands[t]
<1>1. hands[t] \in Seq(InHand) /\ hands[t] # <<>>
  BY DEF TurnsOK, Shape
<1> QED
  BY <1>1, HeadIs

LEMMA MovesKeep ==
  ASSUME Threads, NEW t \in Thread, Moves(t)
  PROVE  TurnsOK' /\ Threads'
<1>1. ASSUME NEW u \in Thread, u # t PROVE Shape(u)' /\ Offers(u)'
  <2>1. Same(u) /\ Shape(u) /\ Offers(u)
    BY <1>1 DEF Moves, Threads
  <2> QED
    BY <2>1 DEF Same, Shape, Offers
<1> QED
  BY <1>1 DEF Threads, Moves

LEMMA NobodyMoves ==
  ASSUME TurnsOK, Threads, UNCHANGED <<pc, hands, turn, offered>>
  PROVE  TurnsOK' /\ Threads'
  BY DEF turn, TurnsOK, Threads, Shape, Offers

LEMMA NextEventMoves ==
  ASSUME TurnsOK, NEW t \in Thread, Shape(t), pc[t] \notin Alone, NEW n \in Nat,
         NextEvent(t, n)
  PROVE  Moves(t) /\ hands'[t] = Tail(hands[t]) /\ pc'[t] \in {"idle", "judge"}
<1> DEFINE s == hands[t]
<1>1. /\ hands' = [hands EXCEPT ![t] = Tail(hands[t])]
      /\ pc' = [pc EXCEPT ![t] = IF Len(s) = 1 THEN "idle" ELSE "judge"]
      /\ args' = [args EXCEPT ![t] = IF Len(s) = 1 THEN {} ELSE args[t]]
      /\ base' = [base EXCEPT ![t] =
                    IF Len(s) = 1 THEN Nowhere
                    ELSE [on |-> base[t].on, tokens |-> base[t].tokens + n]]
      /\ surface' = [surface EXCEPT ![t] = "silent"]
      /\ rule' = [rule EXCEPT ![t] = "allowed"]
      /\ cost' = [cost EXCEPT ![t] = 0]
      /\ offered' = [offered EXCEPT ![t] = {}]
  <2>1. hands' = [hands EXCEPT ![t] = Tail(hands[t])]
    BY DEF NextEvent
  <2>2. pc' = [pc EXCEPT ![t] = IF Len(s) = 1 THEN "idle" ELSE "judge"]
    BY DEF NextEvent
  <2>3. args' = [args EXCEPT ![t] = IF Len(s) = 1 THEN {} ELSE args[t]]
    BY DEF NextEvent
  <2>4. base' = [base EXCEPT ![t] =
                   IF Len(s) = 1 THEN Nowhere
                   ELSE [on |-> base[t].on, tokens |-> base[t].tokens + n]]
    BY DEF NextEvent
  <2>5. surface' = [surface EXCEPT ![t] = "silent"]
        /\ rule' = [rule EXCEPT ![t] = "allowed"]
        /\ cost' = [cost EXCEPT ![t] = 0] /\ offered' = [offered EXCEPT ![t] = {}]
    BY DEF NextEvent
  <2> QED
    BY <2>1, <2>2, <2>3, <2>4, <2>5
<1>2. "silent" \in SURFACES /\ "allowed" \in {RULES[i] : i \in DOMAIN RULES}
  BY Quiet, RulesAre
<1>3. /\ Tail(s) \in Seq(InHand) /\ Len(Tail(s)) = Len(s) - 1
      /\ Len(s) \in Nat \ {0} /\ DOMAIN Tail(s) = 1..(Len(s) - 1)
      /\ \A i \in 1..(Len(s) - 1) : Tail(s)[i] = s[i + 1] /\ i + 1 \in DOMAIN s
  BY HandIs
<1>4. base' \in [Thread -> [on : SUBSET Changing, tokens : Nat]]
  <2>1. base[t] \in [on : SUBSET Changing, tokens : Nat]
        /\ Nowhere \in [on : SUBSET Changing, tokens : Nat]
    BY DEF TurnsOK, Nowhere
  <2>2. [on |-> base[t].on, tokens |-> base[t].tokens + n]
          \in [on : SUBSET Changing, tokens : Nat]
    BY <2>1
  <2> QED
    BY <1>1, <2>1, <2>2 DEF TurnsOK
<1>5. TurnsOK'
  <2>1. /\ surface' \in [Thread -> SURFACES] /\ cost' \in [Thread -> 0..1]
        /\ rule' \in [Thread -> {RULES[i] : i \in DOMAIN RULES}]
        /\ offered' \in [Thread -> SUBSET HINDRANCES]
    BY <1>1, <1>2 DEF TurnsOK
  <2>2. /\ pc' \in [Thread -> {"idle", "offer", "take", "judge", "think", "say",
                               "voice", "text", "note", "asked"}]
        /\ hands' \in [Thread -> Seq(InHand)]
        /\ args' \in [Thread -> SUBSET Changing]
    BY <1>1, <1>3 DEF TurnsOK
  <2> QED
    BY <1>4, <2>1, <2>2 DEF TurnsOK
<1>6. hands'[t] = Tail(s) /\ cost'[t] = 0
      /\ pc'[t] = IF Len(s) = 1 THEN "idle" ELSE "judge"
  BY <1>1 DEF TurnsOK
<1>7. \A i \in DOMAIN Tail(s) : ~ Tail(s)[i].released
  <2> SUFFICES ASSUME NEW i \in 1..(Len(s) - 1) PROVE ~ Tail(s)[i].released
    BY <1>3
  <2>1. i + 1 # 1
    OBVIOUS
  <2> QED
    BY <1>3, <2>1 DEF Shape
<1>8. \A i, j \in DOMAIN Tail(s) : Tail(s)[i].e = Tail(s)[j].e => i = j
  <2> SUFFICES ASSUME NEW i \in 1..(Len(s) - 1), NEW j \in 1..(Len(s) - 1),
                      Tail(s)[i].e = Tail(s)[j].e
               PROVE  i = j
    BY <1>3
  <2>1. i + 1 # 1 /\ j + 1 # 1
    OBVIOUS
  <2>2. i + 1 = j + 1
    BY <1>3, <2>1 DEF Shape
  <2> QED
    BY <2>2
<1>9. Len(s) = 1 => Tail(s) = <<>>
  BY <1>3
<1>10. Len(s) # 1 => Tail(s) # <<>>
  <2>1. Len(<<>>) = 0
    OBVIOUS
  <2>2. Tail(s) = <<>> => Len(Tail(s)) = 0
    BY <2>1, Zenon
  <2> HIDE DEF s
  <2> QED
    BY <1>3, <2>2
<1>11. Len(Tail(s)) <= MAX_EVENTS_PER_TURN + 1
  BY <1>3, MindAssumption DEF Shape
<1> HIDE DEF s
<1>12. Shape(t)'
  BY <1>6, <1>7, <1>8, <1>9, <1>10, <1>11 DEF Shape, Alone
<1>13. Offers(t)'
  BY <1>6, <1>7 DEF Offers
<1>14. \A u \in Thread \ {t} : Same(u)
  BY <1>1 DEF Same, TurnsOK
<1> QED
  BY <1>5, <1>6, <1>12, <1>13, <1>14 DEF Moves, s

(* What Take puts in the hands of a turn.                                  *)
LEMMA TakeIs ==
  ASSUME TurnsOK, StoredOK, NEW t \in Thread, Shape(t), Take(t)
  PROVE  /\ hands' \in [Thread -> Seq(InHand)]
         /\ \A u \in Thread \ {t} : hands'[u] = hands[u]
         /\ \A i \in DOMAIN hands[t] : i \in DOMAIN hands'[t]
                                       /\ hands'[t][i] = hands[t][i]
         /\ \A i \in DOMAIN hands'[t] :
              \/ i \in DOMAIN hands[t] /\ hands'[t][i] = hands[t][i]
                 /\ hands[t][i].released
              \/ ~ hands'[t][i].released /\ hands'[t][i].e \in pending
         /\ \A i, j \in DOMAIN hands'[t] :
              ~ hands'[t][i].released /\ ~ hands'[t][j].released
              /\ hands'[t][i].e = hands'[t][j].e => i = j
         /\ Len(hands'[t]) <= MAX_EVENTS_PER_TURN + 1
<1> DEFINE n == MAX_EVENTS_PER_TURN
           listed == Oldest(n)
           more == [i \in DOMAIN listed |->
                      [e |-> listed[i], released |-> FALSE, read |-> FALSE]]
           s == hands[t]
           all == s \o more
<1>1. hands' = [hands EXCEPT ![t] = all] /\ pc[t] = "take"
  BY DEF Take
<1>2. n \in Nat /\ pending \subseteq Event
  BY MindAssumption DEF StoredOK, Event
<1>3. /\ listed \in Seq(Event) /\ Len(listed) <= n
      /\ \A i, j \in DOMAIN listed : listed[i] = listed[j] => i = j
      /\ \A i \in DOMAIN listed : listed[i] \in pending
  BY <1>2, OldestFacts
<1>4. s \in Seq(InHand) /\ \A i \in DOMAIN s : s[i].released
  BY <1>1 DEF TurnsOK, Shape
<1>5. Len(s) <= 1 /\ Len(s) \in Nat /\ DOMAIN s = 1..Len(s)
  <2>1. Len(s) \in Nat /\ DOMAIN s = 1..Len(s)
    BY <1>4
  <2>2. \A i \in DOMAIN s : i = 1
    BY <1>4 DEF Shape
  <2>3. 2 \notin DOMAIN s
    BY <2>2
  <2> QED
    BY <2>1, <2>3
<1> HIDE DEF listed, n
<1>6. /\ more \in Seq(InHand) /\ Len(more) = Len(listed) /\ Len(listed) \in Nat
      /\ \A i \in 1..Len(listed) : ~ more[i].released /\ more[i].e = listed[i]
      /\ DOMAIN listed = 1..Len(listed)
  <2>1. DOMAIN listed = 1..Len(listed) /\ Len(listed) \in Nat
    BY <1>3
  <2>2. \A i \in 1..Len(listed) : listed[i] \in Event
    BY <1>3
  <2>3. \A i \in 1..Len(listed) :
          [e |-> listed[i], released |-> FALSE, read |-> FALSE] \in InHand
    BY <2>2 DEF InHand
  <2>4. more = [i \in 1..Len(listed) |->
                  [e |-> listed[i], released |-> FALSE, read |-> FALSE]]
    BY <2>1
  <2> HIDE DEF more
  <2> QED
    BY <2>1, <2>3, <2>4
<1> HIDE DEF more, s
<1>7. /\ all \in Seq(InHand) /\ Len(all) = Len(s) + Len(more)
      /\ DOMAIN all = 1..Len(all)
      /\ \A i \in 1..Len(s) : all[i] = s[i]
      /\ \A i \in 1..Len(more) : all[i + Len(s)] = more[i]
  <2>1. /\ all \in Seq(InHand) /\ Len(all) = Len(s) + Len(more)
        /\ DOMAIN all = 1..Len(all)
    BY <1>4, <1>6
  <2>2. \A i \in 1..Len(s) : all[i] = s[i]
    BY <1>4, <1>6
  <2>3. ASSUME NEW i \in 1..Len(more) PROVE all[i + Len(s)] = more[i]
    <3>1. Len(s) \in Nat /\ Len(more) \in Nat
      BY <1>5, <1>6
    <3>2. i + Len(s) \in 1..(Len(s) + Len(more)) /\ ~ (i + Len(s) <= Len(s))
          /\ (i + Len(s)) - Len(s) = i
      BY <3>1
    <3> QED
      BY <1>4, <1>6, <3>2
  <2> QED
    BY <2>1, <2>2, <2>3
<1> HIDE DEF all
<1>8. \A i \in 1..Len(all) :
        i \in 1..Len(s) \/ (i - Len(s) \in 1..Len(more) /\ i = (i - Len(s)) + Len(s))
  BY <1>5, <1>6, <1>7
<1>9. ASSUME NEW i \in 1..Len(all), i \notin 1..Len(s)
      PROVE  /\ i - Len(s) \in 1..Len(listed) /\ all[i].e = listed[i - Len(s)]
             /\ ~ all[i].released
  <2>1. i - Len(s) \in 1..Len(more) /\ i = (i - Len(s)) + Len(s)
    BY <1>8, <1>9
  <2>2. all[(i - Len(s)) + Len(s)] = more[i - Len(s)]
    BY <1>7, <2>1
  <2> QED
    BY <1>6, <2>1, <2>2
<1>10. /\ hands' \in [Thread -> Seq(InHand)] /\ hands'[t] = all
       /\ \A u \in Thread \ {t} : hands'[u] = hands[u]
  BY <1>1, <1>7 DEF TurnsOK
<1>11. \A i \in DOMAIN s : i \in DOMAIN all /\ all[i] = s[i]
  BY <1>5, <1>6, <1>7
<1>12. \A i \in DOMAIN all :
         \/ i \in DOMAIN s /\ all[i] = s[i] /\ s[i].released
         \/ ~ all[i].released /\ all[i].e \in pending
  BY <1>3, <1>4, <1>5, <1>6, <1>7, <1>9
<1>13. ASSUME NEW i \in DOMAIN all, NEW j \in DOMAIN all,
              ~ all[i].released, ~ all[j].released, all[i].e = all[j].e
       PROVE  i = j
  <2>1. i \notin 1..Len(s) /\ j \notin 1..Len(s)
    BY <1>4, <1>5, <1>7, <1>13
  <2>2. i - Len(s) = j - Len(s)
    <3>1. i \in 1..Len(all) /\ j \in 1..Len(all)
      BY <1>7
    <3>2. /\ i - Len(s) \in DOMAIN listed /\ all[i].e = listed[i - Len(s)]
          /\ j - Len(s) \in DOMAIN listed /\ all[j].e = listed[j - Len(s)]
      BY <1>6, <1>9, <2>1, <3>1
    <3> QED
      BY <1>3, <1>13, <3>2
  <2> QED
    BY <1>5, <1>7, <2>2
<1>14. Len(all) <= MAX_EVENTS_PER_TURN + 1
  BY <1>2, <1>3, <1>5, <1>6, <1>7 DEF n
<1> QED
  BY <1>10, <1>11, <1>12, <1>13, <1>14 DEF s

-----------------------------------------------------------------------------
(* The steps of a turn.                                                    *)

LEMMA Steady ==
  ASSUME NEW t \in Thread, Shape(t), hands'[t] = hands[t], pc[t] \notin Alone,
         pc'[t] \in {"think", "say", "voice", "text", "note"},
         pc'[t] = "think" => cost'[t] = 0
  PROVE  Shape(t)' /\ Offers(t)'
  BY DEF Shape, Offers, Alone

LEMMA RunMindMoves ==
  ASSUME Safe, NEW t \in Thread, run_mind(t)
  PROVE  Moves(t)
<1>1. /\ pc[t] = "idle" /\ pc' = [pc EXCEPT ![t] = "offer"]
      /\ args' = [args EXCEPT ![t] = world \cap GIVEN]
      /\ UNCHANGED <<hands, base, surface, rule, cost, offered>>
  BY DEF run_mind, history
<1>2. TurnsOK /\ Shape(t) /\ world \cap GIVEN \subseteq Changing
  BY DEF Safe, Threads, StoredOK
<1>3. TurnsOK'
  BY <1>1, <1>2 DEF TurnsOK
<1>4. pc'[t] = "offer" /\ hands'[t] = <<>> /\ cost'[t] = 0
  BY <1>1, <1>2 DEF TurnsOK, Shape, Alone
<1>5. Shape(t)' /\ Offers(t)'
  BY <1>4, MindAssumption DEF Shape, Offers, Alone
<1>6. \A u \in Thread \ {t} : Same(u)
  BY <1>1, <1>2 DEF TurnsOK, Same
<1> QED
  BY <1>3, <1>5, <1>6 DEF Moves

(* The room with what was just read in it.                                 *)
LEMMA NowIs ==
  ASSUME HeldOK, NEW answers,
         NEW now, now = [i \in DOMAIN room |->
                           [room[i] EXCEPT !.read = @ \/ room[i].e \in answers]]
  PROVE  /\ now \in Seq(Item) /\ Len(now) = Len(room)
         /\ \A i \in DOMAIN room : now[i].e = room[i].e
<1>1. room \in Seq(Item) /\ DOMAIN room = 1..Len(room) /\ Len(room) \in Nat
  BY DEF HeldOK
<1>2. ASSUME NEW i \in DOMAIN room
      PROVE  now[i] \in Item /\ now[i].e = room[i].e
  <2>1. room[i] \in Item
    BY <1>1
  <2>2. now[i] = [room[i] EXCEPT !.read = room[i].read \/ room[i].e \in answers]
    OBVIOUS
  <2>3. (room[i].read \/ room[i].e \in answers) \in BOOLEAN
    BY Zenon
  <2>4. ASSUME NEW b \in BOOLEAN
        PROVE  /\ [room[i] EXCEPT !.read = b] \in Item
               /\ [room[i] EXCEPT !.read = b].e = room[i].e
    BY <2>1 DEF Item
  <2> QED
    BY <2>2, <2>3, <2>4, Zenon
<1>3. now = [i \in 1..Len(room) |-> now[i]] /\ DOMAIN now = 1..Len(room)
  BY <1>1
<1>4. now \in [1..Len(room) -> Item]
  BY <1>1, <1>2, <1>3
<1> QED
  BY <1>1, <1>2, <1>3, <1>4

LEMMA WaitedForMoves ==
  ASSUME Safe, NEW t \in Thread, _waited_for(t)
  PROVE  /\ Moves(t) /\ HeldOK' /\ pc'[t] = "take"
         /\ \A u \in Thread : u # t => hands'[u] = hands[u] /\ pc'[u] = pc[u]
         /\ \/ hands'[t] = <<>>
            \/ /\ Len(hands'[t]) = 1 /\ hands'[t][1].released
               /\ Has(room, hands'[t][1].e) /\ ~ Has(room', hands'[t][1].e)
         /\ \A e : Has(room', e) => Has(room, e)
         /\ \A i \in DOMAIN room :
              \/ Has(room', room[i].e)
              \/ room[i].e \in old
              \/ \E j \in DOMAIN hands'[t] :
                   hands'[t][j].e = room[i].e /\ hands'[t][j].released
<1>1. PICK answers, resting : OfferHeld(t, answers, resting)
  BY DEF _waited_for
<1> DEFINE now == AfterReading(answers)
           S == {h \in Range(now) : MaySpeak(t, h, resting)}
<1>2. release(t, now, S)
  BY <1>1, Zenon DEF OfferHeld
<1>3. /\ pc[t] = "offer" /\ pc' = [pc EXCEPT ![t] = "take"]
      /\ offered' = [offered EXCEPT ![t] =
                       IF hands'[t] = <<>> THEN {} ELSE Around(t)]
      /\ UNCHANGED turn
  BY Zenon DEF _waited_for
<1>4. TurnsOK /\ Shape(t) /\ HeldOK /\ StoredOK
  BY DEF Safe, Threads
<1>5. /\ now \in Seq(Item) /\ Len(now) = Len(room)
      /\ \A i \in DOMAIN room : now[i].e = room[i].e
  BY <1>4, NowIs DEF AfterReading
<1>6. \A h \in S : Spoken(evaluate(Events[h.e], Around(t), h.read, "speak").surface)
  BY DEF WorldOfOffer, MaySpeak
<1> HIDE DEF now, S
<1>7. hands \in [Thread -> Seq(InHand)]
  BY <1>4 DEF TurnsOK
<1>8. /\ HeldOK'
      /\ hands' \in [Thread -> Seq(InHand)]
      /\ \A u \in Thread : u # t => hands'[u] = hands[u]
      /\ \/ hands'[t] = <<>>
         \/ /\ Len(hands'[t]) = 1 /\ hands'[t][1].released
            /\ \E i \in DOMAIN now :
                 now[i] \in S /\ hands'[t][1].e = now[i].e
                 /\ hands'[t][1].read = now[i].read
            /\ Has(room, hands'[t][1].e) /\ ~ Has(room', hands'[t][1].e)
      /\ \A e : Has(room', e) => Has(room, e)
      /\ \A i \in DOMAIN room :
           \/ Has(room', room[i].e)
           \/ room[i].e \in old
           \/ \E j \in DOMAIN hands'[t] :
                hands'[t][j].e = room[i].e /\ hands'[t][j].released
  BY <1>2, <1>4, <1>5, <1>7, ReleaseFacts
<1>9. Around(t) \subseteq HINDRANCES
  <2>1. Changing \subseteq HINDRANCES /\ "daily-budget" \in HINDRANCES
    BY MindAssumption, RulesAre DEF HINDRANCES
  <2>2. args[t] \subseteq Changing /\ world \subseteq Changing
    BY <1>4 DEF TurnsOK, StoredOK
  <2> QED
    BY <2>1, <2>2 DEF Around, Hindering
<1>10. /\ pc'[t] = "take" /\ cost'[t] = cost[t] /\ pc[t] = "offer"
       /\ offered'[t] = IF hands'[t] = <<>> THEN {} ELSE Around(t)
       /\ \A u \in Thread : u # t => pc'[u] = pc[u] /\ offered'[u] = offered[u]
  BY <1>3, <1>4 DEF TurnsOK, turn
<1>11. TurnsOK'
  <2>1. offered' \in [Thread -> SUBSET HINDRANCES]
    BY <1>3, <1>4, <1>9 DEF TurnsOK
  <2>2. pc' \in [Thread -> {"idle", "offer", "take", "judge", "think", "say",
                            "voice", "text", "note", "asked"}]
    BY <1>3, <1>4 DEF TurnsOK
  <2> QED
    BY <1>3, <1>4, <1>8, <2>1, <2>2 DEF TurnsOK, turn
<1>12. Shape(t)' /\ Offers(t)'
  <2>1. cost'[t] = 0
    BY <1>4, <1>10 DEF Shape, Alone
  <2>2. CASE hands'[t] = <<>>
    BY <1>10, <2>1, <2>2, MindAssumption DEF Shape, Offers, Alone
  <2>3. CASE hands'[t] # <<>>
    <3>1. PICK i \in DOMAIN now :
            now[i] \in S /\ hands'[t][1].e = now[i].e /\ hands'[t][1].read = now[i].read
      BY <1>8, <2>3
    <3>2. /\ hands'[t] \in Seq(InHand) /\ Len(hands'[t]) = 1
          /\ hands'[t][1].released
      BY <1>8, <2>3
    <3>3. DOMAIN hands'[t] = {1}
      BY <3>2
    <3>4. Spoken(evaluate(Events[hands'[t][1].e], offered'[t],
                          hands'[t][1].read, "speak").surface)
      BY <1>6, <1>10, <2>3, <3>1
    <3>5. Offers(t)'
      BY <3>3, <3>4 DEF Offers
    <3>6. Len(hands'[t]) <= MAX_EVENTS_PER_TURN + 1
      BY <3>2, MindAssumption
    <3> QED
      BY <1>10, <2>1, <2>3, <3>2, <3>3, <3>5, <3>6 DEF Shape, Alone
  <2> QED
    BY <2>2, <2>3
<1>13. \A u \in Thread \ {t} : Same(u)
  BY <1>3, <1>8, <1>10 DEF Same, turn
<1> QED
  BY <1>8, <1>10, <1>11, <1>12, <1>13 DEF Moves

LEMMA TakeMoves ==
  ASSUME Safe, NEW t \in Thread, Take(t)
  PROVE  /\ Moves(t)
         /\ \/ pc'[t] = "idle" /\ hands'[t] = <<>>
            \/ /\ pc'[t] = "judge" /\ base'[t].tokens = tokens
<1> DEFINE all == hands'[t]
<1>1. TurnsOK /\ StoredOK /\ Shape(t) /\ Offers(t)
  BY DEF Safe, Threads
<1>2. /\ hands' \in [Thread -> Seq(InHand)]
      /\ \A u \in Thread \ {t} : hands'[u] = hands[u]
      /\ \A i \in DOMAIN hands'[t] :
           \/ i \in DOMAIN hands[t] /\ hands'[t][i] = hands[t][i]
              /\ hands[t][i].released
           \/ ~ hands'[t][i].released /\ hands'[t][i].e \in pending
      /\ \A i, j \in DOMAIN hands'[t] :
           ~ hands'[t][i].released /\ ~ hands'[t][j].released
           /\ hands'[t][i].e = hands'[t][j].e => i = j
      /\ Len(hands'[t]) <= MAX_EVENTS_PER_TURN + 1
  BY <1>1, TakeIs
<1>3. pc[t] = "take" /\ UNCHANGED <<surface, rule, cost>>
  BY DEF Take
<1>4. cost'[t] = 0
  BY <1>1, <1>3 DEF Shape, Alone
<1>5. \/ /\ all = <<>> /\ pc' = [pc EXCEPT ![t] = "idle"]
         /\ args' = [args EXCEPT ![t] = {}]
         /\ offered' = [offered EXCEPT ![t] = {}] /\ base' = base
      \/ /\ all # <<>> /\ pc' = [pc EXCEPT ![t] = "judge"]
         /\ base' = [base EXCEPT ![t] =
              [on |-> args[t] \cup (world \cap BUSY), tokens |-> tokens]]
         /\ UNCHANGED <<args, offered>>
  <2> DEFINE put == hands[t] \o [i \in DOMAIN Oldest(MAX_EVENTS_PER_TURN) |->
                      [e |-> Oldest(MAX_EVENTS_PER_TURN)[i],
                       released |-> FALSE, read |-> FALSE]]
  <2>1. hands' = [hands EXCEPT ![t] = put]
    BY DEF Take
  <2>2. hands'[t] = put
    BY <1>1, <2>1 DEF TurnsOK
  <2>3. IF put = <<>>
        THEN /\ pc' = [pc EXCEPT ![t] = "idle"]
             /\ args' = [args EXCEPT ![t] = {}]
             /\ offered' = [offered EXCEPT ![t] = {}]
             /\ UNCHANGED base
        ELSE /\ pc' = [pc EXCEPT ![t] = "judge"]
             /\ base' = [base EXCEPT ![t] =
                   [on |-> args[t] \cup (world \cap BUSY), tokens |-> tokens]]
             /\ UNCHANGED <<args, offered>>
    BY Zenon DEF Take
  <2> HIDE DEF put
  <2> QED
    BY <2>2, <2>3
<1>6. \A i \in DOMAIN all : all[i].released => i = 1
  BY <1>1, <1>2 DEF Shape
<1>7. CASE /\ all = <<>> /\ pc' = [pc EXCEPT ![t] = "idle"]
           /\ args' = [args EXCEPT ![t] = {}]
           /\ offered' = [offered EXCEPT ![t] = {}] /\ base' = base
  <2>1. TurnsOK'
    BY <1>1, <1>2, <1>3, <1>7 DEF TurnsOK
  <2>2. pc'[t] = "idle" /\ \A u \in Thread \ {t} : Same(u)
    BY <1>1, <1>2, <1>3, <1>7 DEF TurnsOK, Same
  <2>3. Shape(t)' /\ Offers(t)'
    BY <1>4, <1>7, <2>2, MindAssumption DEF Shape, Offers, Alone
  <2> QED
    BY <1>7, <2>1, <2>2, <2>3 DEF Moves
<1>8. CASE /\ all # <<>> /\ pc' = [pc EXCEPT ![t] = "judge"]
           /\ base' = [base EXCEPT ![t] =
                [on |-> args[t] \cup (world \cap BUSY), tokens |-> tokens]]
           /\ UNCHANGED <<args, offered>>
  <2>1. [on |-> args[t] \cup (world \cap BUSY), tokens |-> tokens]
          \in [on : SUBSET Changing, tokens : Nat]
    BY <1>1 DEF TurnsOK, StoredOK
  <2>2. base' \in [Thread -> [on : SUBSET Changing, tokens : Nat]]
        /\ base'[t].tokens = tokens
    BY <1>1, <1>8, <2>1 DEF TurnsOK
  <2>3. TurnsOK'
    BY <1>1, <1>2, <1>3, <1>8, <2>2 DEF TurnsOK
  <2>4. pc'[t] = "judge" /\ \A u \in Thread \ {t} : Same(u)
    BY <1>1, <1>2, <1>3, <1>8 DEF TurnsOK, Same
  <2>5. Shape(t)'
    BY <1>2, <1>4, <1>6, <1>8, <2>4 DEF Shape, Alone
  <2>6. Offers(t)'
    <3>1. ASSUME NEW i \in DOMAIN all, all[i].released
          PROVE  i \in DOMAIN hands[t] /\ all[i] = hands[t][i]
                 /\ hands[t][i].released
      BY <1>2, <3>1
    <3> QED
      BY <1>1, <1>3, <1>8, <3>1 DEF Offers
  <2> QED
    BY <2>2, <2>3, <2>4, <2>5, <2>6 DEF Moves
<1> QED
  BY <1>5, <1>7, <1>8

LEMMA PassOverMoves ==
  ASSUME Safe, NEW t \in Thread, PassOver(t)
  PROVE  /\ Moves(t) /\ hands'[t] = Tail(hands[t]) /\ pc'[t] \in {"idle", "judge"}
         /\ pc[t] \in {"judge", "say"} /\ Head(hands[t]).e \in off
<1>1. TurnsOK /\ Shape(t)
  BY DEF Safe, Threads
<1>2. pc[t] \in {"judge", "say"} /\ Head(hands[t]).e \in off /\ NextEvent(t, 0)
  BY DEF PassOver
<1>3. pc[t] \notin Alone /\ 0 \in Nat
  BY <1>2 DEF Alone
<1> QED
  BY <1>1, <1>2, <1>3, NextEventMoves

LEMMA NoteMoves ==
  ASSUME Safe, NEW t \in Thread, Note(t)
  PROVE  /\ Moves(t) /\ hands'[t] = Tail(hands[t]) /\ pc'[t] \in {"idle", "judge"}
         /\ pc[t] = "note"
<1>1. TurnsOK /\ Shape(t)
  BY DEF Safe, Threads
<1>2. pc[t] = "note" /\ NextEvent(t, cost[t])
  BY DEF Note
<1>3. pc[t] \notin Alone /\ cost[t] \in Nat
  BY <1>1, <1>2 DEF Alone, TurnsOK
<1> QED
  BY <1>1, <1>2, <1>3, NextEventMoves

LEMMA JudgeMoves ==
  ASSUME Safe, NEW t \in Thread, Judge(t)
  PROVE  Moves(t) /\ pc[t] = "judge" /\ pc'[t] = "think" /\ hands' = hands
<1> DEFINE h == Head(hands[t])
           v == Verdict(t)
<1>1. TurnsOK /\ Shape(t)
  BY DEF Safe, Threads
<1>2. /\ pc[t] = "judge" /\ pc' = [pc EXCEPT ![t] = "think"]
      /\ surface' = [surface EXCEPT ![t] = v.surface]
      /\ rule' = [rule EXCEPT ![t] = v.rule]
      /\ UNCHANGED <<hands, args, base, cost, offered>>
  BY DEF Judge, history
<1>3. pc[t] \notin Alone
  BY <1>2 DEF Alone
<1>4. h \in InHand
  BY <1>1, <1>3, HandIs
<1>5. /\ h.e \in Event /\ h.read \in BOOLEAN /\ Events[h.e] \in Happening
      /\ Events[h.e].wanted \in SURFACES
  BY <1>4, EventsAre DEF InHand, Happening
<1>6. v.surface \in SURFACES /\ v.rule \in {RULES[i] : i \in DOMAIN RULES}
  BY <1>5, EvaluateIs DEF Verdict
<1> HIDE DEF v
<1>7. TurnsOK'
  <2>1. /\ surface' \in [Thread -> SURFACES]
        /\ rule' \in [Thread -> {RULES[i] : i \in DOMAIN RULES}]
    BY <1>1, <1>2, <1>6 DEF TurnsOK
  <2>2. pc' \in [Thread -> {"idle", "offer", "take", "judge", "think", "say",
                            "voice", "text", "note", "asked"}]
    BY <1>1, <1>2 DEF TurnsOK
  <2> QED
    BY <1>1, <1>2, <2>1, <2>2 DEF TurnsOK
<1>8. pc'[t] = "think" /\ \A u \in Thread \ {t} : Same(u)
  BY <1>1, <1>2 DEF TurnsOK, Same
<1>9. cost'[t] = 0
  BY <1>1, <1>2 DEF Shape
<1>10. Shape(t)' /\ Offers(t)'
  BY <1>1, <1>2, <1>3, <1>8, <1>9, Steady
<1> QED
  BY <1>2, <1>7, <1>8, <1>10 DEF Moves

LEMMA ThinkMoves ==
  ASSUME Safe, NEW t \in Thread, Think(t)
  PROVE  /\ Moves(t) /\ pc[t] = "think" /\ pc'[t] = "say" /\ hands' = hands
         /\ Spoken(surface'[t]) => Spoken(surface[t])
<1> DEFINE s == surface[t]
<1>1. TurnsOK /\ Shape(t)
  BY DEF Safe, Threads
<1>2. /\ pc[t] = "think" /\ pc' = [pc EXCEPT ![t] = "say"]
      /\ UNCHANGED <<hands, args, base, rule, offered>>
  BY DEF Think
<1>3. s \in SURFACES /\ "activity" \in SURFACES
  BY <1>1, Quiet DEF TurnsOK
<1>4. \/ surface' = [surface EXCEPT ![t] = s] /\ cost' = cost
      \/ surface' = [surface EXCEPT ![t] = Cap(s, "activity")] /\ cost' = cost
      \/ /\ \E p \in SURFACES : \/ surface' = [surface EXCEPT ![t] = s]
                                \/ surface' = [surface EXCEPT ![t] = Cap(p, s)]
         /\ cost' = [cost EXCEPT ![t] = 1]
      \/ surface' = surface /\ cost' = cost
  BY DEF Think
<1>5. \E q \in SURFACES : /\ surface' = [surface EXCEPT ![t] = q]
                          /\ Spoken(q) => Spoken(s)
  <2>1. CASE surface' = surface
    <3>1. surface' = [surface EXCEPT ![t] = s]
      BY <1>1, <2>1 DEF TurnsOK
    <3> QED
      BY <1>3, <3>1
  <2> QED
    BY <1>3, <1>4, <2>1, CapIs
<1>6. /\ surface' \in [Thread -> SURFACES] /\ (Spoken(surface'[t]) => Spoken(s))
      /\ \A u \in Thread \ {t} : surface'[u] = surface[u]
  BY <1>1, <1>5 DEF TurnsOK
<1>7. cost' \in [Thread -> 0..1] /\ \A u \in Thread \ {t} : cost'[u] = cost[u]
  <2>1. cost' = cost \/ cost' = [cost EXCEPT ![t] = 1]
    BY <1>4
  <2> QED
    BY <1>1, <2>1 DEF TurnsOK
<1>8. /\ pc' \in [Thread -> {"idle", "offer", "take", "judge", "think", "say",
                             "voice", "text", "note", "asked"}]
      /\ pc'[t] = "say" /\ \A u \in Thread \ {t} : pc'[u] = pc[u]
  BY <1>1, <1>2 DEF TurnsOK
<1>9. TurnsOK' /\ \A u \in Thread \ {t} : Same(u)
  BY <1>1, <1>2, <1>6, <1>7, <1>8 DEF TurnsOK, Same
<1>10. Shape(t)' /\ Offers(t)'
  BY <1>1, <1>2, <1>8, Steady DEF Alone
<1> QED
  BY <1>2, <1>6, <1>8, <1>9, <1>10 DEF Moves

LEMMA StandAsideMoves ==
  ASSUME Safe, NEW t \in Thread, StandAside(t)
  PROVE  Moves(t) /\ pc'[t] = "note" /\ hands' = hands
<1>1. TurnsOK /\ Shape(t)
  BY DEF Safe, Threads
<1>2. /\ pc[t] = "say" /\ pc' = [pc EXCEPT ![t] = "note"]
      /\ surface' = [surface EXCEPT ![t] = "island"]
      /\ UNCHANGED <<hands, args, base, rule, cost, offered>>
  BY DEF StandAside, history
<1>3. TurnsOK' /\ pc'[t] = "note" /\ \A u \in Thread \ {t} : Same(u)
  BY <1>1, <1>2, Quiet DEF TurnsOK, Same
<1>4. Shape(t)' /\ Offers(t)'
  BY <1>1, <1>2, <1>3, Steady DEF Alone
<1> QED
  BY <1>2, <1>3, <1>4 DEF Moves

LEMMA SayMoves ==
  ASSUME Safe, NEW t \in Thread, Say(t)
  PROVE  /\ Moves(t) /\ hands' = hands
         /\ pc'[t] \in {"voice", "text", "note"}
         /\ pc'[t] = "note" => ~ Textable(rule[t])
         /\ air' \in Thread \cup {None}
<1>1. TurnsOK /\ Shape(t) /\ StoredOK
  BY DEF Safe, Threads
<1>2. /\ pc[t] = "say" /\ UNCHANGED <<hands, turn, offered>>
      /\ \E p \in {"voice", "text", "note"} :
           pc' = [pc EXCEPT ![t] = p] /\ (p = "note" => ~ Textable(rule[t]))
      /\ air' = t \/ air' = air
  BY DEF Say, history
<1>3. TurnsOK' /\ pc'[t] \in {"voice", "text", "note"}
      /\ (pc'[t] = "note" => ~ Textable(rule[t]))
      /\ \A u \in Thread \ {t} : Same(u)
  BY <1>1, <1>2 DEF TurnsOK, Same, turn
<1>4. Shape(t)' /\ Offers(t)'
  BY <1>1, <1>2, <1>3, Steady DEF Alone
<1> QED
  BY <1>1, <1>2, <1>3, <1>4 DEF Moves, StoredOK

LEMMA VoiceMoves ==
  ASSUME Safe, NEW t \in Thread, Voice(t)
  PROVE  /\ Moves(t) /\ pc[t] = "voice" /\ pc'[t] = "note" /\ hands' = hands
         /\ \/ told' = told
            \/ told' = [told EXCEPT ![Head(hands[t]).e] = told[Head(hands[t]).e] + 1]
<1>1. TurnsOK /\ Shape(t)
  BY DEF Safe, Threads
<1>2. /\ pc[t] = "voice" /\ pc' = [pc EXCEPT ![t] = "note"]
      /\ UNCHANGED <<hands, args, base, rule, cost, offered>>
  BY DEF Voice
<1>3. \/ /\ surface' = surface
         /\ told' = [told EXCEPT ![Head(hands[t]).e] = told[Head(hands[t]).e] + 1]
      \/ surface' = [surface EXCEPT ![t] = "island"] /\ told' = told
  BY DEF Voice
<1>4. TurnsOK' /\ pc'[t] = "note" /\ \A u \in Thread \ {t} : Same(u)
  BY <1>1, <1>2, <1>3, Quiet DEF TurnsOK, Same
<1>5. Shape(t)' /\ Offers(t)'
  BY <1>1, <1>2, <1>4, Steady DEF Alone
<1> QED
  BY <1>2, <1>3, <1>4, <1>5 DEF Moves

LEMMA TextMoves ==
  ASSUME Safe, NEW t \in Thread, Text(t)
  PROVE  /\ Moves(t) /\ pc[t] = "text" /\ pc'[t] = "note" /\ hands' = hands
         /\ \/ /\ told' = [told EXCEPT ![Head(hands[t]).e] =
                             told[Head(hands[t]).e] + 1]
               /\ UNCHANGED held
            \/ /\ hold(Head(hands[t]), rule[t]) \/ UNCHANGED held
               /\ UNCHANGED told
<1>1. TurnsOK /\ Shape(t)
  BY DEF Safe, Threads
<1>2. /\ pc[t] = "text" /\ pc' = [pc EXCEPT ![t] = "note"]
      /\ UNCHANGED <<hands, turn, offered>>
  BY DEF Text
<1>3. \/ /\ told' = [told EXCEPT ![Head(hands[t]).e] = told[Head(hands[t]).e] + 1]
         /\ UNCHANGED held
      \/ /\ hold(Head(hands[t]), rule[t]) \/ UNCHANGED held
         /\ UNCHANGED told
  BY DEF Text
<1>4. TurnsOK' /\ pc'[t] = "note" /\ \A u \in Thread \ {t} : Same(u)
  BY <1>1, <1>2 DEF TurnsOK, Same, turn
<1>5. Shape(t)' /\ Offers(t)'
  BY <1>1, <1>2, <1>4, Steady DEF Alone
<1> QED
  BY <1>2, <1>3, <1>4, <1>5 DEF Moves

LEMMA SayWaitingMoves ==
  ASSUME Safe, NEW t \in Thread, say_waiting(t)
  PROVE  /\ Moves(t) /\ HeldOK' /\ t = Loop /\ pc'[t] \in {"idle", "asked"}
         /\ \A u \in Thread : u # t => hands'[u] = hands[u] /\ pc'[u] = pc[u]
         /\ \/ hands'[t] = <<>>
            \/ /\ Len(hands'[t]) = 1 /\ hands'[t][1].released
               /\ Has(room, hands'[t][1].e) /\ ~ Has(room', hands'[t][1].e)
         /\ \A e : Has(room', e) => Has(room, e)
         /\ \A i \in DOMAIN room :
              \/ Has(room', room[i].e)
              \/ room[i].e \in old
              \/ \E j \in DOMAIN hands'[t] :
                   hands'[t][j].e = room[i].e /\ hands'[t][j].released
         /\ air' \in Thread \cup {None}
<1>1. TurnsOK /\ Shape(t) /\ HeldOK /\ StoredOK
  BY DEF Safe, Threads
<1>2. PICK wanted : release(t, room, {h \in Range(room) : h.e \in wanted \ off})
  BY DEF say_waiting
<1> DEFINE S == {h \in Range(room) : h.e \in wanted \ off}
<1>3. /\ t = Loop /\ pc[t] = "idle" /\ UNCHANGED <<turn, offered>>
      /\ \/ hands'[t] = <<>> /\ pc' = pc /\ air' = air
         \/ hands'[t] # <<>> /\ pc' = [pc EXCEPT ![t] = "asked"] /\ air' = t
  BY DEF say_waiting, history
<1>4. /\ hands \in [Thread -> Seq(InHand)] /\ room \in Seq(Item)
      /\ \A i \in DOMAIN room : room[i].e = room[i].e
  BY <1>1 DEF TurnsOK, HeldOK
<1>5. release(t, room, S)
  BY <1>2
<1> HIDE DEF S
<1>6. /\ HeldOK'
      /\ hands' \in [Thread -> Seq(InHand)]
      /\ \A u \in Thread : u # t => hands'[u] = hands[u]
      /\ \/ hands'[t] = <<>>
         \/ /\ Len(hands'[t]) = 1 /\ hands'[t][1].released
            /\ Has(room, hands'[t][1].e) /\ ~ Has(room', hands'[t][1].e)
      /\ \A e : Has(room', e) => Has(room, e)
      /\ \A i \in DOMAIN room :
           \/ Has(room', room[i].e)
           \/ room[i].e \in old
           \/ \E j \in DOMAIN hands'[t] :
                hands'[t][j].e = room[i].e /\ hands'[t][j].released
  BY <1>1, <1>4, <1>5, ReleaseFacts
<1>7. /\ pc'[t] = IF hands'[t] = <<>> THEN "idle" ELSE "asked"
      /\ \A u \in Thread : u # t => pc'[u] = pc[u]
  BY <1>1, <1>3 DEF TurnsOK
<1>8. TurnsOK'
  <2>1. pc' \in [Thread -> {"idle", "offer", "take", "judge", "think", "say",
                            "voice", "text", "note", "asked"}]
    BY <1>1, <1>3 DEF TurnsOK
  <2> QED
    BY <1>1, <1>3, <1>6, <2>1 DEF TurnsOK, turn
<1>9. Shape(t)' /\ Offers(t)'
  <2>1. cost'[t] = 0
    BY <1>1, <1>3 DEF Shape, Alone, turn
  <2>2. CASE hands'[t] = <<>>
    BY <1>7, <2>1, <2>2, MindAssumption DEF Shape, Offers, Alone
  <2>3. CASE hands'[t] # <<>>
    <3>1. hands'[t] \in Seq(InHand) /\ Len(hands'[t]) = 1 /\ hands'[t][1].released
      BY <1>6, <2>3
    <3>2. DOMAIN hands'[t] = {1} /\ Len(hands'[t]) <= MAX_EVENTS_PER_TURN + 1
      BY <3>1, MindAssumption
    <3> QED
      BY <1>3, <1>7, <2>1, <2>3, <3>1, <3>2 DEF Shape, Offers, Alone
  <2> QED
    BY <2>2, <2>3
<1>10. \A u \in Thread \ {t} : Same(u)
  BY <1>3, <1>6, <1>7 DEF Same, turn
<1> QED
  BY <1>1, <1>3, <1>6, <1>7, <1>8, <1>9, <1>10 DEF Moves, StoredOK

LEMMA AskedMoves ==
  ASSUME Safe, NEW t \in Thread, Asked(t)
  PROVE  /\ Moves(t) /\ t = Loop /\ pc[t] = "asked" /\ pc'[t] = "idle"
         /\ hands'[t] = <<>>
         /\ \/ told' = told
            \/ told' = [told EXCEPT ![Head(hands[t]).e] = told[Head(hands[t]).e] + 1]
<1>1. TurnsOK /\ Shape(t)
  BY DEF Safe, Threads
<1>2. /\ pc[t] = "asked" /\ pc' = [pc EXCEPT ![t] = "idle"]
      /\ hands' = [hands EXCEPT ![t] = <<>>]
      /\ UNCHANGED <<turn, offered>>
  BY DEF Asked
<1>3. \/ told' = told
      \/ told' = [told EXCEPT ![Head(hands[t]).e] = told[Head(hands[t]).e] + 1]
  BY DEF Asked
<1>4. <<>> \in Seq(InHand)
  OBVIOUS
<1>5. /\ TurnsOK' /\ pc'[t] = "idle" /\ hands'[t] = <<>>
      /\ \A u \in Thread \ {t} : Same(u)
  BY <1>1, <1>2, <1>4 DEF TurnsOK, Same, turn
<1>6. cost'[t] = 0 /\ t = Loop
  <2>1. cost' = cost
    BY <1>2 DEF turn
  <2> QED
    BY <1>1, <1>2, <2>1 DEF Shape
<1>7. Shape(t)' /\ Offers(t)'
  BY <1>5, <1>6, MindAssumption DEF Shape, Offers, Alone
<1> QED
  BY <1>2, <1>3, <1>5, <1>6, <1>7 DEF Moves

-----------------------------------------------------------------------------
(* Every step keeps what has been stated.                                  *)

LEMMA HeadOf ==
  ASSUME Safe, NEW t \in Thread, pc[t] \notin Alone
  PROVE  Head(hands[t]) \in InHand /\ Head(hands[t]).e \in Event
<1>1. TurnsOK /\ Shape(t)
  BY DEF Safe, Threads
<1>2. Head(hands[t]) \in InHand
  BY <1>1, HandIs
<1> QED
  BY <1>2 DEF InHand

LEMMA Starts ==
  ASSUME Init
  PROVE  Safe
<1>1. StoredOK
  BY MindAssumption DEF Init, StoredOK
<1>2. HeldOK
  BY MindAssumption DEF Init, HeldOK, Distinct
<1>3. TurnsOK
  <2>1. Nowhere \in [on : SUBSET Changing, tokens : Nat]
    BY DEF Nowhere
  <2>2. "silent" \in SURFACES /\ "allowed" \in {RULES[i] : i \in DOMAIN RULES}
    BY Quiet, RulesAre
  <2>3. <<>> \in Seq(InHand)
    OBVIOUS
  <2> QED
    BY <2>1, <2>2, <2>3 DEF Init, TurnsOK
<1>4. Threads
  BY MindAssumption DEF Init, Threads, Shape, Offers, Alone
<1> QED
  BY <1>1, <1>2, <1>3, <1>4 DEF Safe

LEMMA TurnStored ==
  ASSUME Safe, NEW t \in Thread, Turn(t)
  PROVE  StoredOK'
<1>1. StoredOK /\ TurnsOK
  BY DEF Safe
<1>2. CASE run_mind(t) \/ _waited_for(t) \/ Take(t) \/ PassOver(t) \/ Judge(t)
           \/ StandAside(t)
  BY <1>1, <1>2 DEF StoredOK, run_mind, _waited_for, Take, PassOver, Judge,
     StandAside, journal, outside, history
<1>3. CASE Think(t)
  BY <1>1, <1>3 DEF StoredOK, Think, journal, outside, history
<1>4. CASE Say(t)
  <2>1. air' \in Thread \cup {None}
    BY <1>4, SayMoves
  <2> QED
    BY <1>1, <1>4, <2>1 DEF StoredOK, Say, journal, outside, history
<1>5. CASE Voice(t)
  <2>1. Head(hands[t]).e \in Event
    BY <1>5, HeadOf DEF Voice, Alone
  <2>2. told' \in [Event -> Nat]
    BY <1>1, <1>5, <2>1, VoiceMoves DEF StoredOK
  <2> QED
    BY <1>1, <1>5, <2>2 DEF StoredOK, Voice, LeaveAir, journal, outside
<1>6. CASE Text(t)
  <2>1. Head(hands[t]).e \in Event
    BY <1>6, HeadOf DEF Text, Alone
  <2>2. told' \in [Event -> Nat]
    BY <1>1, <1>6, <2>1, TextMoves DEF StoredOK
  <2> QED
    BY <1>1, <1>6, <2>2 DEF StoredOK, Text, journal, outside
<1>7. CASE Note(t)
  <2>1. cost[t] \in Nat
    BY <1>1 DEF TurnsOK
  <2> QED
    <3>1. /\ tokens' = tokens + cost[t] /\ pending' \subseteq pending
          /\ UNCHANGED <<arrived, world, off, air, told, paid, cuts>>
      BY <1>7 DEF Note, outside
    <3> QED
      BY <1>1, <2>1, <3>1 DEF StoredOK
<1> QED
  BY <1>2, <1>3, <1>4, <1>5, <1>6, <1>7 DEF Turn

LEMMA StoredKeeps ==
  ASSUME Safe, [Next]_vars
  PROVE  StoredOK'
<1>1. StoredOK
  BY DEF Safe
<1>2. ASSUME NEW t \in Thread, say_waiting(t) PROVE StoredOK'
  <2>1. air' \in Thread \cup {None}
    BY <1>2, SayWaitingMoves
  <2> QED
    BY <1>1, <1>2, <2>1 DEF StoredOK, say_waiting, journal, outside, history
<1>3. ASSUME NEW t \in Thread, Asked(t) PROVE StoredOK'
  <2>1. Head(hands[t]).e \in Event
    BY <1>3, HeadOf DEF Asked, Alone
  <2>2. told' \in [Event -> Nat]
    BY <1>1, <1>3, <2>1, AskedMoves DEF StoredOK
  <2> QED
    BY <1>1, <1>3, <2>2 DEF StoredOK, Asked, LeaveAir, journal, outside
<1>4. CASE append
  <2>1. Len(Events) \in Nat
    BY MindAssumption
  <2> QED
    BY <1>1, <1>4, <2>1 DEF StoredOK, append, outside, history
<1>5. CASE WorldMoves
  BY <1>1, <1>5 DEF StoredOK, WorldMoves, journal, history
<1>6. CASE SwitchOff \/ SwitchOn
  <2>1. CASE SwitchOff
    <3>1. /\ cuts < MaxCuts /\ cuts' = cuts + 1 /\ off' \subseteq Event
          /\ UNCHANGED <<arrived, pending, tokens, world, air, told, paid>>
      BY <1>1, <2>1 DEF StoredOK, SwitchOff, journal
    <3>2. cuts' \in 0..MaxCuts
      BY <1>1, <3>1, MindAssumption DEF StoredOK
    <3> QED
      BY <1>1, <3>1, <3>2 DEF StoredOK
  <2>2. CASE SwitchOn
    <3>1. /\ off' \subseteq Event
          /\ UNCHANGED <<arrived, pending, tokens, world, air, told, paid, cuts>>
      BY <1>1, <2>2 DEF StoredOK, SwitchOn, journal, history
    <3> QED
      BY <1>1, <3>1 DEF StoredOK
  <2> QED
    BY <1>6, <2>1, <2>2
<1>7. CASE Ages \/ NewDay
  <2>1. CASE Ages
    BY <1>1, <2>1 DEF StoredOK, Ages, journal, outside, history
  <2>2. CASE NewDay
    BY <1>1, <2>2 DEF StoredOK, NewDay, outside
  <2> QED
    BY <1>7, <2>1, <2>2
<1>8. CASE Crash
  BY <1>1, <1>8, MindAssumption DEF StoredOK, Crash, journal, outside
<1>9. CASE UNCHANGED vars
  BY <1>1, <1>9 DEF StoredOK, vars, journal, outside, history
<1> QED
  BY <1>2, <1>3, <1>4, <1>5, <1>6, <1>7, <1>8, <1>9, TurnStored DEF Next

(* What a step may do to an item that waits.                               *)
Remains ==
  \A i \in DOMAIN room :
    \/ \E j \in DOMAIN room' : room'[j].e = room[i].e
    \/ room[i].e \in old
    \/ \E t \in Thread : \E j \in DOMAIN hands'[t] :
         hands'[t][j].e = room[i].e /\ hands'[t][j].released
    \/ Len(room') = MOST_HELD

LEMMA TurnHeld ==
  ASSUME Safe, NEW t \in Thread, Turn(t)
  PROVE  HeldOK' /\ Remains
<1>1. HeldOK
  BY DEF Safe
<1>2. ASSUME UNCHANGED held PROVE HeldOK' /\ Remains
  BY <1>1, <1>2 DEF HeldOK, Distinct, Remains, held
<1>3. ASSUME NEW why, hold(Head(hands[t]), why), pc[t] \notin Alone
      PROVE  HeldOK' /\ Remains
  <2>1. Head(hands[t]) \in InHand
    BY <1>3, HeadOf
  <2> QED
    BY <1>1, <1>3, <2>1, HoldFacts DEF Remains, Has
<1>4. CASE _waited_for(t)
  BY <1>4, WaitedForMoves DEF Remains, Has
<1>5. CASE Judge(t)
  <2>1. (\E why : hold(Head(hands[t]), why)) \/ UNCHANGED held
    BY <1>5 DEF Judge
  <2>2. pc[t] \notin Alone
    BY <1>5 DEF Judge, Alone
  <2> QED
    BY <1>2, <1>3, <2>1, <2>2
<1>6. CASE StandAside(t)
  BY <1>3, <1>6 DEF StandAside, Alone
<1>7. CASE Text(t)
  <2>1. hold(Head(hands[t]), rule[t]) \/ UNCHANGED held
    BY <1>7, TextMoves
  <2>2. pc[t] \notin Alone
    BY <1>7 DEF Text, Alone
  <2> QED
    BY <1>2, <1>3, <2>1, <2>2
<1>8. CASE run_mind(t) \/ Take(t) \/ PassOver(t) \/ Think(t) \/ Say(t) \/ Voice(t)
           \/ Note(t)
  BY <1>2, <1>8 DEF run_mind, Take, PassOver, Think, Say, Voice, Note
<1> QED
  BY <1>4, <1>5, <1>6, <1>7, <1>8 DEF Turn

LEMMA HeldKeeps ==
  ASSUME Safe, [Next]_vars
  PROVE  HeldOK' /\ Remains
<1>1. HeldOK
  BY DEF Safe
<1>2. ASSUME UNCHANGED held PROVE HeldOK' /\ Remains
  BY <1>1, <1>2 DEF HeldOK, Distinct, Remains, held
<1>3. ASSUME NEW t \in Thread, say_waiting(t) PROVE HeldOK' /\ Remains
  BY <1>3, SayWaitingMoves DEF Remains, Has
<1>4. CASE (\E t \in Thread : Asked(t)) \/ append \/ WorldMoves \/ SwitchOff
           \/ SwitchOn \/ NewDay \/ UNCHANGED vars
  BY <1>2, <1>4 DEF Asked, append, WorldMoves, SwitchOff, SwitchOn, NewDay, vars
<1>5. CASE Ages
  BY <1>1, <1>5 DEF Ages, HeldOK, Distinct, Remains
<1>6. CASE Crash
  <2>1. room' = file /\ UNCHANGED <<file, old>>
    BY <1>6 DEF Crash
  <2>2. /\ DOMAIN room = 1..Len(room) /\ DOMAIN file = 1..Len(room)
        /\ room \in Seq(Item) /\ file \in Seq(Item) /\ Len(file) = Len(room)
        /\ \A i \in DOMAIN room : file[i].e = room[i].e
    BY <1>1 DEF HeldOK
  <2>3. {room'[i].e : i \in DOMAIN room'} = {room[i].e : i \in DOMAIN room}
    BY <2>1, <2>2
  <2>4. Distinct(room')
    BY <1>1, <2>1, <2>2 DEF HeldOK, Distinct
  <2>5. HeldOK'
    <3>1. Len(file') = Len(room') /\ \A i \in DOMAIN room' : file'[i].e = room'[i].e
      BY <2>1
    <3> QED
      BY <1>1, <2>1, <2>2, <2>3, <2>4, <3>1 DEF HeldOK, Distinct
  <2>6. Remains
    BY <2>1, <2>2 DEF Remains
  <2> QED
    BY <2>5, <2>6
<1> QED
  BY <1>2, <1>3, <1>4, <1>5, <1>6, TurnHeld DEF Next

LEMMA TurnsKeep ==
  ASSUME Safe, [Next]_vars
  PROVE  TurnsOK' /\ Threads'
<1>1. TurnsOK /\ Threads
  BY DEF Safe
<1>2. ASSUME NEW t \in Thread, Turn(t) \/ say_waiting(t) \/ Asked(t)
      PROVE  Moves(t)
  BY <1>2, RunMindMoves, WaitedForMoves, TakeMoves, PassOverMoves, JudgeMoves,
     ThinkMoves, StandAsideMoves, SayMoves, VoiceMoves, TextMoves, NoteMoves,
     SayWaitingMoves, AskedMoves DEF Turn
<1>3. CASE append \/ WorldMoves \/ SwitchOff \/ SwitchOn \/ Ages \/ NewDay
           \/ UNCHANGED vars
  <2>1. UNCHANGED <<pc, hands, turn, offered>>
    BY <1>3 DEF append, WorldMoves, SwitchOff, SwitchOn, Ages, NewDay, vars, history
  <2> QED
    BY <1>1, <2>1, NobodyMoves
<1>4. CASE Crash
  <2>1. /\ pc' = [t \in Thread |-> "idle"] /\ hands' = [t \in Thread |-> <<>>]
        /\ args' = [t \in Thread |-> {}] /\ base' = [t \in Thread |-> Nowhere]
        /\ surface' = [t \in Thread |-> "silent"]
        /\ rule' = [t \in Thread |-> "allowed"] /\ cost' = [t \in Thread |-> 0]
        /\ offered' = [t \in Thread |-> {}]
    BY <1>4 DEF Crash
  <2>2. Nowhere \in [on : SUBSET Changing, tokens : Nat]
    BY DEF Nowhere
  <2>3. "silent" \in SURFACES /\ "allowed" \in {RULES[i] : i \in DOMAIN RULES}
    BY Quiet, RulesAre
  <2>4. <<>> \in Seq(InHand)
    OBVIOUS
  <2>5. TurnsOK'
    BY <2>1, <2>2, <2>3, <2>4 DEF TurnsOK
  <2>6. Threads'
    BY <2>1, MindAssumption DEF Threads, Shape, Offers, Alone
  <2> QED
    BY <2>5, <2>6
<1> QED
  BY <1>1, <1>2, <1>3, <1>4, MovesKeep DEF Next

LEMMA SafeKeeps ==
  ASSUME Safe, [Next]_vars
  PROVE  Safe' /\ Remains
  BY StoredKeeps, HeldKeeps, TurnsKeep DEF Safe

(* What waits leaves the room to be said, because it is stale or because   *)
(* newer things fill it: hold, release and _load (pending.py) lose nothing *)
(* else, with turns of both threads, crashes and switches.                 *)
THEOREM NothingIsLost == Spec => Kept
<1>1. Init => Safe
  BY Starts
<1>2. Safe /\ [Next]_vars => Safe' /\ [Remains]_vars
  BY SafeKeeps
<1>3. Spec => [][Remains]_vars
  BY <1>1, <1>2, PTL DEF Spec
<1> QED
  BY <1>3 DEF Kept, Remains

(* What _waited_for (mind.py) lets out is not refused by the turn it was   *)
(* let out for, while the world is the one it was let out in: the room and *)
(* the turn ask policy the same question.                                  *)
THEOREM OneQuestion == Spec => []Agrees
<1>1. Init => Safe
  BY Starts
<1>2. Safe /\ [Next]_vars => Safe'
  BY SafeKeeps
<1>3. ASSUME Safe PROVE Agrees
  <2> SUFFICES ASSUME NEW t \in Thread, pc[t] = "judge", Head(hands[t]).released,
                      offered[t] = Hindering(base[t].on, base[t].tokens)
               PROVE  Spoken(Verdict(t).surface)
    BY DEF Agrees
  <2> DEFINE h == Head(hands[t])
  <2>1. TurnsOK /\ Shape(t) /\ Offers(t)
    BY <1>3 DEF Safe, Threads
  <2>2. h = hands[t][1] /\ 1 \in DOMAIN hands[t] /\ h \in InHand
    BY <2>1, HandIs DEF Alone
  <2>3. Spoken(evaluate(Events[h.e], offered[t], h.read, "speak").surface)
    BY <2>1, <2>2 DEF Offers
  <2>4. Events[h.e] \in Happening /\ h.read \in BOOLEAN
    BY <2>2, EventsAre DEF InHand
  <2>5. Spoken(evaluate(Events[h.e], offered[t], h.read, Events[h.e].wanted).surface)
    BY <2>3, <2>4, SayableIsSaid
  <2> QED
    BY <2>5 DEF Verdict
<1> QED
  BY <1>1, <1>2, <1>3, PTL DEF Spec

-----------------------------------------------------------------------------
(* The books of the budget.  From here on only the timer takes turns: with *)
(* RequestTicks both threads count from the same tokens and may spend the  *)
(* rest of a day twice.                                                    *)

Lone == pc[Loop] \in {"idle", "asked"} /\ pc[Timer] # "asked"

Count(b) == IF b THEN 1 ELSE 0

(* A call is paid for, and the event it was paid for may be passed over.   *)
Doubt == pc[Timer] \in {"think", "say"} /\ Head(hands[Timer]).e \in off

Books ==
  /\ pc[Timer] \notin Alone => base[Timer].tokens = tokens
  /\ pc[Timer] \in Alone => base[Timer].tokens = 0
  /\ base[Loop].tokens = 0
  /\ tokens + cost[Timer] <= Budget
  /\ pc[Timer] = "think" /\ rule[Timer] \notin {"initiative-paused", "daily-budget"}
       => tokens < Budget
  /\ paid + Count(Doubt) <= tokens + cost[Timer] + cuts

Around1 == Turn(Timer) \/ say_waiting(Loop) \/ Asked(Loop)
Outside1 == append \/ WorldMoves \/ SwitchOff \/ SwitchOn \/ Ages \/ NewDay \/ Crash

LEMMA Steps ==
  ASSUME RequestTicks = FALSE, Safe, Lone, Next
  PROVE  Around1 \/ Outside1
<1>1. ASSUME NEW t \in Thread, Turn(t) PROVE Around1
  <2>1. Timer # Loop
    BY MindAssumption
  <2>2. CASE t = Loop
    <3>1. ~ Turn(Loop)
      BY <2>1 DEF Lone, Turn, run_mind, _waited_for, Take, PassOver, Judge, Think,
         StandAside, Say, Voice, Text, Note
    <3> QED
      BY <1>1, <2>2, <3>1
  <2> QED
    BY <1>1, <2>2 DEF Thread, Around1
<1>2. ASSUME NEW t \in Thread, say_waiting(t) PROVE Around1
  BY <1>2 DEF say_waiting, Around1
<1>3. ASSUME NEW t \in Thread, Asked(t) PROVE Around1
  BY <1>3, AskedMoves DEF Around1
<1> QED
  BY <1>1, <1>2, <1>3 DEF Next, Outside1

LEMMA Both == Timer \in Thread /\ Loop \in Thread /\ Timer # Loop
  BY MindAssumption DEF Thread

LEMMA LoneKeeps ==
  ASSUME RequestTicks = FALSE, Safe, Lone, [Next]_vars
  PROVE  Lone'
<1>1. ASSUME Next PROVE pc'[Loop] \in {"idle", "asked"}
  <2>1. CASE Turn(Timer)
    <3>1. Moves(Timer)
      BY <2>1, Both, RunMindMoves, WaitedForMoves, TakeMoves, PassOverMoves,
         JudgeMoves, ThinkMoves, StandAsideMoves, SayMoves, VoiceMoves, TextMoves,
         NoteMoves DEF Turn
    <3> QED
      BY <3>1, Both DEF Moves, Same, Lone
  <2>2. CASE say_waiting(Loop) \/ Asked(Loop)
    BY <2>2, Both, SayWaitingMoves, AskedMoves
  <2>3. CASE Outside1
    <3>1. pc' = pc \/ pc' = [t \in Thread |-> "idle"]
      BY <2>3 DEF Outside1, append, WorldMoves, SwitchOff, SwitchOn, Ages, NewDay,
         Crash
    <3> QED
      BY <3>1, Both DEF Lone
  <2> QED
    BY <1>1, <2>1, <2>2, <2>3, Steps DEF Around1
<1>2. Safe'
  BY SafeKeeps
<1>3. pc'[Timer] # "asked"
  BY <1>2, Both DEF Safe, Threads, Shape
<1>4. CASE UNCHANGED vars
  BY <1>4 DEF Lone, vars
<1> QED
  BY <1>1, <1>3, <1>4 DEF Lone

(* What the steps of the timer do to its books.                            *)
LEMMA NextEventBooks ==
  ASSUME Safe, pc[Timer] \notin Alone, NEW n, NextEvent(Timer, n)
  PROVE  /\ \/ pc'[Timer] = "idle" /\ base'[Timer].tokens = 0
            \/ pc'[Timer] = "judge" /\ base'[Timer].tokens = base[Timer].tokens + n
         /\ cost'[Timer] = 0 /\ base'[Loop] = base[Loop]
<1>1. TurnsOK
  BY DEF Safe
<1>2. /\ pc' = [pc EXCEPT ![Timer] =
                  IF Len(hands[Timer]) = 1 THEN "idle" ELSE "judge"]
      /\ cost' = [cost EXCEPT ![Timer] = 0]
  BY DEF NextEvent
<1>3. base' = [base EXCEPT ![Timer] =
                 IF Len(hands[Timer]) = 1 THEN Nowhere
                 ELSE [on |-> base[Timer].on, tokens |-> base[Timer].tokens + n]]
  BY DEF NextEvent
<1> QED
  BY <1>1, <1>2, <1>3, Both DEF TurnsOK, Nowhere

LEMMA TurnBooks ==
  ASSUME Safe, Books, Turn(Timer)
  PROVE  Books'
<1>1. StoredOK /\ TurnsOK /\ Shape(Timer) /\ Safe'
  <2>1. Next
    BY Both DEF Next
  <2> QED
    BY <2>1, Both, SafeKeeps DEF Safe, Threads
<1>2. /\ tokens \in Nat /\ paid \in Nat /\ cuts \in Nat /\ Budget \in Nat
      /\ cost[Timer] \in 0..1
  BY <1>1, Both, MindAssumption DEF StoredOK, TurnsOK
<1>3. CASE run_mind(Timer) \/ _waited_for(Timer)
  <2>1. /\ pc[Timer] \in {"idle", "offer"}
        /\ pc' = [pc EXCEPT ![Timer] = "offer"] \/ pc' = [pc EXCEPT ![Timer] = "take"]
        /\ UNCHANGED <<base, cost, tokens, paid, cuts>>
    BY <1>3 DEF run_mind, _waited_for, journal, history, turn
  <2>2. pc[Timer] \in Alone /\ pc'[Timer] \in Alone
    BY <1>1, <2>1, Both DEF TurnsOK, Alone
  <2> QED
    BY <1>2, <2>1, <2>2 DEF Books, Doubt, Count, Alone
<1>4. CASE Take(Timer)
  <2>1. pc[Timer] = "take" /\ UNCHANGED <<cost, tokens, paid, cuts>>
    BY <1>4 DEF Take, journal
  <2>2. \/ pc'[Timer] = "idle" /\ base'[Timer] = base[Timer]
        \/ pc'[Timer] = "judge" /\ base'[Timer].tokens = tokens
    <3>1. CASE hands'[Timer] = <<>>
      <4>1. \/ base' = base
            \/ base' = [base EXCEPT ![Timer] =
                 [on |-> args[Timer] \cup (world \cap BUSY), tokens |-> tokens]]
               /\ pc' = [pc EXCEPT ![Timer] = "judge"]
        BY <1>4 DEF Take
      <4> QED
        BY <1>1, <1>4, <4>1, Both, TakeMoves DEF TurnsOK
    <3>2. CASE hands'[Timer] # <<>>
      BY <1>4, <3>2, Both, TakeMoves
    <3> QED
      BY <3>1, <3>2
  <2>3. base'[Loop] = base[Loop]
    BY <1>4, Both, TakeMoves DEF Moves, Same
  <2> QED
    BY <1>2, <2>1, <2>2, <2>3 DEF Books, Doubt, Count, Alone
<1>5. CASE PassOver(Timer)
  <2>1. /\ pc[Timer] \in {"judge", "say"} /\ Head(hands[Timer]).e \in off
        /\ NextEvent(Timer, 0) /\ UNCHANGED <<tokens, paid, cuts>>
    BY <1>5 DEF PassOver, journal
  <2>2. pc[Timer] \notin Alone
    BY <2>1 DEF Alone
  <2>3. /\ \/ pc'[Timer] = "idle" /\ base'[Timer].tokens = 0
           \/ pc'[Timer] = "judge" /\ base'[Timer].tokens = base[Timer].tokens + 0
        /\ cost'[Timer] = 0 /\ base'[Loop] = base[Loop]
    BY <2>1, <2>2, NextEventBooks
  <2>4. pc[Timer] = "judge" => cost[Timer] = 0
    BY <1>1 DEF Shape
  <2> QED
    BY <1>2, <2>1, <2>2, <2>3, <2>4 DEF Books, Doubt, Count, Alone
<1>6. CASE Judge(Timer)
  <2> DEFINE h == Head(hands[Timer])
  <2>1. /\ pc[Timer] = "judge" /\ h.e \notin off
        /\ rule' = [rule EXCEPT ![Timer] = Verdict(Timer).rule]
        /\ pc' = [pc EXCEPT ![Timer] = "think"]
        /\ UNCHANGED <<hands, base, cost, off, tokens, paid, cuts>>
    BY <1>6 DEF Judge, journal, outside, history
  <2>2. pc'[Timer] = "think" /\ rule'[Timer] = Verdict(Timer).rule
    BY <1>1, <2>1, Both DEF TurnsOK
  <2>3. base[Timer].tokens = tokens /\ pc[Timer] \notin Alone
    BY <2>1 DEF Books, Alone
  <2>4. ASSUME ~ (tokens < Budget)
        PROVE  rule'[Timer] \in {"initiative-paused", "daily-budget"}
    <3> DEFINE w == Hindering(base[Timer].on, base[Timer].tokens)
    <3>1. "daily-budget" \in w
      BY <1>2, <2>3, <2>4 DEF Hindering
    <3>2. h \in InHand
      BY <2>3, Both, HeadOf
    <3>3. /\ Events[h.e] \in Happening /\ h.read \in BOOLEAN
          /\ Events[h.e].wanted \in SURFACES
      BY <3>2, EventsAre DEF InHand, Happening
    <3> HIDE DEF w
    <3>4. Verdict(Timer).rule = Deciding(Events[h.e], w, h.read,
                                  Cap(Events[h.e].wanted, Ceiling(Events[h.e], h.read)))
      BY <3>3, EvaluateIs DEF Verdict, w
    <3> QED
      BY <2>2, <3>1, <3>4, BudgetRules
  <2> QED
    BY <1>2, <2>1, <2>2, <2>3, <2>4 DEF Books, Doubt, Count, Alone
<1>7. CASE Think(Timer)
  <2>1. /\ pc[Timer] = "think" /\ pc' = [pc EXCEPT ![Timer] = "say"]
        /\ UNCHANGED <<hands, base, rule, off, tokens, cuts>>
        /\ \/ UNCHANGED <<cost, paid>>
           \/ /\ rule[Timer] \notin {"initiative-paused", "daily-budget"}
              /\ cost' = [cost EXCEPT ![Timer] = 1] /\ paid' = paid + 1
    BY <1>7 DEF Think, journal, outside
  <2>2. pc'[Timer] = "say"
    BY <1>1, <2>1, Both DEF TurnsOK
  <2>3. cost[Timer] = 0
    BY <1>1, <2>1 DEF Shape
  <2>4. \/ cost'[Timer] = 0 /\ paid' = paid
        \/ cost'[Timer] = 1 /\ paid' = paid + 1 /\ tokens < Budget
    BY <1>1, <2>1, <2>3, Both DEF TurnsOK, Books
  <2>5. Doubt' = Doubt
    BY <2>1, <2>2 DEF Doubt
  <2> QED
    BY <1>2, <2>1, <2>2, <2>3, <2>4, <2>5 DEF Books, Count, Alone
<1>8. CASE StandAside(Timer) \/ Say(Timer) \/ Voice(Timer) \/ Text(Timer)
  <2>1. /\ pc[Timer] \in {"say", "voice", "text"}
        /\ pc[Timer] = "say" => Head(hands[Timer]).e \notin off
        /\ UNCHANGED <<base, cost, tokens, paid, cuts>>
    BY <1>8 DEF StandAside, Say, Voice, Text, journal, turn, history
  <2>2. pc'[Timer] \in {"voice", "text", "note"}
    BY <1>8, Both, StandAsideMoves, SayMoves, VoiceMoves, TextMoves
  <2> QED
    BY <1>2, <2>1, <2>2 DEF Books, Doubt, Count, Alone
<1>9. CASE Note(Timer)
  <2>1. /\ pc[Timer] = "note" /\ NextEvent(Timer, cost[Timer])
        /\ tokens' = tokens + cost[Timer] /\ UNCHANGED <<paid, cuts>>
    BY <1>9 DEF Note
  <2>2. pc[Timer] \notin Alone
    BY <2>1 DEF Alone
  <2>3. /\ \/ pc'[Timer] = "idle" /\ base'[Timer].tokens = 0
           \/ /\ pc'[Timer] = "judge"
              /\ base'[Timer].tokens = base[Timer].tokens + cost[Timer]
        /\ cost'[Timer] = 0 /\ base'[Loop] = base[Loop]
    BY <2>1, <2>2, NextEventBooks
  <2> QED
    BY <1>2, <2>1, <2>2, <2>3 DEF Books, Doubt, Count, Alone
<1> QED
  BY <1>3, <1>4, <1>5, <1>6, <1>7, <1>8, <1>9 DEF Turn

LEMMA BooksKeep ==
  ASSUME RequestTicks = FALSE, Safe, Lone, Books, [Next]_vars
  PROVE  Books'
<1>1. StoredOK /\ TurnsOK /\ Shape(Timer)
  BY Both DEF Safe, Threads
<1>2. /\ tokens \in Nat /\ paid \in Nat /\ cuts \in Nat /\ Budget \in Nat
      /\ cost[Timer] \in 0..1
  BY <1>1, Both, MindAssumption DEF StoredOK, TurnsOK
<1>3. ASSUME NEW t \in {Loop}, say_waiting(t) \/ Asked(t) PROVE Books'
  <2>1. Moves(Loop)
    BY <1>3, Both, SayWaitingMoves, AskedMoves
  <2>2. Same(Timer)
    BY <2>1, Both DEF Moves
  <2>3. UNCHANGED <<base, cost, off, tokens, paid, cuts>>
    BY <1>3 DEF say_waiting, Asked, journal, turn, outside, history
  <2> QED
    BY <2>2, <2>3 DEF Books, Doubt, Count, Same
<1>4. CASE append \/ WorldMoves \/ Ages \/ UNCHANGED vars
  <2>1. UNCHANGED <<pc, hands, base, rule, cost, off, tokens, paid, cuts>>
    BY <1>4 DEF append, WorldMoves, Ages, vars, journal, outside, turn, history
  <2> QED
    BY <2>1 DEF Books, Doubt, Count
<1>5. CASE SwitchOff
  <2>1. UNCHANGED <<pc, hands, base, rule, cost, tokens, paid>> /\ cuts' = cuts + 1
    BY <1>5 DEF SwitchOff, journal, turn
  <2> QED
    BY <1>2, <2>1 DEF Books, Count
<1>6. CASE SwitchOn
  <2>1. /\ UNCHANGED <<pc, hands, base, rule, cost, tokens, paid, cuts>>
        /\ off' \subseteq off
    BY <1>6 DEF SwitchOn, journal, turn, history
  <2>2. Doubt' => Doubt
    BY <2>1 DEF Doubt
  <2> QED
    BY <1>2, <2>1, <2>2 DEF Books, Count
<1>7. CASE NewDay
  <2>1. /\ UNCHANGED <<pc, hands, base, rule, cost, cuts>> /\ tokens' = 0 /\ paid' = 0
        /\ pc[Timer] \in {"idle", "asked"}
    BY <1>7, Both DEF NewDay, turn
  <2>2. pc[Timer] = "idle"
    BY <2>1 DEF Lone
  <2>3. cost[Timer] = 0
    BY <1>1, <2>2 DEF Shape, Alone
  <2> QED
    BY <1>2, <2>1, <2>2, <2>3 DEF Books, Doubt, Count, Alone
<1>8. CASE Crash
  <2>1. /\ pc' = [t \in Thread |-> "idle"] /\ base' = [t \in Thread |-> Nowhere]
        /\ cost' = [t \in Thread |-> 0] /\ UNCHANGED <<tokens, paid>>
        /\ cuts' = cuts + 1
    BY <1>8 DEF Crash, journal
  <2>2. pc'[Timer] = "idle" /\ base'[Timer].tokens = 0 /\ base'[Loop].tokens = 0
        /\ cost'[Timer] = 0
    BY <2>1, Both DEF Nowhere
  <2> QED
    BY <1>2, <2>1, <2>2 DEF Books, Doubt, Count, Alone
<1> QED
  BY <1>3, <1>4, <1>5, <1>6, <1>7, <1>8, Steps, TurnBooks DEF Around1, Outside1

LEMMA BooksStart ==
  ASSUME Init
  PROVE  Lone /\ Books
<1>1. Budget \in Nat
  BY MindAssumption
<1> QED
  BY <1>1, Both DEF Init, Lone, Books, Doubt, Count, Alone, Nowhere

(* Every variable keeps its type: a room within MOST_HELD, a turn within   *)
(* MAX_EVENTS_PER_TURN, books within the budget.                           *)
THEOREM Typed ==
  ASSUME RequestTicks = FALSE
  PROVE  Spec => []TypeOK
<1> DEFINE Inv == Safe /\ Lone /\ Books
<1>1. Init => Inv
  BY Starts, BooksStart
<1>2. Inv /\ [Next]_vars => Inv'
  BY SafeKeeps, LoneKeeps, BooksKeep
<1>3. Inv => TypeOK
  <2> SUFFICES ASSUME Inv PROVE TypeOK
    OBVIOUS
  <2>1. StoredOK /\ HeldOK /\ TurnsOK /\ \A t \in Thread : Shape(t)
    BY DEF Safe, Threads
  <2>2. /\ tokens \in Nat /\ paid \in Nat /\ cuts \in 0..MaxCuts
        /\ Budget \in Nat /\ MaxCuts \in Nat /\ cost[Timer] \in 0..1
    BY <2>1, Both, MindAssumption DEF StoredOK, TurnsOK
  <2>3. tokens <= Budget /\ paid <= Budget + MaxCuts
    BY <2>2 DEF Books, Count
  <2>4. \A t \in Thread : base[t].tokens \in 0..(Budget + MaxCuts)
    BY <2>2, <2>3 DEF Books, Thread
  <2>5. base \in [Thread -> [on : SUBSET Changing, tokens : 0..(Budget + MaxCuts)]]
    <3>1. ASSUME NEW t \in Thread
          PROVE  base[t] \in [on : SUBSET Changing, tokens : 0..(Budget + MaxCuts)]
      <4>1. base[t] \in [on : SUBSET Changing, tokens : Nat]
        BY <2>1 DEF TurnsOK
      <4> QED
        BY <2>4, <4>1
    <3> QED
      BY <2>1, <3>1 DEF TurnsOK
  <2>6. tokens \in 0..(Budget + MaxCuts) /\ paid \in 0..(Budget + MaxCuts)
    BY <2>2, <2>3
  <2>7. \A t \in Thread : Len(hands[t]) <= MAX_EVENTS_PER_TURN + 1
    BY <2>1 DEF Shape
  <2> QED
    BY <2>1, <2>5, <2>6, <2>7 DEF TypeOK, StoredOK, HeldOK, TurnsOK
<1> QED
  BY <1>1, <1>2, <1>3, PTL DEF Spec

(* The deliberations of a day stay within its budget, for tick (mind.py)   *)
(* counts in the turn what its earlier events have cost; a crash or a      *)
(* switch in the middle of an event leaves one call out of the books.      *)
THEOREM SpentWithinBudget ==
  ASSUME RequestTicks = FALSE
  PROVE  Spec => []WithinBudget
<1> DEFINE Inv == Safe /\ Lone /\ Books
<1>1. Init => Inv
  BY Starts, BooksStart
<1>2. Inv /\ [Next]_vars => Inv'
  BY SafeKeeps, LoneKeeps, BooksKeep
<1>3. Inv => WithinBudget
  <2> SUFFICES ASSUME Inv PROVE WithinBudget
    OBVIOUS
  <2>1. /\ tokens \in Nat /\ paid \in Nat /\ cuts \in Nat
        /\ Budget \in Nat /\ cost[Timer] \in 0..1
    BY Both, MindAssumption DEF Safe, StoredOK, TurnsOK
  <2> QED
    BY <2>1 DEF Books, Count, WithinBudget
<1> QED
  BY <1>1, <1>2, <1>3, PTL DEF Spec

-----------------------------------------------------------------------------
(* Told once: what has been told of an event, and what may still tell it,  *)
(* is never more than one and what the crashes and switches account for.   *)

(* The event the turn is at has been told, is held, or will not be told.   *)
Spent ==
  \/ pc[Timer] = "note"
  \/ /\ pc[Timer] \in {"think", "say"} /\ ~ Spoken(surface[Timer])
     /\ ~ Textable(rule[Timer])

Hand == hands[Timer]
Coming(e) == e > arrived
Waits(e) == Has(room, e)
LiveItem(e) ==
  \E i \in DOMAIN Hand : Hand[i].e = e /\ Hand[i].released /\ (i = 1 => ~ Spent)
LiveEvent(e) ==
  \E i \in DOMAIN Hand : Hand[i].e = e /\ ~ Hand[i].released /\ (i = 1 => ~ Spent)
InTurn(e) == \E i \in DOMAIN Hand : Hand[i].e = e /\ ~ Hand[i].released
Due(e) == e \in pending /\ ~ InTurn(e)
AskedFor(e) == Has(hands[Loop], e)
Doubtful(e) == Doubt /\ Head(Hand).e = e

OnceFor(e) ==
  told[e] + Count(Coming(e)) + Count(Waits(e)) + Count(LiveItem(e))
    + Count(LiveEvent(e)) + Count(Due(e)) + Count(AskedFor(e)) + Count(Doubtful(e))
    <= 1 + cuts

Once == \A e \in Event : OnceFor(e)

LEMMA Numbers ==
  ASSUME Safe, NEW e \in Event
  PROVE  told[e] \in Nat /\ cuts \in Nat
  BY MindAssumption DEF Safe, StoredOK

LEMMA FewerOnce ==
  ASSUME Safe, NEW e \in Event, OnceFor(e), told'[e] = told[e], cuts' = cuts,
         Coming(e)' => Coming(e), Waits(e)' => Waits(e),
         LiveItem(e)' => LiveItem(e), LiveEvent(e)' => LiveEvent(e),
         Due(e)' => Due(e), AskedFor(e)' => AskedFor(e),
         Doubtful(e)' => Doubtful(e)
  PROVE  OnceFor(e)'
<1>1. told[e] \in Nat /\ cuts \in Nat
  BY Numbers
<1> HIDE DEF Coming, Waits, LiveItem, LiveEvent, Due, AskedFor, Doubtful
<1> QED
  BY <1>1 DEF OnceFor, Count

(* The turn has told the event it is at, or holds it, or has found that it *)
(* will not tell it.                                                       *)
LEMMA Settled ==
  ASSUME Safe, NEW e \in Event, OnceFor(e), pc[Timer] \notin Alone,
         hands' = hands, UNCHANGED <<arrived, pending, cuts>>, ~ Spent, Spent',
         ~ Doubtful(e)',
         \/ told'[e] = told[e] /\ (Waits(e)' => Waits(e) \/ e = Head(Hand).e)
         \/ told'[e] = told[e] + 1 /\ e = Head(Hand).e /\ (Waits(e)' => Waits(e))
  PROVE  OnceFor(e)'
<1>1. told[e] \in Nat /\ cuts \in Nat
  BY Numbers
<1>2. TurnsOK /\ Shape(Timer)
  BY Both DEF Safe, Threads
<1>3. Head(Hand) = Hand[1] /\ 1 \in DOMAIN Hand
  BY <1>2, Both, HandIs DEF Hand
<1>4. /\ Coming(e)' => Coming(e)
      /\ LiveItem(e)' => LiveItem(e)
      /\ LiveEvent(e)' => LiveEvent(e)
      /\ Due(e)' => Due(e)
      /\ AskedFor(e)' => AskedFor(e)
  BY DEF Coming, LiveItem, LiveEvent, Due, InTurn, AskedFor, Has, Hand
<1>5. CASE e = Head(Hand).e
  <2>1. \/ LiveItem(e) /\ ~ LiveItem(e)'
        \/ LiveEvent(e) /\ ~ LiveEvent(e)'
    <3>1. CASE Hand[1].released
      <4>1. LiveItem(e)
        BY <1>3, <1>5, <3>1 DEF LiveItem
      <4>2. ~ LiveItem(e)'
        <5>1. \A i \in DOMAIN Hand : Hand[i].released => i = 1
          BY <1>2 DEF Shape, Hand
        <5> QED
          BY <5>1 DEF LiveItem, Hand
      <4> QED
        BY <4>1, <4>2
    <3>2. CASE ~ Hand[1].released
      <4>1. LiveEvent(e)
        BY <1>3, <1>5, <3>2 DEF LiveEvent
      <4>2. ~ LiveEvent(e)'
        <5>1. \A i \in DOMAIN Hand : ~ Hand[i].released /\ Hand[i].e = e => i = 1
          BY <1>2, <1>3, <1>5, <3>2 DEF Shape, Hand
        <5> QED
          BY <5>1 DEF LiveEvent, Hand
      <4> QED
        BY <4>1, <4>2
    <3> QED
      BY <3>1, <3>2
  <2> HIDE DEF Coming, Waits, LiveItem, LiveEvent, Due, AskedFor, Doubtful
  <2> QED
    BY <1>1, <1>4, <2>1 DEF OnceFor, Count
<1>6. CASE e # Head(Hand).e
  <2> HIDE DEF Coming, Waits, LiveItem, LiveEvent, Due, AskedFor, Doubtful
  <2> QED
    BY <1>1, <1>4, <1>6 DEF OnceFor, Count
<1> QED
  BY <1>5, <1>6

(* The turn goes on to the next event.                                     *)
LEMMA TailLives ==
  ASSUME Safe, pc[Timer] \notin Alone, hands'[Timer] = Tail(hands[Timer]),
         NEW e
  PROVE  /\ ~ LiveItem(e)'
         /\ LiveEvent(e)' => LiveEvent(e)
         /\ LiveEvent(e)' => e # Head(Hand).e \/ Head(Hand).released
         /\ InTurn(e) => InTurn(e)' \/ (e = Head(Hand).e /\ ~ Head(Hand).released)
<1>1. TurnsOK /\ Shape(Timer)
  BY Both DEF Safe, Threads
<1>2. /\ Head(Hand) = Hand[1] /\ 1 \in DOMAIN Hand /\ Len(Hand) \in Nat \ {0}
      /\ DOMAIN Hand' = 1..(Len(Hand) - 1) /\ DOMAIN Hand = 1..Len(Hand)
      /\ \A i \in 1..(Len(Hand) - 1) : Hand'[i] = Hand[i + 1] /\ i + 1 \in DOMAIN Hand
  BY <1>1, Both, HandIs DEF Hand
<1>3. \A i \in DOMAIN Hand' : i + 1 \in DOMAIN Hand /\ Hand'[i] = Hand[i + 1]
                              /\ i + 1 # 1 /\ ~ Hand[i + 1].released
  <2>1. ASSUME NEW i \in 1..(Len(Hand) - 1)
        PROVE  i + 1 # 1 /\ i + 1 \in DOMAIN Hand
    BY <1>2
  <2>2. \A i \in DOMAIN Hand : Hand[i].released => i = 1
    BY <1>1 DEF Shape, Hand
  <2> QED
    BY <1>2, <2>1, <2>2
<1>4. \A i \in DOMAIN Hand : i = 1 \/ \E j \in DOMAIN Hand' : Hand'[j] = Hand[i]
  <2> SUFFICES ASSUME NEW i \in DOMAIN Hand, i # 1
               PROVE  \E j \in DOMAIN Hand' : Hand'[j] = Hand[i]
    OBVIOUS
  <2>1. i - 1 \in 1..(Len(Hand) - 1) /\ (i - 1) + 1 = i
    BY <1>2
  <2>2. Hand'[i - 1] = Hand[i] /\ i - 1 \in DOMAIN Hand'
    BY <1>2, <2>1
  <2> QED
    BY <2>2
<1>5. \A i, j \in DOMAIN Hand :
        ~ Hand[i].released /\ ~ Hand[j].released /\ Hand[i].e = Hand[j].e => i = j
  BY <1>1 DEF Shape, Hand
<1> HIDE DEF Hand
<1>6. ~ LiveItem(e)'
  BY <1>3 DEF LiveItem
<1>7. LiveEvent(e)' => LiveEvent(e)
  BY <1>3 DEF LiveEvent
<1>8. LiveEvent(e)' => e # Head(Hand).e \/ Head(Hand).released
  BY <1>2, <1>3, <1>5 DEF LiveEvent
<1>9. InTurn(e) => InTurn(e)' \/ (e = Head(Hand).e /\ ~ Head(Hand).released)
  BY <1>2, <1>3, <1>4 DEF InTurn
<1> QED
  BY <1>6, <1>7, <1>8, <1>9

LEMMA PassOverOnce ==
  ASSUME Safe, NEW e \in Event, OnceFor(e), PassOver(Timer)
  PROVE  OnceFor(e)'
<1>1. told[e] \in Nat /\ cuts \in Nat
  BY Numbers
<1>2. /\ pc[Timer] \in {"judge", "say"} /\ Head(Hand).e \in off
      /\ UNCHANGED <<arrived, pending, room, told, cuts>>
  BY DEF PassOver, journal, held, Hand
<1>3. pc[Timer] \notin Alone
  BY <1>2 DEF Alone
<1>4. /\ hands'[Timer] = Tail(hands[Timer]) /\ hands'[Loop] = hands[Loop]
      /\ pc'[Timer] \in {"idle", "judge"}
  BY Both, PassOverMoves DEF Moves, Same
<1>5. /\ ~ LiveItem(e)'
      /\ LiveEvent(e)' => LiveEvent(e)
      /\ LiveEvent(e)' => e # Head(Hand).e \/ Head(Hand).released
      /\ InTurn(e) => InTurn(e)' \/ (e = Head(Hand).e /\ ~ Head(Hand).released)
  BY <1>3, <1>4, TailLives
<1>6. /\ (Coming(e)' => Coming(e)) /\ (Waits(e)' => Waits(e))
      /\ (AskedFor(e)' => AskedFor(e)) /\ ~ Doubtful(e)'
  BY <1>2, <1>4 DEF Coming, Waits, AskedFor, Has, Doubtful, Doubt
<1>7. CASE e = Head(Hand).e /\ ~ Head(Hand).released
  <2>1. LiveEvent(e) \/ Doubtful(e)
    <3>1. CASE pc[Timer] = "judge"
      <4>1. ~ Spent
        BY <3>1 DEF Spent
      <4>2. Head(Hand) = Hand[1] /\ 1 \in DOMAIN Hand
        BY <1>3, Both, HandIs DEF Hand, Safe, Threads
      <4> QED
        BY <1>7, <4>1, <4>2 DEF LiveEvent
    <3>2. CASE pc[Timer] = "say"
      BY <1>2, <1>7, <3>2 DEF Doubtful, Doubt, Hand
    <3> QED
      BY <1>2, <3>1, <3>2
  <2> HIDE DEF Coming, Waits, LiveItem, LiveEvent, Due, AskedFor, Doubtful
  <2> QED
    BY <1>1, <1>2, <1>5, <1>6, <1>7, <2>1 DEF OnceFor, Count
<1>8. CASE ~ (e = Head(Hand).e /\ ~ Head(Hand).released)
  <2>1. Due(e)' => Due(e)
    BY <1>2, <1>5, <1>8 DEF Due
  <2> QED
    BY <1>2, <1>5, <1>6, <2>1, FewerOnce
<1> QED
  BY <1>7, <1>8

LEMMA NoteOnce ==
  ASSUME Safe, NEW e \in Event, OnceFor(e), Note(Timer)
  PROVE  OnceFor(e)'
<1>1. /\ pc[Timer] = "note" /\ pending' = pending \ {Head(Hand).e}
      /\ UNCHANGED <<arrived, room, told, cuts>>
  BY DEF Note, held, Hand
<1>2. pc[Timer] \notin Alone
  BY <1>1 DEF Alone
<1>3. /\ hands'[Timer] = Tail(hands[Timer]) /\ hands'[Loop] = hands[Loop]
      /\ pc'[Timer] \in {"idle", "judge"}
  BY Both, NoteMoves DEF Moves, Same
<1>4. /\ ~ LiveItem(e)'
      /\ LiveEvent(e)' => LiveEvent(e)
      /\ InTurn(e) => InTurn(e)' \/ (e = Head(Hand).e /\ ~ Head(Hand).released)
  BY <1>2, <1>3, TailLives
<1>5. /\ (Coming(e)' => Coming(e)) /\ (Waits(e)' => Waits(e))
      /\ (AskedFor(e)' => AskedFor(e)) /\ ~ Doubtful(e)'
  BY <1>1, <1>3 DEF Coming, Waits, AskedFor, Has, Doubtful, Doubt
<1>6. Due(e)' => Due(e)
  BY <1>1, <1>4 DEF Due
<1> QED
  BY <1>1, <1>4, <1>5, <1>6, FewerOnce

LEMMA WaitedForOnce ==
  ASSUME Safe, NEW e \in Event, OnceFor(e), _waited_for(Timer)
  PROVE  OnceFor(e)'
<1>1. told[e] \in Nat /\ cuts \in Nat
  BY Numbers
<1>2. pc[Timer] = "offer" /\ UNCHANGED <<arrived, pending, told, cuts>>
  BY DEF _waited_for, journal
<1>3. /\ pc'[Timer] = "take" /\ hands'[Loop] = hands[Loop]
      /\ \/ Hand' = <<>>
         \/ /\ Len(Hand') = 1 /\ Hand'[1].released
            /\ Has(room, Hand'[1].e) /\ ~ Has(room', Hand'[1].e)
      /\ \A x : Has(room', x) => Has(room, x)
      /\ hands' \in [Thread -> Seq(InHand)]
  BY Both, WaitedForMoves DEF Moves, TurnsOK, Hand
<1>4. Hand = <<>>
  BY <1>2, Both DEF Safe, Threads, Shape, Hand
<1>5. /\ ~ InTurn(e) /\ ~ LiveItem(e) /\ ~ LiveEvent(e)
  BY <1>4 DEF InTurn, LiveItem, LiveEvent
<1>6. /\ (Coming(e)' => Coming(e)) /\ (Waits(e)' => Waits(e))
      /\ (AskedFor(e)' => AskedFor(e)) /\ ~ Doubtful(e)' /\ (Due(e)' => Due(e))
  BY <1>2, <1>3, <1>5 DEF Coming, Waits, AskedFor, Has, Doubtful, Doubt, Due
<1>7. CASE Hand' = <<>>
  <2>1. ~ LiveItem(e)' /\ ~ LiveEvent(e)'
    BY <1>7 DEF LiveItem, LiveEvent
  <2> QED
    BY <1>2, <1>6, <2>1, FewerOnce
<1>8. CASE /\ Len(Hand') = 1 /\ Hand'[1].released
           /\ Has(room, Hand'[1].e) /\ ~ Has(room', Hand'[1].e)
  <2>1. DOMAIN Hand' = {1}
    <3>1. Hand' \in Seq(InHand)
      BY <1>3, Both DEF Hand
    <3> QED
      BY <1>8, <3>1
  <2>2. ~ LiveEvent(e)' /\ (LiveItem(e)' => e = Hand'[1].e)
    BY <1>8, <2>1 DEF LiveEvent, LiveItem
  <2>3. CASE e = Hand'[1].e
    <3>1. Waits(e) /\ ~ Waits(e)'
      BY <1>8, <2>3 DEF Waits
    <3> HIDE DEF Coming, Waits, LiveItem, LiveEvent, Due, AskedFor, Doubtful
    <3> QED
      BY <1>1, <1>2, <1>6, <2>2, <3>1 DEF OnceFor, Count
  <2>4. CASE e # Hand'[1].e
    BY <1>2, <1>6, <2>2, <2>4, FewerOnce
  <2> QED
    BY <2>3, <2>4
<1> QED
  BY <1>3, <1>7, <1>8

LEMMA TakeOnce ==
  ASSUME Safe, NEW e \in Event, OnceFor(e), Take(Timer)
  PROVE  OnceFor(e)'
<1>1. told[e] \in Nat /\ cuts \in Nat
  BY Numbers
<1>2. pc[Timer] = "take" /\ UNCHANGED <<arrived, pending, room, told, cuts>>
  BY DEF Take, journal, held
<1>3. /\ pc'[Timer] \in {"idle", "judge"} /\ hands'[Loop] = hands[Loop]
  BY Both, TakeMoves DEF Moves, Same
<1>4. \A i \in DOMAIN Hand' :
        \/ i \in DOMAIN Hand /\ Hand'[i] = Hand[i] /\ Hand[i].released
        \/ ~ Hand'[i].released /\ Hand'[i].e \in pending
  BY Both, TakeIs DEF Safe, Threads, Hand
<1>5. \A i \in DOMAIN Hand : Hand[i].released
  BY <1>2, Both DEF Safe, Threads, Shape, Hand
<1>6. ~ Spent /\ ~ Spent'
  BY <1>2, <1>3 DEF Spent
<1>7. ~ InTurn(e)
  BY <1>5 DEF InTurn
<1>8. LiveItem(e)' => LiveItem(e)
  BY <1>4, <1>6 DEF LiveItem
<1>9. LiveEvent(e)' => Due(e) /\ ~ Due(e)'
  BY <1>2, <1>4, <1>7 DEF LiveEvent, Due, InTurn
<1>10. /\ (Coming(e)' => Coming(e)) /\ (Waits(e)' => Waits(e))
       /\ (AskedFor(e)' => AskedFor(e)) /\ ~ Doubtful(e)' /\ (Due(e)' => Due(e))
  BY <1>2, <1>3, <1>7 DEF Coming, Waits, AskedFor, Has, Doubtful, Doubt, Due
<1> HIDE DEF Coming, Waits, LiveItem, LiveEvent, Due, AskedFor, Doubtful
<1> QED
  BY <1>1, <1>2, <1>8, <1>9, <1>10 DEF OnceFor, Count

LEMMA SameHands ==
  ASSUME hands'[Timer] = hands[Timer], hands'[Loop] = hands[Loop],
         Spent => Spent', UNCHANGED <<arrived, pending>>, NEW e
  PROVE  /\ (Coming(e)' => Coming(e))
         /\ (LiveItem(e)' => LiveItem(e)) /\ (LiveEvent(e)' => LiveEvent(e))
         /\ (Due(e)' => Due(e)) /\ (AskedFor(e)' => AskedFor(e))
  BY DEF Coming, LiveItem, LiveEvent, Due, InTurn, AskedFor, Has, Hand

LEMMA JudgeOnce ==
  ASSUME Safe, NEW e \in Event, OnceFor(e), Judge(Timer)
  PROVE  OnceFor(e)'
<1> DEFINE h == Head(Hand)
           v == Verdict(Timer)
<1>1. TurnsOK /\ HeldOK
  BY DEF Safe
<1>2. /\ pc[Timer] = "judge" /\ h.e \notin off
      /\ IF Postponed(h, v) THEN hold(h, v.rule) ELSE UNCHANGED held
      /\ surface' = [surface EXCEPT ![Timer] = v.surface]
      /\ rule' = [rule EXCEPT ![Timer] = v.rule]
      /\ UNCHANGED <<arrived, pending, off, told, cuts>>
  BY DEF Judge, journal, outside, history, Hand
<1>3. hands' = hands /\ pc'[Timer] = "think"
  BY Both, JudgeMoves
<1>4. ~ Spent /\ pc[Timer] \notin Alone
  BY <1>2 DEF Spent, Alone
<1>5. ~ Doubtful(e)'
  BY <1>2, <1>3 DEF Doubtful, Doubt, Hand
<1>6. surface'[Timer] = v.surface /\ rule'[Timer] = v.rule
  BY <1>1, <1>2, Both DEF TurnsOK
<1>7. CASE Postponed(h, v)
  <2>1. Spent'
    BY <1>3, <1>6, <1>7 DEF Postponed, Spent
  <2>2. h \in InHand
    BY <1>4, Both, HeadOf DEF Hand
  <2>3. Waits(e)' => Waits(e) \/ e = h.e
    BY <1>1, <1>2, <1>7, <2>2, HoldFacts DEF Waits
  <2> QED
    BY <1>2, <1>3, <1>4, <1>5, <2>1, <2>3, Settled
<1>8. CASE ~ Postponed(h, v)
  <2>1. room' = room
    BY <1>2, <1>8 DEF held
  <2>2. Waits(e)' => Waits(e)
    BY <2>1 DEF Waits, Has
  <2> QED
    BY <1>2, <1>3, <1>4, <1>5, <2>2, SameHands, FewerOnce
<1> QED
  BY <1>7, <1>8

LEMMA ThinkOnce ==
  ASSUME Safe, NEW e \in Event, OnceFor(e), Think(Timer)
  PROVE  OnceFor(e)'
<1>1. UNCHANGED <<arrived, pending, room, off, rule, told, cuts>>
  BY DEF Think, journal, held, outside
<1>2. /\ hands' = hands /\ pc[Timer] = "think" /\ pc'[Timer] = "say"
      /\ Spoken(surface'[Timer]) => Spoken(surface[Timer])
  BY Both, ThinkMoves
<1>3. Spent => Spent'
  BY <1>1, <1>2 DEF Spent
<1>4. (Doubtful(e)' => Doubtful(e)) /\ (Waits(e)' => Waits(e))
  BY <1>1, <1>2 DEF Doubtful, Doubt, Hand, Waits, Has
<1> QED
  BY <1>1, <1>2, <1>3, <1>4, SameHands, FewerOnce

LEMMA StandAsideOnce ==
  ASSUME Safe, NEW e \in Event, OnceFor(e), StandAside(Timer)
  PROVE  OnceFor(e)'
<1>1. /\ pc[Timer] = "say" /\ surface[Timer] = "speak"
      /\ hold(Head(Hand), "resources")
      /\ UNCHANGED <<arrived, pending, told, cuts>>
  BY DEF StandAside, journal, history, Hand
<1>2. hands' = hands /\ pc'[Timer] = "note"
  BY Both, StandAsideMoves
<1>3. ~ Spent /\ pc[Timer] \notin Alone
  BY <1>1, Quiet DEF Spent, Alone
<1>4. Spent' /\ ~ Doubtful(e)'
  BY <1>2 DEF Spent, Doubtful, Doubt
<1>5. Head(Hand) \in InHand
  BY <1>3, Both, HeadOf DEF Hand
<1>6. Waits(e)' => Waits(e) \/ e = Head(Hand).e
  BY <1>1, <1>5, HoldFacts DEF Waits, Safe
<1> QED
  BY <1>1, <1>2, <1>3, <1>4, <1>6, Settled

LEMMA SayOnce ==
  ASSUME Safe, NEW e \in Event, OnceFor(e), Say(Timer)
  PROVE  OnceFor(e)'
<1>1. TurnsOK
  BY DEF Safe
<1>2. /\ pc[Timer] = "say" /\ UNCHANGED <<arrived, pending, room, told, cuts>>
      /\ surface[Timer] # "speak" => pc' = [pc EXCEPT ![Timer] =
                                       IF Textable(rule[Timer]) THEN "text" ELSE "note"]
  BY DEF Say, journal, held, history
<1>3. hands' = hands /\ pc'[Timer] \in {"voice", "text", "note"}
  BY Both, SayMoves
<1>4. Spent => Spent'
  <2> SUFFICES ASSUME Spent PROVE Spent'
    OBVIOUS
  <2>1. ~ Spoken(surface[Timer]) /\ ~ Textable(rule[Timer])
    BY <1>2 DEF Spent
  <2>2. surface[Timer] # "speak"
    BY <2>1, Quiet
  <2>3. pc'[Timer] = "note"
    BY <1>1, <1>2, <2>1, <2>2, Both DEF TurnsOK
  <2> QED
    BY <2>3 DEF Spent
<1>5. ~ Doubtful(e)' /\ (Waits(e)' => Waits(e))
  BY <1>2, <1>3 DEF Doubtful, Doubt, Waits, Has
<1> QED
  BY <1>2, <1>3, <1>4, <1>5, SameHands, FewerOnce

LEMMA VoiceOnce ==
  ASSUME Safe, NEW e \in Event, OnceFor(e), Voice(Timer)
  PROVE  OnceFor(e)'
<1>1. UNCHANGED <<arrived, pending, room, cuts>>
  BY DEF Voice, journal, held
<1>2. /\ hands' = hands /\ pc[Timer] = "voice" /\ pc'[Timer] = "note"
      /\ \/ told' = told
         \/ told' = [told EXCEPT ![Head(Hand).e] = told[Head(Hand).e] + 1]
  BY Both, VoiceMoves DEF Hand
<1>3. ~ Spent /\ pc[Timer] \notin Alone /\ Spent' /\ ~ Doubtful(e)'
  BY <1>2 DEF Spent, Alone, Doubtful, Doubt
<1>4. told'[e] = told[e] \/ (told'[e] = told[e] + 1 /\ e = Head(Hand).e)
  BY <1>2 DEF Safe, StoredOK
<1>5. Waits(e)' => Waits(e)
  BY <1>1 DEF Waits, Has
<1> QED
  BY <1>1, <1>2, <1>3, <1>4, <1>5, Settled

LEMMA TextOnce ==
  ASSUME Safe, NEW e \in Event, OnceFor(e), Text(Timer)
  PROVE  OnceFor(e)'
<1>1. UNCHANGED <<arrived, pending, cuts>>
  BY DEF Text, journal
<1>2. /\ hands' = hands /\ pc[Timer] = "text" /\ pc'[Timer] = "note"
      /\ \/ /\ told' = [told EXCEPT ![Head(Hand).e] = told[Head(Hand).e] + 1]
            /\ UNCHANGED held
         \/ /\ hold(Head(Hand), rule[Timer]) \/ UNCHANGED held
            /\ UNCHANGED told
  BY Both, TextMoves DEF Hand
<1>3. ~ Spent /\ pc[Timer] \notin Alone /\ Spent' /\ ~ Doubtful(e)'
  BY <1>2 DEF Spent, Alone, Doubtful, Doubt
<1>4. Head(Hand) \in InHand
  BY <1>3, Both, HeadOf DEF Hand
<1>5. hold(Head(Hand), rule[Timer]) => (Waits(e)' => Waits(e) \/ e = Head(Hand).e)
  BY <1>4, HoldFacts DEF Waits, Safe
<1>6. UNCHANGED held => (Waits(e)' => Waits(e))
  BY DEF Waits, Has, held
<1>7. \/ told'[e] = told[e] /\ (Waits(e)' => Waits(e) \/ e = Head(Hand).e)
      \/ told'[e] = told[e] + 1 /\ e = Head(Hand).e /\ (Waits(e)' => Waits(e))
  <2>1. CASE UNCHANGED told
    BY <1>2, <1>5, <1>6, <2>1
  <2>2. CASE told' = [told EXCEPT ![Head(Hand).e] = told[Head(Hand).e] + 1]
             /\ UNCHANGED held
    <3>1. told'[e] = told[e] \/ (told'[e] = told[e] + 1 /\ e = Head(Hand).e)
      BY <2>2 DEF Safe, StoredOK
    <3> QED
      BY <1>6, <2>2, <3>1
  <2> QED
    BY <1>2, <2>1, <2>2
<1> QED
  BY <1>1, <1>2, <1>3, <1>7, Settled

LEMMA TurnOnce ==
  ASSUME Safe, NEW e \in Event, OnceFor(e), Turn(Timer)
  PROVE  OnceFor(e)'
<1>1. CASE run_mind(Timer)
  <2>1. /\ pc[Timer] = "idle" /\ pc' = [pc EXCEPT ![Timer] = "offer"]
        /\ UNCHANGED <<arrived, pending, room, hands, told, cuts>>
    BY <1>1 DEF run_mind, journal, held, history
  <2>2. pc'[Timer] = "offer"
    BY <2>1, Both DEF Safe, TurnsOK
  <2>3. ~ Spent /\ ~ Doubtful(e)' /\ (Waits(e)' => Waits(e))
    BY <2>1, <2>2 DEF Spent, Doubtful, Doubt, Waits, Has
  <2> QED
    BY <2>1, <2>3, SameHands, FewerOnce
<1> QED
  BY <1>1, WaitedForOnce, TakeOnce, PassOverOnce, JudgeOnce, ThinkOnce,
     StandAsideOnce, SayOnce, VoiceOnce, TextOnce, NoteOnce DEF Turn

LEMMA SayWaitingOnce ==
  ASSUME Safe, NEW e \in Event, OnceFor(e), say_waiting(Loop)
  PROVE  OnceFor(e)'
<1>1. told[e] \in Nat /\ cuts \in Nat
  BY Numbers
<1>2. pc[Loop] = "idle" /\ UNCHANGED <<arrived, pending, off, told, cuts>>
  BY DEF say_waiting, journal, outside, history
<1>3. Same(Timer)
  BY Both, SayWaitingMoves DEF Moves
<1>4. /\ \/ hands'[Loop] = <<>>
         \/ /\ Len(hands'[Loop]) = 1 /\ hands'[Loop][1].released
            /\ Has(room, hands'[Loop][1].e) /\ ~ Has(room', hands'[Loop][1].e)
      /\ \A x : Has(room', x) => Has(room, x)
      /\ hands' \in [Thread -> Seq(InHand)]
  BY Both, SayWaitingMoves DEF Moves, TurnsOK
<1>5. ~ AskedFor(e)
  <2>1. hands[Loop] = <<>>
    BY <1>2, Both DEF Safe, Threads, Shape
  <2> QED
    BY <2>1 DEF AskedFor, Has
<1>6. /\ (Coming(e)' => Coming(e)) /\ (Waits(e)' => Waits(e))
      /\ (LiveItem(e)' => LiveItem(e)) /\ (LiveEvent(e)' => LiveEvent(e))
      /\ (Due(e)' => Due(e)) /\ (Doubtful(e)' => Doubtful(e))
  BY <1>2, <1>3, <1>4 DEF Same, Coming, Waits, LiveItem, LiveEvent, Spent, Due,
     InTurn, Doubtful, Doubt, Hand
<1>7. AskedFor(e)' => Waits(e) /\ ~ Waits(e)'
  <2> SUFFICES ASSUME Has(hands'[Loop], e) PROVE Has(room, e) /\ ~ Has(room', e)
    BY DEF AskedFor, Waits
  <2>1. hands'[Loop] # <<>>
    BY DEF Has
  <2>2. hands'[Loop] \in Seq(InHand)
    BY <1>4, Both
  <2>3. DOMAIN hands'[Loop] = {1}
    BY <1>4, <2>1, <2>2
  <2>4. hands'[Loop][1].e = e
    BY <2>3 DEF Has
  <2> QED
    BY <1>4, <2>1, <2>4
<1> HIDE DEF Coming, Waits, LiveItem, LiveEvent, Due, AskedFor, Doubtful
<1> QED
  BY <1>1, <1>2, <1>5, <1>6, <1>7 DEF OnceFor, Count

LEMMA AskedOnce ==
  ASSUME Safe, NEW e \in Event, OnceFor(e), Asked(Loop)
  PROVE  OnceFor(e)'
<1>1. told[e] \in Nat /\ cuts \in Nat
  BY Numbers
<1>2. UNCHANGED <<arrived, pending, room, off, cuts>>
  BY DEF Asked, journal, held, outside
<1>3. /\ Same(Timer) /\ pc[Loop] = "asked" /\ hands'[Loop] = <<>>
      /\ \/ told' = told
         \/ told' = [told EXCEPT ![Head(hands[Loop]).e] =
                       told[Head(hands[Loop]).e] + 1]
  BY Both, AskedMoves DEF Moves
<1>4. /\ (Coming(e)' => Coming(e)) /\ (Waits(e)' => Waits(e))
      /\ (LiveItem(e)' => LiveItem(e)) /\ (LiveEvent(e)' => LiveEvent(e))
      /\ (Due(e)' => Due(e)) /\ (Doubtful(e)' => Doubtful(e)) /\ ~ AskedFor(e)'
  BY <1>2, <1>3 DEF Same, Coming, Waits, Has, LiveItem, LiveEvent, Spent, Due,
     InTurn, Doubtful, Doubt, Hand, AskedFor
<1>5. told'[e] = told[e] \/ (told'[e] = told[e] + 1 /\ e = Head(hands[Loop]).e)
  BY <1>3 DEF Safe, StoredOK
<1>6. e = Head(hands[Loop]).e => AskedFor(e)
  <2>1. Head(hands[Loop]) = hands[Loop][1] /\ 1 \in DOMAIN hands[Loop]
    BY <1>3, Both, HandIs DEF Safe, Threads, Alone
  <2> QED
    BY <2>1 DEF AskedFor, Has
<1> HIDE DEF Coming, Waits, LiveItem, LiveEvent, Due, AskedFor, Doubtful
<1> QED
  BY <1>1, <1>2, <1>4, <1>5, <1>6 DEF OnceFor, Count

LEMMA OutsideOnce ==
  ASSUME Safe, NEW e \in Event, OnceFor(e), Outside1
  PROVE  OnceFor(e)'
<1>1. told[e] \in Nat /\ cuts \in Nat
  BY Numbers
<1>2. CASE append
  <2>1. /\ arrived' = arrived + 1 /\ pending' = pending \cup {arrived + 1}
        /\ UNCHANGED <<room, off, pc, hands, surface, rule, told, cuts>>
    BY <1>2 DEF append, held, outside, turn, history
  <2>2. /\ (Waits(e)' => Waits(e)) /\ (LiveItem(e)' => LiveItem(e))
        /\ (LiveEvent(e)' => LiveEvent(e)) /\ (AskedFor(e)' => AskedFor(e))
        /\ (Doubtful(e)' => Doubtful(e))
    BY <2>1 DEF Waits, Has, LiveItem, LiveEvent, Spent, AskedFor, Doubtful, Doubt,
       Hand
  <2>3. arrived \in Nat /\ e \in Nat
    <3>1. Event = 1..Len(Events) /\ Len(Events) \in Nat
      BY MindAssumption DEF Event
    <3> QED
      BY <3>1 DEF Safe, StoredOK
  <2>4. CASE e = arrived + 1
    <3>1. Coming(e) /\ ~ Coming(e)'
      BY <2>1, <2>3, <2>4 DEF Coming
    <3> HIDE DEF Coming, Waits, LiveItem, LiveEvent, Due, AskedFor, Doubtful
    <3> QED
      BY <1>1, <2>1, <2>2, <3>1 DEF OnceFor, Count
  <2>5. CASE e # arrived + 1
    <3>1. (Coming(e)' => Coming(e)) /\ (Due(e)' => Due(e))
      BY <2>1, <2>3, <2>5 DEF Coming, Due, InTurn, Hand
    <3> QED
      BY <2>1, <2>2, <3>1, FewerOnce
  <2> QED
    BY <2>4, <2>5
<1>3. CASE WorldMoves \/ SwitchOn \/ Ages \/ NewDay
  <2>1. /\ UNCHANGED <<arrived, pending, room, pc, hands, surface, rule, told, cuts>>
        /\ off' \subseteq off
    BY <1>3 DEF WorldMoves, SwitchOn, Ages, NewDay, journal, held, outside, turn,
       history
  <2>2. (Doubtful(e)' => Doubtful(e)) /\ (Waits(e)' => Waits(e)) /\ (Spent => Spent')
    BY <2>1 DEF Doubtful, Doubt, Waits, Has, Spent, Hand
  <2> QED
    BY <2>1, <2>2, SameHands, FewerOnce
<1>4. CASE SwitchOff
  <2>1. /\ UNCHANGED <<arrived, pending, room, pc, hands, surface, rule, told>>
        /\ cuts' = cuts + 1
    BY <1>4 DEF SwitchOff, journal, held, turn
  <2>2. /\ (Coming(e)' => Coming(e)) /\ (Waits(e)' => Waits(e))
        /\ (LiveItem(e)' => LiveItem(e)) /\ (LiveEvent(e)' => LiveEvent(e))
        /\ (Due(e)' => Due(e)) /\ (AskedFor(e)' => AskedFor(e))
    BY <2>1 DEF Coming, Waits, Has, LiveItem, LiveEvent, Spent, Due, InTurn,
       AskedFor, Hand
  <2> HIDE DEF Coming, Waits, LiveItem, LiveEvent, Due, AskedFor, Doubtful
  <2> QED
    BY <1>1, <2>1, <2>2 DEF OnceFor, Count
<1>5. CASE Crash
  <2>1. /\ UNCHANGED <<arrived, pending, told>> /\ cuts' = cuts + 1 /\ room' = file
        /\ pc' = [t \in Thread |-> "idle"] /\ hands' = [t \in Thread |-> <<>>]
    BY <1>5 DEF Crash, journal
  <2>2. hands'[Timer] = <<>> /\ hands'[Loop] = <<>> /\ pc'[Timer] = "idle"
    BY <2>1, Both
  <2>3. /\ ~ LiveItem(e)' /\ ~ LiveEvent(e)' /\ ~ AskedFor(e)' /\ ~ Doubtful(e)'
        /\ (Coming(e)' => Coming(e))
    BY <2>1, <2>2 DEF LiveItem, LiveEvent, AskedFor, Has, Doubtful, Doubt, Coming,
       Hand
  <2>4. Waits(e)' => Waits(e)
    <3>1. DOMAIN file = DOMAIN room /\ \A i \in DOMAIN room : file[i].e = room[i].e
      BY DEF Safe, HeldOK
    <3> QED
      BY <2>1, <3>1 DEF Waits, Has
  <2> HIDE DEF Coming, Waits, LiveItem, LiveEvent, Due, AskedFor, Doubtful
  <2> QED
    <3>1. told'[e] = told[e] /\ cuts' = cuts + 1
      BY <2>1
    <3> QED
      BY <1>1, <2>3, <2>4, <3>1 DEF OnceFor, Count
<1> QED
  BY <1>2, <1>3, <1>4, <1>5 DEF Outside1

LEMMA OnceKeeps ==
  ASSUME RequestTicks = FALSE, Safe, Lone, Once, [Next]_vars
  PROVE  Once'
<1> SUFFICES ASSUME NEW e \in Event PROVE OnceFor(e)'
  BY DEF Once
<1>1. OnceFor(e)
  BY DEF Once
<1>2. CASE Next
  BY <1>1, <1>2, Steps, TurnOnce, SayWaitingOnce, AskedOnce, OutsideOnce DEF Around1
<1>3. CASE UNCHANGED vars
  <2>1. UNCHANGED <<arrived, pending, room, off, pc, hands, surface, rule, told,
                    cuts>>
    BY <1>3 DEF vars, journal, held, outside, turn, history
  <2>2. (Doubtful(e)' => Doubtful(e)) /\ (Waits(e)' => Waits(e)) /\ (Spent => Spent')
    BY <2>1 DEF Doubtful, Doubt, Waits, Has, Spent, Hand
  <2> QED
    BY <1>1, <2>1, <2>2, SameHands, FewerOnce
<1> QED
  BY <1>2, <1>3

LEMMA OnceStarts ==
  ASSUME Init
  PROVE  Once
<1> SUFFICES ASSUME NEW e \in Event PROVE OnceFor(e)
  BY DEF Once
<1>1. /\ told[e] = 0 /\ cuts = 0 /\ room = <<>> /\ pending = {}
      /\ hands[Timer] = <<>> /\ hands[Loop] = <<>> /\ pc[Timer] = "idle"
  BY Both DEF Init
<1>2. /\ ~ Waits(e) /\ ~ LiveItem(e) /\ ~ LiveEvent(e) /\ ~ Due(e)
      /\ ~ AskedFor(e) /\ ~ Doubtful(e)
  BY <1>1 DEF Waits, Has, LiveItem, LiveEvent, Due, AskedFor, Doubtful, Doubt, Hand
<1> HIDE DEF Coming, Waits, LiveItem, LiveEvent, Due, AskedFor, Doubtful
<1> QED
  BY <1>1, <1>2 DEF OnceFor, Count

(* An event is told once, at once, after a wait, because the person asked  *)
(* or on the phone; a crash or a switch repeats at most one telling.       *)
THEOREM ToldOnce ==
  ASSUME RequestTicks = FALSE
  PROVE  Spec => []SaidOnce
<1> DEFINE Inv == Safe /\ Lone /\ Once
<1>1. Init => Inv
  BY Starts, BooksStart, OnceStarts
<1>2. Inv /\ [Next]_vars => Inv'
  BY SafeKeeps, LoneKeeps, OnceKeeps
<1>3. Inv => SaidOnce
  <2> SUFFICES ASSUME Inv, NEW e \in Event PROVE told[e] <= 1 + cuts
    BY DEF SaidOnce
  <2>1. told[e] \in Nat /\ cuts \in Nat /\ OnceFor(e)
    BY Numbers DEF Once
  <2> HIDE DEF Coming, Waits, LiveItem, LiveEvent, Due, AskedFor, Doubtful
  <2> QED
    BY <2>1 DEF OnceFor, Count
<1> QED
  BY <1>1, <1>2, <1>3, PTL DEF Spec
=============================================================================
