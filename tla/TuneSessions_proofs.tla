-------------------------- MODULE TuneSessions_proofs --------------------------
(***************************************************************************)
(* Proofs about TuneSessions.                                              *)
(***************************************************************************)
EXTENDS TuneSessionsInv, FiniteSetTheorems, TLAPS

-----------------------------------------------------------------------------
(* Numbers and lists.                                                      *)

LEMMA SetInduction ==
  ASSUME NEW S, 0 \in S, \A n \in Nat : n \in S => n + 1 \in S
  PROVE  Nat \subseteq S
<1> DEFINE R == OpToRel(<, Nat)
           T == Nat \ S
<1>1. IsWellFoundedOn(R, Nat)
  BY NatLessThanWellFounded, Zenon
<1>2. SUFFICES ASSUME T # {} PROVE FALSE
  OBVIOUS
<1> HIDE DEF R
<1>3. PICK x \in T : \A y \in T : ~(<<y, x>> \in R)
  BY <1>1, <1>2, WFMin
<1>4. x # 0 /\ x - 1 \in Nat /\ x - 1 < x
  BY <1>3
<1>5. x - 1 \in T
  <2>1. (x - 1) + 1 = x
    BY <1>3, <1>4
  <2> QED BY <1>3, <1>4, <2>1
<1>6. <<x - 1, x>> \in R
  BY <1>3, <1>4 DEF R, OpToRel
<1> QED BY <1>3, <1>5, <1>6

LEMMA MinFacts ==
  ASSUME NEW S, S \subseteq Nat, S # {}
  PROVE  Min(S) \in S /\ \A x \in S : Min(S) <= x
<1> DEFINE R == OpToRel(<, Nat)
<1>1. IsWellFoundedOn(R, Nat)
  BY NatLessThanWellFounded, Zenon
<1> HIDE DEF R
<1>2. PICK m \in S : \A y \in S : ~(<<y, m>> \in R)
  BY <1>1, WFMin
<1>3. ASSUME NEW y \in S PROVE m <= y
  <2>1. SUFFICES ASSUME y < m PROVE FALSE
    OBVIOUS
  <2>2. <<y, m>> \in R
    BY <2>1 DEF R, OpToRel
  <2> QED BY <1>2, <2>2
<1> QED BY <1>2, <1>3 DEF Min

LEMMA MaxFacts ==
  ASSUME NEW S, S \subseteq Nat, S # {}, NEW b \in Nat, \A x \in S : x <= b
  PROVE  Max(S) \in S /\ \A x \in S : Max(S) >= x
<1> DEFINE B == {n \in Nat : \A x \in S : x <= n}
<1>1. Min(B) \in B /\ \A n \in B : Min(B) <= n
  <2>1. B \subseteq Nat /\ b \in B
    OBVIOUS
  <2> HIDE DEF B
  <2> QED BY <2>1, MinFacts
<1> DEFINE m == Min(B)
<1>2. m \in Nat /\ \A x \in S : x <= m
  BY <1>1
<1> HIDE DEF m
<1>3. m \in S
  <2>1. SUFFICES ASSUME m \notin S PROVE FALSE
    OBVIOUS
  <2>2. ASSUME NEW x \in S PROVE x \in Nat /\ x <= m - 1
    <3>1. x \in Nat /\ x <= m /\ x # m
      BY <1>2, <2>1
    <3> QED BY <1>2, <3>1
  <2>3. m - 1 \in Nat
    <3>1. PICK x \in S : TRUE
      OBVIOUS
    <3>2. x \in Nat /\ x <= m - 1
      BY <2>2
    <3> QED BY <1>2, <3>2
  <2>4. m - 1 \in B
    BY <2>2, <2>3
  <2> QED BY <1>1, <1>2, <2>4 DEF m
<1> QED BY <1>2, <1>3 DEF Max

\* A function on a set of numbers 1..n has its values bounded.
LEMMA Bounded ==
  ASSUME NEW n \in Nat, NEW f, \A i \in 1..n : f[i] \in Nat
  PROVE  \E b \in Nat : \A i \in 1..n : f[i] <= b
<1> DEFINE P == {m \in Nat : m <= n => \E b \in Nat : \A i \in 1..m : f[i] <= b}
<1>1. 0 \in P
  OBVIOUS
<1>2. ASSUME NEW m \in Nat, m \in P PROVE m + 1 \in P
  <2>1. SUFFICES ASSUME m + 1 <= n PROVE \E b \in Nat : \A i \in 1..(m + 1) : f[i] <= b
    OBVIOUS
  <2>2. PICK b \in Nat : \A i \in 1..m : f[i] <= b
    BY <1>2, <2>1
  <2>3. f[m + 1] \in Nat /\ \A i \in 1..m : f[i] \in Nat
    BY <2>1
  <2>4. PICK c \in Nat : c >= b /\ c >= f[m + 1]
    BY <2>3
  <2>5. \A i \in 1..(m + 1) : i \in 1..m \/ i = m + 1
    OBVIOUS
  <2>6. \A i \in 1..(m + 1) : f[i] <= c
    BY <2>2, <2>3, <2>4, <2>5
  <2> QED BY <2>6
<1>3. Nat \subseteq P
  <2> HIDE DEF P
  <2> QED BY <1>1, <1>2, SetInduction
<1>4. n \in P /\ n <= n
  <2> HIDE DEF P
  <2> QED BY <1>3
<1> QED BY <1>4

\* The values f of a recursion over 1..N that stays in T.
Closed(F, N, T) == \A m \in 1..N : \A x \in T : F[m][x] \in T
IsIteration(f, F, base, N, T) ==
  /\ DOMAIN f = 0..N /\ f = [m \in 0..N |-> f[m]] /\ f[0] = base
  /\ \A m \in 0..N : f[m] \in T
  /\ \A m \in 1..N : f[m] = F[m][f[m - 1]]

LEMMA Iterates ==
  ASSUME NEW N \in Nat, NEW T, NEW base \in T, NEW F, Closed(F, N, T)
  PROVE  \E f : IsIteration(f, F, base, N, T)
<1> USE DEF Closed
<1> DEFINE Solves(f, n) == IsIteration(f, F, base, n, T)
           P == {n \in Nat : n <= N => \E f : Solves(f, n)}
<1>1. 0 \in P
  <2>1. Solves([m \in 0..0 |-> base], 0)
    BY DEF IsIteration
  <2> QED BY <2>1
<1>2. ASSUME NEW n \in Nat, n \in P PROVE n + 1 \in P
  <2>1. SUFFICES ASSUME n + 1 <= N PROVE \E f : Solves(f, n + 1)
    OBVIOUS
  <2>2. PICK f : Solves(f, n)
    BY <1>2, <2>1
  <2> DEFINE g == [m \in 0..(n + 1) |-> IF m = n + 1 THEN F[n + 1][f[n]] ELSE f[m]]
  <2>3. /\ DOMAIN g = 0..(n + 1) /\ g = [m \in 0..(n + 1) |-> g[m]]
        /\ g[n + 1] = F[n + 1][f[n]] /\ \A m \in 0..n : g[m] = f[m]
    OBVIOUS
  <2> HIDE DEF g
  <2>4. f[n] \in T /\ n + 1 \in 1..N
    BY <2>1, <2>2 DEF IsIteration
  <2>5. ASSUME NEW m \in 0..(n + 1) PROVE g[m] \in T
    <3>1. CASE m = n + 1
      BY <2>3, <2>4, <3>1
    <3>2. CASE m \in 0..n
      BY <2>2, <2>3, <3>2 DEF IsIteration
    <3> QED BY <3>1, <3>2
  <2>6. ASSUME NEW m \in 1..(n + 1) PROVE g[m] = F[m][g[m - 1]]
    <3>1. CASE m = n + 1
      <4>1. m - 1 = n /\ n \in 0..n
        BY <3>1
      <4> QED BY <2>3, <3>1, <4>1
    <3>2. CASE m \in 1..n
      <4>1. m \in 0..n /\ m - 1 \in 0..n
        BY <3>2
      <4> QED BY <2>2, <2>3, <3>2, <4>1 DEF IsIteration
    <3> QED BY <3>1, <3>2
  <2>7. g[0] = base
    <3>1. 0 \in 0..n
      OBVIOUS
    <3> QED BY <2>2, <2>3, <3>1 DEF IsIteration
  <2> QED BY <2>3, <2>5, <2>6, <2>7 DEF IsIteration
<1>3. Nat \subseteq P
  <2> HIDE DEF P
  <2> QED BY <1>1, <1>2, SetInduction
<1>4. N \in P /\ N <= N
  <2> HIDE DEF P
  <2> QED BY <1>3
<1> QED BY <1>4
\* Lists of pairs of different keys.
OneEach(s) == \A i, j \in DOMAIN s : s[i][1] = s[j][1] => i = j

LEMMA AppendFacts ==
  ASSUME NEW S, NEW s \in Seq(S), NEW x \in S
  PROVE  /\ Append(s, x) \in Seq(S) /\ DOMAIN Append(s, x) = 1..(Len(s) + 1)
         /\ DOMAIN s = 1..Len(s) /\ Len(s) \in Nat /\ Len(Append(s, x)) = Len(s) + 1
         /\ \A i \in DOMAIN s : i \in DOMAIN Append(s, x) /\ Append(s, x)[i] = s[i] /\ i # Len(s) + 1
         /\ Append(s, x)[Len(s) + 1] = x /\ Len(s) + 1 \in DOMAIN Append(s, x)
         /\ \A i \in DOMAIN Append(s, x) : i \in DOMAIN s \/ i = Len(s) + 1
OBVIOUS

LEMMA AppendOneEach ==
  ASSUME NEW S, NEW s \in Seq(S), NEW x \in S, OneEach(s), \A i \in DOMAIN s : s[i][1] # x[1]
  PROVE  OneEach(Append(s, x))
<1> DEFINE t == Append(s, x)
<1>1. /\ \A i \in DOMAIN s : i \in DOMAIN t /\ t[i] = s[i] /\ i # Len(s) + 1
      /\ t[Len(s) + 1] = x /\ \A i \in DOMAIN t : i \in DOMAIN s \/ i = Len(s) + 1
  BY AppendFacts
<1> HIDE DEF t
<1> QED BY <1>1 DEF OneEach, t

\* What Selected(s, I) returns.
LEMMA SelectedFacts ==
  ASSUME NEW S, NEW s \in Seq(S), NEW I
  PROVE  /\ Selected(s, I) \in Seq(S)
         /\ \A i \in DOMAIN Selected(s, I) : \E k \in DOMAIN s : k \in I /\ Selected(s, I)[i] = s[k]
         /\ \A k \in DOMAIN s : k \in I => \E i \in DOMAIN Selected(s, I) : Selected(s, I)[i] = s[k]
         /\ OneEach(s) => OneEach(Selected(s, I))
<1> DEFINE N == Len(s)
           Body(f, n) == IF n = 0 THEN <<>>
                         ELSE IF n \in I THEN Append(f[n - 1], s[n]) ELSE f[n - 1]
           Solves(f) == f = [n \in 0..N |-> Body(f, n)]
           upTo == CHOOSE f : Solves(f)
<1>1. N \in Nat /\ DOMAIN s = 1..N /\ \A n \in 1..N : s[n] \in S
  OBVIOUS
<1>2. Selected(s, I) = upTo[N]
  BY DEF Selected
<1>3. \E f : Solves(f)
  <2> DEFINE F == [m \in 1..N |-> [x \in Seq(S) |-> IF m \in I THEN Append(x, s[m]) ELSE x]]
  <2>1. ASSUME NEW m \in 1..N, NEW x \in Seq(S)
        PROVE  F[m][x] = (IF m \in I THEN Append(x, s[m]) ELSE x) /\ F[m][x] \in Seq(S)
    <3>1. s[m] \in S
      BY <1>1
    <3>2. F[m][x] = (IF m \in I THEN Append(x, s[m]) ELSE x)
      OBVIOUS
    <3> HIDE DEF F
    <3> QED BY <3>1, <3>2, AppendFacts
  <2> HIDE DEF F
  <2>2. PICK f : IsIteration(f, F, <<>>, N, Seq(S))
    <3>1. <<>> \in Seq(S) /\ Closed(F, N, Seq(S))
      BY <2>1 DEF Closed
    <3> QED BY <1>1, <3>1, Iterates
  <2>3. ASSUME NEW m \in 0..N PROVE f[m] = Body(f, m)
    <3>1. CASE m = 0
      BY <2>2, <3>1 DEF IsIteration
    <3>2. CASE m \in 1..N
      <4>1. m - 1 \in 0..N /\ m # 0
        BY <1>1, <3>2
      <4>2. f[m - 1] \in Seq(S) /\ f[m] = F[m][f[m - 1]]
        BY <2>2, <3>2, <4>1 DEF IsIteration
      <4>3. F[m][f[m - 1]] = IF m \in I THEN Append(f[m - 1], s[m]) ELSE f[m - 1]
        BY <2>1, <3>2, <4>2
      <4> QED BY <4>1, <4>2, <4>3
    <3> QED BY <1>1, <3>1, <3>2
  <2>4. [m \in 0..N |-> f[m]] = [m \in 0..N |-> Body(f, m)]
    <3> HIDE DEF Body
    <3> QED BY <2>3
  <2> QED BY <2>2, <2>4 DEF IsIteration
<1>4. Solves(upTo)
  <2> HIDE DEF Solves
  <2> QED BY <1>3
<1>5. \A n \in 0..N : upTo[n] = Body(upTo, n)
  <2> HIDE DEF upTo, Body
  <2> QED BY <1>4
<1> HIDE DEF upTo
<1> DEFINE Holds(n) ==
             /\ upTo[n] \in Seq(S)
             /\ \A i \in DOMAIN upTo[n] : \E k \in 1..n : k \in I /\ upTo[n][i] = s[k]
             /\ \A k \in 1..n : k \in I => \E i \in DOMAIN upTo[n] : upTo[n][i] = s[k]
             /\ OneEach(s) => OneEach(upTo[n])
           P == {n \in Nat : n <= N => Holds(n)}
<1>6. Holds(0)
  <2>1. upTo[0] = <<>>
    BY <1>1, <1>5
  <2> QED BY <2>1 DEF OneEach
<1>7. ASSUME NEW n \in Nat, n + 1 <= N, Holds(n) PROVE Holds(n + 1)
  <2> DEFINE t == upTo[n]  u == upTo[n + 1]  x == s[n + 1]
  <2>1. x \in S /\ n + 1 \in 1..N /\ n + 1 \in DOMAIN s
    BY <1>1, <1>7
  <2>2. u = IF n + 1 \in I THEN Append(t, x) ELSE t
    <3>1. n + 1 \in 0..N /\ n + 1 # 0 /\ (n + 1) - 1 = n
      BY <2>1
    <3> QED BY <1>5, <3>1
  <2>3. \A k \in 1..(n + 1) : k \in 1..n \/ k = n + 1
    OBVIOUS
  <2>4. \A k \in 1..n : k \in 1..(n + 1)
    OBVIOUS
  <2>5. /\ t \in Seq(S)
        /\ \A i \in DOMAIN t : \E k \in 1..n : k \in I /\ t[i] = s[k]
        /\ \A k \in 1..n : k \in I => \E i \in DOMAIN t : t[i] = s[k]
        /\ OneEach(s) => OneEach(t)
    BY <1>7
  <2> HIDE DEF t, u, x
  <2>6. CASE n + 1 \notin I
    <3>1. u = t
      BY <2>2, <2>6
    <3> QED BY <2>3, <2>4, <2>5, <2>6, <3>1 DEF t, u
  <2>7. CASE n + 1 \in I
    <3>1. /\ u \in Seq(S) /\ DOMAIN t \subseteq DOMAIN u
          /\ \A i \in DOMAIN t : u[i] = t[i]
          /\ u[Len(t) + 1] = x /\ Len(t) + 1 \in DOMAIN u
          /\ \A i \in DOMAIN u : i \in DOMAIN t \/ i = Len(t) + 1
      BY <2>1, <2>2, <2>5, <2>7, AppendFacts
    <3>2. ASSUME NEW i \in DOMAIN u PROVE \E k \in 1..(n + 1) : k \in I /\ u[i] = s[k]
      <4>1. CASE i \in DOMAIN t
        BY <2>4, <2>5, <3>1, <4>1
      <4>2. CASE i = Len(t) + 1
        <5>1. n + 1 \in 1..(n + 1) /\ u[i] = s[n + 1]
          BY <3>1, <4>2 DEF x
        <5> QED BY <2>7, <5>1
      <4> QED BY <3>1, <4>1, <4>2
    <3>3. \A k \in 1..(n + 1) : k \in I => \E i \in DOMAIN u : u[i] = s[k]
      BY <2>3, <2>5, <3>1 DEF x
    <3>4. ASSUME OneEach(s) PROVE OneEach(u)
      <4>1. ASSUME NEW i \in DOMAIN t PROVE t[i][1] # x[1]
        <5>1. PICK k \in 1..n : t[i] = s[k]
          BY <2>5
        <5>2. k \in DOMAIN s /\ k # n + 1
          BY <1>1, <1>7, <5>1
        <5>3. s[k][1] # s[n + 1][1]
          BY <2>1, <3>4, <5>2 DEF OneEach
        <5> QED BY <5>1, <5>3 DEF x
      <4> QED BY <2>1, <2>2, <2>5, <2>7, <3>4, <4>1, AppendOneEach
    <3> QED BY <3>1, <3>2, <3>3, <3>4 DEF u
  <2> QED BY <2>6, <2>7
<1>8. \A n \in Nat : n \in P => n + 1 \in P
  <2>1. ASSUME NEW n \in Nat, n \in P PROVE n + 1 <= N => Holds(n + 1)
    <3>1. n + 1 <= N => n <= N
      BY <1>1
    <3>2. n <= N => Holds(n)
      BY <2>1
    <3> HIDE DEF Holds
    <3> QED BY <1>7, <3>1, <3>2
  <2> HIDE DEF Holds
  <2> QED BY <2>1
<1>9. Nat \subseteq P
  <2>1. 0 \in P
    BY <1>6
  <2> HIDE DEF P
  <2> QED BY <1>8, <2>1, SetInduction
<1>10. Holds(N)
  <2>1. N \in P
    <3> HIDE DEF P
    <3> QED BY <1>1, <1>9
  <2>2. N <= N
    BY <1>1
  <2> HIDE DEF Holds
  <2> QED BY <2>1, <2>2
<1>11. /\ upTo[N] \in Seq(S)
       /\ \A i \in DOMAIN upTo[N] : \E k \in DOMAIN s : k \in I /\ upTo[N][i] = s[k]
       /\ \A k \in DOMAIN s : k \in I => \E i \in DOMAIN upTo[N] : upTo[N][i] = s[k]
       /\ OneEach(s) => OneEach(upTo[N])
  <2> HIDE DEF N, P
  <2> QED BY <1>1, <1>10
<1> HIDE DEF N, P, Holds
<1> QED BY <1>2, <1>11

-----------------------------------------------------------------------------
(* What the resolver and the generator come up with.                       *)

LEMMA ConfigFacts ==
  \A f : f \in Configs <=> DOMAIN f \subseteq Keys /\ f \in [DOMAIN f -> Values]
BY DEF Configs

\* In a list, the last place with a property.
LEMMA LastPlace ==
  ASSUME NEW S, NEW s \in Seq(S), NEW I, I \subseteq DOMAIN s, I # {}
  PROVE  \E i \in I : \A j \in I : j <= i
<1>1. I \subseteq Nat /\ Len(s) \in Nat /\ \A i \in I : i <= Len(s)
  OBVIOUS
<1>2. Max(I) \in I /\ \A j \in I : Max(I) >= j
  BY <1>1, MaxFacts
<1>3. \A j \in I : j <= Max(I)
  BY <1>1, <1>2
<1> QED BY <1>2, <1>3

LEMMA RecipeValuesTyped ==
  ASSUME NEW steps \in Seq(Pairs), NEW k \in DOMAIN RecipeValues(steps)
  PROVE  RecipeValues(steps)[k] \in Values
<1> DEFINE I == {i \in DOMAIN steps : steps[i][1] = k}
           IsLast(i) == steps[i][1] = k /\ \A j \in DOMAIN steps : steps[j][1] = k => j <= i
           last == CHOOSE i \in DOMAIN steps : IsLast(i)
<1>1. I # {} /\ RecipeValues(steps)[k] = steps[last][2]
  BY DEF RecipeValues
<1>2. \E i \in DOMAIN steps : IsLast(i)
  <2>1. PICK i \in I : \A j \in I : j <= i
    BY <1>1, LastPlace
  <2> QED BY <2>1
<1>3. last \in DOMAIN steps
  <2> HIDE DEF IsLast
  <2> QED BY <1>2
<1> HIDE DEF last
<1> QED BY <1>1, <1>3 DEF Pairs

LEMMA AutofixesTyped ==
  ASSUME NEW current, NEW k \in DOMAIN Autofixes(current)
  PROVE  Autofixes(current)[k] \in Values
<1> DEFINE firing == Firing(current)
           I == {i \in firing : Rules[i].key = k}
           IsLast(i) == Rules[i].key = k /\ \A j \in firing : Rules[j].key = k => j <= i
           last == CHOOSE i \in firing : IsLast(i)
<1>1. I # {} /\ Autofixes(current)[k] = Rules[last].value
  BY DEF Autofixes
<1>2. \E i \in firing : IsLast(i)
  <2>1. Rules \in Seq(Range(Rules)) /\ I \subseteq DOMAIN Rules
    BY GraphAssumption DEF Firing
  <2>2. PICK i \in I : \A j \in I : j <= i
    BY <1>1, <2>1, LastPlace
  <2> QED BY <2>2
<1>3. last \in firing
  <2> HIDE DEF IsLast, firing
  <2> QED BY <1>2
<1> HIDE DEF last
<1> QED BY <1>1, <1>3, GraphAssumption DEF Firing

\* An input of the resolver, as far as values go.
InputTyped(input) ==
  input.recipe \in Seq(Pairs) /\ input.best \in Configs

Sourced == {"recipe", "kb", "graph", "autofix", "llm"}

LEMMA OfferTyped ==
  ASSUME NEW i \in DOMAIN Graph, NEW input, InputTyped(input), NEW source \in Sourced
  PROVE  Offer(source, Graph[i], input) \in Values \cup {Unset, Deferred}
<1> DEFINE p == Graph[i]
<1>1. /\ p.target \in Values \cup {Unset} /\ p.expr \in Values \cup {Unset}
      /\ p.floor \in Values \cup {Unset} /\ p.ceiling \in Values \cup {Unset}
  BY GraphAssumption
<1> HIDE DEF p
<1>2. CASE source = "recipe"
  <2>1. RecipeValue(p, input) \in Values \cup {Unset}
    BY RecipeValuesTyped DEF RecipeValue, Lookup, InputTyped
  <2> QED BY <1>2, <2>1 DEF Offer, p
<1>3. CASE source = "kb"
  <2>1. Lookup(input.best, p.key) \in Values \cup {Unset}
    BY ConfigFacts DEF Lookup, InputTyped
  <2> QED BY <1>3, <2>1 DEF Offer, p
<1>4. CASE source = "graph"
  <2>1. \A now : GraphValue(p, now) \in Values \cup {Unset}
    BY <1>1 DEF GraphValue
  <2> QED BY <1>4, <2>1 DEF Offer, p
<1>5. CASE source = "autofix"
  <2>1. Lookup(Autofixes(input.current), p.key) \in Values \cup {Unset}
    BY AutofixesTyped DEF Lookup
  <2> QED BY <1>5, <2>1 DEF Offer, p
<1>6. CASE source = "llm"
  BY <1>6 DEF Offer
<1> QED BY <1>2, <1>3, <1>4, <1>5, <1>6 DEF Sourced

LEMMA ResolvedValueFacts ==
  ASSUME NEW i \in DOMAIN Graph, NEW input, InputTyped(input),
         ResolvedValue(Graph[i], input) \notin {Unset, Deferred}
  PROVE  /\ ResolvedValue(Graph[i], input) \in Values
         /\ <<Graph[i].key, ResolvedValue(Graph[i], input)>> \notin input.blocked
<1> DEFINE p == Graph[i]
           Value(j) == Offer(p.from[j], p, input)
           Decides(j) == Value(j) # Unset
                         /\ (Value(j) = input.current[p.key] \/ <<p.key, Value(j)>> \notin input.blocked)
           deciding == {j \in DOMAIN p.from : Decides(j) /\ \A l \in 1..(j - 1) : ~Decides(l)}
           chosen == CHOOSE j \in deciding : TRUE
           v == Value(chosen)
<1>1. ResolvedValue(p, input) = IF deciding = {} THEN Unset
                                ELSE IF v = input.current[p.key] THEN Unset ELSE v
  BY DEF ResolvedValue
<1> HIDE DEF p
<1>2. deciding # {} /\ v # input.current[p.key] /\ ResolvedValue(p, input) = v
  <2> HIDE DEF deciding, v
  <2> QED BY <1>1 DEF p
<1>3. chosen \in deciding
  <2> HIDE DEF deciding
  <2> QED BY <1>2
<1>4. <<p.key, v>> \notin input.blocked /\ chosen \in DOMAIN p.from
  <2> HIDE DEF chosen
  <2> QED BY <1>2, <1>3
<1>5. v \in Values \cup {Unset, Deferred}
  <2>1. p.from[chosen] \in Sourced
    BY <1>4, GraphAssumption DEF Sourced, p
  <2> HIDE DEF chosen
  <2> QED BY <2>1, OfferTyped DEF p
<1> HIDE DEF v
<1> QED BY <1>2, <1>4, <1>5 DEF p

\* Pairs that may be tried together: of different keys.
LEMMA ResolveFacts ==
  ASSUME NEW input, InputTyped(input)
  PROVE  /\ Resolve(input) \in Seq(Pairs) /\ OneEach(Resolve(input))
         /\ \A i \in DOMAIN Resolve(input) : Resolve(input)[i] \notin input.blocked
<1> DEFINE N == Len(Graph)
           Given(n) == Graph[n].key \in DOMAIN input.current /\ Graph[n].key \notin input.active
           V(n) == IF Given(n) THEN ResolvedValue(Graph[n], input) ELSE Unset
           Taken(n, x) == V(n) \notin {Unset, Deferred} /\ RespectsLimit(Graph[n], V(n), x)
           Step(n, x) == IF Taken(n, x) THEN Append(x, <<Graph[n].key, V(n)>>) ELSE x
           Body(f, n) == IF n = 0 THEN <<>> ELSE Step(n, f[n - 1])
           Solves(f) == f = [n \in 0..N |-> Body(f, n)]
           walk == CHOOSE f : Solves(f)
<1>1. N \in Nat /\ DOMAIN Graph = 1..N
  BY GraphAssumption
<1>2. Resolve(input) = walk[N]
  BY DEF Resolve
<1>3. ASSUME NEW n \in 1..N, V(n) \notin {Unset, Deferred}
      PROVE  <<Graph[n].key, V(n)>> \in Pairs /\ <<Graph[n].key, V(n)>> \notin input.blocked
  <2>1. Given(n) /\ V(n) = ResolvedValue(Graph[n], input)
    BY <1>3
  <2>2. V(n) \in Values /\ <<Graph[n].key, V(n)>> \notin input.blocked
    <3> HIDE DEF V, Given
    <3> QED BY <1>1, <1>3, <2>1, ResolvedValueFacts
  <2>3. Graph[n].key \in Keys
    BY <1>1 DEF Keys
  <2> HIDE DEF V
  <2> QED BY <2>2, <2>3 DEF Pairs
<1> HIDE DEF V
<1>4. ASSUME NEW n \in 1..N, NEW x \in Seq(Pairs) PROVE Step(n, x) \in Seq(Pairs)
  <2> HIDE DEF Taken
  <2>1. CASE Taken(n, x)
    <3>1. <<Graph[n].key, V(n)>> \in Pairs
      BY <1>3, <2>1 DEF Taken
    <3> DEFINE e == <<Graph[n].key, V(n)>>
    <3> HIDE DEF e
    <3>2. Append(x, e) \in Seq(Pairs)
      BY <3>1, AppendFacts DEF e
    <3> QED BY <2>1, <3>2 DEF e
  <2> QED BY <2>1
<1>5. \E f : Solves(f)
  <2> DEFINE F == [m \in 1..N |-> [x \in Seq(Pairs) |-> Step(m, x)]]
  <2>1. \A m \in 1..N : \A x \in Seq(Pairs) : F[m][x] = Step(m, x) /\ F[m][x] \in Seq(Pairs)
    <3> HIDE DEF Step
    <3> QED BY <1>4
  <2> HIDE DEF F, Step
  <2>2. PICK f : IsIteration(f, F, <<>>, N, Seq(Pairs))
    <3>1. <<>> \in Seq(Pairs) /\ Closed(F, N, Seq(Pairs))
      BY <2>1 DEF Closed
    <3> QED BY <1>1, <3>1, Iterates
  <2>3. ASSUME NEW m \in 0..N PROVE f[m] = Body(f, m)
    <3>1. CASE m = 0
      BY <2>2, <3>1 DEF IsIteration
    <3>2. CASE m \in 1..N
      <4>1. m - 1 \in 0..N /\ m # 0
        BY <1>1, <3>2
      <4>2. f[m - 1] \in Seq(Pairs) /\ f[m] = F[m][f[m - 1]]
        BY <2>2, <3>2, <4>1 DEF IsIteration
      <4> QED BY <2>1, <3>2, <4>1, <4>2
    <3> QED BY <1>1, <3>1, <3>2
  <2>4. [m \in 0..N |-> f[m]] = [m \in 0..N |-> Body(f, m)]
    <3> HIDE DEF Body
    <3> QED BY <2>3
  <2> QED BY <2>2, <2>4 DEF IsIteration
<1>6. Solves(walk)
  <2> HIDE DEF Solves
  <2> QED BY <1>5
<1>7. \A n \in 0..N : walk[n] = Body(walk, n)
  <2> HIDE DEF walk, Body
  <2> QED BY <1>6
<1> HIDE DEF walk
<1> DEFINE Holds(n) ==
             /\ walk[n] \in Seq(Pairs) /\ OneEach(walk[n])
             /\ \A i \in DOMAIN walk[n] : walk[n][i] \notin input.blocked
                                          /\ \E m \in 1..n : walk[n][i][1] = Graph[m].key
           P == {n \in Nat : n <= N => Holds(n)}
<1>8. Holds(0)
  <2>1. walk[0] = <<>>
    <3>1. 0 \in 0..N
      BY <1>1
    <3> HIDE DEF Step
    <3> QED BY <1>7, <3>1
  <2> QED BY <2>1 DEF OneEach
<1>9. ASSUME NEW n \in Nat, n + 1 <= N, Holds(n) PROVE Holds(n + 1)
  <2> DEFINE t == walk[n]  u == walk[n + 1]  x == <<Graph[n + 1].key, V(n + 1)>>
  <2>1. n + 1 \in 1..N /\ u = Step(n + 1, t)
    <3>1. n + 1 \in 0..N /\ n + 1 # 0 /\ (n + 1) - 1 = n /\ n + 1 \in 1..N
      BY <1>1, <1>9
    <3> HIDE DEF Step
    <3> QED BY <1>7, <3>1
  <2>2. /\ t \in Seq(Pairs) /\ OneEach(t)
        /\ \A i \in DOMAIN t : t[i] \notin input.blocked /\ \E m \in 1..n : t[i][1] = Graph[m].key
    BY <1>9
  <2>3. \A m \in 1..n : m \in 1..(n + 1)
    OBVIOUS
  <2> HIDE DEF t
  <2>4. CASE ~Taken(n + 1, t)
    <3>1. u = t
      BY <2>1, <2>4
    <3> HIDE DEF u
    <3> QED BY <2>2, <2>3, <3>1 DEF u
  <2>5. CASE Taken(n + 1, t)
    <3>1. u = Append(t, x)
      BY <2>1, <2>5
    <3>2. x \in Pairs /\ x \notin input.blocked
      BY <1>3, <2>1, <2>5
    <3>3. x[1] = Graph[n + 1].key
      OBVIOUS
    <3> HIDE DEF u, x
    <3>4. /\ u \in Seq(Pairs) /\ \A i \in DOMAIN t : u[i] = t[i]
          /\ u[Len(t) + 1] = x /\ \A i \in DOMAIN u : i \in DOMAIN t \/ i = Len(t) + 1
      BY <2>2, <3>1, <3>2, AppendFacts
    <3>5. \A i \in DOMAIN t : t[i][1] # x[1]
      <4>1. SUFFICES ASSUME NEW i \in DOMAIN t PROVE t[i][1] # x[1]
        OBVIOUS
      <4>2. PICK m \in 1..n : t[i][1] = Graph[m].key
        BY <2>2
      <4>3. m \in DOMAIN Graph /\ n + 1 \in DOMAIN Graph /\ m # n + 1
        BY <1>1, <2>1, <4>2
      <4> QED BY <3>3, <4>2, <4>3, GraphAssumption
    <3>6. OneEach(u)
      BY <2>2, <3>1, <3>2, <3>5, AppendOneEach
    <3>7. ASSUME NEW i \in DOMAIN u
          PROVE  u[i] \notin input.blocked /\ \E m \in 1..(n + 1) : u[i][1] = Graph[m].key
      <4>1. CASE i \in DOMAIN t
        BY <2>2, <2>3, <3>4, <4>1
      <4>2. CASE i = Len(t) + 1
        <5>1. n + 1 \in 1..(n + 1)
          OBVIOUS
        <5> QED BY <3>2, <3>3, <3>4, <4>2, <5>1
      <4> QED BY <3>4, <4>1, <4>2
    <3> QED BY <3>4, <3>6, <3>7 DEF u
  <2> HIDE DEF u, Taken
  <2> QED BY <2>4, <2>5
<1>10. \A n \in Nat : n \in P => n + 1 \in P
  <2>1. ASSUME NEW n \in Nat, n \in P PROVE n + 1 <= N => Holds(n + 1)
    <3>1. n + 1 <= N => n <= N
      BY <1>1
    <3>2. n <= N => Holds(n)
      BY <2>1
    <3> HIDE DEF Holds
    <3> QED BY <1>9, <3>1, <3>2
  <2> HIDE DEF Holds
  <2> QED BY <2>1
<1>11. Holds(N)
  <2>1. 0 \in P
    BY <1>8
  <2>2. N \in P /\ N <= N
    <3> HIDE DEF P
    <3> QED BY <1>1, <1>10, <2>1, SetInduction
  <2> QED BY <2>2
<1> QED BY <1>2, <1>11

\* The hypotheses of the loop: no key twice, the first one proposed.
Companions == [i \in DOMAIN ParameterGroups |-> <<ParameterGroups[i].key, ParameterGroups[i].value>>]

LEMMA WithGroupsFacts ==
  ASSUME NEW h \in Pairs, NEW current \in [Keys -> Values]
  PROVE  /\ WithGroups(<<h>>, current) \in Seq(Pairs) /\ OneEach(WithGroups(<<h>>, current))
         /\ WithGroups(<<h>>, current) # <<>>
<1> DEFINE first == [i \in DOMAIN <<h>> |-> Enforced(<<h>>[i], current)]
           e == Enforced(h, current)
           I == Missing(<<h>>, current)
           s == Selected(Companions, I)
<1>1. e \in Pairs /\ e[1] = h[1]
  <2> DEFINE same == {i \in DOMAIN ParameterGroups : ParameterGroups[i].key = h[1]}
             chosen == CHOOSE i \in same : TRUE
  <2>1. same # {} => chosen \in DOMAIN ParameterGroups
    OBVIOUS
  <2>2. e = IF same # {} /\ h[1] \in DOMAIN current
            THEN <<h[1], ParameterGroups[chosen].value>> ELSE h
    BY DEF Enforced
  <2>3. \A i \in DOMAIN ParameterGroups : ParameterGroups[i].value \in Values
    BY GraphAssumption
  <2> HIDE DEF same, chosen, e
  <2> QED BY <2>1, <2>2, <2>3 DEF Pairs
<1>2. first = <<e>>
  <2>1. DOMAIN <<h>> = 1..1 /\ <<h>>[1] = h
    OBVIOUS
  <2>2. first = [i \in 1..1 |-> e]
    BY <2>1
  <2> HIDE DEF e, first
  <2> QED BY <2>2
<1>3. Companions \in Seq(Range(Companions)) /\ DOMAIN Companions = DOMAIN ParameterGroups
  <2>1. ParameterGroups \in Seq(Range(ParameterGroups))
    BY GraphAssumption
  <2>2. DOMAIN ParameterGroups = 1..Len(ParameterGroups) /\ Len(ParameterGroups) \in Nat
    BY <2>1
  <2>3. DOMAIN Companions = 1..Len(ParameterGroups)
    BY <2>2 DEF Companions
  <2>4. Companions = [i \in 1..Len(ParameterGroups) |-> Companions[i]]
    BY <2>2 DEF Companions
  <2> QED BY <2>2, <2>3, <2>4 DEF Range
<1>4. OneEach(Companions)
  <2>1. \A i \in DOMAIN Companions : Companions[i][1] = ParameterGroups[i].key
    BY DEF Companions
  <2> QED BY <1>3, <2>1, GraphAssumption DEF OneEach
<1>5. \A i \in DOMAIN Companions : i \in I =>
         Companions[i] \in Pairs /\ Companions[i][1] # h[1]
  <2>1. SUFFICES ASSUME NEW i \in DOMAIN ParameterGroups, i \in I
                 PROVE  Companions[i] \in Pairs /\ Companions[i][1] # h[1]
    BY <1>3
  <2>2. ParameterGroups[i].key \in DOMAIN current \ KeysOf(<<h>>)
    BY <2>1 DEF Missing
  <2>3. ParameterGroups[i].key \in Keys /\ ParameterGroups[i].key # h[1]
    BY <2>2 DEF KeysOf
  <2>4. Companions[i] = <<ParameterGroups[i].key, ParameterGroups[i].value>>
    BY DEF Companions
  <2> QED BY <2>3, <2>4, GraphAssumption DEF Pairs
<1> HIDE DEF I
<1>6. /\ s \in Seq(Range(Companions)) /\ OneEach(s)
      /\ \A i \in DOMAIN s : s[i] \in Pairs /\ s[i][1] # h[1]
  BY <1>3, <1>4, <1>5, SelectedFacts
<1>7. s \in Seq(Pairs)
  <2> HIDE DEF s
  <2>1. DOMAIN s = 1..Len(s) /\ Len(s) \in Nat /\ s = [i \in 1..Len(s) |-> s[i]]
    BY <1>6
  <2> QED BY <1>6, <2>1
<1>8. WithGroups(<<h>>, current) = <<e>> \o s
  BY <1>2 DEF WithGroups, Companions, I
<1> HIDE DEF e, s
<1>9. /\ <<e>> \o s \in Seq(Pairs) /\ <<e>> \o s # <<>>
      /\ \A i \in DOMAIN (<<e>> \o s) : i = 1 \/ (i - 1 \in DOMAIN s /\ (<<e>> \o s)[i] = s[i - 1])
      /\ (<<e>> \o s)[1] = e
      /\ \A i \in DOMAIN (<<e>> \o s) : i \in Nat
  BY <1>1, <1>7
<1> DEFINE t == <<e>> \o s
<1> HIDE DEF t
<1>10. OneEach(t)
  <2>1. SUFFICES ASSUME NEW i \in DOMAIN t, NEW j \in DOMAIN t, t[i][1] = t[j][1] PROVE i = j
    BY DEF OneEach
  <2>2. /\ i \in Nat /\ j \in Nat /\ t[1][1] = h[1]
        /\ i = 1 \/ (i - 1 \in DOMAIN s /\ t[i] = s[i - 1])
        /\ j = 1 \/ (j - 1 \in DOMAIN s /\ t[j] = s[j - 1])
    BY <1>1, <1>9 DEF t
  <2>3. CASE i # 1 /\ j # 1
    <3>1. i - 1 = j - 1
      BY <1>6, <2>1, <2>2, <2>3 DEF OneEach
    <3> QED BY <2>2, <3>1
  <2> QED BY <1>6, <2>1, <2>2, <2>3
<1> QED BY <1>8, <1>9, <1>10 DEF t

LEMMA NormalizedFacts ==
  ASSUME NEW h \in Pairs, NEW current \in [Keys -> Values], NEW planned
  PROVE  /\ Normalized(<<h>>, current, planned) \in Seq(Pairs)
         /\ OneEach(Normalized(<<h>>, current, planned))
         /\ Normalized(<<h>>, current, planned) # <<>>
<1> DEFINE g == WithGroups(<<h>>, current)
<1>1. g \in Seq(Pairs) /\ OneEach(g) /\ g # <<>>
  BY WithGroupsFacts
<1> HIDE DEF g
<1> DEFINE needed == Needed(ValueOf(g, Connections))
<1>2. CASE Connections \notin KeysOf(g) \/ Rlimit \notin DOMAIN current
  BY <1>1, <1>2 DEF Normalized, WithRlimit, g
<1>3. CASE Connections \in KeysOf(g) /\ Rlimit \in DOMAIN current
  <2>1. ValueOf(g, Connections) \in Values
    <3> DEFINE c == CHOOSE i \in DOMAIN g : g[i][1] = Connections
    <3>1. c \in DOMAIN g
      BY <1>3 DEF KeysOf
    <3>2. ValueOf(g, Connections) = g[c][2]
      BY DEF ValueOf
    <3> HIDE DEF c
    <3> QED BY <1>1, <3>1, <3>2 DEF Pairs
  <2>2. needed \in Values
    BY <2>1, GraphAssumption DEF Needed
  <2> HIDE DEF needed
  <2>3. <<Rlimit, needed>> \in Pairs
    BY <1>3, <2>2 DEF Pairs
  <2>4. CASE Rlimit \in KeysOf(g)
    <3> DEFINE t == [i \in DOMAIN g |-> IF g[i][1] = Rlimit /\ g[i][2] < needed
                                        THEN <<Rlimit, needed>> ELSE g[i]]
    <3>1. Normalized(<<h>>, current, planned) = t
      BY <1>3, <2>4 DEF Normalized, WithRlimit, g, needed
    <3>2. DOMAIN t = DOMAIN g /\ DOMAIN g = 1..Len(g) /\ Len(g) \in Nat /\ Len(g) > 0
      BY <1>1
    <3>3. t = [i \in 1..Len(g) |-> t[i]]
      BY <3>2
    <3>4. \A i \in DOMAIN g : t[i] \in Pairs /\ t[i][1] = g[i][1]
      BY <1>1, <2>3
    <3> HIDE DEF t
    <3>5. t \in Seq(Pairs) /\ t # <<>>
      <4>1. t \in [1..Len(g) -> Pairs] /\ 1 \in DOMAIN t
        BY <3>2, <3>3, <3>4
      <4> QED BY <3>2, <4>1
    <3>6. OneEach(t)
      BY <1>1, <3>2, <3>4 DEF OneEach
    <3> QED BY <3>1, <3>5, <3>6
  <2>5. CASE Rlimit \notin KeysOf(g) /\ planned[Rlimit] < needed
    <3> DEFINE x == <<Rlimit, needed>>  t == Append(g, x)
    <3>1. Normalized(<<h>>, current, planned) = t
      BY <1>3, <2>5 DEF Normalized, WithRlimit, g, needed
    <3>2. x[1] = Rlimit /\ x \in Pairs
      BY <2>3
    <3> HIDE DEF x
    <3>3. \A i \in DOMAIN g : g[i][1] # x[1]
      BY <2>5, <3>2 DEF KeysOf
    <3>4. OneEach(t)
      BY <1>1, <3>2, <3>3, AppendOneEach
    <3>5. t \in Seq(Pairs) /\ t # <<>>
      BY <1>1, <3>2
    <3> QED BY <3>1, <3>4, <3>5
  <2>6. CASE Rlimit \notin KeysOf(g) /\ ~(planned[Rlimit] < needed)
    <3>1. Normalized(<<h>>, current, planned) = g
      BY <1>3, <2>6 DEF Normalized, WithRlimit, g, needed
    <3> QED BY <1>1, <3>1
  <2> QED BY <2>4, <2>5, <2>6
<1> QED BY <1>2, <1>3

-----------------------------------------------------------------------------
(* The knowledge base.                                                     *)

LEMMA KeysFinite ==
  ASSUME NEW S, S \subseteq Keys
  PROVE  IsFiniteSet(S) /\ Cardinality(S) \in Nat
<1> DEFINE D == 1..Len(Graph)
           f == [i \in D |-> Graph[i].key]
<1>1. Len(Graph) \in Nat /\ DOMAIN Graph = D
  BY GraphAssumption
<1>2. IsFiniteSet(D)
  BY <1>1, FS_Interval
<1>3. f \in Surjection(D, Keys)
  BY <1>1 DEF Surjection, Keys
<1> HIDE DEF f, D
<1>4. IsFiniteSet(Keys)
  BY <1>2, <1>3, FS_Surjection
<1>5. IsFiniteSet(S)
  BY <1>4, FS_Subset
<1> QED BY <1>5, FS_CardinalityType

LEMMA WithFacts ==
  ASSUME NEW f, NEW k, NEW v
  PROVE  /\ DOMAIN With(f, k, v) = DOMAIN f \cup {k}
         /\ With(f, k, v)[k] = v
         /\ \A x \in DOMAIN f : x # k => With(f, k, v)[x] = f[x]
BY DEF With

LEMMA WithTyped ==
  ASSUME NEW f, NEW T, f \in [DOMAIN f -> T], NEW k, NEW v \in T
  PROVE  With(f, k, v) \in [DOMAIN With(f, k, v) -> T]
<1>1. \A x \in DOMAIN f \cup {k} : (IF x = k THEN v ELSE f[x]) \in T
  OBVIOUS
<1> QED BY <1>1 DEF With

LEMMA ConfigWith ==
  ASSUME NEW f \in Configs, NEW k \in Keys, NEW v \in Values
  PROVE  With(f, k, v) \in Configs
<1>1. DOMAIN f \subseteq Keys /\ f \in [DOMAIN f -> Values]
  BY ConfigFacts
<1>2. With(f, k, v) \in [DOMAIN With(f, k, v) -> Values] /\ DOMAIN With(f, k, v) = DOMAIN f \cup {k}
  BY <1>1, WithFacts, WithTyped
<1> QED BY <1>1, <1>2, ConfigFacts

LEMMA NothingFacts ==
  /\ DOMAIN Nothing = {} /\ Nothing \in Configs /\ \A T : Nothing \in [DOMAIN Nothing -> T]
  /\ \A f : f = [x \in DOMAIN f |-> f[x]] /\ DOMAIN f = {} => f = Nothing
<1>1. DOMAIN Nothing = {} /\ \A T : Nothing \in [{} -> T]
  BY DEF Nothing
<1>2. Nothing \in Configs
  BY <1>1, ConfigFacts
<1>3. ASSUME NEW f, f = [x \in DOMAIN f |-> f[x]], DOMAIN f = {} PROVE f = Nothing
  BY <1>3 DEF Nothing
<1> QED BY <1>1, <1>2, <1>3

LEMMA KnowledgeTypes ==
  ASSUME NEW K, NEW r, KnowledgeBaseOK(K, r)
  PROVE  /\ \A q \in DOMAIN K.runs : /\ q \in 1..r /\ K.runs[q] \in RunRecord /\ K.runs[q].completed \in Nat
                                     /\ K.runs[q].config \in Configs /\ K.runs[q].final \in Configs
         /\ \A q \in DOMAIN K.recipes : /\ q \in DOMAIN K.runs /\ K.recipes[q].steps \in Seq(Pairs)
                                        /\ K.recipes[q].score \in Nat
         /\ \A i \in DOMAIN K.events : K.events[i] \in Events /\ K.events[i].run \in DOMAIN K.runs
<1>1. /\ DOMAIN K.runs \subseteq 1..r /\ K.runs \in [DOMAIN K.runs -> RunRecord]
      /\ DOMAIN K.recipes \subseteq DOMAIN K.runs /\ K.recipes \in [DOMAIN K.recipes -> RecipeRecord]
      /\ K.events \in Seq(Events) /\ \A i \in DOMAIN K.events : K.events[i].run \in DOMAIN K.runs
  BY DEF KnowledgeBaseOK
<1>2. \A q \in DOMAIN K.runs : K.runs[q] \in RunRecord
  BY <1>1
<1>3. \A q \in DOMAIN K.recipes : K.recipes[q] \in RecipeRecord
  BY <1>1
<1>4. \A x \in RunRecord : x.completed \in Nat /\ x.config \in Configs /\ x.final \in Configs
  BY DEF RunRecord
<1>5. \A x \in RecipeRecord : x.steps \in Seq(Pairs) /\ x.score \in Nat
  BY DEF RecipeRecord
<1>6. \A i \in DOMAIN K.events : K.events[i] \in Events
  BY <1>1
<1> QED BY <1>1, <1>2, <1>3, <1>4, <1>5, <1>6

LEMMA ClockFacts ==
  ASSUME NEW K, NEW r \in Nat, KnowledgeBaseOK(K, r)
  PROVE  Clock(K) \in Nat /\ Clock(K) > 0
<1> DEFINE S == {0} \cup {K.runs[q].completed : q \in DOMAIN K.runs}
           f == [i \in 1..r |-> IF i \in DOMAIN K.runs THEN K.runs[i].completed ELSE 0]
<1>1. \A q \in DOMAIN K.runs : q \in 1..r /\ K.runs[q].completed \in Nat
  BY KnowledgeTypes
<1>2. \A i \in 1..r : f[i] \in Nat
  BY <1>1
<1>3. \A q \in DOMAIN K.runs : f[q] = K.runs[q].completed
  BY <1>1
<1> HIDE DEF f
<1>4. PICK b \in Nat : \A i \in 1..r : f[i] <= b
  BY <1>2, Bounded
<1>5. S \subseteq Nat /\ S # {} /\ \A x \in S : x <= b
  BY <1>1, <1>3, <1>4
<1> HIDE DEF S
<1>6. Max(S) \in Nat
  BY <1>4, <1>5, MaxFacts
<1> QED BY <1>6 DEF Clock, S

LEMMA RecipeTyped ==
  ASSUME NEW K, NEW r \in Nat, KnowledgeBaseOK(K, r), NEW q, NEW shape
  PROVE  Recipe(K, q, shape) \in Seq(Pairs)
<1> DEFINE Likeness(p) == Similarity[shape, K.recipes[p].shape]
           matching == {p \in DOMAIN K.recipes \ {q} : Likeness(p) > 0}
           closest == {p \in matching : \A o \in matching : Likeness(o) <= Likeness(p)}
           top == {p \in closest : \A o \in closest : K.recipes[o].score <= K.recipes[p].score}
<1>1. Recipe(K, q, shape) = IF top = {} THEN <<>> ELSE K.recipes[Min(top)].steps
  BY DEF Recipe
<1>2. top \subseteq DOMAIN K.recipes /\ top \subseteq Nat
  <2>1. DOMAIN K.recipes \subseteq Nat
    BY KnowledgeTypes
  <2>2. matching \subseteq DOMAIN K.recipes /\ closest \subseteq matching
    OBVIOUS
  <2> HIDE DEF closest, matching
  <2> QED BY <2>1, <2>2
<1> HIDE DEF top
<1>3. CASE top = {}
  BY <1>1, <1>3
<1>4. CASE top # {}
  BY <1>1, <1>2, <1>4, MinFacts, KnowledgeTypes
<1> QED BY <1>3, <1>4

LEMMA PriorBestTyped ==
  ASSUME NEW K, NEW r \in Nat, KnowledgeBaseOK(K, r), NEW q
  PROVE  PriorBestConfig(K, q) \in Configs
<1> DEFINE tops == SimilarRuns(K, q, 1)
           p == CHOOSE x \in tops : TRUE
<1>1. PriorBestConfig(K, q) = IF tops = {} THEN Nothing ELSE K.runs[p].config
  BY DEF PriorBestConfig
<1>2. tops \subseteq DOMAIN K.runs
  BY DEF SimilarRuns, Comparable
<1> HIDE DEF tops
<1>3. tops # {} => p \in tops
  OBVIOUS
<1> HIDE DEF p
<1> QED BY <1>1, <1>2, <1>3, KnowledgeTypes, NothingFacts

\* What the transactions change.
LEMMA RecordFacts ==
  ASSUME NEW K, NEW r, KnowledgeBaseOK(K, r), NEW e
  PROVE  /\ Record(K, e).runs = K.runs /\ Record(K, e).recipes = K.recipes
         /\ Record(K, e).events = Append(K.events, e)
         /\ e \in Events /\ e.run \in DOMAIN K.runs => KnowledgeBaseOK(Record(K, e), r)
<1>1. K = [runs |-> K.runs, events |-> K.events, recipes |-> K.recipes]
  BY DEF KnowledgeBaseOK
<1>2. Record(K, e) = [K EXCEPT !.events = Append(K.events, e)]
  BY DEF Record
<1>3. Record(K, e) = [runs |-> K.runs, events |-> Append(K.events, e), recipes |-> K.recipes]
  BY <1>1, <1>2
<1>4. /\ Record(K, e).runs = K.runs /\ Record(K, e).recipes = K.recipes
      /\ Record(K, e).events = Append(K.events, e)
  BY <1>3
<1>5. ASSUME e \in Events, e.run \in DOMAIN K.runs PROVE KnowledgeBaseOK(Record(K, e), r)
  <2> DEFINE s == K.events  t == Append(s, e)
  <2>1. s \in Seq(Events) /\ \A i \in DOMAIN s : s[i].run \in DOMAIN K.runs
    BY DEF KnowledgeBaseOK
  <2>2. /\ t \in Seq(Events) /\ \A i \in DOMAIN s : t[i] = s[i]
        /\ t[Len(s) + 1] = e /\ \A i \in DOMAIN t : i \in DOMAIN s \/ i = Len(s) + 1
    BY <1>5, <2>1, AppendFacts
  <2> HIDE DEF t, s
  <2>3. \A i \in DOMAIN t : t[i].run \in DOMAIN K.runs
    BY <1>5, <2>1, <2>2
  <2> DEFINE L == Record(K, e)
  <2>4. /\ L = [runs |-> L.runs, events |-> L.events, recipes |-> L.recipes]
        /\ L.runs = K.runs /\ L.recipes = K.recipes /\ L.events = t
    BY <1>3, <1>4 DEF s, t
  <2> HIDE DEF L
  <2> QED BY <2>2, <2>3, <2>4 DEF KnowledgeBaseOK, L
<1> QED BY <1>4, <1>5

LEMMA RecordRunFacts ==
  ASSUME NEW K, NEW r \in Nat \ {0}, KnowledgeBaseOK(K, r), r \notin DOMAIN K.runs
  PROVE  /\ KnowledgeBaseOK(RecordRun(K, r), r)
         /\ DOMAIN RecordRun(K, r).runs = DOMAIN K.runs \cup {r}
         /\ \A q \in DOMAIN K.runs : RecordRun(K, r).runs[q] = K.runs[q]
         /\ RecordRun(K, r).runs[r].completed = 0
         /\ RecordRun(K, r).events = K.events /\ RecordRun(K, r).recipes = K.recipes
<1> DEFINE new == [completed |-> 0, score |-> Absent, config |-> Nothing, final |-> Nothing]
           w == With(K.runs, r, new)
           L == RecordRun(K, r)
<1>1. K = [runs |-> K.runs, events |-> K.events, recipes |-> K.recipes]
  BY DEF KnowledgeBaseOK
<1>2. L = [K EXCEPT !.runs = w]
  BY DEF RecordRun
<1>3. new \in RunRecord /\ new.completed = 0
  BY NothingFacts DEF RunRecord
<1>4. /\ DOMAIN K.runs \subseteq 1..r /\ K.runs \in [DOMAIN K.runs -> RunRecord]
      /\ DOMAIN K.recipes \subseteq DOMAIN K.runs /\ K.recipes \in [DOMAIN K.recipes -> RecipeRecord]
      /\ K.events \in Seq(Events) /\ \A i \in DOMAIN K.events : K.events[i].run \in DOMAIN K.runs
  BY DEF KnowledgeBaseOK
<1> HIDE DEF new
<1>5. /\ DOMAIN w = DOMAIN K.runs \cup {r} /\ w[r] = new
      /\ \A q \in DOMAIN K.runs : w[q] = K.runs[q]
      /\ w \in [DOMAIN w -> RunRecord]
  <2>1. w \in [DOMAIN w -> RunRecord]
    BY <1>3, <1>4, WithTyped
  <2>2. DOMAIN w = DOMAIN K.runs \cup {r} /\ w[r] = new
    BY DEF With
  <2>3. \A q \in DOMAIN K.runs : q # r => w[q] = K.runs[q]
    BY DEF With
  <2> HIDE DEF w
  <2> QED BY <2>1, <2>2, <2>3
<1> HIDE DEF w
<1>6. /\ L = [runs |-> L.runs, events |-> L.events, recipes |-> L.recipes]
      /\ L.runs = w /\ L.recipes = K.recipes /\ L.events = K.events
  BY <1>1, <1>2
<1> HIDE DEF L
<1>7. DOMAIN w \subseteq 1..r
  BY <1>4, <1>5
<1>8. KnowledgeBaseOK(L, r)
  BY <1>4, <1>5, <1>6, <1>7 DEF KnowledgeBaseOK
<1> QED BY <1>3, <1>5, <1>6, <1>8 DEF L

LEMMA FinalizeFacts ==
  ASSUME NEW K, NEW r \in Nat \ {0}, KnowledgeBaseOK(K, r), r \in DOMAIN K.runs,
         NEW score \in Nat \cup {Absent}, NEW config \in Configs, NEW final \in Configs
  PROVE  LET L == FinalizeRun(K, r, score, config, final)
         IN /\ KnowledgeBaseOK(L, r)
            /\ DOMAIN L.runs = DOMAIN K.runs /\ \A q \in DOMAIN K.runs : q # r => L.runs[q] = K.runs[q]
            /\ L.runs[r].completed > 0 /\ L.runs[r].score = score
            /\ L.runs[r].config = config /\ L.runs[r].final = final
            /\ L.events = K.events /\ L.recipes = K.recipes
<1> DEFINE new == [completed |-> Clock(K), score |-> score, config |-> config, final |-> final]
           w == [K.runs EXCEPT ![r] = new]
           L == FinalizeRun(K, r, score, config, final)
<1>1. K = [runs |-> K.runs, events |-> K.events, recipes |-> K.recipes]
  BY DEF KnowledgeBaseOK
<1>2. L = [K EXCEPT !.runs[r] = new]
  BY DEF FinalizeRun
<1>3. /\ new \in RunRecord /\ new.completed > 0 /\ new.score = score
      /\ new.config = config /\ new.final = final
  BY ClockFacts DEF RunRecord
<1>4. /\ DOMAIN K.runs \subseteq 1..r /\ K.runs \in [DOMAIN K.runs -> RunRecord]
      /\ DOMAIN K.recipes \subseteq DOMAIN K.runs /\ K.recipes \in [DOMAIN K.recipes -> RecipeRecord]
      /\ K.events \in Seq(Events) /\ \A i \in DOMAIN K.events : K.events[i].run \in DOMAIN K.runs
  BY DEF KnowledgeBaseOK
<1> HIDE DEF new
<1>5. /\ DOMAIN w = DOMAIN K.runs /\ w[r] = new
      /\ \A q \in DOMAIN K.runs : q # r => w[q] = K.runs[q]
      /\ w \in [DOMAIN w -> RunRecord]
  BY <1>3, <1>4
<1>6. L = [K EXCEPT !.runs = w]
  BY <1>1, <1>2
<1> HIDE DEF w
<1>7. /\ L = [runs |-> L.runs, events |-> L.events, recipes |-> L.recipes]
      /\ L.runs = w /\ L.recipes = K.recipes /\ L.events = K.events
  BY <1>1, <1>6
<1> HIDE DEF L
<1>8. KnowledgeBaseOK(L, r)
  BY <1>4, <1>5, <1>7 DEF KnowledgeBaseOK
<1> QED BY <1>3, <1>5, <1>7, <1>8 DEF L

Shapes == {Shape[h] : h \in DOMAIN Shape}

LEMMA StoreFacts ==
  ASSUME NEW K, NEW r, KnowledgeBaseOK(K, r), r \in DOMAIN K.runs,
         NEW shape \in Shapes, NEW steps \in Seq(Pairs), NEW score \in Nat
  PROVE  LET L == StoreRecipe(K, r, shape, steps, score)
         IN /\ KnowledgeBaseOK(L, r) /\ L.runs = K.runs /\ L.events = K.events
            /\ DOMAIN L.recipes = DOMAIN K.recipes \cup {r}
            /\ \A q \in DOMAIN K.recipes : q # r => L.recipes[q] = K.recipes[q]
            /\ L.recipes[r].score = score /\ L.recipes[r].steps = steps
<1> DEFINE new == [shape |-> shape, steps |-> steps, score |-> score]
           w == With(K.recipes, r, new)
           L == StoreRecipe(K, r, shape, steps, score)
<1>1. K = [runs |-> K.runs, events |-> K.events, recipes |-> K.recipes]
  BY DEF KnowledgeBaseOK
<1>2. L = [K EXCEPT !.recipes = w]
  BY DEF StoreRecipe
<1>3. new \in RecipeRecord /\ new.score = score /\ new.steps = steps
  BY DEF RecipeRecord, Shapes
<1>4. /\ DOMAIN K.runs \subseteq 1..r /\ K.runs \in [DOMAIN K.runs -> RunRecord]
      /\ DOMAIN K.recipes \subseteq DOMAIN K.runs /\ K.recipes \in [DOMAIN K.recipes -> RecipeRecord]
      /\ K.events \in Seq(Events) /\ \A i \in DOMAIN K.events : K.events[i].run \in DOMAIN K.runs
  BY DEF KnowledgeBaseOK
<1> HIDE DEF new
<1>5. /\ DOMAIN w = DOMAIN K.recipes \cup {r} /\ w[r] = new
      /\ \A q \in DOMAIN K.recipes : q # r => w[q] = K.recipes[q]
      /\ w \in [DOMAIN w -> RecipeRecord]
  <2>1. w \in [DOMAIN w -> RecipeRecord]
    BY <1>3, <1>4, WithTyped
  <2>2. DOMAIN w = DOMAIN K.recipes \cup {r} /\ w[r] = new
    BY DEF With
  <2>3. \A q \in DOMAIN K.recipes : q # r => w[q] = K.recipes[q]
    BY DEF With
  <2> HIDE DEF w
  <2> QED BY <2>1, <2>2, <2>3
<1> HIDE DEF w
<1>6. /\ L = [runs |-> L.runs, events |-> L.events, recipes |-> L.recipes]
      /\ L.runs = K.runs /\ L.recipes = w /\ L.events = K.events
  BY <1>1, <1>2
<1> HIDE DEF L
<1>7. DOMAIN w \subseteq DOMAIN K.runs
  BY <1>4, <1>5
<1>8. KnowledgeBaseOK(L, r)
  BY <1>4, <1>5, <1>6, <1>7 DEF KnowledgeBaseOK
<1> QED BY <1>3, <1>5, <1>6, <1>8 DEF L

-----------------------------------------------------------------------------
(* Changes, events, commands.                                              *)

LEMMA EventFields ==
  ASSUME NEW kind, NEW payload
  PROVE  LET e == Event(kind, payload)
         IN /\ e.run = run /\ e.kind = kind /\ e.phase = phase
            /\ e.iteration = iteration + 1 /\ e.payload = payload
BY DEF Event

LEMMA EventTyped ==
  ASSUME run \in Nat, phase \in Phases, iteration \in Nat
  PROVE  /\ \A c \in Change : Event("change_applied", c) \in Events
         /\ \A p \in [key : Keys] : Event("apply_failed", p) \in Events
         /\ \A p \in [keys : SUBSET Keys] : Event("rollback_completed", p) \in Events
         /\ \A p \in [decision : Verdicts, values : Configs] : Event("evaluation_completed", p) \in Events
         /\ \A p \in [rps : Nat] : Event("best_config_updated", p) \in Events
<1>1. ASSUME NEW kind, NEW P, NEW p \in P PROVE Event(kind, p) \in EventsWith(kind, P)
  BY DEF Event, EventsWith
<1> HIDE DEF Event
<1>2. \A c \in Change : Event("change_applied", c) \in Events
  BY <1>1 DEF Events
<1>3. \A p \in [key : Keys] : Event("apply_failed", p) \in Events
  BY <1>1 DEF Events
<1>4. \A p \in [keys : SUBSET Keys] : Event("rollback_completed", p) \in Events
  BY <1>1 DEF Events
<1>5. \A p \in [decision : Verdicts, values : Configs] : Event("evaluation_completed", p) \in Events
  BY <1>1 DEF Events
<1>6. \A p \in [rps : Nat] : Event("best_config_updated", p) \in Events
  BY <1>1 DEF Events
<1> QED BY <1>2, <1>3, <1>4, <1>5, <1>6

LEMMA ChangeFields ==
  /\ \A c \in Change : c.key \in Keys /\ c.prev \in Values /\ c.value \in Values
  /\ \A k \in Keys, p, v \in Values : [key |-> k, prev |-> p, value |-> v] \in Change
  /\ \A h \in Pairs : h[1] \in Keys /\ h[2] \in Values
BY DEF Change, Pairs

LEMMA AfterFacts ==
  ASSUME host \in [Keys -> Values], NEW target, \A k \in DOMAIN target : target[k] \in Values,
         NEW bad, NEW new \in After(target, bad)
  PROVE  /\ new \in [Keys -> Values]
         /\ \A k \in Keys \ DOMAIN target : new[k] = host[k]
         /\ \A k \in (Keys \cap DOMAIN target) \ bad : new[k] = target[k]
<1>1. PICK undone \in SUBSET bad :
         new = [k \in Keys |-> IF k \in DOMAIN target \ undone THEN target[k] ELSE host[k]]
  BY DEF After
<1>2. \A k \in Keys : (IF k \in DOMAIN target \ undone THEN target[k] ELSE host[k]) \in Values
  OBVIOUS
<1> QED BY <1>1, <1>2

\* The changes of a group, by key.
Apart(changes) == \A i, j \in DOMAIN changes : changes[i].key = changes[j].key => i = j

LEMMA LedgerFacts ==
  ASSUME NEW changes \in Seq(Change)
  PROVE  /\ DOMAIN Ledger(changes) = {changes[i].key : i \in DOMAIN changes}
         /\ DOMAIN Ledger(changes) \subseteq Keys
         /\ \A k \in DOMAIN Ledger(changes) :
              /\ Ledger(changes)[k] \in Change /\ Ledger(changes)[k].key = k
              /\ \E i \in DOMAIN changes : Ledger(changes)[k] = changes[i]
         /\ Apart(changes) => \A i \in DOMAIN changes : Ledger(changes)[changes[i].key] = changes[i]
<1> DEFINE D == {changes[i].key : i \in DOMAIN changes}
           C == {changes[i] : i \in DOMAIN changes}
           Of(k) == CHOOSE c \in C : c.key = k
<1>1. \A i \in DOMAIN changes : changes[i] \in Change /\ changes[i].key \in Keys
  BY ChangeFields
<1>2. DOMAIN Ledger(changes) = D /\ \A k \in D : Ledger(changes)[k] = Of(k)
  BY DEF Ledger
<1>3. D \subseteq Keys
  BY <1>1
<1>4. ASSUME NEW k \in D PROVE Of(k) \in C /\ Of(k).key = k
  <2>1. \E c \in C : c.key = k
    OBVIOUS
  <2> HIDE DEF C
  <2> QED BY <2>1
<1> HIDE DEF Of
<1>5. \A c \in C : c \in Change /\ \E i \in DOMAIN changes : c = changes[i]
  BY <1>1
<1>6. ASSUME Apart(changes), NEW i \in DOMAIN changes PROVE Ledger(changes)[changes[i].key] = changes[i]
  <2>1. changes[i].key \in D
    OBVIOUS
  <2>2. PICK j \in DOMAIN changes : Of(changes[i].key) = changes[j]
    BY <1>4, <1>5, <2>1
  <2>3. changes[j].key = changes[i].key
    BY <1>4, <2>1, <2>2
  <2>4. j = i
    BY <1>6, <2>3 DEF Apart
  <2> QED BY <1>2, <2>1, <2>2, <2>4
<1> HIDE DEF C, D
<1> QED BY <1>2, <1>3, <1>4, <1>5, <1>6 DEF D

LEMMA AppliedFacts ==
  ASSUME applied \in Seq(Change)
  PROVE  /\ AppliedKeys \subseteq Keys /\ AppliedValues \in Configs /\ DOMAIN AppliedValues = AppliedKeys
         /\ DOMAIN Ledger(applied) = AppliedKeys
         /\ \A k \in AppliedKeys : AppliedValues[k] = Ledger(applied)[k].value
         /\ \A i \in DOMAIN applied : applied[i].key \in AppliedKeys /\ applied[i] \in Change
         /\ \A k \in AppliedKeys : \E i \in DOMAIN applied : applied[i].key = k
<1>1. DOMAIN Ledger(applied) = AppliedKeys /\ AppliedKeys \subseteq Keys
  BY LedgerFacts DEF AppliedKeys
<1>2. DOMAIN AppliedValues = AppliedKeys
  BY DEF AppliedValues
<1>3. \A k \in AppliedKeys : AppliedValues[k] = Ledger(applied)[k].value
  BY DEF AppliedValues, Ledger, AppliedKeys
<1>4. \A k \in AppliedKeys : AppliedValues[k] \in Values
  <2>1. \A k \in AppliedKeys : Ledger(applied)[k] \in Change
    BY <1>1, LedgerFacts
  <2> QED BY <1>3, <2>1, ChangeFields
<1>5. AppliedValues = [k \in AppliedKeys |-> AppliedValues[k]]
  BY DEF AppliedValues
<1>6. AppliedValues \in Configs
  BY <1>1, <1>2, <1>4, <1>5, ConfigFacts
<1>7. \A i \in DOMAIN applied : applied[i].key \in AppliedKeys /\ applied[i] \in Change
  BY DEF AppliedKeys
<1>8. \A k \in AppliedKeys : \E i \in DOMAIN applied : applied[i].key = k
  BY DEF AppliedKeys
<1> QED BY <1>1, <1>2, <1>3, <1>6, <1>7, <1>8

LEMMA SetToSeqFacts ==
  ASSUME NEW S, IsFiniteSet(S)
  PROVE  /\ SetToSeq(S) \in Seq(S)
         /\ \A x \in S : \E i \in DOMAIN SetToSeq(S) : SetToSeq(S)[i] = x
<1> DEFINE n == Cardinality(S)
           f == SetToSeq(S)
<1>1. n \in Nat /\ ExistsBijection(1..n, S)
  BY FS_CardinalityType
<1>2. \E g \in [1..n -> S] : IsInjective(g)
  BY <1>1 DEF ExistsBijection, Bijection, Injection
<1>3. f = CHOOSE g \in [1..n -> S] : IsInjective(g)
  BY DEF SetToSeq
<1> HIDE DEF f
<1>4. f \in [1..n -> S] /\ IsInjective(f)
  BY <1>2, <1>3
<1>5. IsFiniteSet(1..n) /\ Cardinality(1..n) = n
  BY <1>1, FS_Interval
<1>6. f \in Surjection(1..n, S)
  <2>1. f \in Injection(1..n, S)
    BY <1>4 DEF Injection
  <2> QED BY <1>5, <2>1, FS_Injection
<1>7. \A x \in S : \E i \in 1..n : f[i] = x
  BY <1>6 DEF Surjection
<1> QED BY <1>1, <1>4, <1>7 DEF f

-----------------------------------------------------------------------------
(* The bookkeeping of a session: types, books, lists and decisions.        *)

Basics == TypeOK /\ Books /\ Lists /\ Decision

LEMMA NumberFacts ==
  ASSUME TypeOK
  PROVE  /\ run \in Nat /\ run \in Int /\ iteration \in Nat /\ faults \in Nat
         /\ FirstRun \in Nat \ {0} /\ LastRun \in Nat /\ MaxIterations \in Nat /\ MaxFaults \in Nat
         /\ run <= LastRun /\ run >= FirstRun - 1
<1>1. /\ FirstRun \in Nat \ {0} /\ LastRun \in Nat /\ MaxIterations \in Nat /\ MaxFaults \in Nat
  BY SessionsAssumption
<1>2. run \in (FirstRun - 1)..LastRun /\ iteration \in 0..(MaxIterations + 1) /\ faults \in 0..MaxFaults
  BY DEF TypeOK
<1> QED BY <1>1, <1>2

\* As long as the run is under way, only its events change the books.
LEMMA BooksKept ==
  ASSUME Books, step \notin {"idle", "measured", "finalized"}, step' \notin {"idle", "measured", "finalized"},
         run' = run, kb'.runs = kb.runs, kb'.recipes = kb.recipes,
         best' = NoBest \/ best'.score > 0
  PROVE  Books'
BY DEF Books, Finished

LEMMA EventPayloads ==
  ASSUME NEW e \in Events
  PROVE  /\ e.run \in Nat /\ e.phase \in Phases /\ e.iteration \in Nat
         /\ e.kind = "change_applied" => e.payload \in Change
         /\ e.kind = "apply_failed" => e.payload \in [key : Keys]
         /\ e.kind = "rollback_completed" => e.payload \in [keys : SUBSET Keys]
         /\ e.kind = "evaluation_completed" => e.payload \in [decision : Verdicts, values : Configs]
         /\ e.kind = "best_config_updated" => e.payload \in [rps : Nat]
<1> DEFINE Common == e.run \in Nat /\ e.phase \in Phases /\ e.iteration \in Nat
<1>1. CASE e \in EventsWith("change_applied", Change)
  <2>1. Common /\ e.kind = "change_applied" /\ e.payload \in Change
    BY <1>1 DEF EventsWith
  <2> QED BY <2>1
<1>2. CASE e \in EventsWith("apply_failed", [key : Keys])
  <2>1. Common /\ e.kind = "apply_failed" /\ e.payload \in [key : Keys]
    BY <1>2 DEF EventsWith
  <2> QED BY <2>1
<1>3. CASE e \in EventsWith("rollback_completed", [keys : SUBSET Keys])
  <2>1. Common /\ e.kind = "rollback_completed" /\ e.payload \in [keys : SUBSET Keys]
    BY <1>3 DEF EventsWith
  <2> QED BY <2>1
<1>4. CASE e \in EventsWith("evaluation_completed", [decision : Verdicts, values : Configs])
  <2>1. Common /\ e.kind = "evaluation_completed" /\ e.payload \in [decision : Verdicts, values : Configs]
    BY <1>4 DEF EventsWith
  <2> QED BY <2>1
<1>5. CASE e \in EventsWith("best_config_updated", [rps : Nat])
  <2>1. Common /\ e.kind = "best_config_updated" /\ e.payload \in [rps : Nat]
    BY <1>5 DEF EventsWith
  <2> QED BY <2>1
<1> QED BY <1>1, <1>2, <1>3, <1>4, <1>5 DEF Events

LEMMA BlockedTyped ==
  ASSUME NEW K, NEW r, KnowledgeBaseOK(K, r), NEW q
  PROVE  BlockedPairs(K, q) \subseteq Pairs
<1>1. SUFFICES ASSUME NEW i, i \in DOMAIN K.events, K.events[i].kind = "evaluation_completed",
                      NEW k \in DOMAIN K.events[i].payload.values
               PROVE  <<k, K.events[i].payload.values[k]>> \in Pairs
  BY DEF BlockedPairs, FailedPairs, Decisions, EventsOf
<1>2. K.events[i] \in Events
  BY <1>1, KnowledgeTypes
<1>3. K.events[i].payload \in [decision : Verdicts, values : Configs]
  BY <1>1, <1>2, EventPayloads
<1>4. K.events[i].payload.values \in Configs
  BY <1>3
<1> QED BY <1>1, <1>4, ConfigFacts DEF Pairs

\* An event of the session enters the books.
LEMMA Recorded ==
  ASSUME TypeOK, Books, step \notin {"idle", "measured"}, NEW kind, NEW payload,
         \/ kind = "change_applied" /\ payload \in Change
         \/ kind = "apply_failed" /\ payload \in [key : Keys]
         \/ kind = "rollback_completed" /\ payload \in [keys : SUBSET Keys]
         \/ kind = "evaluation_completed" /\ payload \in [decision : Verdicts, values : Configs]
         \/ kind = "best_config_updated" /\ payload \in [rps : Nat]
  PROVE  /\ KnowledgeBaseOK(Record(kb, Event(kind, payload)), run)
         /\ Record(kb, Event(kind, payload)).runs = kb.runs
         /\ Record(kb, Event(kind, payload)).recipes = kb.recipes
<1> DEFINE e == Event(kind, payload)
<1>1. run \in Nat /\ phase \in Phases /\ iteration \in Nat /\ KnowledgeBaseOK(kb, run)
  BY NumberFacts DEF TypeOK
<1>2. e \in Events
  BY <1>1, EventTyped
<1>3. e.run \in DOMAIN kb.runs
  BY EventFields DEF Books
<1> HIDE DEF e
<1> QED BY <1>1, <1>2, <1>3, RecordFacts DEF e

LEMMA BuildBasics ==
  ASSUME Basics, BuildTuneContext
  PROVE  Basics'
<1> USE DEF Basics
<1>1. run \in Nat \ {0} /\ run \notin DOMAIN kb.runs /\ KnowledgeBaseOK(kb, run)
  BY NumberFacts DEF Books, TypeOK, BuildTuneContext
<1>2. kb' = RecordRun(kb, run) /\ KnowledgeBaseOK(kb', run) /\ run \in DOMAIN kb'.runs
      /\ kb'.runs[run].completed = 0 /\ kb'.recipes = kb.recipes
  BY <1>1, RecordRunFacts DEF BuildTuneContext
<1>3. step = "measured" /\ step' = "resolve"
      /\ UNCHANGED <<host, run, group, state, faults, ghosts>>
  BY DEF BuildTuneContext
<1>4. TypeOK'
  BY <1>2, <1>3 DEF TypeOK, group, state, ghosts, Steps
<1>5. Books'
  BY <1>2, <1>3 DEF Books, Finished, state
<1>6. Lists'
  BY <1>3 DEF Lists, Working, AppliedKeys, group, state, ghosts
<1>7. Decision'
  BY <1>3 DEF Decision, group, state
<1> QED BY <1>4, <1>5, <1>6, <1>7

LEMMA NothingBasics ==
  ASSUME Basics, NothingApplied
  PROVE  Basics'
<1> USE DEF Basics
<1>3. step = "apply" /\ step' = "loop" /\ hyps' = <<>> /\ queue = <<>> /\ applied = <<>>
      /\ UNCHANGED <<host, kb, run, queue, applied, outcome, state, faults, ghosts>>
  BY DEF NothingApplied
<1>4. TypeOK'
  BY <1>3 DEF TypeOK, state, ghosts, Steps
<1>5. Books'
  BY <1>3 DEF Books, Finished, state, ActiveValues
<1>6. Lists'
  BY <1>3 DEF Lists, Working, AppliedKeys, state, ghosts
<1>7. Decision'
  BY <1>3 DEF Decision, state
<1> QED BY <1>4, <1>5, <1>6, <1>7

LEMMA ValidationBasics ==
  ASSUME Basics, ValidationFails
  PROVE  Basics'
<1> USE DEF Basics
<1>3. /\ step = "apply" /\ step' = "undo" /\ queue = <<>> /\ applied # <<>>
      /\ outcome' = [NoOutcome EXCEPT !.decision = "unhealthy"]
      /\ UNCHANGED <<host, kb, run, hyps, queue, applied, state, faults, ghosts>>
  BY DEF ValidationFails
<1>1. outcome' \in [decision : Decided, score : Nat, rps : Nat] /\ outcome'.decision = "unhealthy"
  BY <1>3 DEF NoOutcome, Decided, Mechanical
<1>4. TypeOK'
  BY <1>1, <1>3 DEF TypeOK, state, ghosts, Steps
<1>5. Books'
  BY <1>3 DEF Books, Finished, state, ActiveValues
<1>6. Lists'
  BY <1>1, <1>3 DEF Lists, Working, AppliedKeys, state, ghosts
<1>7. Decision'
  BY <1>1, <1>3 DEF Decision, state, TypeOK, Phases
<1> QED BY <1>4, <1>5, <1>6, <1>7

LEMMA InitBasics ==
  ASSUME Init
  PROVE  Basics
<1>1. /\ FirstRun \in Nat \ {0} /\ LastRun \in Nat /\ FirstRun <= LastRun + 1
      /\ MaxIterations \in Nat /\ MaxFaults \in Nat
      /\ Hosts \subseteq [Keys -> Values] /\ DOMAIN Shape = [Keys -> Values]
  BY SessionsAssumption
<1>2. KnowledgeBaseOK(kb, FirstRun - 1)
  BY KnowledgeAssumption DEF Init
<1>3. NoBest \in [score : Nat, values : Configs] /\ NoBest.score = 0
  BY NothingFacts DEF NoBest
<1>4. NoOutcome \in [decision : Decided, score : Nat, rps : Nat] /\ NoOutcome.decision = "none"
  BY DEF NoOutcome, Decided
<1>5. DOMAIN active = {} /\ active \in [DOMAIN active -> Change]
  BY NothingFacts DEF Init
<1>6. host \in [Keys -> Values] /\ baseline \in {Shape[h] : h \in DOMAIN Shape}
  BY <1>1 DEF Init
<1>7. run \in (FirstRun - 1)..LastRun /\ run < FirstRun
  BY <1>1 DEF Init
<1>8. TypeOK
  BY <1>1, <1>2, <1>3, <1>4, <1>5, <1>6, <1>7 DEF Init, TypeOK, Steps, Phases
<1>9. Books
  BY <1>1, <1>7 DEF Init, Books
<1>10. Lists
  BY DEF Init, Lists, Working
<1>11. Decision
  BY <1>4 DEF Init, Decision
<1> QED BY <1>8, <1>9, <1>10, <1>11 DEF Basics

LEMMA BeginBasics ==
  ASSUME Basics, Begin
  PROVE  Basics'
<1> USE DEF Basics
<1>1. /\ step = "idle" /\ run < LastRun
      /\ run' = run + 1 /\ step' = "measured" /\ phase' = "resolve"
      /\ host' \in Hosts \cup {host} /\ start' = host'
      /\ baseline' = Shape[host'] /\ blocked' = {}
      /\ hyps' = <<>> /\ queue' = <<>> /\ applied' = <<>> /\ outcome' = NoOutcome
      /\ active' = Nothing /\ best' = NoBest /\ history' = <<>> /\ records' = <<>>
      /\ iteration' = 0 /\ blamed' = {} /\ accepted' = {} /\ retuned' = {} /\ asked' = {}
      /\ UNCHANGED <<kb, faults>>
  BY DEF Begin
<1>2. run \in Nat /\ run' \in (FirstRun - 1)..LastRun /\ run' >= FirstRun /\ run' \in Nat
  BY <1>1, NumberFacts
<1>3. KnowledgeBaseOK(kb', run') /\ run' \notin DOMAIN kb'.runs
  <2>1. DOMAIN kb.runs \subseteq 1..run
    BY DEF TypeOK, KnowledgeBaseOK
  <2>2. DOMAIN kb.runs \subseteq 1..run' /\ run' \notin DOMAIN kb.runs
    BY <1>1, <1>2, <2>1
  <2> QED BY <1>1, <2>2 DEF TypeOK, KnowledgeBaseOK
<1>4. NoBest \in [score : Nat, values : Configs] /\ NoBest.score = 0
  BY NothingFacts DEF NoBest
<1>5. NoOutcome \in [decision : Decided, score : Nat, rps : Nat] /\ NoOutcome.decision = "none"
  BY DEF NoOutcome, Decided
<1>6. DOMAIN active' = {} /\ active' \in [DOMAIN active' -> Change]
  BY <1>1, NothingFacts
<1>7. host' \in [Keys -> Values] /\ baseline' \in {Shape[h] : h \in DOMAIN Shape}
  <2>1. host' \in [Keys -> Values] /\ DOMAIN Shape = [Keys -> Values]
    BY <1>1, SessionsAssumption DEF TypeOK
  <2>2. baseline' = Shape[host']
    BY <1>1
  <2> QED BY <2>1, <2>2
<1>8. TypeOK'
  <2>1. iteration' \in 0..(MaxIterations + 1) /\ faults' \in 0..MaxFaults
    <3>1. iteration' = 0 /\ MaxIterations \in Nat
      BY <1>1, NumberFacts
    <3>2. faults' \in 0..MaxFaults
      BY <1>1 DEF TypeOK
    <3> QED BY <3>1, <3>2
  <2>2. \A k \in DOMAIN active' : active'[k].key = k
    BY <1>6
  <2>3. /\ hyps' \in Seq(Pairs) /\ queue' \in Seq(Pairs) /\ applied' \in Seq(Change)
        /\ records' \in Seq(Change) /\ history' \in Seq([pair : Pairs, decision : Decided])
    BY <1>1
  <2>4. step' \in Steps /\ phase' \in Phases
    BY <1>1 DEF Steps, Phases
  <2> QED BY <1>1, <1>2, <1>3, <1>4, <1>5, <1>6, <1>7, <2>1, <2>2, <2>3, <2>4 DEF TypeOK
<1>9. Books'
  <2>1. run' \notin DOMAIN kb'.recipes
    BY <1>3 DEF KnowledgeBaseOK
  <2> QED BY <1>1, <1>2, <1>3, <2>1 DEF Books, Finished
<1>10. Lists'
  BY <1>1, <1>6 DEF Lists, Working
<1>11. Decision'
  BY <1>1, <1>5 DEF Decision
<1> QED BY <1>8, <1>9, <1>10, <1>11

LEMMA ResolveBasics ==
  ASSUME Basics, ResolveGraph
  PROVE  Basics'
<1> USE DEF Basics
<1> DEFINE input == [current |-> host, active |-> DOMAIN active,
                     recipe |-> Recipe(kb, run, baseline),
                     best |-> PriorBestConfig(kb, run), sure |-> Confident(kb, run, 80),
                     blocked |-> blocked']
<1>1. /\ step = "resolve" /\ blocked' = BlockedPairs(kb, run) /\ hyps' = Resolve(input)
      /\ queue' = hyps' /\ applied' = <<>> /\ outcome' = NoOutcome
      /\ step' = IF hyps' = <<>> THEN "loop" ELSE "apply"
      /\ asked' = {hyps'[i] : i \in DOMAIN hyps'}
      /\ UNCHANGED <<host, kb, run, phase, baseline, active, best, history, records,
                     iteration, faults, start, blamed, accepted, retuned>>
  BY DEF ResolveGraph
<1>2. InputTyped(input)
  <2>1. KnowledgeBaseOK(kb, run) /\ run \in Nat
    BY NumberFacts DEF TypeOK
  <2> QED BY <2>1, RecipeTyped, PriorBestTyped DEF InputTyped
<1> HIDE DEF input
<1>3. hyps' \in Seq(Pairs) /\ OneEach(hyps')
  BY <1>1, <1>2, ResolveFacts
<1>4. blocked' \subseteq Pairs
  BY <1>1, BlockedTyped DEF TypeOK
<1>5. asked' \subseteq Pairs
  BY <1>1, <1>3
<1>6. NoOutcome \in [decision : Decided, score : Nat, rps : Nat] /\ NoOutcome.decision = "none"
  BY DEF NoOutcome, Decided
<1>7. step' \in {"loop", "apply"}
  BY <1>1
<1>8. TypeOK'
  BY <1>1, <1>3, <1>4, <1>5, <1>6, <1>7 DEF TypeOK, Steps
<1>9. Books'
  BY <1>1, <1>7, BooksKept DEF Books
<1>10. Lists'
  <2>1. phase' = "resolve" /\ iteration' = 0
    BY <1>1 DEF Lists
  <2>2. AppliedKeys' = {}
    BY <1>1 DEF AppliedKeys
  <2>3. step' = "apply" => hyps' # <<>>
    BY <1>1
  <2> QED BY <1>1, <1>3, <1>7, <2>1, <2>2, <2>3 DEF Lists, Working, OneEach
<1>11. Decision'
  BY <1>1, <1>6, <1>7 DEF Decision
<1> QED BY <1>8, <1>9, <1>10, <1>11

LEMMA TailFacts ==
  ASSUME NEW S, NEW s \in Seq(S), s # <<>>
  PROVE  /\ Head(s) \in S /\ Head(s) = s[1] /\ 1 \in DOMAIN s
         /\ Tail(s) \in Seq(S)
         /\ \A i \in DOMAIN Tail(s) : i + 1 \in DOMAIN s /\ i + 1 # 1 /\ i \in Nat /\ Tail(s)[i] = s[i + 1]
         /\ OneEach(s) => OneEach(Tail(s)) /\ \A i \in DOMAIN Tail(s) : Tail(s)[i][1] # Head(s)[1]
<1> DEFINE t == Tail(s)
<1>1. /\ Head(s) \in S /\ Head(s) = s[1] /\ 1 \in DOMAIN s /\ t \in Seq(S)
      /\ \A i \in DOMAIN t : i + 1 \in DOMAIN s /\ i + 1 # 1 /\ i \in Nat /\ t[i] = s[i + 1]
  OBVIOUS
<1> HIDE DEF t
<1>2. ASSUME OneEach(s), NEW i \in DOMAIN t, NEW j \in DOMAIN t, t[i][1] = t[j][1] PROVE i = j
  <2>1. i + 1 = j + 1
    BY <1>1, <1>2 DEF OneEach
  <2> QED BY <1>1, <2>1
<1>3. ASSUME OneEach(s), NEW i \in DOMAIN t PROVE t[i][1] # Head(s)[1]
  BY <1>1, <1>3 DEF OneEach
<1>4. OneEach(s) => OneEach(t)
  BY <1>2 DEF OneEach
<1> QED BY <1>1, <1>3, <1>4 DEF t

LEMMA ApplyBasics ==
  ASSUME Basics, Apply
  PROVE  Basics'
<1> USE DEF Basics
<1> DEFINE h == Head(queue)  c == [key |-> h[1], prev |-> host[h[1]], value |-> h[2]]
<1>1. /\ step = "apply" /\ queue # <<>> /\ queue' = Tail(queue) /\ step' = "log"
      /\ host' = [host EXCEPT ![h[1]] = h[2]] /\ applied' = Append(applied, c)
      /\ UNCHANGED <<kb, run, hyps, outcome, state, faults, ghosts>>
  BY DEF Apply
<1>2. queue \in Seq(Pairs) /\ applied \in Seq(Change) /\ host \in [Keys -> Values]
  BY DEF TypeOK
<1>3. h \in Pairs /\ h[1] \in Keys /\ h[2] \in Values
  BY <1>1, <1>2, TailFacts, ChangeFields
<1>4. c \in Change /\ c.key = h[1]
  BY <1>2, <1>3, ChangeFields
<1>5. OneEach(queue) /\ (\A i \in DOMAIN queue : queue[i][1] \notin AppliedKeys) /\ Apart(applied)
  BY <1>1 DEF Lists, OneEach, Apart
<1>6. /\ queue' \in Seq(Pairs) /\ OneEach(queue')
      /\ \A i \in DOMAIN queue' : queue'[i][1] # h[1] /\ queue'[i][1] \notin AppliedKeys
  <2>1. \A i \in DOMAIN queue' : i + 1 \in DOMAIN queue /\ queue'[i] = queue[i + 1]
    BY <1>1, <1>2, TailFacts
  <2> QED BY <1>1, <1>2, <1>5, <2>1, TailFacts
<1>7. h[1] \notin AppliedKeys
  BY <1>1, <1>2, <1>5, TailFacts
<1> HIDE DEF c, h
<1>8. /\ applied' \in Seq(Change) /\ applied' # <<>>
      /\ \A i \in DOMAIN applied : applied'[i] = applied[i]
      /\ applied'[Len(applied) + 1] = c
      /\ \A i \in DOMAIN applied' : i \in DOMAIN applied \/ i = Len(applied) + 1
  <2>1. applied' # <<>>
    BY <1>1, <1>2, <1>4
  <2> QED BY <1>1, <1>2, <1>4, <2>1, AppendFacts
<1>9. \A k \in AppliedKeys' : k \in AppliedKeys \/ k = h[1]
  BY <1>4, <1>8 DEF AppliedKeys
<1>10. Apart(applied')
  <2>1. \A i \in DOMAIN applied : applied[i].key \in AppliedKeys
    BY DEF AppliedKeys
  <2> QED BY <1>4, <1>5, <1>7, <1>8, <2>1 DEF Apart
<1>11. TypeOK'
  <2>1. host' \in [Keys -> Values]
    BY <1>1, <1>2, <1>3
  <2> QED BY <1>1, <1>6, <1>8, <2>1 DEF TypeOK, state, ghosts, Steps
<1>12. Books'
  BY <1>1, BooksKept DEF Books, state
<1>13. Lists'
  BY <1>1, <1>6, <1>8, <1>9, <1>10 DEF Lists, Working, OneEach, Apart, state, ghosts
<1>14. Decision'
  BY <1>1 DEF Decision, state
<1> QED BY <1>11, <1>12, <1>13, <1>14

LEMMA LogAppliedBasics ==
  ASSUME Basics, LogApplied
  PROVE  Basics'
<1> USE DEF Basics
<1> DEFINE c == applied[Len(applied)]  e == Event("change_applied", c)
<1>1. /\ step = "log" /\ step' = "apply" /\ kb' = Record(kb, e)
      /\ active' = IF phase = "resolve" THEN With(active, c.key, c) ELSE active
      /\ UNCHANGED <<host, run, group, phase, baseline, blocked, best, history, records,
                     iteration, faults, ghosts>>
  BY DEF LogApplied
<1>2. c \in Change
  <2>1. applied \in Seq(Change) /\ applied # <<>>
    BY <1>1 DEF TypeOK, Lists
  <2> QED BY <2>1
<1> HIDE DEF c
<1>4. KnowledgeBaseOK(kb', run) /\ kb'.runs = kb.runs /\ kb'.recipes = kb.recipes
  BY <1>1, <1>2, Recorded
<1>5. /\ DOMAIN active' \subseteq Keys /\ active' \in [DOMAIN active' -> Change]
      /\ \A k \in DOMAIN active' : active'[k].key = k
  <2>1. CASE phase = "resolve"
    <3>1. active' = With(active, c.key, c) /\ c.key \in Keys
      BY <1>1, <1>2, <2>1, ChangeFields
    <3>2. active' \in [DOMAIN active' -> Change]
      BY <1>2, <3>1, WithTyped DEF TypeOK
    <3> QED BY <3>1, <3>2 DEF With, TypeOK
  <2>2. CASE phase # "resolve"
    BY <1>1, <2>2 DEF TypeOK
  <2> QED BY <2>1, <2>2
<1>6. TypeOK'
  BY <1>1, <1>4, <1>5 DEF TypeOK, group, ghosts, Steps
<1>7. Books'
  BY <1>1, <1>4, BooksKept DEF Books
<1>8. Lists'
  BY <1>1 DEF Lists, Working, AppliedKeys, group, ghosts
<1>9. Decision'
  BY <1>1 DEF Decision, group
<1> QED BY <1>6, <1>7, <1>8, <1>9

LEMMA ApplyFailsBasics ==
  ASSUME Basics, ApplyFails
  PROVE  Basics'
<1> USE DEF Basics
<1> DEFINE h == Head(queue)  e == Event("apply_failed", [key |-> h[1]])
<1>1. /\ step = "apply" /\ queue # <<>> /\ faults < MaxFaults
      /\ host' \in After([k \in {h[1]} |-> h[2]], {h[1]})
      /\ blamed' = blamed \cup {h[1]} /\ kb' = Record(kb, e) /\ faults' = faults + 1
      /\ IF phase = "resolve"
         THEN queue' = Tail(queue) /\ UNCHANGED <<step, outcome>>
         ELSE queue' = <<>> /\ step' = "undo" /\ outcome' = [NoOutcome EXCEPT !.decision = "not_applied"]
      /\ UNCHANGED <<run, hyps, applied, state, start, accepted, retuned, asked>>
  BY DEF ApplyFails
<1>2. queue \in Seq(Pairs) /\ host \in [Keys -> Values]
  BY DEF TypeOK
<1>3. h[1] \in Keys /\ h[2] \in Values
  BY <1>1, <1>2, TailFacts, ChangeFields
<1>4. /\ Tail(queue) \in Seq(Pairs) /\ OneEach(Tail(queue))
      /\ \A i \in DOMAIN Tail(queue) : Tail(queue)[i][1] \notin AppliedKeys
  <2>1. OneEach(queue) /\ \A i \in DOMAIN queue : queue[i][1] \notin AppliedKeys
    BY <1>1 DEF Lists, OneEach
  <2>2. \A i \in DOMAIN Tail(queue) : i + 1 \in DOMAIN queue /\ Tail(queue)[i] = queue[i + 1]
    BY <1>1, <1>2, TailFacts
  <2> QED BY <1>1, <1>2, <2>1, <2>2, TailFacts
<1> HIDE DEF h
<1>6. KnowledgeBaseOK(kb', run) /\ kb'.runs = kb.runs /\ kb'.recipes = kb.recipes
  BY <1>1, <1>3, Recorded
<1>7. host' \in [Keys -> Values]
  <2> DEFINE target == [k \in {h[1]} |-> h[2]]
  <2>1. \A k \in DOMAIN target : target[k] \in Values
    BY <1>3
  <2> HIDE DEF target
  <2>2. host' \in After(target, {h[1]})
    BY <1>1 DEF target
  <2> QED BY <1>2, <2>1, <2>2, AfterFacts
<1>8. blamed' \subseteq Keys /\ faults' \in 0..MaxFaults
  <2>1. faults' \in 0..MaxFaults
    BY <1>1, NumberFacts
  <2> QED BY <1>1, <1>3, <2>1 DEF TypeOK
<1>9. CASE phase = "resolve"
  <2>1. queue' = Tail(queue) /\ UNCHANGED <<step, outcome>>
    BY <1>1, <1>9
  <2>2. TypeOK'
    BY <1>1, <1>4, <1>6, <1>7, <1>8, <2>1 DEF TypeOK, state
  <2>3. Books'
    BY <1>1, <1>6, <2>1, BooksKept DEF Books, state
  <2>4. Lists'
    BY <1>1, <1>4, <2>1 DEF Lists, Working, AppliedKeys, OneEach, state
  <2>5. Decision'
    BY <1>1, <2>1 DEF Decision, state
  <2> QED BY <2>2, <2>3, <2>4, <2>5
<1>10. CASE phase # "resolve"
  <2>1. queue' = <<>> /\ step' = "undo" /\ outcome' = [NoOutcome EXCEPT !.decision = "not_applied"]
    BY <1>1, <1>10
  <2>2. outcome' \in [decision : Decided, score : Nat, rps : Nat] /\ outcome'.decision = "not_applied"
    BY <2>1 DEF NoOutcome, Decided, Mechanical
  <2>3. TypeOK'
    <3>1. step' \in Steps /\ queue' \in Seq(Pairs)
      BY <2>1 DEF Steps
    <3> QED BY <1>1, <1>6, <1>7, <1>8, <2>2, <3>1 DEF TypeOK, state
  <2>4. Books'
    BY <1>1, <1>6, <2>1, BooksKept DEF Books, state
  <2>5. Lists'
    BY <1>1, <2>1, <2>2 DEF Lists, Working, AppliedKeys, state
  <2>6. Decision'
    BY <1>1, <1>10, <2>1, <2>2 DEF Decision, state
  <2> QED BY <2>3, <2>4, <2>5, <2>6
<1> QED BY <1>9, <1>10

LEMMA EvaluateBasics ==
  ASSUME Basics, NEW o \in Outcomes, Evaluate(o)
  PROVE  Basics'
<1> USE DEF Basics
<1> DEFINE p == [decision |-> o.decision, values |-> With(AppliedValues, hyps[1][1], hyps[1][2])]
           e == Event("evaluation_completed", p)
<1>1. /\ step = "apply" /\ queue = <<>> /\ applied # <<>> /\ outcome' = o /\ kb' = Record(kb, e)
      /\ accepted' = IF o.decision = "accept" THEN accepted \cup {host} ELSE accepted
      /\ step' = CASE phase = "resolve" -> IF o.decision = "reject" THEN "undo" ELSE "record"
                   [] phase = "optimize" -> IF o.decision = "accept" THEN "verify" ELSE "undo"
      /\ UNCHANGED <<host, run, hyps, queue, applied, state, faults, start, blamed, retuned, asked>>
  BY DEF Evaluate
<1>2. /\ o \in [decision : Decided, score : Nat, rps : Nat] /\ o.decision \in Verdicts
      /\ o.decision = "accept" => o.score > 0
  <2>1. CASE \E g \in Gains : o = [decision |-> "accept", score |-> g.score, rps |-> g.rps]
    <3>1. PICK g \in Gains : o = [decision |-> "accept", score |-> g.score, rps |-> g.rps]
      BY <2>1
    <3>2. g.score \in Nat \ {0} /\ g.rps \in Nat
      BY SessionsAssumption
    <3> QED BY <3>1, <3>2 DEF Decided, Verdicts
  <2>2. CASE \E d \in {"inconclusive", "reject"} : o = [NoOutcome EXCEPT !.decision = d]
    BY <2>2 DEF NoOutcome, Decided, Verdicts
  <2> QED BY <2>1, <2>2 DEF Outcomes
<1>3. p \in [decision : Verdicts, values : Configs]
  <2>1. hyps \in Seq(Pairs) /\ hyps # <<>> /\ applied \in Seq(Change)
    BY <1>1 DEF TypeOK, Lists, Working
  <2>2. hyps[1] \in Pairs
    BY <2>1
  <2>3. hyps[1][1] \in Keys /\ hyps[1][2] \in Values
    BY <2>2, ChangeFields
  <2> QED BY <1>2, <2>1, <2>3, ConfigWith, AppliedFacts
<1> HIDE DEF p
<1>5. KnowledgeBaseOK(kb', run) /\ kb'.runs = kb.runs /\ kb'.recipes = kb.recipes
  BY <1>1, <1>3, Recorded
<1>6. /\ step' \in {"undo", "record", "verify"}
      /\ phase = "resolve" => step' = IF o.decision = "reject" THEN "undo" ELSE "record"
      /\ phase = "optimize" => step' = IF o.decision = "accept" THEN "verify" ELSE "undo"
      /\ phase \in {"resolve", "optimize"}
  <2>1. phase \in {"resolve", "optimize"}
    BY DEF TypeOK, Phases
  <2> QED BY <1>1, <2>1
<1>7. accepted' \subseteq [Keys -> Values]
  BY <1>1 DEF TypeOK
<1>8. TypeOK'
  <2>1. step' \in Steps
    BY <1>6 DEF Steps
  <2> QED BY <1>1, <1>2, <1>5, <1>7, <2>1 DEF TypeOK, state
<1>9. Books'
  BY <1>1, <1>5, <1>6, BooksKept DEF Books, state
<1>10. Lists'
  BY <1>1, <1>6 DEF Lists, Working, AppliedKeys, state
<1>11. Decision'
  BY <1>1, <1>2, <1>6 DEF Decision, state, Verdicts
<1> QED BY <1>8, <1>9, <1>10, <1>11

LEMMA AttributedBasics ==
  ASSUME Basics, Attributed
  PROVE  Basics'
<1> USE DEF Basics
<1>1. /\ step = "verify" /\ step' = "record"
      /\ active' = [k \in DOMAIN active \cup AppliedKeys |->
                      IF k \in AppliedKeys THEN Ledger(applied)[k] ELSE active[k]]
      /\ retuned' = retuned \cup (DOMAIN active \cap AppliedKeys)
      /\ UNCHANGED <<host, kb, run, group, phase, baseline, blocked, best, history, records,
                     iteration, faults, start, blamed, accepted, asked>>
  BY DEF Attributed
<1>2. /\ applied \in Seq(Change) /\ DOMAIN active \subseteq Keys /\ active \in [DOMAIN active -> Change]
      /\ \A k \in DOMAIN active : active[k].key = k
  BY DEF TypeOK
<1>3. /\ AppliedKeys \subseteq Keys /\ DOMAIN Ledger(applied) = AppliedKeys
      /\ \A k \in AppliedKeys : Ledger(applied)[k] \in Change /\ Ledger(applied)[k].key = k
  BY <1>2, AppliedFacts, LedgerFacts
<1>4. /\ DOMAIN active' = DOMAIN active \cup AppliedKeys /\ active' \in [DOMAIN active' -> Change]
      /\ \A k \in DOMAIN active' : active'[k].key = k
  <2>1. DOMAIN active' = DOMAIN active \cup AppliedKeys
    BY <1>1
  <2>2. \A k \in DOMAIN active' : active'[k] = IF k \in AppliedKeys THEN Ledger(applied)[k] ELSE active[k]
    BY <1>1
  <2>3. \A k \in DOMAIN active' : active'[k] \in Change /\ active'[k].key = k
    BY <1>2, <1>3, <2>1, <2>2
  <2>4. active' = [k \in DOMAIN active' |-> active'[k]]
    BY <1>1
  <2> QED BY <2>1, <2>3, <2>4
<1>5. TypeOK'
  <2>1. DOMAIN active' \subseteq Keys /\ retuned' \subseteq Keys
    BY <1>1, <1>2, <1>3, <1>4 DEF TypeOK
  <2> QED BY <1>1, <1>4, <2>1 DEF TypeOK, group, Steps
<1>6. Books'
  BY <1>1, BooksKept DEF Books
<1>7. Lists'
  BY <1>1 DEF Lists, Working, AppliedKeys, group
<1>8. Decision'
  BY <1>1 DEF Decision, group, Verdicts
<1> QED BY <1>5, <1>6, <1>7, <1>8

LEMMA NotAttributedBasics ==
  ASSUME Basics, NotAttributed
  PROVE  Basics'
<1> USE DEF Basics
<1>1. /\ step = "verify" /\ step' = "undo"
      /\ outcome' = [NoOutcome EXCEPT !.decision = "inconclusive"]
      /\ UNCHANGED <<host, kb, run, hyps, queue, applied, state, faults, ghosts>>
  BY DEF NotAttributed
<1>2. outcome' \in [decision : Decided, score : Nat, rps : Nat] /\ outcome'.decision = "inconclusive"
  BY <1>1 DEF NoOutcome, Decided, Verdicts
<1>3. TypeOK'
  BY <1>1, <1>2 DEF TypeOK, state, ghosts, Steps
<1>4. Books'
  BY <1>1, BooksKept DEF Books, state
<1>5. Lists'
  BY <1>1, <1>2 DEF Lists, Working, AppliedKeys, state, ghosts
<1>6. Decision'
  BY <1>1, <1>2 DEF Decision, state
<1> QED BY <1>3, <1>4, <1>5, <1>6

LEMMA RunFacts ==
  ASSUME TypeOK, NEW target, \A k \in DOMAIN target : target[k] \in Values,
         NEW bad, bad \subseteq Keys, Run(target, bad)
  PROVE  /\ host' \in [Keys -> Values] /\ faults' \in 0..MaxFaults
         /\ blamed' = blamed \cup bad /\ blamed' \subseteq Keys
         /\ \A k \in Keys \ DOMAIN target : host'[k] = host[k]
         /\ \A k \in (Keys \cap DOMAIN target) \ bad : host'[k] = target[k]
<1>1. /\ faults + Cardinality(bad) <= MaxFaults /\ faults' = faults + Cardinality(bad)
      /\ blamed' = blamed \cup bad /\ host' \in After(target, bad)
  BY DEF Run
<1>2. Cardinality(bad) \in Nat
  BY KeysFinite
<1>3. faults' \in 0..MaxFaults
  BY <1>1, <1>2, NumberFacts
<1>4. host \in [Keys -> Values] /\ blamed \subseteq Keys
  BY DEF TypeOK
<1>5. blamed' \subseteq Keys
  BY <1>1, <1>4
<1> QED BY <1>1, <1>3, <1>4, <1>5, AfterFacts

\* Undoing a group.
UndoTarget == [k \in AppliedKeys |-> Ledger(applied)[k].prev]

LEMMA UndoFacts ==
  ASSUME TypeOK
  PROVE  /\ DOMAIN UndoTarget = AppliedKeys /\ AppliedKeys \subseteq Keys
         /\ \A k \in DOMAIN UndoTarget : UndoTarget[k] \in Values
         /\ Apart(applied) => \A i \in DOMAIN applied : UndoTarget[applied[i].key] = applied[i].prev
<1>1. applied \in Seq(Change)
  BY DEF TypeOK
<1>2. DOMAIN UndoTarget = AppliedKeys /\ \A k \in AppliedKeys : UndoTarget[k] = Ledger(applied)[k].prev
  BY DEF UndoTarget
<1>3. AppliedKeys \subseteq Keys /\ DOMAIN Ledger(applied) = AppliedKeys
  BY <1>1, AppliedFacts
<1>4. \A k \in DOMAIN UndoTarget : UndoTarget[k] \in Values
  BY <1>1, <1>2, <1>3, LedgerFacts, ChangeFields
<1>5. ASSUME Apart(applied), NEW i \in DOMAIN applied
      PROVE  UndoTarget[applied[i].key] = applied[i].prev
  <2>1. applied[i].key \in AppliedKeys
    BY <1>1, AppliedFacts
  <2>2. Ledger(applied)[applied[i].key] = applied[i]
    BY <1>1, <1>5, LedgerFacts
  <2> QED BY <1>2, <2>1, <2>2
<1> QED BY <1>2, <1>3, <1>4, <1>5

LEMMA RollBackBasics ==
  ASSUME Basics, RollBackAll
  PROVE  Basics'
<1> USE DEF Basics
<1>1. PICK bad \in SUBSET AppliedKeys : Run(UndoTarget, bad)
  BY DEF RollBackAll, UndoTarget
<1>2. /\ step = "undo"
      /\ active' = IF phase = "resolve"
                   THEN [k \in DOMAIN active \ AppliedKeys |-> active[k]] ELSE active
      /\ step' = IF outcome.decision = "not_applied" THEN "record" ELSE "undone"
      /\ UNCHANGED <<kb, run, group, phase, baseline, blocked, best, history, records,
                     iteration, start, accepted, retuned, asked>>
  BY DEF RollBackAll
<1>3. host' \in [Keys -> Values] /\ faults' \in 0..MaxFaults /\ blamed' \subseteq Keys
  <2>1. bad \subseteq Keys /\ \A k \in DOMAIN UndoTarget : UndoTarget[k] \in Values
    BY <1>1, UndoFacts
  <2> QED BY <1>1, <2>1, RunFacts
<1>4. /\ DOMAIN active' \subseteq Keys /\ active' \in [DOMAIN active' -> Change]
      /\ \A k \in DOMAIN active' : active'[k].key = k
  BY <1>2 DEF TypeOK
<1>5. step' \in {"record", "undone"}
  BY <1>2
<1>6. TypeOK'
  BY <1>2, <1>3, <1>4, <1>5 DEF TypeOK, group, Steps
<1>7. Books'
  BY <1>2, <1>5, BooksKept DEF Books
<1>8. Lists'
  BY <1>2 DEF Lists, Working, AppliedKeys, group
<1>9. Decision'
  BY <1>2 DEF Decision, group, TypeOK, Phases, Verdicts, Mechanical
<1> QED BY <1>6, <1>7, <1>8, <1>9

LEMMA LogRollBackBasics ==
  ASSUME Basics, LogRollBack
  PROVE  Basics'
<1> USE DEF Basics
<1>1. /\ step = "undone" /\ kb' = Record(kb, Event("rollback_completed", [keys |-> AppliedKeys]))
      /\ IF phase = "resolve" /\ outcome.decision = "unhealthy"
         THEN step' = "loop" /\ hyps' = <<>>
         ELSE step' = "record" /\ UNCHANGED hyps
      /\ UNCHANGED <<host, run, queue, applied, outcome, state, faults, ghosts>>
  BY DEF LogRollBack
<1>2. KnowledgeBaseOK(kb', run) /\ kb'.runs = kb.runs /\ kb'.recipes = kb.recipes
  <2>1. [keys |-> AppliedKeys] \in [keys : SUBSET Keys]
    BY UndoFacts
  <2> QED BY <1>1, <2>1, Recorded
<1>3. step' \in {"loop", "record"} /\ hyps' \in Seq(Pairs) /\ (step' = "record" => hyps' = hyps)
  <2>1. hyps \in Seq(Pairs) /\ <<>> \in Seq(Pairs)
    BY DEF TypeOK
  <2>2. CASE phase = "resolve" /\ outcome.decision = "unhealthy"
    BY <1>1, <2>1, <2>2
  <2>3. CASE ~(phase = "resolve" /\ outcome.decision = "unhealthy")
    BY <1>1, <2>1, <2>3
  <2> QED BY <2>2, <2>3
<1>4. TypeOK'
  BY <1>1, <1>2, <1>3 DEF TypeOK, state, ghosts, Steps
<1>5. Books'
  BY <1>1, <1>2, <1>3, BooksKept DEF Books, state
<1>6. Lists'
  BY <1>1, <1>3 DEF Lists, Working, AppliedKeys, state, ghosts
<1>7. Decision'
  <2>1. step' = "record" => ~(phase = "resolve" /\ outcome.decision = "unhealthy")
    BY <1>1
  <2> QED BY <1>1, <1>3, <2>1 DEF Decision, state, TypeOK, Phases, Verdicts, Mechanical
<1> QED BY <1>4, <1>5, <1>6, <1>7

LEMMA RecordIterationBasics ==
  ASSUME Basics, RecordIteration
  PROVE  Basics'
<1> USE DEF Basics
<1>1. /\ step = "record" /\ step' = "loop" /\ iteration' = iteration + 1
      /\ history' = Append(history, [pair |-> hyps[1], decision |-> outcome.decision])
      /\ records' = IF outcome.decision = "not_applied" THEN records ELSE Append(records, applied[1])
      /\ blocked' = IF phase = "optimize" /\ outcome.decision \in {"unhealthy", "not_applied", "inconclusive"}
                    THEN blocked \cup {hyps[1]} ELSE blocked
      /\ hyps' = <<>>
      /\ UNCHANGED <<host, run, queue, applied, outcome, phase, baseline, active, faults, ghosts>>
  BY DEF RecordIteration
<1>2. /\ hyps \in Seq(Pairs) /\ hyps # <<>> /\ applied \in Seq(Change) /\ records \in Seq(Change)
      /\ outcome.decision # "not_applied" => applied # <<>>
      /\ outcome.decision \in Decided /\ outcome.score \in Nat /\ outcome.rps \in Nat
      /\ blocked \subseteq Pairs /\ history \in Seq([pair : Pairs, decision : Decided])
  BY <1>1 DEF TypeOK, Lists, Working
<1>3. hyps[1] \in Pairs /\ (outcome.decision # "not_applied" => applied[1] \in Change)
  BY <1>2, TailFacts
<1>4. history' \in Seq([pair : Pairs, decision : Decided])
  <2>1. [pair |-> hyps[1], decision |-> outcome.decision] \in [pair : Pairs, decision : Decided]
    BY <1>2, <1>3
  <2> QED BY <1>1, <1>2, <2>1, AppendFacts
<1>5. records' \in Seq(Change)
  BY <1>1, <1>2, <1>3, AppendFacts
<1>6. blocked' \subseteq Pairs
  BY <1>1, <1>2, <1>3
<1>7. iteration' \in 0..(MaxIterations + 1)
  <2>1. iteration = 0 \/ iteration < MaxIterations
    BY <1>1 DEF Lists, Working
  <2>2. iteration \in Nat /\ MaxIterations \in Nat /\ iteration' = iteration + 1
    BY <1>1, NumberFacts
  <2> QED BY <2>1, <2>2
<1>8. ActiveValues \in Configs
  <2>1. DOMAIN active \subseteq Keys /\ \A k \in DOMAIN active : active[k].value \in Values
    BY ChangeFields DEF TypeOK
  <2> QED BY <2>1, ConfigFacts DEF ActiveValues
<1>9. /\ best' \in [score : Nat, values : Configs] /\ (best' = NoBest \/ best'.score > 0)
      /\ KnowledgeBaseOK(kb', run) /\ kb'.runs = kb.runs /\ kb'.recipes = kb.recipes
  <2>1. CASE outcome.decision = "accept" /\ outcome.score > best.score
    <3>1. /\ best' = [score |-> outcome.score, values |-> ActiveValues]
          /\ kb' = Record(kb, Event("best_config_updated", [rps |-> outcome.rps]))
      BY <2>1 DEF RecordIteration
    <3>2. [rps |-> outcome.rps] \in [rps : Nat]
      BY <1>2
    <3>3. outcome.score > 0
      BY <2>1 DEF Decision
    <3>4. KnowledgeBaseOK(kb', run) /\ kb'.runs = kb.runs /\ kb'.recipes = kb.recipes
      BY <1>1, <3>1, <3>2, Recorded
    <3> QED BY <1>2, <1>8, <3>1, <3>3, <3>4
  <2>2. CASE ~(outcome.decision = "accept" /\ outcome.score > best.score)
    BY <2>2 DEF RecordIteration, TypeOK, Books
  <2> QED BY <2>1, <2>2
<1>10. TypeOK'
  <2>1. step' \in Steps /\ hyps' \in Seq(Pairs)
    BY <1>1 DEF Steps
  <2> QED BY <1>1, <1>4, <1>5, <1>6, <1>7, <1>9, <2>1 DEF TypeOK, ghosts
<1>11. Books'
  BY <1>1, <1>9, BooksKept
<1>12. Lists'
  BY <1>1 DEF Lists, Working, AppliedKeys
<1>13. Decision'
  BY <1>1 DEF Decision
<1> QED BY <1>10, <1>11, <1>12, <1>13

\* What the generator proposes.
LEMMA ProposeBasics ==
  ASSUME Basics, NEW h \in Pairs, Propose(h)
  PROVE  Basics'
<1> USE DEF Basics
<1> DEFINE all == Normalized(<<h>>, host, Planned)
<1>1. /\ step = "loop" /\ iteration < MaxIterations /\ ~Rejected(all)
      /\ hyps' = Selected(all, {i \in DOMAIN all : Allowed(all[i])})
      /\ queue' = hyps' /\ applied' = <<>> /\ outcome' = NoOutcome
      /\ phase' = "optimize" /\ step' = "apply" /\ asked' = asked \cup {h}
      /\ UNCHANGED <<host, kb, run, baseline, blocked, active, best, history, records,
                     iteration, faults, start, blamed, accepted, retuned>>
  BY DEF Propose
<1>2. all \in Seq(Pairs) /\ OneEach(all) /\ all # <<>> /\ Allowed(all[1])
  BY <1>1, NormalizedFacts DEF TypeOK, Rejected
<1> HIDE DEF all
<1>3. hyps' \in Seq(Pairs) /\ OneEach(hyps') /\ hyps' # <<>>
  <2> DEFINE I == {i \in DOMAIN all : Allowed(all[i])}
  <2>1. 1 \in DOMAIN all /\ 1 \in I
    BY <1>2, TailFacts
  <2>4. hyps' = Selected(all, I)
    BY <1>1
  <2> HIDE DEF I
  <2>2. hyps' \in Seq(Pairs) /\ OneEach(hyps')
    BY <1>2, <2>4, SelectedFacts
  <2>3. \E i \in DOMAIN hyps' : hyps'[i] = all[1]
    BY <1>2, <2>1, <2>4, SelectedFacts
  <2> QED BY <2>2, <2>3
<1>4. asked' \subseteq Pairs
  BY <1>1 DEF TypeOK
<1>5. outcome' \in [decision : Decided, score : Nat, rps : Nat] /\ outcome'.decision = "none"
  BY <1>1 DEF NoOutcome, Decided
<1>6. TypeOK'
  <2>1. applied' \in Seq(Change) /\ phase' \in Phases /\ step' \in Steps
    BY <1>1 DEF Phases, Steps
  <2> QED BY <1>1, <1>3, <1>4, <1>5, <2>1 DEF TypeOK
<1>7. Books'
  <2>1. step' \notin {"idle", "measured", "finalized"} /\ step \notin {"idle", "measured", "finalized"}
    BY <1>1
  <2> QED BY <1>1, <2>1, BooksKept DEF Books
<1>8. Lists'
  <2>1. AppliedKeys' = {}
    BY <1>1 DEF AppliedKeys
  <2>2. \A i, j \in DOMAIN queue' : queue'[i][1] = queue'[j][1] => i = j
    BY <1>1, <1>3 DEF OneEach
  <2> QED BY <1>1, <1>3, <1>5, <2>1, <2>2 DEF Lists, Working
<1>9. Decision'
  BY <1>1, <1>5 DEF Decision
<1> QED BY <1>6, <1>7, <1>8, <1>9

LEMMA RejectBasics ==
  ASSUME Basics, NEW h \in Pairs, RejectBeforeApply(h)
  PROVE  Basics'
<1> USE DEF Basics
<1> DEFINE all == Normalized(<<h>>, host, Planned)
<1>1. /\ step = "loop" /\ iteration < MaxIterations
      /\ history' = Append(history, [pair |-> all[1], decision |-> "refused"])
      /\ blocked' = blocked \cup {all[1]} /\ iteration' = iteration + 1 /\ asked' = asked \cup {h}
      /\ UNCHANGED <<host, kb, run, step, group, phase, baseline, active, best, records, faults,
                     start, blamed, accepted, retuned>>
  BY DEF RejectBeforeApply
<1>2. all[1] \in Pairs
  <2>1. all \in Seq(Pairs) /\ all # <<>>
    BY NormalizedFacts DEF TypeOK
  <2> HIDE DEF all
  <2> QED BY <2>1, TailFacts
<1> HIDE DEF all
<1>3. history' \in Seq([pair : Pairs, decision : Decided])
  <2>1. [pair |-> all[1], decision |-> "refused"] \in [pair : Pairs, decision : Decided]
    BY <1>2 DEF Decided, Mechanical
  <2>2. history \in Seq([pair : Pairs, decision : Decided])
    BY DEF TypeOK
  <2> QED BY <1>1, <2>1, <2>2, AppendFacts
<1>4. blocked' \subseteq Pairs /\ asked' \subseteq Pairs
  BY <1>1, <1>2 DEF TypeOK
<1>5. iteration' \in 0..(MaxIterations + 1)
  BY <1>1, NumberFacts
<1>6. TypeOK'
  BY <1>1, <1>3, <1>4, <1>5 DEF TypeOK, group
<1>7. Books'
  BY <1>1, BooksKept DEF Books
<1>8. Lists'
  BY <1>1 DEF Lists, Working, AppliedKeys, group
<1>9. Decision'
  BY <1>1 DEF Decision, group
<1> QED BY <1>6, <1>7, <1>8, <1>9

\* Restoring the best configuration.
LEMMA RestorationFacts ==
  ASSUME TypeOK
  PROVE  /\ Surplus \subseteq Keys /\ Surplus \subseteq DOMAIN active
         /\ Lacking \subseteq Keys /\ Lacking \subseteq DOMAIN best.values
         /\ Surplus \cap Lacking = {} /\ DOMAIN active \ Surplus \subseteq DOMAIN best.values
         /\ DOMAIN Restoration = Surplus \cup Lacking
         /\ \A k \in DOMAIN Restoration : Restoration[k] \in Values
         /\ \A k \in Surplus : Restoration[k] = active[k].prev
         /\ \A k \in Lacking :
              /\ Restoration[k] = best.values[k] /\ Min(Sources(k)) \in DOMAIN records
              /\ records[Min(Sources(k))] \in Change /\ records[Min(Sources(k))].key = k
              /\ records[Min(Sources(k))].value = best.values[k]
<1>1. /\ DOMAIN active \subseteq Keys /\ \A k \in DOMAIN active : active[k] \in Change
      /\ best.values \in Configs /\ records \in Seq(Change)
  BY DEF TypeOK
<1>2. DOMAIN best.values \subseteq Keys /\ \A k \in DOMAIN best.values : best.values[k] \in Values
  BY <1>1, ConfigFacts
<1>3. /\ Surplus = DOMAIN active \ DOMAIN best.values /\ Lacking \subseteq DOMAIN best.values
      /\ \A k \in Lacking : Sources(k) # {}
  BY DEF Surplus, Lacking
<1>4. /\ DOMAIN Restoration = Surplus \cup Lacking
      /\ \A k \in Surplus \cup Lacking :
           Restoration[k] = IF k \in Surplus THEN active[k].prev ELSE best.values[k]
  BY DEF Restoration
<1>5. \A k \in Surplus : active[k].prev \in Values
  BY <1>1, <1>3, ChangeFields
<1>6. ASSUME NEW k \in Lacking
      PROVE  /\ Min(Sources(k)) \in DOMAIN records
             /\ records[Min(Sources(k))] \in Change /\ records[Min(Sources(k))].key = k
             /\ records[Min(Sources(k))].value = best.values[k]
  <2>1. Sources(k) \subseteq DOMAIN records /\ DOMAIN records \subseteq Nat
    BY <1>1 DEF Sources
  <2>2. Min(Sources(k)) \in Sources(k)
    <3>1. Sources(k) \subseteq Nat /\ Sources(k) # {}
      BY <1>3, <2>1
    <3> QED BY <3>1, MinFacts
  <2>3. \A i \in Sources(k) : i \in DOMAIN records /\ records[i].key = k /\ records[i].value = best.values[k]
    BY DEF Sources
  <2>4. \A i \in DOMAIN records : records[i] \in Change
    BY <1>1
  <2> QED BY <2>2, <2>3, <2>4
<1> QED BY <1>1, <1>2, <1>3, <1>4, <1>5, <1>6

LEMMA RestoredPairs ==
  ASSUME TypeOK
  PROVE  LET s == SetToSeq({<<k, Restoration[k]>> : k \in DOMAIN Restoration})
         IN /\ s \in Seq(Pairs)
            /\ \A k \in DOMAIN Restoration : \E i \in DOMAIN s : s[i][1] = k
<1> DEFINE S == {<<k, Restoration[k]>> : k \in DOMAIN Restoration}
<1>1. DOMAIN Restoration \subseteq Keys /\ \A k \in DOMAIN Restoration : Restoration[k] \in Values
  BY RestorationFacts
<1>2. IsFiniteSet(S)
  <2>1. IsFiniteSet(DOMAIN Restoration)
    BY <1>1, KeysFinite
  <2> DEFINE f == [k \in DOMAIN Restoration |-> <<k, Restoration[k]>>]
  <2>2. f \in Surjection(DOMAIN Restoration, S)
    BY DEF Surjection
  <2> HIDE DEF f, S
  <2> QED BY <2>1, <2>2, FS_Surjection
<1>3. S \subseteq Pairs
  BY <1>1 DEF Pairs
<1>4. \A k \in DOMAIN Restoration : <<k, Restoration[k]>> \in S
  OBVIOUS
<1> HIDE DEF S
<1>5. SetToSeq(S) \in Seq(S) /\ \A x \in S : \E i \in DOMAIN SetToSeq(S) : SetToSeq(S)[i] = x
  BY <1>2, SetToSeqFacts
<1>6. SetToSeq(S) \in Seq(Pairs)
  BY <1>3, <1>5
<1>7. ASSUME NEW k \in DOMAIN Restoration
      PROVE  \E i \in DOMAIN SetToSeq(S) : SetToSeq(S)[i][1] = k
  <2>1. PICK i \in DOMAIN SetToSeq(S) : SetToSeq(S)[i] = <<k, Restoration[k]>>
    BY <1>4, <1>5
  <2>2. SetToSeq(S)[i][1] = k
    BY <2>1
  <2> QED BY <2>2
<1> QED BY <1>6, <1>7 DEF S

LEMMA RestoreBasics ==
  ASSUME Basics, RestoreBest
  PROVE  Basics'
<1> USE DEF Basics
<1>1. PICK bad \in SUBSET (Surplus \cup Lacking) :
        /\ Run(Restoration, bad)
        /\ active' = [k \in (DOMAIN active \ Surplus) \cup (Lacking \ bad) |->
                        IF k \in Lacking \ bad THEN records[Min(Sources(k))] ELSE active[k]]
  BY DEF RestoreBest
<1>2. /\ step = "loop" /\ step' = "restored"
      /\ hyps' = SetToSeq({<<k, Restoration[k]>> : k \in DOMAIN Restoration})
      /\ UNCHANGED <<kb, run, queue, applied, outcome, phase, baseline, blocked, best, history,
                     records, iteration, start, accepted, retuned, asked>>
  BY DEF RestoreBest
<1>3. host' \in [Keys -> Values] /\ faults' \in 0..MaxFaults /\ blamed' \subseteq Keys
  <2>1. bad \subseteq Keys /\ \A k \in DOMAIN Restoration : Restoration[k] \in Values
    BY <1>1, RestorationFacts
  <2> QED BY <1>1, <2>1, RunFacts
<1>4. /\ DOMAIN active' \subseteq Keys /\ active' \in [DOMAIN active' -> Change]
      /\ \A k \in DOMAIN active' : active'[k].key = k
  <2>1. /\ DOMAIN active' = (DOMAIN active \ Surplus) \cup (Lacking \ bad)
        /\ \A k \in DOMAIN active' :
             active'[k] = IF k \in Lacking \ bad THEN records[Min(Sources(k))] ELSE active[k]
        /\ active' = [k \in DOMAIN active' |-> active'[k]]
    BY <1>1
  <2>2. \A k \in DOMAIN active : k \in Keys /\ active[k] \in Change /\ active[k].key = k
    BY DEF TypeOK
  <2>3. \A k \in DOMAIN active' : k \in Keys /\ active'[k] \in Change /\ active'[k].key = k
    BY <2>1, <2>2, RestorationFacts
  <2> QED BY <2>1, <2>3
<1>5. hyps' \in Seq(Pairs)
  BY <1>2, RestoredPairs
<1>6. TypeOK'
  <2>1. step' \in Steps
    BY <1>2 DEF Steps
  <2> QED BY <1>2, <1>3, <1>4, <1>5, <2>1 DEF TypeOK
<1>7. Books'
  BY <1>2, BooksKept DEF Books
<1>8. Lists'
  BY <1>2 DEF Lists, Working, AppliedKeys
<1>9. Decision'
  BY <1>2 DEF Decision
<1> QED BY <1>6, <1>7, <1>8, <1>9

LEMMA ActiveConfig ==
  ASSUME TypeOK
  PROVE  ActiveValues \in Configs
<1>1. DOMAIN active \subseteq Keys /\ \A k \in DOMAIN active : active[k].value \in Values
  BY ChangeFields DEF TypeOK
<1> QED BY <1>1, ConfigFacts DEF ActiveValues

\* What Finalize writes is about its own run.
LEMMA FinalizeWrites ==
  ASSUME Basics, Finalize
  PROVE  /\ KnowledgeBaseOK(kb', run) /\ DOMAIN kb'.runs = DOMAIN kb.runs /\ run \in DOMAIN kb.runs
         /\ \A q \in DOMAIN kb.runs : q # run => kb'.runs[q] = kb.runs[q]
         /\ kb'.runs[run].completed > 0
         /\ kb'.runs[run].score = (IF best = NoBest THEN Absent ELSE best.score)
         /\ kb'.runs[run].config = best.values /\ kb'.runs[run].final = ActiveValues
         /\ kb'.events = kb.events /\ kb'.recipes = kb.recipes
<1> DEFINE score == IF best = NoBest THEN Absent ELSE best.score
           config == best.values
           final == ActiveValues
           L == FinalizeRun(kb, run, score, config, final)
<1>1. kb' = L /\ step = "restored"
  BY DEF Finalize
<1>2. score \in Nat \cup {Absent} /\ config \in Configs /\ final \in Configs
  BY ActiveConfig DEF Basics, TypeOK
<1>3. run \in Nat \ {0} /\ run \in DOMAIN kb.runs /\ KnowledgeBaseOK(kb, run)
  BY <1>1, NumberFacts DEF Basics, Books, TypeOK
<1> HIDE DEF score, config, final
<1>4. /\ KnowledgeBaseOK(L, run)
      /\ DOMAIN L.runs = DOMAIN kb.runs /\ \A q \in DOMAIN kb.runs : q # run => L.runs[q] = kb.runs[q]
      /\ L.runs[run].completed > 0 /\ L.runs[run].score = score
      /\ L.runs[run].config = config /\ L.runs[run].final = final
      /\ L.events = kb.events /\ L.recipes = kb.recipes
  BY <1>2, <1>3, FinalizeFacts
<1> HIDE DEF L
<1> QED BY <1>1, <1>3, <1>4 DEF score, config, final

LEMMA FinalizeBasics ==
  ASSUME Basics, Finalize
  PROVE  Basics'
<1> USE DEF Basics
<1> DEFINE score == IF best = NoBest THEN Absent ELSE best.score
<1>1. /\ step = "restored" /\ step' = "finalized"
      /\ UNCHANGED <<host, run, group, state, faults, ghosts>>
  BY DEF Finalize
<1>2. run \in DOMAIN kb.runs /\ run >= FirstRun
  BY <1>1 DEF Books
<1>3. /\ KnowledgeBaseOK(kb', run) /\ run \in DOMAIN kb'.runs
      /\ kb'.runs[run].completed > 0 /\ kb'.runs[run].score = score
      /\ kb'.runs[run].config = best.values /\ kb'.runs[run].final = ActiveValues
      /\ kb'.recipes = kb.recipes
  BY FinalizeWrites
<1>4. TypeOK'
  <2>1. step' \in Steps
    BY <1>1 DEF Steps
  <2> QED BY <1>1, <1>3, <2>1 DEF TypeOK, group, state, ghosts
<1>5. Books'
  <2>1. ActiveValues' = ActiveValues /\ best' = best /\ run' = run /\ Finished(run)'
    BY <1>1, <1>3 DEF state, ActiveValues, Finished
  <2>2. run \notin DOMAIN kb.recipes /\ (best = NoBest \/ best.score > 0)
    BY <1>1, <1>2 DEF Books
  <2> QED BY <1>1, <1>2, <1>3, <2>1, <2>2 DEF Books
<1>6. Lists'
  BY <1>1 DEF Lists, Working, AppliedKeys, group, state, ghosts
<1>7. Decision'
  BY <1>1 DEF Decision, group, state
<1> QED BY <1>4, <1>5, <1>6, <1>7

LEMMA FixFacts ==
  ASSUME TypeOK
  PROVE  /\ FixSequence \in Seq(Pairs)
         /\ \A i \in DOMAIN FixSequence :
              \E n \in DOMAIN history : history[n].decision = "accept" /\ FixSequence[i] = history[n].pair
<1> DEFINE pairs == [i \in DOMAIN history |-> history[i].pair]
           I == {i \in DOMAIN history : history[i].decision = "accept"}
<1>1. history \in Seq([pair : Pairs, decision : Decided])
  BY DEF TypeOK
<1>2. pairs \in Seq(Pairs) /\ DOMAIN pairs = DOMAIN history /\ \A i \in DOMAIN history : pairs[i] = history[i].pair
  <2>1. DOMAIN history = 1..Len(history) /\ Len(history) \in Nat
    BY <1>1
  <2> DEFINE S == [pair : Pairs, decision : Decided]
  <2>3. \A i \in DOMAIN history : history[i] \in S
    <3>1. history \in Seq(S)
      BY <1>1
    <3> HIDE DEF S
    <3> QED BY <3>1
  <2>4. \A i \in DOMAIN history : history[i].pair \in Pairs
    BY <2>3
  <2>2. pairs \in [1..Len(history) -> Pairs]
    BY <2>1, <2>4
  <2> QED BY <2>1, <2>2
<1>3. FixSequence = Selected(pairs, I) /\ \A i \in I : history[i].decision = "accept"
  BY DEF FixSequence
<1> HIDE DEF pairs, I
<1>4. /\ Selected(pairs, I) \in Seq(Pairs)
      /\ \A i \in DOMAIN Selected(pairs, I) : \E k \in DOMAIN pairs : k \in I /\ Selected(pairs, I)[i] = pairs[k]
  BY <1>2, SelectedFacts
<1> QED BY <1>2, <1>3, <1>4

LEMMA StoreBasics ==
  ASSUME Basics, StoreFixes
  PROVE  Basics'
<1> USE DEF Basics
<1>1. /\ step = "finalized" /\ step' = "idle"
      /\ kb' = IF best = NoBest \/ FixSequence = <<>> THEN kb
               ELSE StoreRecipe(kb, run, baseline, FixSequence, best.score)
      /\ UNCHANGED <<host, run, group, state, faults, ghosts>>
  BY DEF StoreFixes
<1>2. /\ run \in DOMAIN kb.runs /\ KnowledgeBaseOK(kb, run) /\ best.score \in Nat
      /\ baseline \in Shapes
  BY <1>1 DEF Books, TypeOK, Shapes
<1>3. KnowledgeBaseOK(kb', run) /\ kb'.runs = kb.runs
  <2> DEFINE L == StoreRecipe(kb, run, baseline, FixSequence, best.score)
  <2>3. FixSequence \in Seq(Pairs)
    BY FixFacts
  <2>1. KnowledgeBaseOK(L, run) /\ L.runs = kb.runs
    BY <1>2, <2>3, StoreFacts
  <2>2. kb' = kb \/ kb' = L
    BY <1>1
  <2> HIDE DEF L
  <2> QED BY <1>2, <2>1, <2>2
<1>4. TypeOK'
  <2>1. step' \in Steps
    BY <1>1 DEF Steps
  <2> QED BY <1>1, <1>3, <2>1 DEF TypeOK, group, state, ghosts
<1>5. Books'
  <2>1. ActiveValues' = ActiveValues /\ best' = best /\ run' = run /\ Finished(run)' = Finished(run)
    BY <1>1, <1>3 DEF state, ActiveValues, Finished
  <2> QED BY <1>1, <1>3, <2>1 DEF Books
<1>6. Lists'
  BY <1>1 DEF Lists, Working, AppliedKeys, group, state, ghosts
<1>7. Decision'
  BY <1>1 DEF Decision, group, state
<1> QED BY <1>4, <1>5, <1>6, <1>7

LEMMA CrashBasics ==
  ASSUME Basics, Crash
  PROVE  Basics'
<1> USE DEF Basics
<1>1. /\ step # "idle" /\ step' = "idle" /\ faults < MaxFaults /\ faults' = faults + 1
      /\ UNCHANGED <<host, kb, run, group, state, ghosts>>
  BY DEF Crash
<1>2. faults' \in 0..MaxFaults
  BY <1>1, NumberFacts
<1>3. TypeOK'
  <2>1. step' \in Steps
    BY <1>1 DEF Steps
  <2> QED BY <1>1, <1>2, <2>1 DEF TypeOK, group, state, ghosts
<1>4. Books'
  <2>1. ActiveValues' = ActiveValues /\ best' = best /\ run' = run /\ Finished(run)' = Finished(run) /\ kb' = kb
    BY <1>1 DEF state, ActiveValues, Finished
  <2> QED BY <1>1, <2>1 DEF Books
<1>5. Lists'
  BY <1>1 DEF Lists, Working, AppliedKeys, group, state, ghosts
<1>6. Decision'
  BY <1>1 DEF Decision, group, state
<1> QED BY <1>3, <1>4, <1>5, <1>6

LEMMA StutterBasics ==
  ASSUME Basics, UNCHANGED vars
  PROVE  Basics'
<1>1. UNCHANGED <<host, kb, run, step, hyps, queue, applied, outcome, phase, baseline, blocked, active,
                  best, history, records, iteration, faults, start, blamed, accepted, retuned, asked>>
  BY DEF vars, group, state, ghosts
<1>2. ActiveValues' = ActiveValues /\ Finished(run)' = Finished(run)
  BY <1>1 DEF ActiveValues, Finished
<1>3. TypeOK'
  BY <1>1 DEF Basics, TypeOK
<1>4. Books'
  BY <1>1, <1>2 DEF Basics, Books
<1>5. Lists'
  BY <1>1 DEF Basics, Lists, Working, AppliedKeys
<1>6. Decision'
  BY <1>1 DEF Basics, Decision
<1> QED BY <1>3, <1>4, <1>5, <1>6 DEF Basics

LEMMA BasicsStep ==
  ASSUME Basics, [Next]_vars
  PROVE  Basics'
<1>1. CASE Begin \/ BuildTuneContext \/ ResolveGraph
  BY <1>1, BeginBasics, BuildBasics, ResolveBasics
<1>2. CASE Apply \/ LogApplied \/ ApplyFails \/ NothingApplied \/ ValidationFails
  BY <1>2, ApplyBasics, LogAppliedBasics, ApplyFailsBasics, NothingBasics, ValidationBasics
<1>3. CASE \E o \in Outcomes : Evaluate(o)
  BY <1>3, EvaluateBasics
<1>4. CASE Attributed \/ NotAttributed \/ RollBackAll \/ LogRollBack \/ RecordIteration
  BY <1>4, AttributedBasics, NotAttributedBasics, RollBackBasics, LogRollBackBasics,
     RecordIterationBasics
<1>5. CASE \E h \in Keys \X Values : Propose(h) \/ RejectBeforeApply(h)
  BY <1>5, ProposeBasics, RejectBasics DEF Pairs
<1>6. CASE RestoreBest \/ Finalize \/ StoreFixes \/ Crash
  BY <1>6, RestoreBasics, FinalizeBasics, StoreBasics, CrashBasics
<1>7. CASE UNCHANGED vars
  BY <1>7, StutterBasics
<1> QED BY <1>1, <1>2, <1>3, <1>4, <1>5, <1>6, <1>7 DEF Next

\* The types of a session's state, and with them that what it writes to the
\* knowledge base is of the kind the queries of later sessions expect: runs
\* numbered up to the current one, events of recorded runs with their payloads,
\* recipes of recorded runs. The recursive walks of resolver and normalisation
\* return pairs of the catalog whatever graph, rules and groups are configured.
THEOREM SessionsTyped == Spec => []TypeOK
<1>1. Init => Basics
  BY InitBasics
<1>2. Basics /\ [Next]_vars => Basics'
  BY BasicsStep
<1>3. Basics => TypeOK
  BY DEF Basics
<1> QED BY <1>1, <1>2, <1>3, PTL DEF Spec

-----------------------------------------------------------------------------
(* What the ledger and the host have to do with each other.                *)

Account == Accounted /\ Entries /\ Undoable /\ Retained

\* Steps that change neither, and leave the group under way as unsettled as it
\* was, or find none.
LEMMA QuietAccount ==
  ASSUME Basics', Account, Tuning, Tuning', Entries',
         UNCHANGED <<host, active, start, blamed, retuned>>,
         \/ Unsettled /\ Unsettled' /\ phase' = phase /\ applied' = applied
         \/ (~Unsettled \/ AppliedKeys = {}) /\ (~Unsettled' \/ AppliedKeys' = {})
  PROVE  Account'
<1>1. \A k \in Keys : InForce(k)' = InForce(k) /\ (phase' = phase => Origin(k)' = Origin(k))
  BY DEF InForce, Origin
<1>2. Accounted'
  <2>1. CASE Unsettled /\ Unsettled' /\ phase' = phase /\ applied' = applied
    BY <1>1, <2>1 DEF Account, Accounted, AppliedKeys
  <2>2. CASE (~Unsettled \/ AppliedKeys = {}) /\ (~Unsettled' \/ AppliedKeys' = {})
    BY <1>1, <2>2 DEF Account, Accounted
  <2> QED BY <2>1, <2>2
<1>3. Undoable'
  BY DEF Account, Undoable
<1>4. Retained'
  BY DEF Retained, Basics, Books, Tuning, Working
<1> QED BY <1>2, <1>3, <1>4 DEF Account

LEMMA BuildAccount ==
  ASSUME Basics, Basics', Account, BuildTuneContext
  PROVE  Account'
<1>1. /\ step = "measured" /\ step' = "resolve"
      /\ UNCHANGED <<host, active, start, blamed, retuned>>
  BY DEF BuildTuneContext, state, ghosts
<1>2. Tuning /\ Tuning' /\ ~Unsettled /\ ~Unsettled'
  BY <1>1 DEF Tuning, Unsettled
<1>3. Entries'
  BY <1>1 DEF Entries, Working, Unsettled
<1> QED BY <1>1, <1>2, <1>3, QuietAccount

LEMMA ResolveAccount ==
  ASSUME Basics, Basics', Account, ResolveGraph
  PROVE  Account'
<1>1. /\ step = "resolve" /\ step' \in {"apply", "loop"} /\ applied' = <<>>
      /\ UNCHANGED <<host, active, start, blamed, retuned>>
  BY DEF ResolveGraph
<1>2. Tuning /\ Tuning' /\ ~Unsettled /\ AppliedKeys' = {}
  BY <1>1 DEF Tuning, Working, Unsettled, AppliedKeys
<1>3. Entries'
  <2>1. DOMAIN active = {}
    BY <1>1 DEF Basics, Lists
  <2> QED BY <1>1, <1>2, <2>1 DEF Entries, Working, Unsettled
<1> QED BY <1>1, <1>2, <1>3, QuietAccount

LEMMA NothingAccount ==
  ASSUME Basics, Basics', Account, NothingApplied
  PROVE  Account'
<1>1. /\ step = "apply" /\ step' = "loop" /\ applied = <<>>
      /\ UNCHANGED <<host, active, start, blamed, retuned>>
  BY DEF NothingApplied, state, ghosts
<1>2. Tuning /\ Tuning' /\ AppliedKeys = {} /\ ~Unsettled'
  BY <1>1 DEF Tuning, Working, Unsettled, AppliedKeys
<1>3. Entries'
  BY <1>1 DEF Entries, Working, Unsettled
<1> QED BY <1>1, <1>2, <1>3, QuietAccount

LEMMA ValidationAccount ==
  ASSUME Basics, Basics', Account, ValidationFails
  PROVE  Account'
<1>1. /\ step = "apply" /\ step' = "undo"
      /\ UNCHANGED <<host, active, start, blamed, retuned, applied, phase>>
  BY DEF ValidationFails, state, ghosts
<1>2. Tuning /\ Tuning' /\ Unsettled /\ Unsettled'
  BY <1>1 DEF Tuning, Working, Unsettled
<1>3. Entries'
  BY <1>1, <1>2 DEF Account, Entries, Working, AppliedKeys
<1> QED BY <1>1, <1>2, <1>3, QuietAccount

LEMMA NotAttributedAccount ==
  ASSUME Basics, Basics', Account, NotAttributed
  PROVE  Account'
<1>1. /\ step = "verify" /\ step' = "undo"
      /\ UNCHANGED <<host, active, start, blamed, retuned, applied, phase>>
  BY DEF NotAttributed, state, ghosts
<1>2. Tuning /\ Tuning' /\ Unsettled /\ Unsettled'
  BY <1>1 DEF Tuning, Working, Unsettled
<1>3. Entries'
  BY <1>1 DEF Entries, Basics, Decision
<1> QED BY <1>1, <1>2, <1>3, QuietAccount

LEMMA LogRollBackAccount ==
  ASSUME Basics, Basics', Account, LogRollBack
  PROVE  Account'
<1>1. /\ step = "undone" /\ step' \in {"loop", "record"}
      /\ UNCHANGED <<host, active, start, blamed, retuned, applied, phase>>
  BY DEF LogRollBack, state, ghosts
<1>2. Tuning /\ Tuning' /\ ~Unsettled /\ ~Unsettled'
  BY <1>1 DEF Tuning, Working, Unsettled
<1>3. Entries'
  BY <1>1, <1>2 DEF Account, Entries
<1> QED BY <1>1, <1>2, <1>3, QuietAccount

LEMMA RecordIterationAccount ==
  ASSUME Basics, Basics', Account, RecordIteration
  PROVE  Account'
<1>1. /\ step = "record" /\ step' = "loop"
      /\ UNCHANGED <<host, active, start, blamed, retuned>>
  BY DEF RecordIteration, ghosts
<1>2. Tuning /\ Tuning' /\ ~Unsettled /\ ~Unsettled'
  BY <1>1 DEF Tuning, Working, Unsettled
<1>3. Entries'
  BY <1>1 DEF Entries, Working, Unsettled
<1> QED BY <1>1, <1>2, <1>3, QuietAccount

LEMMA ProposeAccount ==
  ASSUME Basics, Basics', Account, NEW h \in Pairs, Propose(h)
  PROVE  Account'
<1>1. /\ step = "loop" /\ step' = "apply" /\ applied' = <<>> /\ phase' = "optimize"
      /\ UNCHANGED <<host, active, start, blamed, retuned>>
  BY DEF Propose
<1>2. Tuning /\ Tuning' /\ ~Unsettled /\ AppliedKeys' = {}
  BY <1>1 DEF Tuning, Working, Unsettled, AppliedKeys
<1>3. Entries'
  BY <1>1 DEF Entries
<1> QED BY <1>1, <1>2, <1>3, QuietAccount

LEMMA RejectAccount ==
  ASSUME Basics, Basics', Account, NEW h \in Pairs, RejectBeforeApply(h)
  PROVE  Account'
<1>1. /\ step = "loop" /\ step' = "loop"
      /\ UNCHANGED <<host, active, start, blamed, retuned>>
  BY DEF RejectBeforeApply
<1>2. Tuning /\ Tuning' /\ ~Unsettled /\ ~Unsettled'
  BY <1>1 DEF Tuning, Working, Unsettled
<1>3. Entries'
  BY <1>1 DEF Entries, Working, Unsettled
<1> QED BY <1>1, <1>2, <1>3, QuietAccount

\* The session begins.
LEMMA InitAccount ==
  ASSUME Init
  PROVE  Account
<1>1. step = "idle" /\ ~(run >= FirstRun)
  BY SessionsAssumption DEF Init
<1> QED BY <1>1 DEF Account, Accounted, Entries, Undoable, Retained, Tuning, Working, Unsettled

LEMMA BeginAccount ==
  ASSUME Basics, Basics', Account, Begin
  PROVE  Account'
<1>1. /\ step' = "measured" /\ host' = start' /\ active' = Nothing
  BY DEF Begin
<1>2. DOMAIN active' = {}
  BY <1>1, NothingFacts
<1>3. Accounted'
  BY <1>1, <1>2 DEF Accounted, Unsettled, InForce
<1>4. Entries' /\ Undoable'
  BY <1>1, <1>2 DEF Entries, Undoable, Working, Unsettled
<1>5. Retained'
  BY <1>1 DEF Retained, Basics, Books
<1> QED BY <1>3, <1>4, <1>5 DEF Account

\* While a group is applied, its keys become accounted for one by one.
LEMMA ApplyAccount ==
  ASSUME Basics, Basics', Account, Apply
  PROVE  Account'
<1> DEFINE h == Head(queue)
           c == [key |-> h[1], prev |-> host[h[1]], value |-> h[2]]
<1>1. /\ step = "apply" /\ step' = "log" /\ queue # <<>>
      /\ host' = [host EXCEPT ![h[1]] = h[2]] /\ applied' = Append(applied, c)
      /\ UNCHANGED <<active, start, blamed, retuned, phase>>
  BY DEF Apply, state, ghosts
<1>2. queue \in Seq(Pairs) /\ host \in [Keys -> Values] /\ applied \in Seq(Change)
  BY DEF Basics, TypeOK
<1>3. h[1] \in Keys /\ h[2] \in Values /\ h[1] \notin AppliedKeys
  BY <1>1, <1>2, TailFacts, ChangeFields DEF Basics, Lists
<1> HIDE DEF h
<1>4. c \in Change /\ c.key = h[1] /\ c.prev = host[h[1]] /\ c.value = h[2]
  BY <1>2, <1>3, ChangeFields
<1> HIDE DEF c
<1>5. /\ host'[h[1]] = h[2] /\ \A k \in Keys : k # h[1] => host'[k] = host[k]
  BY <1>1, <1>2, <1>3
<1>6. /\ Len(applied) + 1 \in DOMAIN applied' /\ applied'[Len(applied) + 1] = c
      /\ \A i \in DOMAIN applied : i \in DOMAIN applied' /\ applied'[i] = applied[i]
      /\ \A i \in DOMAIN applied' : i \in DOMAIN applied \/ i = Len(applied) + 1
      /\ Len(applied') = Len(applied) + 1
  BY <1>1, <1>2, <1>4, AppendFacts
<1>7. \A k : k \in AppliedKeys' <=> k \in AppliedKeys \/ k = h[1]
  BY <1>4, <1>6 DEF AppliedKeys
<1>8. Tuning /\ Tuning' /\ Unsettled /\ Unsettled' /\ Working /\ Working'
  BY <1>1 DEF Tuning, Working, Unsettled
<1>9. \A k \in Keys : InForce(k)' = InForce(k) /\ Origin(k)' = Origin(k)
  BY <1>1 DEF InForce, Origin
<1>10. h[1] \notin blamed => host[h[1]] = InForce(h[1]) /\ InForce(h[1]) = Origin(h[1])
  <2>1. phase = "resolve" => h[1] \notin DOMAIN active
    BY <1>3, <1>8 DEF Account, Entries
  <2> QED BY <1>3, <1>8, <2>1 DEF Account, Accounted, InForce, Origin
<1>11. Accounted'
  <2>1. ASSUME NEW k \in Keys \ blamed, k \in AppliedKeys', NEW i \in DOMAIN applied', applied'[i].key = k
        PROVE  host'[k] = applied'[i].value /\ applied'[i].prev = Origin(k)
    <3>1. CASE i \in DOMAIN applied
      <4>1. applied[i].key = k /\ k \in AppliedKeys /\ k # h[1]
        BY <1>3, <1>6, <2>1, <3>1 DEF AppliedKeys
      <4> QED BY <1>5, <1>6, <1>8, <3>1, <4>1 DEF Account, Accounted
    <3>2. CASE i = Len(applied) + 1
      BY <1>4, <1>5, <1>6, <1>10, <2>1, <3>2
    <3> QED BY <1>6, <3>1, <3>2
  <2>2. ASSUME NEW k \in Keys \ blamed, k \notin AppliedKeys'
        PROVE  host'[k] = InForce(k)
    BY <1>5, <1>7, <1>8, <2>2 DEF Account, Accounted
  <2> QED BY <1>1, <1>8, <1>9, <2>1, <2>2 DEF Accounted
<1>12. Entries'
  <2>1. SUFFICES ASSUME phase = "resolve"
                 PROVE  /\ DOMAIN active \subseteq AppliedKeys'
                        /\ \A i \in DOMAIN applied' :
                             \/ i = Len(applied')
                             \/ applied'[i].key \in DOMAIN active /\ active[applied'[i].key] = applied'[i]
    BY <1>1 DEF Entries
  <2>2. \A i \in DOMAIN applied :
          applied[i].key \in DOMAIN active /\ active[applied[i].key] = applied[i]
    BY <1>1, <1>8, <2>1 DEF Account, Entries
  <2> QED BY <1>6, <1>7, <1>8, <2>1, <2>2 DEF Account, Entries
<1>13. Undoable'
  BY <1>1, <1>8 DEF Account, Undoable
<1>14. Retained'
  BY <1>1 DEF Retained, Basics, Books
<1> QED BY <1>11, <1>12, <1>13, <1>14 DEF Account

LEMMA LogAppliedAccount ==
  ASSUME Basics, Basics', Account, LogApplied
  PROVE  Account'
<1> DEFINE n == Len(applied)
           c == applied[n]
<1>1. /\ step = "log" /\ step' = "apply"
      /\ active' = IF phase = "resolve" THEN With(active, c.key, c) ELSE active
      /\ UNCHANGED <<host, start, blamed, retuned, phase, applied>>
  BY DEF LogApplied, group, ghosts
<1>2. applied \in Seq(Change) /\ applied # <<>> /\ Apart(applied)
  BY <1>1 DEF Basics, TypeOK, Lists, Apart
<1>3. n \in DOMAIN applied /\ c \in Change
  BY <1>2
<1> HIDE DEF c
<1>4. Tuning /\ Tuning' /\ Unsettled /\ Unsettled' /\ Working /\ Working'
  BY <1>1 DEF Tuning, Working, Unsettled
<1>5. AppliedKeys' = AppliedKeys /\ c.key \in AppliedKeys /\ c.key \in Keys
  BY <1>1, <1>3, ChangeFields DEF AppliedKeys, c
<1>6. /\ phase = "resolve" => DOMAIN active' = DOMAIN active \cup {c.key} /\ active'[c.key] = c
      /\ \A k \in DOMAIN active : k # c.key => active'[k] = active[k]
      /\ phase # "resolve" => active' = active
  <2> DEFINE w == With(active, c.key, c)
  <2>1. /\ DOMAIN w = DOMAIN active \cup {c.key} /\ w[c.key] = c
        /\ \A k \in DOMAIN active : k # c.key => w[k] = active[k]
    BY DEF With
  <2>2. active' = IF phase = "resolve" THEN w ELSE active
    BY <1>1
  <2> HIDE DEF w
  <2> QED BY <2>1, <2>2
<1>7. \A k \in Keys : Origin(k)' = Origin(k) /\ (k \notin AppliedKeys => InForce(k)' = InForce(k))
  BY <1>1, <1>5, <1>6 DEF Origin, InForce
<1>8. Accounted'
  BY <1>1, <1>4, <1>5, <1>7 DEF Account, Accounted
<1>9. Entries'
  <2>1. SUFFICES ASSUME phase = "resolve"
                 PROVE  /\ DOMAIN active' \subseteq AppliedKeys
                        /\ \A i \in DOMAIN applied :
                             applied[i].key \in DOMAIN active' /\ active'[applied[i].key] = applied[i]
    BY <1>1, <1>5 DEF Entries
  <2>2. DOMAIN active \subseteq AppliedKeys
    BY <1>4, <2>1 DEF Account, Entries
  <2>3. ASSUME NEW i \in DOMAIN applied
        PROVE  applied[i].key \in DOMAIN active' /\ active'[applied[i].key] = applied[i]
    <3>1. CASE i = n
      BY <1>6, <2>1, <3>1 DEF c
    <3>2. CASE i # n
      <4>1. applied[i].key \in DOMAIN active /\ active[applied[i].key] = applied[i]
        BY <1>4, <2>1, <3>2 DEF Account, Entries
      <4>2. applied[i].key # c.key
        BY <1>2, <1>3, <3>2 DEF Apart, c
      <4> QED BY <1>6, <2>1, <4>1, <4>2
    <3> QED BY <3>1, <3>2
  <2> QED BY <1>5, <1>6, <2>1, <2>2, <2>3
<1>10. Undoable'
  <2>1. ASSUME NEW k \in DOMAIN active', k \notin blamed, k \notin retuned
        PROVE  active'[k].prev = start[k]
    <3>1. CASE phase = "resolve" /\ k = c.key
      <4>1. c.prev = Origin(k)
        BY <1>3, <1>4, <1>5, <2>1, <3>1 DEF Account, Accounted, c
      <4> QED BY <1>6, <3>1, <4>1 DEF Origin
    <3>2. CASE ~(phase = "resolve" /\ k = c.key)
      <4>1. k \in DOMAIN active /\ active'[k] = active[k]
        BY <1>6, <2>1, <3>2
      <4> QED BY <1>4, <2>1, <4>1 DEF Account, Undoable
    <3> QED BY <3>1, <3>2
  <2> QED BY <1>1, <2>1 DEF Undoable
<1>11. Retained'
  BY <1>1 DEF Retained, Basics, Books
<1> QED BY <1>8, <1>9, <1>10, <1>11 DEF Account

LEMMA ApplyFailsAccount ==
  ASSUME Basics, Basics', Account, ApplyFails
  PROVE  Account'
<1> DEFINE h == Head(queue)
           target == [k \in {h[1]} |-> h[2]]
<1>1. /\ step = "apply" /\ queue # <<>> /\ host' \in After(target, {h[1]})
      /\ blamed' = blamed \cup {h[1]}
      /\ step' = IF phase = "resolve" THEN "apply" ELSE "undo"
      /\ UNCHANGED <<active, start, retuned, phase, applied>>
  BY DEF ApplyFails, state
<1>2. queue \in Seq(Pairs) /\ host \in [Keys -> Values]
  BY DEF Basics, TypeOK
<1>3. h[1] \in Keys /\ h[2] \in Values
  BY <1>1, <1>2, TailFacts, ChangeFields
<1>4. \A k \in Keys : k # h[1] => host'[k] = host[k]
  <2>1. DOMAIN target = {h[1]} /\ \A k \in DOMAIN target : target[k] \in Values
    BY <1>3
  <2> HIDE DEF target, h
  <2> QED BY <1>1, <1>2, <2>1, AfterFacts
<1> HIDE DEF h, target
<1>5. Tuning /\ Tuning' /\ Unsettled /\ Unsettled' /\ Working /\ Working' /\ AppliedKeys' = AppliedKeys
  BY <1>1 DEF Tuning, Working, Unsettled, AppliedKeys
<1>6. \A k \in Keys : Origin(k)' = Origin(k) /\ InForce(k)' = InForce(k)
  BY <1>1 DEF Origin, InForce
<1>7. Accounted'
  BY <1>1, <1>4, <1>5, <1>6 DEF Account, Accounted
<1>8. Entries'
  BY <1>1, <1>5 DEF Account, Entries
<1>9. Undoable'
  BY <1>1, <1>5 DEF Account, Undoable
<1>10. Retained'
  BY <1>1 DEF Retained, Basics, Books
<1> QED BY <1>7, <1>8, <1>9, <1>10 DEF Account

\* A batch that is kept is in the ledger already.
LEMMA EvaluateAccount ==
  ASSUME Basics, Basics', Account, NEW o \in Outcomes, Evaluate(o)
  PROVE  Account'
<1>1. /\ step = "apply" /\ outcome' = o
      /\ step' = CASE phase = "resolve" -> IF o.decision = "reject" THEN "undo" ELSE "record"
                   [] phase = "optimize" -> IF o.decision = "accept" THEN "verify" ELSE "undo"
      /\ UNCHANGED <<host, active, start, blamed, retuned, phase, applied>>
  BY DEF Evaluate, state
<1>2. phase \in {"resolve", "optimize"} /\ applied \in Seq(Change)
  BY DEF Basics, TypeOK, Phases
<1>3. /\ phase = "resolve" => step' = IF o.decision = "reject" THEN "undo" ELSE "record"
      /\ phase = "optimize" => step' = IF o.decision = "accept" THEN "verify" ELSE "undo"
  BY <1>1, <1>2
<1>4. /\ Tuning /\ Tuning' /\ Unsettled /\ Working /\ Working' /\ AppliedKeys' = AppliedKeys
      /\ step' = "record" \/ (Unsettled' /\ step' # "log" /\ step' # "undone")
      /\ ~(step' = "record" /\ Unsettled')
  BY <1>1, <1>2, <1>3 DEF Tuning, Working, Unsettled, AppliedKeys
<1>5. \A k \in Keys : Origin(k)' = Origin(k) /\ InForce(k)' = InForce(k)
  BY <1>1 DEF Origin, InForce
<1>6. phase = "resolve" => \A i \in DOMAIN applied :
        applied[i].key \in DOMAIN active /\ active[applied[i].key] = applied[i]
  BY <1>1, <1>4 DEF Account, Entries
<1>7. Accounted'
  <2>1. CASE step' # "record"
    BY <1>1, <1>4, <1>5, <2>1 DEF Account, Accounted
  <2>2. CASE step' = "record"
    <3>1. phase = "resolve" /\ ~Unsettled'
      BY <1>2, <1>3, <1>4, <2>2
    <3>2. ASSUME NEW k \in Keys \ blamed PROVE host[k] = InForce(k)
      <4>1. CASE k \notin AppliedKeys
        BY <1>4, <4>1 DEF Account, Accounted
      <4>2. CASE k \in AppliedKeys
        <5>1. PICK i \in DOMAIN applied : applied[i].key = k
          BY <4>2 DEF AppliedKeys
        <5>2. host[k] = applied[i].value
          BY <1>4, <4>2, <5>1 DEF Account, Accounted
        <5> QED BY <1>6, <3>1, <5>1, <5>2 DEF InForce
      <4> QED BY <4>1, <4>2
    <3> QED BY <1>1, <1>5, <3>1, <3>2 DEF Accounted
  <2> QED BY <2>1, <2>2
<1>8. Entries'
  <2>1. phase = "resolve" /\ step' = "record" => Keeping'
    <3>1. o.decision \in {"accept", "inconclusive", "reject"}
      BY DEF Outcomes, NoOutcome
    <3> QED BY <1>1, <1>3, <3>1 DEF Keeping
  <2> QED BY <1>1, <1>4, <1>6, <2>1 DEF Account, Entries
<1>9. Undoable'
  BY <1>1, <1>4 DEF Account, Undoable
<1>10. Retained'
  BY <1>1, <1>4 DEF Retained, Basics, Books, Tuning, Working
<1> QED BY <1>7, <1>8, <1>9, <1>10 DEF Account

LEMMA AttributedAccount ==
  ASSUME Basics, Basics', Account, Attributed
  PROVE  Account'
<1>1. /\ step = "verify" /\ step' = "record"
      /\ active' = [k \in DOMAIN active \cup AppliedKeys |->
                      IF k \in AppliedKeys THEN Ledger(applied)[k] ELSE active[k]]
      /\ retuned' = retuned \cup (DOMAIN active \cap AppliedKeys)
      /\ UNCHANGED <<host, start, blamed, phase, applied>>
  BY DEF Attributed, group
<1>2. applied \in Seq(Change) /\ Apart(applied) /\ phase # "resolve"
  BY <1>1 DEF Basics, TypeOK, Lists, Apart, Decision
<1>3. /\ DOMAIN active' = DOMAIN active \cup AppliedKeys
      /\ \A k \in AppliedKeys : active'[k] = Ledger(applied)[k]
      /\ \A k \in DOMAIN active \ AppliedKeys : active'[k] = active[k]
  BY <1>1
<1>4. ASSUME NEW i \in DOMAIN applied PROVE active'[applied[i].key] = applied[i]
  <2>1. applied[i].key \in AppliedKeys
    BY <1>2, AppliedFacts
  <2>2. Ledger(applied)[applied[i].key] = applied[i]
    BY <1>2, LedgerFacts
  <2> QED BY <1>3, <2>1, <2>2
<1>5. Tuning /\ Tuning' /\ Unsettled /\ ~Unsettled'
  BY <1>1 DEF Tuning, Working, Unsettled
<1>6. Accounted'
  <2>1. ASSUME NEW k \in Keys \ blamed PROVE host[k] = InForce(k)'
    <3>1. CASE k \in AppliedKeys
      <4>1. PICK i \in DOMAIN applied : applied[i].key = k
        BY <3>1 DEF AppliedKeys
      <4>2. host[k] = applied[i].value
        BY <1>5, <3>1, <4>1 DEF Account, Accounted
      <4> QED BY <1>3, <1>4, <3>1, <4>1, <4>2 DEF InForce
    <3>2. CASE k \notin AppliedKeys
      <4>1. host[k] = InForce(k)
        BY <1>5, <3>2 DEF Account, Accounted
      <4> QED BY <1>1, <1>3, <3>2, <4>1 DEF InForce
    <3> QED BY <3>1, <3>2
  <2> QED BY <1>1, <1>5, <2>1 DEF Accounted
<1>7. Entries'
  BY <1>1, <1>2 DEF Entries
<1>8. Undoable'
  <2>1. ASSUME NEW k \in DOMAIN active', k \notin blamed, k \notin retuned' PROVE active'[k].prev = start[k]
    <3>1. CASE k \in AppliedKeys
      <4>1. PICK i \in DOMAIN applied : applied[i].key = k
        BY <3>1 DEF AppliedKeys
      <4>2. k \notin DOMAIN active /\ k \in Keys
        BY <1>1, <1>2, <2>1, <3>1, AppliedFacts
      <4>3. applied[i].prev = Origin(k)
        BY <1>5, <2>1, <3>1, <4>1, <4>2 DEF Account, Accounted
      <4> QED BY <1>2, <1>4, <4>1, <4>2, <4>3 DEF Origin, InForce
    <3>2. CASE k \notin AppliedKeys
      BY <1>1, <1>3, <1>5, <2>1, <3>2 DEF Account, Undoable
    <3> QED BY <3>1, <3>2
  <2> QED BY <1>1, <2>1 DEF Undoable
<1>9. Retained'
  BY <1>1 DEF Retained, Basics, Books
<1> QED BY <1>6, <1>7, <1>8, <1>9 DEF Account

LEMMA RollBackAccount ==
  ASSUME Basics, Basics', Account, RollBackAll
  PROVE  Account'
<1>1. PICK bad \in SUBSET AppliedKeys : Run(UndoTarget, bad)
  BY DEF RollBackAll, UndoTarget
<1>2. /\ step = "undo" /\ step' \in {"record", "undone"}
      /\ active' = IF phase = "resolve"
                   THEN [k \in DOMAIN active \ AppliedKeys |-> active[k]] ELSE active
      /\ UNCHANGED <<start, retuned, phase, applied, outcome>>
  BY DEF RollBackAll, group
<1>3. applied \in Seq(Change) /\ Apart(applied) /\ TypeOK
  BY DEF Basics, TypeOK, Lists, Apart
<1>4. /\ DOMAIN UndoTarget = AppliedKeys /\ AppliedKeys \subseteq Keys
      /\ \A k \in DOMAIN UndoTarget : UndoTarget[k] \in Values
      /\ \A i \in DOMAIN applied : UndoTarget[applied[i].key] = applied[i].prev
  BY <1>3, UndoFacts
<1>5. /\ blamed' = blamed \cup bad /\ \A k \in Keys \ AppliedKeys : host'[k] = host[k]
      /\ \A k \in AppliedKeys \ bad : host'[k] = UndoTarget[k]
  BY <1>1, <1>3, <1>4, RunFacts
<1>6. /\ Tuning /\ Tuning' /\ Unsettled /\ ~Unsettled' /\ Working
  BY <1>2 DEF Tuning, Working, Unsettled
<1>7. /\ DOMAIN active' = IF phase = "resolve" THEN DOMAIN active \ AppliedKeys ELSE DOMAIN active
      /\ \A k \in DOMAIN active' : active'[k] = active[k]
  BY <1>2
<1>8. phase = "resolve" => DOMAIN active' = {}
  BY <1>6, <1>7 DEF Account, Entries
<1>9. Accounted'
  <2>1. ASSUME NEW k \in Keys, k \notin blamed' PROVE host'[k] = InForce(k)'
    <3>1. CASE k \in AppliedKeys
      <4>1. PICK i \in DOMAIN applied : applied[i].key = k
        BY <3>1 DEF AppliedKeys
      <4>2. applied[i].prev = Origin(k)
        BY <1>5, <1>6, <2>1, <3>1, <4>1 DEF Account, Accounted
      <4>3. host'[k] = Origin(k)
        BY <1>4, <1>5, <2>1, <3>1, <4>1, <4>2
      <4> QED BY <1>2, <1>7, <1>8, <4>3 DEF Origin, InForce
    <3>2. CASE k \notin AppliedKeys
      <4>1. host[k] = InForce(k)
        BY <1>5, <1>6, <2>1, <3>2 DEF Account, Accounted
      <4> QED BY <1>2, <1>5, <1>7, <3>2, <4>1 DEF InForce
    <3> QED BY <3>1, <3>2
  <2> QED BY <1>6, <2>1 DEF Accounted
<1>10. Entries'
  BY <1>2, <1>6, <1>8 DEF Entries
<1>11. Undoable'
  BY <1>2, <1>5, <1>6, <1>7 DEF Account, Undoable
<1>12. Retained'
  BY <1>2 DEF Retained, Basics, Books
<1> QED BY <1>9, <1>10, <1>11, <1>12 DEF Account

\* The restoration undoes what the best configuration does not have.
LEMMA RestoreAccount ==
  ASSUME Basics, Basics', Account, RestoreBest
  PROVE  Account'
<1>1. PICK bad \in SUBSET (Surplus \cup Lacking) :
        /\ Run(Restoration, bad)
        /\ active' = [k \in (DOMAIN active \ Surplus) \cup (Lacking \ bad) |->
                        IF k \in Lacking \ bad THEN records[Min(Sources(k))] ELSE active[k]]
  BY DEF RestoreBest
<1>2. step = "loop" /\ step' = "restored" /\ UNCHANGED <<start, retuned>>
  BY DEF RestoreBest
<1>3. TypeOK
  BY DEF Basics
<1>4. /\ blamed' = blamed \cup bad /\ \A k \in Keys \ DOMAIN Restoration : host'[k] = host[k]
      /\ \A k \in (Keys \cap DOMAIN Restoration) \ bad : host'[k] = Restoration[k]
  <2>1. bad \subseteq Keys /\ \A k \in DOMAIN Restoration : Restoration[k] \in Values
    BY <1>1, <1>3, RestorationFacts
  <2> QED BY <1>1, <1>3, <2>1, RunFacts
<1>5. /\ DOMAIN active' = (DOMAIN active \ Surplus) \cup (Lacking \ bad)
      /\ \A k \in DOMAIN active' :
           active'[k] = IF k \in Lacking \ bad THEN records[Min(Sources(k))] ELSE active[k]
  BY <1>1
<1>6. /\ Tuning /\ ~Tuning' /\ ~Unsettled /\ ~Unsettled' /\ ~Working'
  BY <1>2 DEF Tuning, Working, Unsettled
<1>7. \A k \in Keys \ blamed : host[k] = InForce(k)
  BY <1>6 DEF Account, Accounted
<1>8. ASSUME NEW k \in Keys, k \notin blamed', k \in DOMAIN active' PROVE host'[k] = active'[k].value
  <2>1. k \notin bad /\ k \notin blamed
    BY <1>4, <1>8
  <2>2. CASE k \in Lacking
    BY <1>3, <1>4, <1>5, <1>8, <2>1, <2>2, RestorationFacts
  <2>3. CASE k \notin Lacking
    <3>1. k \in DOMAIN active /\ k \notin Surplus /\ active'[k] = active[k]
      BY <1>5, <1>8, <2>3
    <3>2. host'[k] = host[k]
      BY <1>3, <1>4, <2>3, <3>1, RestorationFacts
    <3> QED BY <1>7, <2>1, <3>1, <3>2 DEF InForce
  <2> QED BY <2>2, <2>3
<1>9. ASSUME NEW k \in Keys, k \notin blamed', k \notin DOMAIN active', k \notin retuned
      PROVE  host'[k] = start[k]
  <2>1. k \notin bad /\ k \notin blamed
    BY <1>4, <1>9
  <2>2. k \notin Lacking /\ (k \in DOMAIN active => k \in Surplus)
    BY <1>5, <1>9, <2>1
  <2>3. CASE k \in DOMAIN active
    <3>1. host'[k] = active[k].prev
      BY <1>3, <1>4, <2>1, <2>2, <2>3, RestorationFacts
    <3> QED BY <1>6, <1>9, <2>1, <2>3, <3>1 DEF Account, Undoable
  <2>4. CASE k \notin DOMAIN active
    <3>1. k \notin DOMAIN Restoration
      BY <1>3, <2>2, <2>4, RestorationFacts
    <3> QED BY <1>4, <1>7, <2>1, <2>4, <3>1 DEF InForce
  <2> QED BY <2>3, <2>4
<1>10. Retained'
  BY <1>2, <1>8, <1>9 DEF Retained
<1>11. Accounted' /\ Entries' /\ Undoable'
  BY <1>2, <1>6 DEF Accounted, Entries, Undoable
<1> QED BY <1>10, <1>11 DEF Account

\* After the loop nothing happens to the host.
LEMMA OverAccount ==
  ASSUME Basics, Basics', Account, Finalize \/ StoreFixes \/ Crash
  PROVE  Account'
<1>1. UNCHANGED <<host, run, active, start, blamed, retuned>> /\ step' \in {"finalized", "idle"}
  BY DEF Finalize, StoreFixes, Crash, state, ghosts
<1>2. ~Tuning' /\ ~Unsettled' /\ ~Working' /\ step' \notin {"undone", "record"}
  BY <1>1 DEF Tuning, Working, Unsettled
<1>3. Accounted' /\ Entries' /\ Undoable'
  BY <1>2 DEF Accounted, Entries, Undoable
<1>4. Retained'
  <2>1. SUFFICES ASSUME step' = "finalized" \/ (run >= FirstRun /\ Finished(run)')
                 PROVE  step \in {"restored", "finalized"} \/ (run >= FirstRun /\ Finished(run))
    BY <1>1 DEF Account, Retained
  <2>2. CASE Finalize
    BY <2>2 DEF Finalize
  <2>3. CASE StoreFixes
    BY <2>3 DEF StoreFixes
  <2>4. CASE Crash
    BY <2>1, <2>4 DEF Crash, Finished
  <2> QED BY <2>2, <2>3, <2>4
<1> QED BY <1>3, <1>4 DEF Account

LEMMA StutterAccount ==
  ASSUME Account, UNCHANGED vars
  PROVE  Account'
<1>1. UNCHANGED <<host, kb, run, step, applied, outcome, phase, active, start, blamed, retuned>>
  BY DEF vars, group, state, ghosts
<1>2. /\ Tuning' = Tuning /\ Unsettled' = Unsettled /\ Working' = Working /\ AppliedKeys' = AppliedKeys
      /\ Finished(run)' = Finished(run) /\ Keeping' = Keeping
      /\ \A k \in Keys : Origin(k)' = Origin(k) /\ InForce(k)' = InForce(k)
  BY <1>1 DEF Tuning, Unsettled, Working, AppliedKeys, Finished, Keeping, Origin, InForce
<1>3. Accounted'
  BY <1>1, <1>2 DEF Account, Accounted
<1>4. Entries' /\ Undoable'
  BY <1>1, <1>2 DEF Account, Entries, Undoable
<1>5. Retained'
  BY <1>1, <1>2 DEF Account, Retained
<1> QED BY <1>3, <1>4, <1>5 DEF Account

LEMMA AccountStep ==
  ASSUME Basics, Basics', Account, [Next]_vars
  PROVE  Account'
<1>1. CASE Begin \/ BuildTuneContext \/ ResolveGraph
  BY <1>1, BeginAccount, BuildAccount, ResolveAccount
<1>2. CASE Apply \/ LogApplied \/ ApplyFails \/ NothingApplied \/ ValidationFails
  BY <1>2, ApplyAccount, LogAppliedAccount, ApplyFailsAccount, NothingAccount, ValidationAccount
<1>3. CASE \E o \in Outcomes : Evaluate(o)
  BY <1>3, EvaluateAccount
<1>4. CASE Attributed \/ NotAttributed \/ RollBackAll \/ LogRollBack \/ RecordIteration
  BY <1>4, AttributedAccount, NotAttributedAccount, RollBackAccount, LogRollBackAccount,
     RecordIterationAccount
<1>5. CASE \E h \in Keys \X Values : Propose(h) \/ RejectBeforeApply(h)
  BY <1>5, ProposeAccount, RejectAccount DEF Pairs
<1>6. CASE RestoreBest
  BY <1>6, RestoreAccount
<1>7. CASE Finalize \/ StoreFixes \/ Crash
  BY <1>7, OverAccount
<1>8. CASE UNCHANGED vars
  BY <1>8, StutterAccount
<1> QED BY <1>1, <1>2, <1>3, <1>4, <1>5, <1>6, <1>7, <1>8 DEF Next

\* What a finished run says it retained is what its session left on the host,
\* and what it does not mention is as the session found it, commands that failed
\* and keys changed anew while active apart: whatever the resolver, the generator
\* and the restoration did to the host in between.
THEOREM SessionsEndAsRecorded == Spec => []FinalConfigIsTrue
<1>1. Init => Basics /\ Account
  BY InitBasics, InitAccount
<1>2. Basics /\ Account /\ [Next]_vars => Basics' /\ Account'
  BY BasicsStep, AccountStep
<1>3. Basics /\ Account => FinalConfigIsTrue
  <2>1. SUFFICES ASSUME Basics, Account, run >= FirstRun, Finished(run), NEW k \in Keys \ blamed
                 PROVE  IF k \in DOMAIN kb.runs[run].final THEN host[k] = kb.runs[run].final[k]
                        ELSE k \notin retuned => host[k] = start[k]
    BY DEF FinalConfigIsTrue
  <2>2. kb.runs[run].final = ActiveValues
    BY <2>1 DEF Basics, Books
  <2>3. IF k \in DOMAIN active THEN host[k] = active[k].value ELSE k \notin retuned => host[k] = start[k]
    BY <2>1 DEF Account, Retained
  <2> QED BY <2>2, <2>3 DEF ActiveValues
<1> QED BY <1>1, <1>2, <1>3, PTL DEF Spec

-----------------------------------------------------------------------------
(* The best configuration.                                                 *)

LEMMA MeasuredKept ==
  ASSUME Measured, best' = best, accepted \subseteq accepted', blamed \subseteq blamed',
         step' \in {"verify", "record"} /\ outcome'.decision = "accept" => host' \in accepted'
  PROVE  Measured'
BY DEF Measured

LEMMA MeasuredStep ==
  ASSUME Basics, Basics', Account, Measured, [Next]_vars
  PROVE  Measured'
<1>1. CASE Begin
  BY <1>1 DEF Begin, Measured
<1>2. CASE BuildTuneContext \/ ResolveGraph \/ NothingApplied \/ ValidationFails \/ NotAttributed
  <2>1. /\ step' \in {"resolve", "loop", "apply", "undo"}
        /\ best' = best /\ accepted' = accepted /\ blamed' = blamed
    BY <1>2 DEF BuildTuneContext, ResolveGraph, NothingApplied, ValidationFails, NotAttributed,
                state, ghosts
  <2> QED BY <2>1, MeasuredKept
<1>3. CASE Apply \/ LogApplied \/ ApplyFails
  <2>1. /\ step' \in {"log", "apply", "undo"}
        /\ best' = best /\ accepted' = accepted /\ blamed \subseteq blamed'
    BY <1>3 DEF Apply, LogApplied, ApplyFails, state, ghosts
  <2> QED BY <2>1, MeasuredKept
<1>4. CASE \E o \in Outcomes : Evaluate(o)
  <2>1. PICK o \in Outcomes : Evaluate(o)
    BY <1>4
  <2>2. /\ outcome' = o /\ accepted' = IF o.decision = "accept" THEN accepted \cup {host} ELSE accepted
        /\ best' = best /\ blamed' = blamed /\ host' = host
    BY <2>1 DEF Evaluate, state
  <2> QED BY <2>2, MeasuredKept
<1>5. CASE Attributed
  <2>1. /\ step = "verify" /\ best' = best /\ accepted' = accepted /\ blamed' = blamed
        /\ host' = host /\ outcome' = outcome
    BY <1>5 DEF Attributed, group
  <2> QED BY <2>1, MeasuredKept DEF Measured
<1>6. CASE RollBackAll
  <2>1. /\ step = "undo" /\ best' = best /\ accepted' = accepted /\ blamed \subseteq blamed' /\ outcome' = outcome
    BY <1>6 DEF RollBackAll, Run, group
  <2>2. outcome.decision # "accept"
    BY <2>1 DEF Basics, Decision
  <2> QED BY <2>1, <2>2, MeasuredKept
<1>7. CASE LogRollBack
  <2>1. /\ step = "undone" /\ best' = best /\ accepted' = accepted /\ blamed' = blamed /\ outcome' = outcome
    BY <1>7 DEF LogRollBack, state, ghosts
  <2>2. outcome.decision # "accept"
    BY <2>1 DEF Basics, Decision
  <2> QED BY <2>1, <2>2, MeasuredKept
<1>8. CASE RecordIteration
  <2>1. /\ step = "record" /\ step' = "loop" /\ accepted' = accepted /\ blamed' = blamed
        /\ IF outcome.decision = "accept" /\ outcome.score > best.score
           THEN best' = [score |-> outcome.score, values |-> ActiveValues] ELSE best' = best
    BY <1>8 DEF RecordIteration, ghosts
  <2>2. CASE outcome.decision = "accept" /\ outcome.score > best.score
    <3>1. best'.values = ActiveValues
      BY <2>1, <2>2
    <3>2. host \in accepted
      BY <2>1, <2>2 DEF Measured
    <3>3. \A k \in DOMAIN active \ blamed : host[k] = active[k].value
      <4>1. Tuning /\ ~Unsettled /\ DOMAIN active \subseteq Keys
        BY <2>1 DEF Tuning, Working, Unsettled, Basics, TypeOK
      <4> QED BY <4>1 DEF Account, Accounted, InForce
    <3>4. \A k \in DOMAIN best'.values \ blamed : host[k] = best'.values[k]
      BY <3>1, <3>3 DEF ActiveValues
    <3> QED BY <2>1, <3>2, <3>4 DEF Measured
  <2>3. CASE ~(outcome.decision = "accept" /\ outcome.score > best.score)
    BY <2>1, <2>3, MeasuredKept
  <2> QED BY <2>2, <2>3
<1>9. CASE \E h \in Keys \X Values : Propose(h) \/ RejectBeforeApply(h)
  <2>1. /\ step' \in {"apply", "loop"}
        /\ best' = best /\ accepted' = accepted /\ blamed' = blamed
    BY <1>9 DEF Propose, RejectBeforeApply
  <2> QED BY <2>1, MeasuredKept
<1>10. CASE RestoreBest
  <2>1. step' = "restored" /\ best' = best /\ accepted' = accepted /\ blamed \subseteq blamed'
    BY <1>10 DEF RestoreBest, Run
  <2> QED BY <2>1, MeasuredKept
<1>11. CASE Finalize \/ StoreFixes \/ Crash
  <2>1. step' \in {"finalized", "idle"} /\ best' = best /\ accepted' = accepted /\ blamed' = blamed
    BY <1>11 DEF Finalize, StoreFixes, Crash, state, ghosts
  <2> QED BY <2>1, MeasuredKept
<1>12. CASE UNCHANGED vars
  BY <1>12 DEF vars, group, state, ghosts, Measured
<1> QED BY <1>1, <1>2, <1>3, <1>4, <1>5, <1>6, <1>7, <1>8, <1>9, <1>10, <1>11, <1>12 DEF Next

\* The configuration a finished run offers to later sessions was on the host as a
\* whole when a benchmark was accepted, keys with a failed command apart: the
\* ledger that best_configuration is copied from never runs ahead of the host.
THEOREM BestConfigsMeasured == Spec => []BestConfigWasMeasured
<1>1. Init => Basics /\ Account /\ Measured
  <2>1. Init => Measured
    BY DEF Init, Measured
  <2> QED BY <2>1, InitBasics, InitAccount
<1>2. Basics /\ Account /\ Measured /\ [Next]_vars => Basics' /\ Account' /\ Measured'
  BY BasicsStep, AccountStep, MeasuredStep
<1>3. Basics /\ Account /\ Measured => BestConfigWasMeasured
  <2>1. SUFFICES ASSUME Basics, Measured, run >= FirstRun, Finished(run), kb.runs[run].score # Absent
                 PROVE  \E h \in accepted : \A k \in DOMAIN kb.runs[run].config \ blamed :
                          h[k] = kb.runs[run].config[k]
    BY DEF BestConfigWasMeasured
  <2>2. best # NoBest /\ kb.runs[run].config = best.values
    BY <2>1 DEF Basics, Books
  <2> QED BY <2>1, <2>2 DEF Measured
<1> QED BY <1>1, <1>2, <1>3, PTL DEF Spec

-----------------------------------------------------------------------------
(* Recipes.                                                                *)

\* L has all that is in K, K's recipes and their runs unchanged.
Extended(K, L) ==
  /\ \A i \in DOMAIN K.events : i \in DOMAIN L.events /\ L.events[i] = K.events[i]
  /\ \A q \in DOMAIN K.recipes :
       /\ q \in DOMAIN K.runs => q \in DOMAIN L.runs /\ L.runs[q] = K.runs[q]
       /\ q \in DOMAIN L.recipes /\ L.recipes[q] = K.recipes[q]

LEMMA StepKept ==
  ASSUME NEW K, NEW L, Extended(K, L), NEW r, NEW s, BenchmarkedStep(K, r, s)
  PROVE  BenchmarkedStep(L, r, s)
<1> DEFINE Names(M, j) == LET e == M.events[j].payload
                          IN e.decision = "accept" /\ s[1] \in DOMAIN e.values /\ e.values[s[1]] = s[2]
           Made(M, j) == \E i \in Preceding(M, j, "change_applied") :
                           M.events[i].payload.key = s[1] /\ M.events[i].payload.value = s[2]
           Failed(M, j) == /\ M.events[j].phase = "resolve"
                           /\ \E i \in Preceding(M, j, "apply_failed") : M.events[i].payload.key = s[1]
<1>1. \A M : BenchmarkedStep(M, r, s) <=>
        \E j \in EventsOf(M, r, "evaluation_completed") : Names(M, j) /\ (Made(M, j) \/ Failed(M, j))
  BY DEF BenchmarkedStep
<1>2. PICK j \in EventsOf(K, r, "evaluation_completed") : Names(K, j) /\ (Made(K, j) \/ Failed(K, j))
  BY <1>1
<1>3. j \in EventsOf(L, r, "evaluation_completed") /\ L.events[j] = K.events[j]
  BY DEF Extended, EventsOf
<1>4. ASSUME NEW kind, NEW i \in Preceding(K, j, kind)
      PROVE  i \in Preceding(L, j, kind) /\ L.events[i] = K.events[i]
  BY <1>3 DEF Extended, EventsOf, Preceding
<1>5. Names(L, j)
  BY <1>2, <1>3
<1>6. Made(K, j) => Made(L, j)
  BY <1>4
<1>7. Failed(K, j) => Failed(L, j)
  BY <1>3, <1>4
<1> HIDE DEF Names, Made, Failed
<1> QED BY <1>1, <1>2, <1>3, <1>5, <1>6, <1>7

LEMMA RecipeKept ==
  ASSUME NEW K, NEW L, Extended(K, L), NEW r \in DOMAIN K.recipes, ProvenRecipe(K, r)
  PROVE  ProvenRecipe(L, r)
<1>1. /\ r \in DOMAIN L.runs /\ L.runs[r] = K.runs[r] /\ L.recipes[r] = K.recipes[r]
      /\ r \in DOMAIN K.runs /\ K.runs[r].completed > 0
      /\ K.runs[r].score = K.recipes[r].score /\ K.recipes[r].score > 0
  BY DEF ProvenRecipe, Extended
<1>2. \A i \in DOMAIN K.recipes[r].steps : BenchmarkedStep(K, r, K.recipes[r].steps[i])
  BY DEF ProvenRecipe
<1>3. \A i \in DOMAIN L.recipes[r].steps : BenchmarkedStep(L, r, L.recipes[r].steps[i])
  BY <1>1, <1>2, StepKept
<1> QED BY <1>1, <1>3 DEF ProvenRecipe

LEMMA RecordExtends ==
  ASSUME NEW K, NEW r, KnowledgeBaseOK(K, r), NEW e
  PROVE  Extended(K, Record(K, e))
<1>1. /\ Record(K, e).runs = K.runs /\ Record(K, e).recipes = K.recipes
      /\ Record(K, e).events = Append(K.events, e)
  BY RecordFacts
<1>2. K.events \in Seq(Events)
  BY DEF KnowledgeBaseOK
<1>3. \A i \in DOMAIN K.events : i \in DOMAIN Append(K.events, e) /\ Append(K.events, e)[i] = K.events[i]
  BY <1>2
<1> QED BY <1>1, <1>3 DEF Extended

\* The event of a group's evaluation.
Evaluated(o) ==
  Event("evaluation_completed",
        [decision |-> o.decision, values |-> With(AppliedValues, hyps[1][1], hyps[1][2])])

LEMMA ExtendedStep ==
  ASSUME Basics, [Next]_vars
  PROVE  Extended(kb, kb')
<1>1. KnowledgeBaseOK(kb, run) /\ run \in Nat
  BY NumberFacts DEF Basics, TypeOK
<1>2. CASE kb' = kb
  BY <1>2 DEF Extended
<1>3. CASE \E e : kb' = Record(kb, e)
  BY <1>1, <1>3, RecordExtends
<1>4. CASE BuildTuneContext
  <2>1. kb' = RecordRun(kb, run) /\ step = "measured"
    BY <1>4 DEF BuildTuneContext
  <2>2. run \in Nat \ {0} /\ run \notin DOMAIN kb.runs
    BY <2>1, NumberFacts DEF Basics, Books
  <2> QED BY <1>1, <2>1, <2>2, RecordRunFacts DEF Extended
<1>5. CASE Finalize
  <2>1. run \notin DOMAIN kb.recipes
    BY <1>5, NumberFacts DEF Finalize, Basics, Books
  <2> QED BY <1>5, <2>1, FinalizeWrites DEF Extended
<1>6. CASE StoreFixes
  <2> DEFINE L == StoreRecipe(kb, run, baseline, FixSequence, best.score)
  <2>1. step = "finalized" /\ (kb' = kb \/ kb' = L)
    BY <1>6 DEF StoreFixes
  <2>2. /\ run \in DOMAIN kb.runs /\ run \notin DOMAIN kb.recipes /\ best.score \in Nat
        /\ baseline \in Shapes
    BY <2>1, NumberFacts DEF Basics, Books, TypeOK, Shapes
  <2>3. FixSequence \in Seq(Pairs)
    BY FixFacts DEF Basics
  <2>4. /\ L.runs = kb.runs /\ L.events = kb.events /\ DOMAIN L.recipes = DOMAIN kb.recipes \cup {run}
        /\ \A q \in DOMAIN kb.recipes : q # run => L.recipes[q] = kb.recipes[q]
    BY <1>1, <2>2, <2>3, StoreFacts
  <2> HIDE DEF L
  <2> QED BY <1>2, <2>1, <2>2, <2>4 DEF Extended
<1>7. CASE Begin \/ ResolveGraph \/ Apply \/ NothingApplied \/ ValidationFails \/ Attributed
           \/ NotAttributed \/ RollBackAll \/ RestoreBest \/ Crash \/ UNCHANGED vars
  BY <1>2, <1>7 DEF Begin, ResolveGraph, Apply, NothingApplied, ValidationFails, Attributed,
                    NotAttributed, RollBackAll, RestoreBest, Crash, vars
<1>8. CASE LogApplied \/ ApplyFails \/ (\E o \in Outcomes : Evaluate(o)) \/ LogRollBack
  BY <1>3, <1>8 DEF LogApplied, ApplyFails, Evaluate, LogRollBack
<1>9. CASE RecordIteration
  BY <1>2, <1>3, <1>9 DEF RecordIteration
<1>10. CASE \E h \in Keys \X Values : Propose(h) \/ RejectBeforeApply(h)
  BY <1>2, <1>10 DEF Propose, RejectBeforeApply
<1> QED BY <1>4, <1>5, <1>6, <1>7, <1>8, <1>9, <1>10 DEF Next

LEMMA ProvenFacts ==
  ASSUME Proven
  PROVE  /\ \A r \in DOMAIN kb.recipes : ProvenRecipe(kb, r)
         /\ \A i \in DOMAIN history : history[i].decision = "accept" => BenchmarkedStep(kb, run, history[i].pair)
         /\ step \in {"verify", "record"} /\ outcome.decision = "accept" => BenchmarkedStep(kb, run, hyps[1])
BY DEF Proven, RecipesAreProven

LEMMA ProvenNext ==
  ASSUME \A r \in DOMAIN kb'.recipes : ProvenRecipe(kb', r),
         \A i \in DOMAIN history' :
           history'[i].decision = "accept" => BenchmarkedStep(kb', run', history'[i].pair),
         step' \in {"verify", "record"} /\ outcome'.decision = "accept" => BenchmarkedStep(kb', run', hyps'[1])
  PROVE  Proven'
BY DEF Proven, RecipesAreProven

\* The events of the group precede the one of its evaluation.
LEMMA PrecedeEvaluation ==
  ASSUME Basics, NEW o \in Outcomes, Evaluate(o), NEW kind, NEW i \in EventsOf(kb, run, kind), OfGroup(i)
  PROVE  /\ i \in Preceding(kb', Len(kb.events) + 1, kind) /\ kb'.events[i] = kb.events[i]
<1> DEFINE e == Evaluated(o)
           n == Len(kb.events) + 1
<1>1. kb' = Record(kb, e)
  BY DEF Evaluate, Evaluated
<1>2. e.run = run /\ e.phase = phase /\ e.iteration = iteration + 1
  BY DEF Evaluated, Event
<1>3. kb'.events = Append(kb.events, e) /\ kb.events \in Seq(Events)
  <2>1. KnowledgeBaseOK(kb, run)
    BY DEF Basics, TypeOK
  <2> QED BY <1>1, <2>1, RecordFacts DEF KnowledgeBaseOK
<1>4. i \in DOMAIN kb.events /\ kb.events[i].run = run /\ kb.events[i].kind = kind
  BY DEF EventsOf
<1> HIDE DEF e
<1>5. /\ i \in DOMAIN kb'.events /\ kb'.events[i] = kb.events[i] /\ kb'.events[n] = e /\ i < n
  BY <1>3, <1>4
<1> QED BY <1>2, <1>4, <1>5 DEF Preceding, EventsOf, OfGroup

\* A group that is evaluated as accepted applied its first hypothesis, or the
\* trail tells that a batch could not.
LEMMA EvaluationAccepts ==
  ASSUME Basics, GroupTrail, Attempted, NEW o \in Outcomes, Evaluate(o), o.decision = "accept"
  PROVE  BenchmarkedStep(kb', run, hyps[1])
<1> DEFINE values == With(AppliedValues, hyps[1][1], hyps[1][2])
           e == Evaluated(o)
           n == Len(kb.events) + 1
<1>1. kb' = Record(kb, e) /\ step = "apply" /\ queue = <<>>
  BY DEF Evaluate, Evaluated
<1>2. /\ e.run = run /\ e.kind = "evaluation_completed" /\ e.phase = phase
      /\ e.payload = [decision |-> o.decision, values |-> values]
  BY DEF Evaluated, Event
<1>3. hyps[1][1] \in DOMAIN values /\ values[hyps[1][1]] = hyps[1][2]
  BY DEF With
<1>4. kb'.events = Append(kb.events, e) /\ kb.events \in Seq(Events)
  <2>1. KnowledgeBaseOK(kb, run)
    BY DEF Basics, TypeOK
  <2> QED BY <1>1, <2>1, RecordFacts DEF KnowledgeBaseOK
<1> HIDE DEF e, values
<1>5. n \in DOMAIN kb'.events /\ kb'.events[n] = e
  BY <1>4
<1>6. n \in EventsOf(kb', run, "evaluation_completed")
  BY <1>2, <1>5 DEF EventsOf
<1>7. /\ kb'.events[n].payload.decision = "accept" /\ kb'.events[n].phase = phase
      /\ hyps[1][1] \in DOMAIN kb'.events[n].payload.values
      /\ kb'.events[n].payload.values[hyps[1][1]] = hyps[1][2]
  BY <1>2, <1>3, <1>5
<1> HIDE DEF n
<1>8. 1 \in DOMAIN hyps
  <2>1. hyps \in Seq(Pairs) /\ hyps # <<>>
    BY <1>1 DEF Basics, TypeOK, Lists, Working
  <2> QED BY <2>1
<1>9. \/ \E m \in DOMAIN applied : hyps[1] = <<applied[m].key, applied[m].value>>
      \/ /\ phase = "resolve"
         /\ \E j \in EventsOf(kb, run, "apply_failed") :
              OfGroup(j) /\ kb.events[j].payload.key = hyps[1][1]
  BY <1>1, <1>8 DEF Attempted
<1>10. CASE \E m \in DOMAIN applied : hyps[1] = <<applied[m].key, applied[m].value>>
  <2>1. PICK m \in DOMAIN applied : hyps[1] = <<applied[m].key, applied[m].value>>
    BY <1>10
  <2>2. PICK i \in EventsOf(kb, run, "change_applied") : OfGroup(i) /\ kb.events[i].payload = applied[m]
    BY <1>1 DEF GroupTrail, Logged, Changes, Working
  <2>3. i \in Preceding(kb', n, "change_applied") /\ kb'.events[i] = kb.events[i]
    BY <2>2, PrecedeEvaluation DEF n
  <2>4. kb'.events[i].payload.key = hyps[1][1] /\ kb'.events[i].payload.value = hyps[1][2]
    BY <2>1, <2>2, <2>3
  <2> QED BY <1>6, <1>7, <2>3, <2>4 DEF BenchmarkedStep
<1>11. CASE /\ phase = "resolve"
            /\ \E j \in EventsOf(kb, run, "apply_failed") :
                 OfGroup(j) /\ kb.events[j].payload.key = hyps[1][1]
  <2>1. PICK j \in EventsOf(kb, run, "apply_failed") :
          OfGroup(j) /\ kb.events[j].payload.key = hyps[1][1]
    BY <1>11
  <2>2. j \in Preceding(kb', n, "apply_failed") /\ kb'.events[j] = kb.events[j]
    BY <2>1, PrecedeEvaluation DEF n
  <2> QED BY <1>6, <1>7, <1>11, <2>1, <2>2 DEF BenchmarkedStep
<1> QED BY <1>9, <1>10, <1>11

LEMMA RecordingAdds ==
  ASSUME Basics, kb' = kb \/ \E e : kb' = Record(kb, e)
  PROVE  kb'.recipes = kb.recipes /\ kb'.runs = kb.runs
<1>1. KnowledgeBaseOK(kb, run)
  BY DEF Basics, TypeOK
<1>2. CASE \E e : kb' = Record(kb, e)
  BY <1>1, <1>2, RecordFacts
<1> QED BY <1>2

\* Most steps add to the knowledge base at most, and change no recipe.
LEMMA ProvenKept ==
  ASSUME Basics, [Next]_vars, Proven, run' = run, kb'.recipes = kb.recipes, history' = history,
         step' \in {"verify", "record"} /\ outcome'.decision = "accept" => BenchmarkedStep(kb', run', hyps'[1])
  PROVE  Proven'
<1>1. Extended(kb, kb')
  BY ExtendedStep
<1>2. \A r \in DOMAIN kb'.recipes : ProvenRecipe(kb', r)
  BY <1>1, ProvenFacts, RecipeKept
<1>3. \A i \in DOMAIN history' :
        history'[i].decision = "accept" => BenchmarkedStep(kb', run', history'[i].pair)
  BY <1>1, ProvenFacts, StepKept
<1> QED BY <1>2, <1>3, ProvenNext

\* What is stored when a session is over are accepted pairs.
LEMMA StoreProven ==
  ASSUME Basics, [Next]_vars, Proven, StoreFixes
  PROVE  Proven'
<1> DEFINE L == StoreRecipe(kb, run, baseline, FixSequence, best.score)
<1>1. /\ step = "finalized" /\ step' = "idle" /\ run' = run /\ history' = history
      /\ kb' = kb \/ (best # NoBest /\ kb' = L)
  BY DEF StoreFixes, state
<1>2. CASE kb' = kb
  BY <1>1, <1>2, ProvenKept
<1>3. CASE best # NoBest /\ kb' = L
  <2>1. /\ KnowledgeBaseOK(kb, run) /\ run \in DOMAIN kb.runs /\ best.score \in Nat /\ baseline \in Shapes
        /\ run >= FirstRun /\ kb.runs[run].completed > 0
        /\ kb.runs[run].score = best.score /\ best.score > 0
    BY <1>1, <1>3, NumberFacts DEF Basics, Books, TypeOK, Shapes, Finished
  <2>2. FixSequence \in Seq(Pairs)
    BY FixFacts DEF Basics
  <2>3. /\ L.runs = kb.runs /\ DOMAIN L.recipes = DOMAIN kb.recipes \cup {run}
        /\ L.events = kb.events /\ L.recipes[run].score = best.score /\ L.recipes[run].steps = FixSequence
    BY <2>1, <2>2, StoreFacts
  <2> HIDE DEF L
  <2>4. Extended(kb, kb')
    BY ExtendedStep
  <2>5. ASSUME NEW i \in DOMAIN FixSequence PROVE BenchmarkedStep(kb', run, FixSequence[i])
    <3>1. PICK n \in DOMAIN history : history[n].decision = "accept" /\ FixSequence[i] = history[n].pair
      BY FixFacts DEF Basics
    <3>2. BenchmarkedStep(kb, run, FixSequence[i])
      BY <3>1, ProvenFacts
    <3> QED BY <2>4, <3>2, StepKept
  <2>6. ProvenRecipe(kb', run)
    BY <1>3, <2>1, <2>3, <2>5 DEF ProvenRecipe
  <2>7. \A r \in DOMAIN kb'.recipes : ProvenRecipe(kb', r)
    <3>1. \A r \in DOMAIN kb.recipes : ProvenRecipe(kb', r)
      BY <2>4, ProvenFacts, RecipeKept
    <3> QED BY <1>3, <2>3, <2>6, <3>1
  <2>8. \A i \in DOMAIN history' :
          history'[i].decision = "accept" => BenchmarkedStep(kb', run', history'[i].pair)
    BY <1>1, <2>4, ProvenFacts, StepKept
  <2> QED BY <1>1, <2>7, <2>8, ProvenNext
<1> QED BY <1>1, <1>2, <1>3

\* In the history a pair is accepted when its evaluation was.
LEMMA RecordProven ==
  ASSUME Basics, Basics', [Next]_vars, Proven, RecordIteration
  PROVE  Proven'
<1> DEFINE entry == [pair |-> hyps[1], decision |-> outcome.decision]
<1>1. /\ step = "record" /\ step' = "loop" /\ run' = run /\ history' = Append(history, entry)
      /\ kb' = kb \/ \E e : kb' = Record(kb, e)
  BY DEF RecordIteration
<1>2. kb'.recipes = kb.recipes /\ history \in Seq([pair : Pairs, decision : Decided])
  BY <1>1, RecordingAdds DEF Basics, TypeOK
<1>3. entry.pair = hyps[1] /\ entry.decision = outcome.decision
  OBVIOUS
<1> HIDE DEF entry
<1>4. Extended(kb, kb')
  BY ExtendedStep
<1>5. \A r \in DOMAIN kb'.recipes : ProvenRecipe(kb', r)
  BY <1>2, <1>4, ProvenFacts, RecipeKept
<1>6. ASSUME NEW i \in DOMAIN history', history'[i].decision = "accept"
      PROVE  BenchmarkedStep(kb', run', history'[i].pair)
  <2>1. (i \in DOMAIN history /\ history'[i] = history[i]) \/ history'[i] = entry
    BY <1>1, <1>2
  <2>2. CASE i \in DOMAIN history /\ history'[i] = history[i]
    BY <1>1, <1>4, <1>6, <2>2, ProvenFacts, StepKept
  <2>3. CASE history'[i] = entry
    <3>1. BenchmarkedStep(kb, run, hyps[1])
      BY <1>1, <1>3, <1>6, <2>3, ProvenFacts
    <3> QED BY <1>1, <1>3, <1>4, <2>3, <3>1, StepKept
  <2> QED BY <2>1, <2>2, <2>3
<1> QED BY <1>1, <1>5, <1>6, ProvenNext

LEMMA ProvenStep ==
  ASSUME Basics, Basics', GroupTrail, Attempted, Proven, [Next]_vars
  PROVE  Proven'
<1>1. CASE Begin
  <2>1. step' = "measured" /\ history' = <<>> /\ kb' = kb
    BY <1>1 DEF Begin
  <2> QED BY <2>1, ProvenFacts, ProvenNext
<1>2. CASE BuildTuneContext \/ ResolveGraph \/ NothingApplied \/ ValidationFails \/ NotAttributed
  <2>1. /\ step' \in {"resolve", "loop", "apply", "undo"} /\ run' = run /\ history' = history
        /\ kb'.recipes = kb.recipes
    BY <1>2 DEF BuildTuneContext, RecordRun, ResolveGraph, NothingApplied, ValidationFails,
                NotAttributed, state, Basics, TypeOK, KnowledgeBaseOK
  <2> QED BY <2>1, ProvenKept
<1>3. CASE Apply \/ LogApplied \/ ApplyFails
  <2>1. /\ step' \in {"log", "apply", "undo"} /\ run' = run /\ history' = history
        /\ kb' = kb \/ \E e : kb' = Record(kb, e)
    BY <1>3 DEF Apply, LogApplied, ApplyFails, state, group
  <2> QED BY <2>1, ProvenKept, RecordingAdds
<1>4. CASE \E o \in Outcomes : Evaluate(o)
  <2>1. PICK o \in Outcomes : Evaluate(o)
    BY <1>4
  <2>2. /\ outcome' = o /\ hyps' = hyps /\ run' = run /\ history' = history
        /\ \E e : kb' = Record(kb, e)
    BY <2>1 DEF Evaluate, state
  <2>3. o.decision = "accept" => BenchmarkedStep(kb', run', hyps'[1])
    BY <2>1, <2>2, EvaluationAccepts
  <2> QED BY <2>2, <2>3, ProvenKept, RecordingAdds
<1>5. CASE Attributed
  <2>1. /\ step = "verify" /\ run' = run /\ history' = history /\ kb' = kb /\ hyps' = hyps
        /\ outcome' = outcome
    BY <1>5 DEF Attributed, group
  <2> QED BY <2>1, ProvenKept, ProvenFacts
<1>6. CASE RollBackAll
  <2>1. /\ step = "undo" /\ run' = run /\ history' = history /\ kb' = kb /\ outcome' = outcome
    BY <1>6 DEF RollBackAll, group
  <2>2. outcome.decision # "accept"
    BY <2>1 DEF Basics, Decision
  <2> QED BY <2>1, <2>2, ProvenKept
<1>7. CASE LogRollBack
  <2>1. /\ step = "undone" /\ run' = run /\ history' = history /\ outcome' = outcome
        /\ \E e : kb' = Record(kb, e)
    BY <1>7 DEF LogRollBack, state
  <2>2. outcome.decision # "accept"
    BY <2>1 DEF Basics, Decision
  <2> QED BY <2>1, <2>2, ProvenKept, RecordingAdds
<1>8. CASE RecordIteration
  BY <1>8, RecordProven
<1>9. CASE \E h \in Keys \X Values : Propose(h)
  <2>1. step' = "apply" /\ run' = run /\ history' = history /\ kb' = kb
    BY <1>9 DEF Propose
  <2> QED BY <2>1, ProvenKept
<1>10. CASE \E h \in Keys \X Values : RejectBeforeApply(h)
  <2>1. PICK h \in Pairs : RejectBeforeApply(h)
    BY <1>10 DEF Pairs
  <2> DEFINE refused == [pair |-> Normalized(<<h>>, host, Planned)[1], decision |-> "refused"]
  <2>2. /\ step = "loop" /\ step' = step /\ run' = run /\ kb' = kb /\ history' = Append(history, refused)
    BY <2>1 DEF RejectBeforeApply
  <2>3. refused.decision = "refused" /\ history \in Seq([pair : Pairs, decision : Decided])
    BY DEF Basics, TypeOK
  <2> HIDE DEF refused
  <2>4. \A i \in DOMAIN history' :
          history'[i].decision = "accept" => BenchmarkedStep(kb', run', history'[i].pair)
    <3>1. \A i \in DOMAIN history' :
            (i \in DOMAIN history /\ history'[i] = history[i]) \/ history'[i] = refused
      BY <2>2, <2>3
    <3> QED BY <2>2, <2>3, <3>1, ProvenFacts
  <2> QED BY <2>2, <2>4, ProvenFacts, ProvenNext
<1>11. CASE RestoreBest \/ Crash
  <2>1. step' \in {"restored", "idle"} /\ run' = run /\ history' = history /\ kb' = kb
    BY <1>11 DEF RestoreBest, Crash, state
  <2> QED BY <2>1, ProvenKept
<1>12. CASE Finalize
  <2>1. step' = "finalized" /\ run' = run /\ history' = history
    BY <1>12 DEF Finalize, state
  <2>2. kb'.recipes = kb.recipes
    BY <1>12 DEF Finalize, FinalizeRun, Basics, TypeOK, KnowledgeBaseOK
  <2> QED BY <2>1, <2>2, ProvenKept
<1>13. CASE StoreFixes
  BY <1>13, StoreProven
<1>14. CASE UNCHANGED vars
  <2>1. /\ run' = run /\ history' = history /\ kb' = kb /\ step' = step /\ outcome' = outcome /\ hyps' = hyps
    BY <1>14 DEF vars, group, state
  <2> QED BY <2>1, ProvenKept, ProvenFacts
<1> QED BY <1>1, <1>2, <1>3, <1>4, <1>5, <1>6, <1>7, <1>8, <1>9, <1>10, <1>11, <1>12, <1>13, <1>14
    DEF Next

LEMMA InitProven ==
  ASSUME Init
  PROVE  Proven
<1>1. history = <<>> /\ step = "idle" /\ kb \in InitialKBs
  BY DEF Init
<1>2. RecipesAreProven
  BY <1>1, KnowledgeAssumption DEF RecipesAreProven
<1> QED BY <1>1, <1>2 DEF Proven

-----------------------------------------------------------------------------
(* Pairs that failed before.                                               *)

\* Knowledge bases that differ in run r alone.
SameForOthers(K, L, r) ==
  /\ \A q : q # r => (q \in DOMAIN K.runs <=> q \in DOMAIN L.runs)
  /\ \A q \in DOMAIN K.runs : q # r => L.runs[q] = K.runs[q]
  /\ \A i \in DOMAIN K.events : K.events[i].run # r => i \in DOMAIN L.events /\ L.events[i] = K.events[i]
  /\ \A i \in DOMAIN L.events : L.events[i].run # r => i \in DOMAIN K.events /\ L.events[i] = K.events[i]
  /\ \A q : q # r => (q \in DOMAIN K.recipes <=> q \in DOMAIN L.recipes)
  /\ \A q \in DOMAIN K.recipes : q # r => L.recipes[q] = K.recipes[q]

\* To run r they are the same: the runs it consults ...
LEMMA SameSimilar ==
  ASSUME NEW K, NEW L, NEW r, SameForOthers(K, L, r), NEW limit
  PROVE  /\ SimilarRuns(L, r, limit) = SimilarRuns(K, r, limit)
         /\ \A q \in SimilarRuns(K, r, limit) : q \in DOMAIN K.runs /\ q # r /\ L.runs[q] = K.runs[q]
<1>1. \A q, kind : q # r => EventsOf(L, q, kind) = EventsOf(K, q, kind)
  BY DEF EventsOf, SameForOthers
<1>2. \A q, kind : q # r => \A i \in EventsOf(K, q, kind) : L.events[i] = K.events[i]
  BY DEF EventsOf, SameForOthers
<1>3. \A q : q # r => HomepageRps(L, q) = HomepageRps(K, q)
  <2>1. SUFFICES ASSUME NEW q, q # r PROVE HomepageRps(L, q) = HomepageRps(K, q)
    OBVIOUS
  <2> DEFINE I == EventsOf(K, q, "best_config_updated")
  <2>2. I = EventsOf(L, q, "best_config_updated") /\ \A i \in I : L.events[i] = K.events[i]
    BY <1>1, <1>2, <2>1
  <2> HIDE DEF I
  <2>3. {L.events[i].payload.rps : i \in I} = {K.events[i].payload.rps : i \in I}
    BY <2>2
  <2> QED BY <2>2, <2>3 DEF HomepageRps, I
<1>4. Comparable(L, r) = Comparable(K, r)
  BY DEF Comparable, SameForOthers
<1> DEFINE C == Comparable(K, r)
<1>5. \A p, q \in C : RanksAbove(L, p, q) = RanksAbove(K, p, q)
  <2>1. SUFFICES ASSUME NEW p \in C, NEW q \in C PROVE RanksAbove(L, p, q) = RanksAbove(K, p, q)
    OBVIOUS
  <2>2. p # r /\ q # r /\ p \in DOMAIN K.runs /\ q \in DOMAIN K.runs
    BY <2>1 DEF Comparable
  <2>3. L.runs[p] = K.runs[p] /\ L.runs[q] = K.runs[q]
    BY <2>2 DEF SameForOthers
  <2> QED BY <1>3, <2>2, <2>3 DEF RanksAbove
<1> HIDE DEF C
<1>6. SimilarRuns(L, r, limit) = SimilarRuns(K, r, limit)
  <2>1. \A q \in C : {p \in C : RanksAbove(L, p, q)} = {p \in C : RanksAbove(K, p, q)}
    BY <1>5
  <2>2. /\ SimilarRuns(L, r, limit) = {q \in C : Cardinality({p \in C : RanksAbove(L, p, q)}) < limit}
        /\ SimilarRuns(K, r, limit) = {q \in C : Cardinality({p \in C : RanksAbove(K, p, q)}) < limit}
    BY <1>4 DEF SimilarRuns, C
  <2> QED BY <2>1, <2>2
<1>7. \A q \in SimilarRuns(K, r, limit) : q \in DOMAIN K.runs /\ q # r
  BY DEF SimilarRuns, Comparable
<1> QED BY <1>6, <1>7 DEF SameForOthers

\* ... and what they found out ...
LEMMA SameDecisions ==
  ASSUME NEW K, NEW L, NEW r, SameForOthers(K, L, r), NEW limit
  PROVE  /\ Decisions(L, SimilarRuns(L, r, limit)) = Decisions(K, SimilarRuns(K, r, limit))
         /\ \A i \in Decisions(K, SimilarRuns(K, r, limit)) : L.events[i] = K.events[i]
<1> DEFINE runs == SimilarRuns(K, r, limit)
<1>1. SimilarRuns(L, r, limit) = runs /\ \A q \in runs : q # r
  BY SameSimilar
<1> HIDE DEF runs
<1>2. \A q \in runs : EventsOf(L, q, "evaluation_completed") = EventsOf(K, q, "evaluation_completed")
  BY <1>1 DEF EventsOf, SameForOthers
<1>3. \A q \in runs : \A i \in EventsOf(K, q, "evaluation_completed") : L.events[i] = K.events[i]
  BY <1>1 DEF EventsOf, SameForOthers
<1>4. Decisions(L, runs) = Decisions(K, runs)
  BY <1>2 DEF Decisions
<1>5. \A i \in Decisions(K, runs) : L.events[i] = K.events[i]
  BY <1>3 DEF Decisions
<1> QED BY <1>1, <1>4, <1>5 DEF runs

\* ... so that it is told the same: which pairs failed, ...
LEMMA SameBlocked ==
  ASSUME NEW K, NEW L, NEW r, SameForOthers(K, L, r)
  PROVE  BlockedPairs(L, r) = BlockedPairs(K, r)
<1> DEFINE D == Decisions(K, SimilarRuns(K, r, BlockedRuns))
           tried == {"reject", "inconclusive"}
<1>1. D = Decisions(L, SimilarRuns(L, r, BlockedRuns)) /\ \A i \in D : L.events[i] = K.events[i]
  BY SameDecisions
<1>2. /\ BlockedPairs(L, r) = UNION {FailedPairs(L, i, tried) : i \in D}
      /\ BlockedPairs(K, r) = UNION {FailedPairs(K, i, tried) : i \in D}
  BY <1>1 DEF BlockedPairs
<1> HIDE DEF D, tried
<1>3. \A i \in D : FailedPairs(L, i, tried) = FailedPairs(K, i, tried)
  BY <1>1 DEF FailedPairs
<1> QED BY <1>2, <1>3

\* ... which keys are sure, ...
LEMMA SameConfident ==
  ASSUME NEW K, NEW L, NEW r, SameForOthers(K, L, r), NEW percent
  PROVE  Confident(L, r, percent) = Confident(K, r, percent)
<1> DEFINE D == Decisions(K, SimilarRuns(K, r, ConfidentRuns))
           Tests(M, k) == {i \in D : k \in DOMAIN M.events[i].payload.values}
           Taken(M, k) == {i \in Tests(M, k) : M.events[i].payload.decision = "accept"}
           Tested(M) == UNION {DOMAIN M.events[i].payload.values : i \in D}
<1>1. D = Decisions(L, SimilarRuns(L, r, ConfidentRuns)) /\ \A i \in D : L.events[i] = K.events[i]
  BY SameDecisions
<1>2. /\ Confident(L, r, percent)
           = {k \in Tested(L) : 100 * Cardinality(Taken(L, k)) >= percent * Cardinality(Tests(L, k))}
      /\ Confident(K, r, percent)
           = {k \in Tested(K) : 100 * Cardinality(Taken(K, k)) >= percent * Cardinality(Tests(K, k))}
  BY <1>1 DEF Confident
<1> HIDE DEF D
<1>3. Tested(L) = Tested(K)
  BY <1>1
<1>4. \A k : Tests(L, k) = Tests(K, k)
  BY <1>1
<1>5. \A k : Taken(L, k) = Taken(K, k)
  BY <1>1
<1> HIDE DEF Tests, Taken, Tested
<1> QED BY <1>2, <1>3, <1>4, <1>5

\* ... which configuration was best, ...
LEMMA SamePriorBest ==
  ASSUME NEW K, NEW L, NEW r, SameForOthers(K, L, r)
  PROVE  PriorBestConfig(L, r) = PriorBestConfig(K, r)
<1> DEFINE tops == SimilarRuns(K, r, 1)
           One(S) == CHOOSE x \in S : TRUE
<1>1. SimilarRuns(L, r, 1) = tops /\ \A x \in tops : L.runs[x] = K.runs[x]
  BY SameSimilar
<1>2. \A M : PriorBestConfig(M, r) = IF SimilarRuns(M, r, 1) = {} THEN Nothing
                                     ELSE M.runs[One(SimilarRuns(M, r, 1))].config
  BY DEF PriorBestConfig
<1>3. tops # {} => One(tops) \in tops
  <2> HIDE DEF tops
  <2> QED OBVIOUS
<1>4. PriorBestConfig(K, r) = IF tops = {} THEN Nothing ELSE K.runs[One(tops)].config
  BY <1>2
<1>5. PriorBestConfig(L, r) = IF tops = {} THEN Nothing ELSE L.runs[One(tops)].config
  <2> HIDE DEF tops, One
  <2> QED BY <1>1, <1>2
<1> HIDE DEF tops, One
<1> QED BY <1>1, <1>3, <1>4, <1>5

\* ... and which recipe fits.
LEMMA SameRecipe ==
  ASSUME NEW K, NEW L, NEW r, SameForOthers(K, L, r), DOMAIN K.recipes \subseteq Nat, NEW shape
  PROVE  Recipe(L, r, shape) = Recipe(K, r, shape)
<1> DEFINE Likeness(M, q) == Similarity[shape, M.recipes[q].shape]
           Matching(M) == {q \in DOMAIN M.recipes \ {r} : Likeness(M, q) > 0}
           Closest(M) == {q \in Matching(M) : \A p \in Matching(M) : Likeness(M, p) <= Likeness(M, q)}
           Top(M) == {q \in Closest(M) : \A p \in Closest(M) : M.recipes[p].score <= M.recipes[q].score}
<1>1. Matching(L) = Matching(K) /\ \A q \in Matching(K) : L.recipes[q] = K.recipes[q]
  BY DEF SameForOthers
<1>6. Closest(L) = Closest(K) /\ Closest(K) \subseteq Matching(K)
  <2>1. \A q \in Matching(K) : Likeness(L, q) = Likeness(K, q)
    BY <1>1
  <2> HIDE DEF Matching, Likeness
  <2> QED BY <1>1, <2>1
<1>2. /\ Recipe(L, r, shape) = IF Top(L) = {} THEN <<>> ELSE L.recipes[Min(Top(L))].steps
      /\ Recipe(K, r, shape) = IF Top(K) = {} THEN <<>> ELSE K.recipes[Min(Top(K))].steps
  BY DEF Recipe
<1>3. Matching(K) \subseteq Nat
  OBVIOUS
<1>4. Top(L) = Top(K) /\ Top(K) \subseteq Matching(K)
  <2> HIDE DEF Matching, Closest
  <2> QED BY <1>1, <1>6
<1> HIDE DEF Matching, Closest, Top
<1>5. Top(K) # {} => Min(Top(K)) \in Top(K)
  BY <1>3, <1>4, MinFacts
<1> QED BY <1>1, <1>2, <1>4, <1>5

LEMMA OthersStep ==
  ASSUME Basics, [Next]_vars
  PROVE  SameForOthers(kb, kb', run)
<1>1. KnowledgeBaseOK(kb, run) /\ run \in Nat
  BY NumberFacts DEF Basics, TypeOK
<1>2. CASE kb' = kb
  BY <1>2 DEF SameForOthers
<1>3. CASE \E kind, payload : kb' = Record(kb, Event(kind, payload))
  <2>1. PICK kind, payload : kb' = Record(kb, Event(kind, payload))
    BY <1>3
  <2> DEFINE e == Event(kind, payload)
  <2>2. e.run = run
    BY DEF Event
  <2>3. kb' = Record(kb, e)
    BY <2>1
  <2> HIDE DEF e
  <2>4. /\ kb'.runs = kb.runs /\ kb'.events = Append(kb.events, e) /\ kb.events \in Seq(Events)
        /\ kb'.recipes = kb.recipes
    BY <1>1, <2>3, RecordFacts DEF KnowledgeBaseOK
  <2>5. /\ \A i \in DOMAIN kb.events : i \in DOMAIN kb'.events /\ kb'.events[i] = kb.events[i]
        /\ \A i \in DOMAIN kb'.events : i \in DOMAIN kb.events \/ kb'.events[i] = e
    BY <2>4
  <2> QED BY <2>2, <2>4, <2>5 DEF SameForOthers
<1>4. CASE BuildTuneContext
  <2>1. kb' = RecordRun(kb, run) /\ step = "measured"
    BY <1>4 DEF BuildTuneContext
  <2>2. run \in Nat \ {0} /\ run \notin DOMAIN kb.runs
    BY <2>1, NumberFacts DEF Basics, Books
  <2> QED BY <1>1, <2>1, <2>2, RecordRunFacts DEF SameForOthers
<1>5. CASE Finalize
  BY <1>5, FinalizeWrites DEF SameForOthers
<1>6. CASE StoreFixes
  <2> DEFINE L == StoreRecipe(kb, run, baseline, FixSequence, best.score)
  <2>1. step = "finalized" /\ (kb' = kb \/ kb' = L)
    BY <1>6 DEF StoreFixes
  <2>2. run \in DOMAIN kb.runs /\ best.score \in Nat /\ baseline \in Shapes
    BY <2>1, NumberFacts DEF Basics, Books, TypeOK, Shapes
  <2>3. FixSequence \in Seq(Pairs)
    BY FixFacts DEF Basics
  <2>4. /\ L.runs = kb.runs /\ L.events = kb.events /\ DOMAIN L.recipes = DOMAIN kb.recipes \cup {run}
        /\ \A q \in DOMAIN kb.recipes : q # run => L.recipes[q] = kb.recipes[q]
    BY <1>1, <2>2, <2>3, StoreFacts
  <2> HIDE DEF L
  <2> QED BY <2>1, <2>4 DEF SameForOthers
<1>7. CASE Begin \/ ResolveGraph \/ Apply \/ NothingApplied \/ ValidationFails \/ Attributed
           \/ NotAttributed \/ RollBackAll \/ RestoreBest \/ Crash \/ UNCHANGED vars
  BY <1>2, <1>7 DEF Begin, ResolveGraph, Apply, NothingApplied, ValidationFails, Attributed,
                    NotAttributed, RollBackAll, RestoreBest, Crash, vars
<1>8. CASE LogApplied \/ ApplyFails \/ (\E o \in Outcomes : Evaluate(o)) \/ LogRollBack
  BY <1>3, <1>8 DEF LogApplied, ApplyFails, Evaluate, LogRollBack
<1>9. CASE RecordIteration
  BY <1>2, <1>3, <1>9 DEF RecordIteration
<1>10. CASE \E h \in Keys \X Values : Propose(h) \/ RejectBeforeApply(h)
  BY <1>2, <1>10 DEF Propose, RejectBeforeApply
<1> QED BY <1>4, <1>5, <1>6, <1>7, <1>8, <1>9, <1>10 DEF Next

\* Whatever a session records, the answers it was given when it began stand: no
\* event, result or recipe of its own is among what it is told, and none of
\* another run changes.
THEOREM AnswersStandFast == Spec => AnswersStand
<1>1. Init => Basics
  BY InitBasics
<1>2. Basics /\ [Next]_vars => Basics'
  BY BasicsStep
<1>3. Basics /\ [Next]_vars =>
        [run' = run =>
           /\ BlockedPairs(kb', run) = BlockedPairs(kb, run)
           /\ Confident(kb', run, 80) = Confident(kb, run, 80)
           /\ PriorBestConfig(kb', run) = PriorBestConfig(kb, run)
           /\ Recipe(kb', run, baseline) = Recipe(kb, run, baseline)]_<<kb, run>>
  <2>1. SUFFICES ASSUME Basics, [Next]_vars
                 PROVE  /\ BlockedPairs(kb', run) = BlockedPairs(kb, run)
                        /\ Confident(kb', run, 80) = Confident(kb, run, 80)
                        /\ PriorBestConfig(kb', run) = PriorBestConfig(kb, run)
                        /\ Recipe(kb', run, baseline) = Recipe(kb, run, baseline)
    OBVIOUS
  <2>2. SameForOthers(kb, kb', run)
    BY <2>1, OthersStep
  <2>3. DOMAIN kb.recipes \subseteq Nat
    BY <2>1, NumberFacts DEF Basics, TypeOK, KnowledgeBaseOK
  <2> QED BY <2>2, <2>3, SameBlocked, SameConfident, SamePriorBest, SameRecipe
<1> QED BY <1>1, <1>2, <1>3, PTL DEF Spec, AnswersStand

Spares(failed) ==
  /\ step \notin {"idle", "measured", "resolve"} => failed \subseteq blocked
  /\ asked \cap failed = {}

\* A step that asks for no pair and forgets none.
LEMMA UnaskedStep ==
  ASSUME Basics, Basics', Unasked, [Next]_vars
  PROVE  Unasked'
<1> DEFINE failed == BlockedPairs(kb, run)
<1>1. Spares(failed)
  BY DEF Unasked, Spares
<1>2. ASSUME run' = run PROVE BlockedPairs(kb', run') = failed
  BY <1>2, OthersStep, SameBlocked
<1>3. ASSUME run' = run,
             step' \notin {"idle", "measured", "resolve"} => failed \subseteq blocked',
             asked' \cap failed = {}
      PROVE  Unasked'
  BY <1>2, <1>3 DEF Unasked
<1> HIDE DEF failed
<1>4. ASSUME run' = run, blocked \subseteq blocked', asked' = asked,
             step' \in {"idle", "measured", "resolve"} \/ step \notin {"idle", "measured", "resolve"}
      PROVE  Unasked'
  BY <1>1, <1>3, <1>4 DEF Spares
<1>5. CASE Begin
  BY <1>5 DEF Begin, Unasked
<1>6. CASE BuildTuneContext \/ Finalize \/ StoreFixes \/ Crash
  BY <1>4, <1>6 DEF BuildTuneContext, Finalize, StoreFixes, Crash, state, ghosts
<1>7. CASE ResolveGraph
  <2> DEFINE input == [current |-> host, active |-> DOMAIN active,
                       recipe |-> Recipe(kb, run, baseline),
                       best |-> PriorBestConfig(kb, run), sure |-> Confident(kb, run, 80),
                       blocked |-> blocked']
  <2>1. /\ blocked' = failed /\ hyps' = Resolve(input) /\ run' = run
        /\ asked' = {hyps'[i] : i \in DOMAIN hyps'}
    BY <1>7 DEF ResolveGraph, failed
  <2>2. input.blocked = blocked' /\ InputTyped(input)
    <3>1. KnowledgeBaseOK(kb, run) /\ run \in Nat
      BY NumberFacts DEF Basics, TypeOK
    <3> QED BY <3>1, RecipeTyped, PriorBestTyped DEF InputTyped
  <2> HIDE DEF input
  <2>3. \A i \in DOMAIN hyps' : hyps'[i] \notin failed
    BY <2>1, <2>2, ResolveFacts
  <2> QED BY <1>3, <2>1, <2>3
<1>8. CASE Apply \/ LogApplied \/ ApplyFails \/ NothingApplied \/ ValidationFails
  BY <1>4, <1>8 DEF Apply, LogApplied, ApplyFails, NothingApplied, ValidationFails, state, group,
                    ghosts
<1>9. CASE \E o \in Outcomes : Evaluate(o)
  BY <1>4, <1>9 DEF Evaluate, state
<1>10. CASE Attributed \/ NotAttributed \/ RollBackAll \/ LogRollBack \/ RestoreBest
  BY <1>4, <1>10 DEF Attributed, NotAttributed, RollBackAll, LogRollBack, RestoreBest, state,
                     group, ghosts
<1>11. CASE RecordIteration
  <2>1. blocked \subseteq blocked'
    BY <1>11 DEF RecordIteration
  <2> QED BY <1>4, <1>11, <2>1 DEF RecordIteration, ghosts
<1>12. CASE \E h \in Keys \X Values : Propose(h) \/ RejectBeforeApply(h)
  <2>1. PICK h \in Keys \X Values : Propose(h) \/ RejectBeforeApply(h)
    BY <1>12
  <2>2. /\ step = "loop" /\ h \notin blocked /\ blocked \subseteq blocked' /\ run' = run
        /\ asked' = asked \cup {h}
    BY <2>1 DEF Propose, RejectBeforeApply, Offered
  <2>3. failed \subseteq blocked /\ asked \cap failed = {}
    BY <1>1, <2>2 DEF Spares
  <2> QED BY <1>3, <2>2, <2>3
<1>13. CASE UNCHANGED vars
  <2>1. run' = run /\ blocked' = blocked /\ asked' = asked /\ step' = step
    BY <1>13 DEF vars, state, ghosts
  <2> QED BY <1>4, <2>1
<1> QED BY <1>5, <1>6, <1>7, <1>8, <1>9, <1>10, <1>11, <1>12, <1>13 DEF Next

\* A pair the session applied and asked for did not fail in the runs it consults:
\* those are the same when it ends as when it began, whatever it recorded itself.
THEOREM FailedPairsSpared == Spec => []FailedPairsStayBlocked
<1>1. Init => Basics /\ Unasked
  <2>1. Init => Unasked
    BY DEF Init, Unasked
  <2> QED BY <2>1, InitBasics
<1>2. Basics /\ Unasked /\ [Next]_vars => Basics' /\ Unasked'
  BY BasicsStep, UnaskedStep
<1>3. Basics /\ Unasked => FailedPairsStayBlocked
  <2> DEFINE D == Decisions(kb, SimilarRuns(kb, run, BlockedRuns))
             tried == {"reject", "inconclusive"}
  <2>1. SUFFICES ASSUME Basics, Unasked, NEW j \in D,
                        NEW i \in EventsOf(kb, run, "change_applied"),
                        kb.events[j].payload.decision # "accept",
                        kb.events[i].payload.key \in DOMAIN kb.events[j].payload.values,
                        kb.events[j].payload.values[kb.events[i].payload.key] = kb.events[i].payload.value
                 PROVE  <<kb.events[i].payload.key, kb.events[i].payload.value>> \notin asked
    BY DEF FailedPairsStayBlocked
  <2>2. j \in DOMAIN kb.events /\ kb.events[j].kind = "evaluation_completed"
    BY DEF Decisions, EventsOf
  <2>3. kb.events[j].payload.decision \in Verdicts
    <3>1. kb.events[j] \in Events
      BY <2>1, <2>2, KnowledgeTypes DEF Basics, TypeOK
    <3> QED BY <2>2, <3>1, EventPayloads
  <2>4. <<kb.events[i].payload.key, kb.events[i].payload.value>> \in FailedPairs(kb, j, tried)
    BY <2>1, <2>3 DEF FailedPairs, Verdicts
  <2>5. BlockedPairs(kb, run) = UNION {FailedPairs(kb, n, tried) : n \in D}
    BY DEF BlockedPairs
  <2>6. <<kb.events[i].payload.key, kb.events[i].payload.value>> \in BlockedPairs(kb, run)
    BY <2>4, <2>5
  <2>7. asked \cap BlockedPairs(kb, run) = {}
    BY <2>1 DEF Unasked
  <2> QED BY <2>6, <2>7
<1> QED BY <1>1, <1>2, <1>3, PTL DEF Spec

-----------------------------------------------------------------------------
(* The trail of events.                                                    *)

LEMMA EventsKnown ==
  ASSUME Basics
  PROVE  /\ kb.events \in Seq(Events) /\ DOMAIN kb.events = 1..Len(kb.events) /\ Len(kb.events) \in Nat
         /\ \A i \in DOMAIN kb.events : /\ i \in Nat /\ kb.events[i].phase \in Phases
                                        /\ kb.events[i].iteration \in Nat
                                        /\ kb.events[i].run \in DOMAIN kb.runs
         /\ \A i \in Changes : i \in DOMAIN kb.events /\ kb.events[i].payload \in Change
<1>1. KnowledgeBaseOK(kb, run)
  BY DEF Basics, TypeOK
<1>2. /\ kb.events \in Seq(Events)
      /\ \A i \in DOMAIN kb.events : kb.events[i] \in Events /\ kb.events[i].run \in DOMAIN kb.runs
  BY <1>1, KnowledgeTypes DEF KnowledgeBaseOK
<1>3. DOMAIN kb.events = 1..Len(kb.events) /\ Len(kb.events) \in Nat
  BY <1>2
<1>4. \A i \in DOMAIN kb.events : i \in Nat
  BY <1>3
<1>5. \A i \in DOMAIN kb.events : kb.events[i].phase \in Phases /\ kb.events[i].iteration \in Nat
  BY <1>2, EventPayloads
<1>6. ASSUME NEW i \in Changes PROVE i \in DOMAIN kb.events /\ kb.events[i].payload \in Change
  <2>1. i \in DOMAIN kb.events /\ kb.events[i].kind = "change_applied"
    BY DEF Changes, EventsOf
  <2> QED BY <1>2, <2>1, EventPayloads
<1> QED BY <1>2, <1>3, <1>4, <1>5, <1>6

\* A step records at most one event, of the group under way.
Coming == Len(kb.events) + 1
Adds ==
  /\ \A i \in DOMAIN kb.events : i \in DOMAIN kb'.events /\ kb'.events[i] = kb.events[i]
  /\ \A i \in DOMAIN kb'.events :
       \/ i \in DOMAIN kb.events
       \/ /\ i = Coming /\ kb'.events[i].run = run /\ kb'.events[i].phase = phase
          /\ kb'.events[i].iteration = iteration + 1

LEMMA ComingLast ==
  ASSUME Basics
  PROVE  /\ Coming \in Nat /\ Coming \notin DOMAIN kb.events
         /\ \A i \in DOMAIN kb.events : i \in Nat /\ i < Coming
<1>1. DOMAIN kb.events = 1..Len(kb.events) /\ Len(kb.events) \in Nat
  BY EventsKnown
<1> QED BY <1>1 DEF Coming

LEMMA AddsNothing ==
  ASSUME kb'.events = kb.events
  PROVE  Adds
BY DEF Adds

LEMMA AddsEvent ==
  ASSUME Basics, NEW kind, NEW payload, kb' = Record(kb, Event(kind, payload))
  PROVE  /\ Adds /\ DOMAIN kb'.events = DOMAIN kb.events \cup {Coming}
         /\ kb'.events[Coming].kind = kind /\ kb'.events[Coming].payload = payload
         /\ kb'.events[Coming].run = run /\ kb'.events[Coming].phase = phase
         /\ kb'.events[Coming].iteration = iteration + 1
<1> DEFINE e == Event(kind, payload)
<1>1. /\ e.run = run /\ e.kind = kind /\ e.phase = phase /\ e.iteration = iteration + 1 /\ e.payload = payload
  BY DEF Event
<1>2. kb' = Record(kb, e) /\ KnowledgeBaseOK(kb, run)
  BY DEF Basics, TypeOK
<1> HIDE DEF e
<1>3. kb'.events = Append(kb.events, e)
  BY <1>2, RecordFacts
<1>4. kb.events \in Seq(Events)
  BY EventsKnown
<1>5. /\ DOMAIN kb'.events = DOMAIN kb.events \cup {Coming} /\ kb'.events[Coming] = e
      /\ \A i \in DOMAIN kb.events : kb'.events[i] = kb.events[i]
  BY <1>3, <1>4 DEF Coming
<1> QED BY <1>1, <1>5 DEF Adds

\* So the events of before and what they undo are as before.
LEMMA OldEvents ==
  ASSUME Basics, Adds, run' = run
  PROVE  /\ \A kind : \A i \in DOMAIN kb.events :
              i \in EventsOf(kb', run', kind) <=> i \in EventsOf(kb, run, kind)
         /\ \A i, j \in DOMAIN kb.events : UndoneBy(j, i)' <=> UndoneBy(j, i)
         /\ \A kind : EventsOf(kb, run, kind) \subseteq DOMAIN kb.events
         /\ \A kind : EventsOf(kb', run', kind) \subseteq DOMAIN kb.events \cup {Coming}
<1>1. \A kind : \A i \in DOMAIN kb.events :
        i \in EventsOf(kb', run', kind) <=> i \in EventsOf(kb, run, kind)
  BY DEF Adds, EventsOf
<1>2. \A i, j \in DOMAIN kb.events : UndoneBy(j, i)' <=> UndoneBy(j, i)
  BY DEF Adds, UndoneBy
<1>3. \A kind : EventsOf(kb, run, kind) \subseteq DOMAIN kb.events
  BY DEF EventsOf
<1>4. \A kind : EventsOf(kb', run', kind) \subseteq DOMAIN kb.events \cup {Coming}
  BY DEF Adds, EventsOf
<1> QED BY <1>1, <1>2, <1>3, <1>4

\* An event of the group undoes changes of the group only.
LEMMA ComingUndoes ==
  ASSUME Basics, Adds, NEW c, c = Coming, c \in DOMAIN kb'.events,
         NEW i \in DOMAIN kb.events, UndoneBy(c, i)'
  PROVE  OfGroup(i)
<1>1. kb'.events[c].phase = phase /\ kb'.events[c].iteration = iteration + 1
  BY ComingLast DEF Adds
<1>2. kb'.events[i] = kb.events[i]
  BY DEF Adds
<1>3. kb'.events[c].iteration = kb'.events[i].iteration /\ kb'.events[c].phase = kb'.events[i].phase
  BY DEF UndoneBy
<1> QED BY <1>1, <1>2, <1>3 DEF OfGroup

LEMMA OutsideKept ==
  ASSUME Basics, Adds, UNCHANGED <<run, phase, iteration>>
  PROVE  Outside' = Outside
<1>1. \A i \in DOMAIN kb.events : OfGroup(i)' <=> OfGroup(i)
  BY DEF Adds, OfGroup
<1>2. ASSUME NEW c, c = Coming, c \in DOMAIN kb'.events PROVE OfGroup(c)'
  BY <1>2, ComingLast DEF Adds, OfGroup
<1>3. ASSUME NEW i \in Outside PROVE i \in Outside'
  <2>1. i \in Changes /\ ~OfGroup(i) /\ \A j \in Undoing : ~UndoneBy(j, i)
    BY DEF Outside, Lasting, Changes, Undoing
  <2>2. i \in DOMAIN kb.events /\ i \in Changes'
    BY <2>1, OldEvents DEF Changes
  <2>3. ASSUME NEW j \in Undoing' PROVE ~UndoneBy(j, i)'
    <3>1. CASE j \in DOMAIN kb.events
      BY <2>1, <2>2, <2>3, <3>1, OldEvents DEF Undoing
    <3>2. CASE j = Coming
      <4>1. j \in DOMAIN kb'.events
        BY <2>3, <3>2 DEF Undoing, EventsOf
      <4> QED BY <2>1, <2>2, <3>2, <4>1, ComingUndoes
    <3> QED BY <2>3, <3>1, <3>2, OldEvents DEF Undoing
  <2> QED BY <1>1, <2>1, <2>2, <2>3 DEF Outside, Lasting, Changes, Undoing
<1>4. ASSUME NEW i \in Outside' PROVE i \in Outside
  <2>1. i \in Changes' /\ ~OfGroup(i)' /\ \A j \in Undoing' : ~UndoneBy(j, i)'
    BY DEF Outside, Lasting, Changes, Undoing
  <2>2. i \in DOMAIN kb.events
    <3>1. i \in DOMAIN kb'.events
      BY <2>1 DEF Changes, EventsOf
    <3> QED BY <1>2, <2>1, <3>1 DEF Adds
  <2>3. i \in Changes
    BY <2>1, <2>2, OldEvents DEF Changes
  <2>4. ASSUME NEW j \in Undoing PROVE ~UndoneBy(j, i)
    <3>1. j \in DOMAIN kb.events /\ j \in Undoing'
      BY <2>4, OldEvents DEF Undoing
    <3> QED BY <2>1, <2>2, <3>1, OldEvents
  <2> QED BY <1>1, <2>1, <2>2, <2>3, <2>4 DEF Outside, Lasting, Changes, Undoing
<1> QED BY <1>3, <1>4

\* The value a set of changes gives a key.
TrailOf(events, base, S, k) ==
  LET made == {i \in S : events[i].payload.key = k}
  IN IF made = {} THEN base[k] ELSE events[Max(made)].payload.value

LEMMA TrailAlike ==
  ASSUME NEW n \in Nat, NEW S, S \subseteq 1..n, NEW events, NEW other,
         \A i \in S : other[i] = events[i], NEW base, NEW k
  PROVE  TrailOf(other, base, S, k) = TrailOf(events, base, S, k)
<1> DEFINE made == {i \in S : events[i].payload.key = k}
<1>1. made = {i \in S : other[i].payload.key = k}
  OBVIOUS
<1>2. CASE made = {}
  BY <1>1, <1>2 DEF TrailOf
<1>3. CASE made # {}
  <2>2. made \subseteq S
    OBVIOUS
  <2>4. \A x \in 1..n : x \in Nat /\ x <= n
    OBVIOUS
  <2>1. \A x \in made : x \in Nat /\ x <= n
    BY <2>2, <2>4
  <2>3. /\ TrailOf(other, base, S, k) = other[Max(made)].payload.value
        /\ TrailOf(events, base, S, k) = events[Max(made)].payload.value
    BY <1>1, <1>3 DEF TrailOf
  <2> HIDE DEF made
  <2>5. Max(made) \in made
    BY <1>3, <2>1, MaxFacts
  <2> QED BY <2>2, <2>3, <2>5
<1> QED BY <1>2, <1>3

LEMMA ValueOfTrail ==
  \A S, k : TrailValue(S, k) = TrailOf(kb.events, start, S, k)
BY DEF TrailValue, TrailOf

LEMMA ExactNow ==
  ASSUME TrailExact, Tuning, NEW k \in Keys \ blamed
  PROVE  IF Working
         THEN \/ step = "record" /\ Keeping /\ k \in AppliedKeys
              \/ TrailOf(kb.events, start, Outside, k) = Origin(k)
         ELSE TrailOf(kb.events, start, Lasting, k) = InForce(k)
BY ValueOfTrail DEF TrailExact

LEMMA ExactNext ==
  ASSUME Tuning' =>
           \A k \in Keys \ blamed' :
             IF Working'
             THEN \/ step' = "record" /\ Keeping' /\ k \in AppliedKeys'
                  \/ TrailOf(kb'.events, start', Outside', k) = Origin(k)'
             ELSE TrailOf(kb'.events, start', Lasting', k) = InForce(k)'
  PROVE  TrailExact'
BY DEF TrailExact, TrailValue, TrailOf

\* The group under way and its hypotheses.
LEMMA MembersStep ==
  ASSUME Basics, Basics', Members, [Next]_vars
  PROVE  Members'
<1>0. queue \in Seq(Pairs) /\ applied \in Seq(Change)
  BY DEF Basics, TypeOK
<1>1. CASE Begin \/ BuildTuneContext \/ NothingApplied \/ RecordIteration \/ RestoreBest \/ Finalize
           \/ StoreFixes \/ Crash
  <2>1. step' \in {"measured", "resolve", "loop", "restored", "finalized", "idle"}
    BY <1>1 DEF Begin, BuildTuneContext, NothingApplied, RecordIteration, RestoreBest, Finalize,
                StoreFixes, Crash
  <2> QED BY <2>1 DEF Members, Working
<1>2. CASE ResolveGraph \/ \E h \in Keys \X Values : Propose(h)
  <2>1. queue' = hyps' /\ applied' = <<>>
    BY <1>2 DEF ResolveGraph, Propose
  <2>2. AppliedKeys' = {}
    BY <2>1 DEF AppliedKeys
  <2>3. Working' => hyps' # <<>>
    BY DEF Basics, Lists
  <2> QED BY <2>1, <2>2, <2>3 DEF Members
<1>3. CASE \E h \in Keys \X Values : RejectBeforeApply(h)
  <2>1. step' = step /\ group' = group /\ step = "loop"
    BY <1>3 DEF RejectBeforeApply
  <2> QED BY <2>1 DEF Members, Working
<1>4. CASE Apply
  <2>1. /\ step = "apply" /\ queue # <<>> /\ queue' = Tail(queue) /\ step' = "log" /\ hyps' = hyps
        /\ applied' = Append(applied, [key |-> Head(queue)[1], prev |-> host[Head(queue)[1]],
                                       value |-> Head(queue)[2]])
    BY <1>4 DEF Apply
  <2>2. KeysOf(queue) \cup AppliedKeys \subseteq KeysOf(hyps)
    BY <2>1 DEF Members, Working
  <2>3. Head(queue) = queue[1] /\ 1 \in DOMAIN queue
    BY <1>0, <2>1, TailFacts
  <2>4. Head(queue)[1] \in KeysOf(queue)
    BY <2>3 DEF KeysOf
  <2>5. KeysOf(queue') \subseteq KeysOf(queue)
    <3>1. \A i \in DOMAIN queue' : i + 1 \in DOMAIN queue /\ queue'[i] = queue[i + 1]
      BY <1>0, <2>1, TailFacts
    <3> QED BY <3>1 DEF KeysOf
  <2>6. AppliedKeys' \subseteq AppliedKeys \cup {Head(queue)[1]}
    BY <1>0, <2>1 DEF AppliedKeys
  <2> QED BY <2>1, <2>2, <2>4, <2>5, <2>6 DEF Members
<1>5. CASE LogApplied
  <2>1. step = "log" /\ step' = "apply" /\ hyps' = hyps /\ queue' = queue /\ applied' = applied
    BY <1>5 DEF LogApplied, group
  <2>2. applied # <<>>
    BY <2>1 DEF Basics, Lists
  <2> QED BY <2>1, <2>2 DEF Members, Working, AppliedKeys
<1>6. CASE ApplyFails
  <2>1. /\ step = "apply" /\ hyps' = hyps /\ applied' = applied /\ queue # <<>>
        /\ \/ phase' = "resolve" /\ queue' = Tail(queue) /\ step' = step
           \/ queue' = <<>> /\ step' = "undo"
    BY <1>6 DEF ApplyFails, state
  <2>2. KeysOf(queue') \subseteq KeysOf(queue)
    <3>1. CASE queue' = <<>>
      BY <3>1 DEF KeysOf
    <3>2. CASE queue' = Tail(queue)
      <4>1. \A i \in DOMAIN queue' : i + 1 \in DOMAIN queue /\ queue'[i] = queue[i + 1]
        BY <1>0, <2>1, <3>2, TailFacts
      <4> QED BY <4>1 DEF KeysOf
    <3> QED BY <2>1, <3>1, <3>2
  <2>3. KeysOf(queue) \cup AppliedKeys \subseteq KeysOf(hyps)
    BY <2>1 DEF Members, Working
  <2>4. AppliedKeys' = AppliedKeys /\ KeysOf(hyps') = KeysOf(hyps)
    BY <2>1 DEF AppliedKeys
  <2>5. ~(step' = "apply" /\ phase' = "optimize")
    BY <2>1
  <2> QED BY <2>2, <2>3, <2>4, <2>5 DEF Members
<1>7. CASE ValidationFails \/ (\E o \in Outcomes : Evaluate(o)) \/ Attributed \/ NotAttributed
           \/ RollBackAll \/ LogRollBack
  <2>1. /\ step \in {"apply", "verify", "undo", "undone"}
        /\ step' \in {"undo", "verify", "record", "undone", "loop"}
    <3>1. CASE \E o \in Outcomes : Evaluate(o)
      BY <3>1 DEF Evaluate, Basics, TypeOK, Phases
    <3> QED BY <1>7, <3>1 DEF ValidationFails, Attributed, NotAttributed, RollBackAll, LogRollBack
  <2>2. queue' = queue /\ applied' = applied /\ (step' = "loop" \/ hyps' = hyps)
    BY <1>7 DEF ValidationFails, Evaluate, Attributed, NotAttributed, RollBackAll, LogRollBack,
                group
  <2> QED BY <2>1, <2>2 DEF Members, Working, AppliedKeys
<1>8. CASE UNCHANGED vars
  <2>1. UNCHANGED <<step, phase, hyps, queue, applied>>
    BY <1>8 DEF vars, group, state
  <2> QED BY <2>1 DEF Members, Working, AppliedKeys
<1> QED BY <1>1, <1>2, <1>3, <1>4, <1>5, <1>6, <1>7, <1>8 DEF Next

LEMMA EnteredStep ==
  ASSUME Basics, Basics', Account, Account', Entered, [Next]_vars
  PROVE  Entered'
<1>0. applied \in Seq(Change)
  BY DEF Basics, TypeOK
<1>1. CASE Begin \/ BuildTuneContext \/ ResolveGraph \/ Apply \/ LogApplied \/ NothingApplied \/ ValidationFails
           \/ NotAttributed \/ RecordIteration \/ (\E h \in Keys \X Values : Propose(h) \/ RejectBeforeApply(h))
           \/ RestoreBest \/ Finalize \/ StoreFixes \/ Crash
  <2>1. step' # "record"
    BY <1>1 DEF Begin, BuildTuneContext, ResolveGraph, Apply, LogApplied, NothingApplied,
                ValidationFails,
         NotAttributed, RecordIteration, Propose, RejectBeforeApply, RestoreBest, Finalize,
         StoreFixes, Crash
  <2> QED BY <2>1 DEF Entered
<1>2. CASE ApplyFails
  <2>1. step' # "record"
    BY <1>2 DEF ApplyFails
  <2> QED BY <2>1 DEF Entered
<1>3. CASE \E o \in Outcomes : Evaluate(o)
  <2>1. /\ step = "apply" /\ phase' = phase /\ applied' = applied /\ active' = active
        /\ step' = "record" => phase # "optimize"
    BY <1>3 DEF Evaluate, state
  <2>2. CASE phase = "resolve"
    <3>1. \A i \in DOMAIN applied : applied[i].key \in DOMAIN active /\ active[applied[i].key] = applied[i]
      BY <2>1, <2>2 DEF Account, Entries, Unsettled
    <3> QED BY <2>1, <3>1 DEF Entered
  <2>3. CASE phase = "optimize"
    BY <2>1, <2>3 DEF Entered
  <2> QED BY <2>2, <2>3 DEF Basics, TypeOK, Phases
<1>4. CASE Attributed
  <2>1. /\ applied' = applied /\ active' = [k \in DOMAIN active \cup AppliedKeys |->
                  IF k \in AppliedKeys THEN Ledger(applied)[k] ELSE active[k]]
        /\ step = "verify"
    BY <1>4 DEF Attributed, group
  <2>2. Apart(applied)
    BY DEF Basics, Lists, Apart
  <2>3. \A i \in DOMAIN applied : applied[i].key \in AppliedKeys /\ Ledger(applied)[applied[i].key] = applied[i]
    BY <1>0, <2>2, LedgerFacts DEF AppliedKeys
  <2>4. \A i \in DOMAIN applied : applied[i].key \in DOMAIN active' /\ active'[applied[i].key] = applied[i]
    BY <2>1, <2>3
  <2> QED BY <2>1, <2>4 DEF Entered
<1>5. CASE RollBackAll \/ LogRollBack
  <2>1. outcome' = outcome /\ phase' = phase /\ step \in {"undo", "undone"}
    BY <1>5 DEF RollBackAll, LogRollBack, group, state
  <2>2. ~Keeping
    BY <2>1 DEF Basics, Decision, Keeping
  <2> QED BY <2>1, <2>2 DEF Entered, Keeping
<1>6. CASE UNCHANGED vars
  <2>1. UNCHANGED <<step, phase, outcome, applied, active>>
    BY <1>6 DEF vars, group, state
  <2> QED BY <2>1 DEF Entered, Keeping
<1> QED BY <1>1, <1>2, <1>3, <1>4, <1>5, <1>6 DEF Next

LEMMA BuildWrites ==
  ASSUME Basics, BuildTuneContext
  PROVE  kb'.events = kb.events /\ run' = run
<1>1. kb' = RecordRun(kb, run) /\ run' = run /\ step = "measured"
  BY DEF BuildTuneContext
<1>2. KnowledgeBaseOK(kb, run) /\ run \in Nat \ {0} /\ run \notin DOMAIN kb.runs
  BY <1>1, NumberFacts DEF Basics, TypeOK, Books
<1> QED BY <1>1, <1>2, RecordRunFacts

\* Every step of a run records at most one event, of the group under way.
LEMMA AddsStep ==
  ASSUME Basics, [Next]_vars, ~Begin
  PROVE  Adds /\ run' = run
<1>1. CASE kb' = kb
  <2>1. run' = run
    BY DEF Next, BuildTuneContext, ResolveGraph, Apply, LogApplied, ApplyFails, NothingApplied,
           ValidationFails,
           Evaluate, Attributed, NotAttributed, RollBackAll, LogRollBack, RecordIteration, Propose,
           RejectBeforeApply, RestoreBest, Finalize, StoreFixes, Crash, vars
  <2> QED BY <1>1, <2>1, AddsNothing
<1>2. CASE BuildTuneContext
  BY <1>2, BuildWrites, AddsNothing
<1>3. CASE LogApplied
  BY <1>3, AddsEvent DEF LogApplied
<1>4. CASE ApplyFails
  BY <1>4, AddsEvent DEF ApplyFails
<1>5. CASE \E o \in Outcomes : Evaluate(o)
  BY <1>5, AddsEvent DEF Evaluate
<1>6. CASE LogRollBack
  BY <1>6, AddsEvent DEF LogRollBack
<1>7. CASE RecordIteration
  BY <1>1, <1>7, AddsEvent DEF RecordIteration
<1>8. CASE Finalize
  <2>1. /\ kb' = FinalizeRun(kb, run, IF best = NoBest THEN Absent ELSE best.score, best.values, ActiveValues)
        /\ run' = run
    BY <1>8 DEF Finalize
  <2>2. kb'.events = kb.events
    BY <1>8, FinalizeWrites
  <2> QED BY <2>1, <2>2, AddsNothing
<1>9. CASE StoreFixes
  <2>1. kb'.events = kb.events
    BY <1>9 DEF StoreFixes, StoreRecipe
  <2> QED BY <1>9, <2>1, AddsNothing DEF StoreFixes
<1> QED
  BY <1>1, <1>2, <1>3, <1>4, <1>5, <1>6, <1>7, <1>8, <1>9
     DEF Next, ResolveGraph, Apply, NothingApplied, ValidationFails, Attributed, NotAttributed,
         RollBackAll,
         Propose, RejectBeforeApply, RestoreBest, Crash, vars

LEMMA HeadOrTail ==
  ASSUME NEW S, NEW s \in Seq(S), s # <<>>, NEW j \in DOMAIN s
  PROVE  s[j] = Head(s) \/ \E l \in DOMAIN Tail(s) : Tail(s)[l] = s[j]
<1>1. CASE j = 1
  BY <1>1
<1>2. CASE j # 1
  <2>1. j - 1 \in DOMAIN Tail(s) /\ Tail(s)[j - 1] = s[j]
    BY <1>2
  <2> QED BY <2>1
<1> QED BY <1>1, <1>2

\* Every hypothesis is still to apply, applied, or has failed.
LEMMA AttemptedStep ==
  ASSUME Basics, Attempted, [Next]_vars
  PROVE  Attempted'
<1> DEFINE InHand(h, q, a) == (\E j \in DOMAIN q : q[j] = h) \/ (\E n \in DOMAIN a : h = <<a[n].key, a[n].value>>)
           Failed(h) == /\ phase = "resolve"
                        /\ \E j \in EventsOf(kb, run, "apply_failed") :
                             OfGroup(j) /\ kb.events[j].payload.key = h[1]
           FailedNext(h) == /\ phase' = "resolve"
                            /\ \E j \in EventsOf(kb', run', "apply_failed") :
                                 OfGroup(j)' /\ kb'.events[j].payload.key = h[1]
<1>0. queue \in Seq(Pairs) /\ applied \in Seq(Change) /\ host \in [Keys -> Values]
  BY DEF Basics, TypeOK
<1>1. step \in {"apply", "log"} =>
        \A i \in DOMAIN hyps : InHand(hyps[i], queue, applied) \/ Failed(hyps[i])
  BY DEF Attempted
<1>2. ASSUME \A i \in DOMAIN hyps' : InHand(hyps'[i], queue', applied') \/ FailedNext(hyps'[i])
      PROVE  Attempted'
  BY <1>2 DEF Attempted
<1>3. ASSUME ~Begin, phase' = phase, iteration' = iteration, NEW h, Failed(h)
      PROVE  FailedNext(h)
  <2>1. PICK j \in EventsOf(kb, run, "apply_failed") : OfGroup(j) /\ kb.events[j].payload.key = h[1]
    BY <1>3
  <2>2. j \in DOMAIN kb.events /\ j \in EventsOf(kb', run', "apply_failed") /\ Adds
    BY <1>3, OldEvents, AddsStep
  <2>3. kb'.events[j] = kb.events[j] /\ OfGroup(j)'
    BY <1>3, <2>1, <2>2 DEF Adds, OfGroup
  <2> QED BY <1>3, <2>1, <2>2, <2>3
<1>4. CASE Begin \/ BuildTuneContext \/ NothingApplied \/ ValidationFails \/ (\E o \in Outcomes : Evaluate(o))
           \/ Attributed \/ NotAttributed \/ RollBackAll \/ LogRollBack \/ RecordIteration
           \/ (\E h \in Keys \X Values : RejectBeforeApply(h))
           \/ RestoreBest \/ Finalize \/ StoreFixes \/ Crash
  <2>1. step' \notin {"apply", "log"}
    <3>1. CASE \E o \in Outcomes : Evaluate(o)
      BY <3>1 DEF Evaluate, Basics, TypeOK, Phases
    <3>2. CASE \E h \in Keys \X Values : RejectBeforeApply(h)
      BY <3>2 DEF RejectBeforeApply
    <3> QED BY <1>4, <3>1, <3>2
               DEF Begin, BuildTuneContext, NothingApplied, ValidationFails, Attributed,
                   NotAttributed, RollBackAll, LogRollBack, RecordIteration, RestoreBest, Finalize,
                   StoreFixes, Crash
  <2> QED BY <2>1 DEF Attempted
<1>5. CASE ResolveGraph \/ \E h \in Keys \X Values : Propose(h)
  <2>1. queue' = hyps'
    BY <1>5 DEF ResolveGraph, Propose
  <2> QED BY <1>2, <2>1
<1> HIDE DEF Failed, FailedNext
<1>6. CASE Apply
  <2> DEFINE h == Head(queue)
             c == [key |-> h[1], prev |-> host[h[1]], value |-> h[2]]
  <2>1. /\ step = "apply" /\ queue # <<>> /\ queue' = Tail(queue) /\ hyps' = hyps /\ ~Begin
        /\ applied' = Append(applied, c) /\ phase' = phase /\ iteration' = iteration
    BY <1>6 DEF Apply, state, Begin
  <2>2. h \in Pairs /\ h = <<c.key, c.value>> /\ c \in Change
    <3>1. h \in Pairs
      BY <1>0, <2>1, TailFacts
    <3> QED BY <1>0, <3>1 DEF Pairs, Change
  <2>3. \A j \in DOMAIN queue : queue[j] = h \/ \E l \in DOMAIN queue' : queue'[l] = queue[j]
    BY <1>0, <2>1, HeadOrTail
  <2> HIDE DEF h, c
  <2>4. /\ InHand(h, queue', applied')
        /\ \A n \in DOMAIN applied : n \in DOMAIN applied' /\ applied'[n] = applied[n]
    <3>1. /\ Len(applied) + 1 \in DOMAIN applied' /\ applied'[Len(applied) + 1] = c
          /\ \A n \in DOMAIN applied : n \in DOMAIN applied' /\ applied'[n] = applied[n]
      BY <1>0, <2>1, <2>2, AppendFacts
    <3>2. \E n \in DOMAIN applied' : h = <<applied'[n].key, applied'[n].value>>
      BY <2>2, <3>1
    <3> QED BY <3>1, <3>2
  <2>5. \A x : InHand(x, queue, applied) => InHand(x, queue', applied')
    BY <2>3, <2>4
  <2> HIDE DEF InHand
  <2> QED BY <1>1, <1>2, <1>3, <2>1, <2>5
<1>7. CASE LogApplied
  <2>1. /\ step = "log" /\ queue' = queue /\ hyps' = hyps /\ applied' = applied
        /\ phase' = phase /\ iteration' = iteration /\ ~Begin
    BY <1>7 DEF LogApplied, group, Begin
  <2> HIDE DEF InHand
  <2> QED BY <1>1, <1>2, <1>3, <2>1
<1>8. CASE ApplyFails
  <2> DEFINE h == Head(queue)
  <2>1. /\ step = "apply" /\ queue # <<>> /\ hyps' = hyps /\ applied' = applied
        /\ run' = run /\ phase' = phase /\ iteration' = iteration /\ ~Begin
        /\ kb' = Record(kb, Event("apply_failed", [key |-> h[1]]))
        /\ step' = "undo" \/ (phase = "resolve" /\ queue' = Tail(queue))
    BY <1>8 DEF ApplyFails, state, Begin
  <2>2. CASE step' = "undo"
    BY <2>2 DEF Attempted
  <2>3. CASE phase = "resolve" /\ queue' = Tail(queue)
    <3>1. FailedNext(h)
      <4>1. PICK n : n = Coming
        OBVIOUS
      <4>2. /\ n \in DOMAIN kb'.events /\ kb'.events[n].kind = "apply_failed"
            /\ kb'.events[n].payload = [key |-> h[1]] /\ kb'.events[n].run = run
            /\ kb'.events[n].phase = phase /\ kb'.events[n].iteration = iteration + 1
        BY <2>1, <4>1, AddsEvent
      <4> QED BY <2>1, <2>3, <4>2 DEF EventsOf, OfGroup, FailedNext
    <3>2. \A j \in DOMAIN queue : queue[j] = h \/ \E l \in DOMAIN queue' : queue'[l] = queue[j]
      BY <1>0, <2>1, <2>3, HeadOrTail
    <3> HIDE DEF h
    <3>3. \A x : InHand(x, queue, applied) => InHand(x, queue', applied') \/ x = h
      BY <2>1, <3>2
    <3> HIDE DEF InHand
    <3> QED BY <1>1, <1>2, <1>3, <2>1, <3>1, <3>3
  <2> QED BY <2>1, <2>2, <2>3
<1>9. CASE UNCHANGED vars
  <2>1. UNCHANGED <<kb, run, step, phase, iteration, hyps, queue, applied>>
    BY <1>9 DEF vars, group, state
  <2> QED BY <2>1 DEF Attempted, OfGroup
<1> QED BY <1>4, <1>5, <1>6, <1>7, <1>8, <1>9 DEF Next

LEMMA NumberedKept ==
  ASSUME Basics, Adds, run' = run, Working \/ step = "loop", Numbered, step' \notin {"measured", "resolve"},
         iteration' \in Nat, iteration' >= iteration, phase = "optimize" => phase' = "optimize",
         step' = "loop" => iteration' > iteration \/ phase' = "resolve"
  PROVE  Numbered'
<1>1. Tuning /\ iteration \in Nat
  BY NumberFacts DEF Tuning, Basics
<1>2. SUFFICES ASSUME NEW i \in DOMAIN kb'.events, kb'.events[i].run = run
               PROVE  /\ kb'.events[i].iteration <= iteration' + 1
                      /\ kb'.events[i].phase = "optimize" => phase' = "optimize"
                      /\ step' = "loop" => ~(/\ kb'.events[i].phase = "optimize"
                                             /\ kb'.events[i].iteration = iteration' + 1)
  BY DEF Numbered
<1>3. kb'.events[i].iteration \in Nat /\ kb'.events[i].iteration <= iteration + 1
  <2>1. CASE i \in DOMAIN kb.events
    BY <1>1, <1>2, <2>1, EventsKnown DEF Adds, Numbered
  <2>2. CASE i = Coming
    BY <1>1, <2>2, ComingLast DEF Adds
  <2> QED BY <2>1, <2>2 DEF Adds
<1>4. kb'.events[i].phase = "optimize" => phase = "optimize"
  <2>1. CASE i \in DOMAIN kb.events
    BY <1>1, <1>2, <2>1 DEF Adds, Numbered
  <2>2. CASE i = Coming
    BY <1>1, <2>2, ComingLast DEF Adds
  <2> QED BY <2>1, <2>2 DEF Adds
<1> QED BY <1>1, <1>3, <1>4

LEMMA NumberedStep ==
  ASSUME Basics, Basics', Members, Numbered, [Next]_vars
  PROVE  Numbered'
<1>0. iteration \in Nat /\ iteration' \in Nat /\ run \in Nat /\ (~Begin => Adds /\ run' = run)
  <2>1. iteration' \in Nat
    BY NumberFacts DEF Basics, TypeOK
  <2> QED BY <2>1, NumberFacts, AddsStep DEF Basics
<1>1. CASE Begin
  <2>1. run' = run + 1 /\ kb' = kb
    BY <1>1 DEF Begin
  <2>2. \A i \in DOMAIN kb.events : kb.events[i].run \in 1..run
    BY EventsKnown DEF Basics, TypeOK, KnowledgeBaseOK
  <2> QED BY <1>0, <2>1, <2>2 DEF Numbered
<1>2. CASE BuildTuneContext \/ ResolveGraph
  <2>1. step \in {"measured", "resolve"} /\ Tuning
    BY <1>2 DEF BuildTuneContext, ResolveGraph, Tuning
  <2>2. \A i \in DOMAIN kb.events : kb.events[i].run # run
    BY <2>1 DEF Numbered
  <2>3. kb'.events = kb.events /\ run' = run
    BY <1>2, BuildWrites DEF ResolveGraph
  <2> QED BY <2>2, <2>3 DEF Numbered
<1>3. CASE Apply \/ LogApplied \/ ApplyFails \/ ValidationFails \/ Attributed \/ NotAttributed \/ RollBackAll
           \/ \E o \in Outcomes : Evaluate(o)
  <2>1. /\ Working /\ iteration' = iteration /\ phase' = phase
        /\ ~Begin
    BY <1>3 DEF Apply, LogApplied, ApplyFails, ValidationFails, Attributed, NotAttributed,
                RollBackAll,
                Evaluate, Working, state, Begin
  <2>2. step' \notin {"measured", "resolve", "loop"}
    <3>1. CASE \E o \in Outcomes : Evaluate(o)
      BY <3>1 DEF Evaluate, Basics, TypeOK, Phases
    <3>2. CASE ApplyFails
      BY <3>2 DEF ApplyFails
    <3> QED BY <1>3, <3>1, <3>2 DEF Apply, LogApplied, ValidationFails, Attributed, NotAttributed,
                                    RollBackAll
  <2> QED BY <1>0, <2>1, <2>2, NumberedKept
<1>4. CASE NothingApplied
  <2>1. /\ step = "apply" /\ queue = <<>> /\ applied = <<>> /\ step' = "loop"
        /\ iteration' = iteration /\ phase' = phase /\ Working /\ ~Begin
    BY <1>4 DEF NothingApplied, state, Working, Begin
  <2>2. phase = "resolve"
    BY <2>1 DEF Members, Basics, TypeOK, Phases
  <2> QED BY <1>0, <2>1, <2>2, NumberedKept
<1>5. CASE LogRollBack
  <2>1. /\ step = "undone" /\ iteration' = iteration /\ phase' = phase /\ Working /\ ~Begin
        /\ \/ step' = "record"
           \/ phase = "resolve" /\ step' = "loop"
    BY <1>5 DEF LogRollBack, state, Working, Begin
  <2> QED BY <1>0, <2>1, NumberedKept
<1>6. CASE RecordIteration
  <2>1. step' = "loop" /\ iteration' = iteration + 1 /\ phase' = phase /\ Working /\ ~Begin
    BY <1>6 DEF RecordIteration, Working, Begin
  <2> QED BY <1>0, <2>1, NumberedKept
<1>7. CASE \E h \in Keys \X Values : Propose(h)
  <2>1. step = "loop" /\ step' = "apply" /\ iteration' = iteration /\ phase' = "optimize" /\ ~Begin
    BY <1>7 DEF Propose, Begin
  <2> QED BY <1>0, <2>1, NumberedKept
<1>8. CASE \E h \in Keys \X Values : RejectBeforeApply(h)
  <2>1. step = "loop" /\ step' = "loop" /\ iteration' = iteration + 1 /\ phase' = phase /\ ~Begin
    BY <1>8 DEF RejectBeforeApply, Begin
  <2> QED BY <1>0, <2>1, NumberedKept
<1>9. CASE RestoreBest \/ Finalize \/ StoreFixes \/ Crash
  <2>1. step' \in {"restored", "finalized", "idle"}
    BY <1>9 DEF RestoreBest, Finalize, StoreFixes, Crash
  <2> QED BY <2>1 DEF Numbered, Tuning, Working
<1>10. CASE UNCHANGED vars
  <2>1. UNCHANGED <<kb, run, step, phase, iteration>>
    BY <1>10 DEF vars, state
  <2> QED BY <2>1 DEF Numbered, Tuning, Working
<1> QED BY <1>1, <1>2, <1>3, <1>4, <1>5, <1>6, <1>7, <1>8, <1>9, <1>10 DEF Next

\* The group's change events.
LEMMA GroupTrailKept ==
  ASSUME Basics, Adds, run' = run, Working, GroupTrail, UNCHANGED <<phase, iteration>>,
         Changes' \subseteq DOMAIN kb.events,
         Logged' = Logged, \A n \in Logged : applied'[n] = applied[n]
  PROVE  GroupTrail'
<1>1. \A i \in DOMAIN kb.events : (i \in Changes' <=> i \in Changes) /\ (OfGroup(i)' <=> OfGroup(i))
                                  /\ kb'.events[i] = kb.events[i]
  BY OldEvents DEF Adds, Changes, OfGroup
<1>2. Changes' = Changes
  BY <1>1, EventsKnown
<1>3. \A i \in Changes : (OfGroup(i)' <=> OfGroup(i)) /\ kb'.events[i] = kb.events[i]
  BY <1>1, EventsKnown
<1> QED BY <1>2, <1>3 DEF GroupTrail

LEMMA GroupTrailEmpty ==
  ASSUME applied' = <<>>, \A i \in Changes' : ~OfGroup(i)'
  PROVE  GroupTrail'
<1>1. Logged' = {}
  BY DEF Logged
<1> QED BY <1>1 DEF GroupTrail

\* What a step adds to the events that count.
LEMMA ChangesKept ==
  ASSUME Basics, [Next]_vars, ~Begin, ~LogApplied
  PROVE  Changes' \subseteq DOMAIN kb.events
<1>1. Adds
  BY AddsStep
<1>2. ASSUME NEW i \in Changes', i \notin DOMAIN kb.events PROVE FALSE
  <2>1. i \in DOMAIN kb'.events /\ kb'.events[i].kind = "change_applied" /\ i = Coming
    BY <1>1, <1>2 DEF Changes, EventsOf, Adds
  <2>2. CASE kb'.events = kb.events
    BY <1>2, <2>1, <2>2
  <2>3. CASE ApplyFails
    BY <2>1, <2>3, AddsEvent DEF ApplyFails
  <2>4. CASE \E o \in Outcomes : Evaluate(o)
    BY <2>1, <2>4, AddsEvent DEF Evaluate
  <2>5. CASE LogRollBack
    BY <2>1, <2>5, AddsEvent DEF LogRollBack
  <2>6. CASE RecordIteration
    BY <2>1, <2>2, <2>6, AddsEvent DEF RecordIteration
  <2>7. CASE Finalize \/ StoreFixes \/ BuildTuneContext
    <3>1. StoreFixes => kb'.events = kb.events
      BY DEF StoreFixes, StoreRecipe
    <3> QED BY <2>2, <2>7, <3>1, FinalizeWrites, BuildWrites
  <2> QED
    BY <2>2, <2>3, <2>4, <2>5, <2>6, <2>7
       DEF Next, ResolveGraph, Apply, NothingApplied, ValidationFails, Attributed, NotAttributed,
           RollBackAll,
           Propose, RejectBeforeApply, RestoreBest, Crash, vars
<1> QED BY <1>2

LEMMA GroupTrailStep ==
  ASSUME Basics, Basics', Numbered, GroupTrail, [Next]_vars
  PROVE  GroupTrail'
<1>0. applied \in Seq(Change) /\ (~Begin => Adds /\ run' = run) /\ ~(LogApplied /\ Begin)
  BY AddsStep DEF Basics, TypeOK, LogApplied, Begin
<1>1. CASE Begin \/ BuildTuneContext \/ NothingApplied \/ RecordIteration
           \/ (\E h \in Keys \X Values : RejectBeforeApply(h))
           \/ RestoreBest \/ Finalize \/ StoreFixes \/ Crash
  <2>1. step' \in {"measured", "resolve", "loop", "restored", "finalized", "idle"}
    BY <1>1 DEF Begin, BuildTuneContext, NothingApplied, RecordIteration, RejectBeforeApply,
                RestoreBest,
                Finalize, StoreFixes, Crash
  <2> QED BY <2>1 DEF GroupTrail, Working
<1>2. CASE ResolveGraph
  <2>1. step = "resolve" /\ applied' = <<>> /\ kb' = kb /\ run' = run /\ Tuning
    BY <1>2 DEF ResolveGraph, Tuning
  <2>2. \A i \in Changes' : FALSE
    BY <2>1 DEF Changes, EventsOf, Numbered
  <2> QED BY <2>1, <2>2, GroupTrailEmpty
<1>3. CASE \E h \in Keys \X Values : Propose(h)
  <2>1. /\ step = "loop" /\ applied' = <<>> /\ kb' = kb /\ run' = run /\ Tuning
        /\ phase' = "optimize" /\ iteration' = iteration
    BY <1>3 DEF Propose, Tuning
  <2>2. \A i \in Changes' : ~OfGroup(i)'
    BY <2>1 DEF Changes, EventsOf, Numbered, OfGroup
  <2> QED BY <2>1, <2>2, GroupTrailEmpty
<1>4. CASE Apply
  <2>1. /\ step = "apply" /\ step' = "log" /\ phase' = phase /\ iteration' = iteration /\ Working
        /\ applied' = Append(applied, [key |-> Head(queue)[1], prev |-> host[Head(queue)[1]],
                                       value |-> Head(queue)[2]])
        /\ ~Begin /\ ~LogApplied
    BY <1>4 DEF Apply, state, Working, Begin, LogApplied
  <2>2. Logged' = Logged /\ \A n \in Logged : applied'[n] = applied[n]
    BY <1>0, <2>1 DEF Logged
  <2> QED BY <1>0, <2>1, <2>2, ChangesKept, GroupTrailKept
<1>5. CASE ApplyFails \/ ValidationFails \/ Attributed \/ NotAttributed \/ RollBackAll \/ LogRollBack
           \/ \E o \in Outcomes : Evaluate(o)
  <2>1. /\ step # "log" /\ phase' = phase /\ iteration' = iteration /\ Working
        /\ applied' = applied /\ ~Begin /\ ~LogApplied
    BY <1>5 DEF ApplyFails, ValidationFails, Attributed, NotAttributed, RollBackAll, LogRollBack,
                Evaluate, state,
                Working, Begin, LogApplied, group
  <2>2. step' # "log"
    <3>1. CASE \E o \in Outcomes : Evaluate(o)
      BY <3>1 DEF Evaluate, Basics, TypeOK, Phases
    <3>2. CASE ApplyFails
      BY <3>2 DEF ApplyFails
    <3> QED BY <1>5, <3>1, <3>2 DEF ValidationFails, Attributed, NotAttributed, RollBackAll,
                                    LogRollBack
  <2>3. Logged' = Logged
    BY <2>1, <2>2 DEF Logged
  <2> QED BY <1>0, <2>1, <2>3, ChangesKept, GroupTrailKept
<1>6. CASE LogApplied
  <2> DEFINE c == applied[Len(applied)]
  <2>1. /\ step = "log" /\ step' = "apply" /\ kb' = Record(kb, Event("change_applied", c)) /\ run' = run
        /\ phase' = phase /\ iteration' = iteration /\ applied' = applied /\ Working
    BY <1>6 DEF LogApplied, group, Working
  <2>2. Len(applied) \in DOMAIN applied
    BY <1>0, <2>1 DEF Basics, Lists
  <2>3. Logged' = DOMAIN applied /\ DOMAIN applied = Logged \cup {Len(applied)}
    BY <2>1, <2>2 DEF Logged
  <2>4. PICK new : new = Coming
    OBVIOUS
  <2>5. /\ Adds /\ DOMAIN kb'.events = DOMAIN kb.events \cup {new}
        /\ kb'.events[new].kind = "change_applied" /\ kb'.events[new].payload = c /\ kb'.events[new].run = run
        /\ kb'.events[new].phase = phase /\ kb'.events[new].iteration = iteration + 1
    BY <2>1, <2>4, AddsEvent
  <2>6. new \in Changes' /\ OfGroup(new)'
    BY <2>1, <2>5 DEF Changes, EventsOf, OfGroup
  <2>7. /\ Changes' = Changes \cup {new}
        /\ \A i \in Changes : /\ i \in DOMAIN kb.events /\ kb'.events[i] = kb.events[i]
                              /\ (OfGroup(i)' <=> OfGroup(i))
    <3>1. \A i \in DOMAIN kb.events : i \in Changes' <=> i \in Changes
      BY <2>1, <2>5, OldEvents DEF Changes
    <3>2. \A i \in DOMAIN kb.events : kb'.events[i] = kb.events[i] /\ (OfGroup(i)' <=> OfGroup(i))
      BY <2>1, <2>5 DEF Adds, OfGroup
    <3>3. Changes' \subseteq DOMAIN kb.events \cup {new}
      BY <2>5 DEF Changes, EventsOf
    <3> QED BY <2>6, <3>1, <3>2, <3>3, EventsKnown
  <2>8. \A i \in Changes : i < new /\ i \in Nat /\ new \in Nat
    BY <2>4, <2>7, ComingLast
  <2> HIDE DEF c
  <2>9. ASSUME NEW i \in Changes', OfGroup(i)'
        PROVE  /\ \E n \in Logged' : kb'.events[i].payload = applied'[n]
               /\ \A j \in Changes' : j >= i => OfGroup(j)'
    <3>1. CASE i = new
      <4>1. kb'.events[i].payload = applied'[Len(applied)]
        BY <2>1, <2>5, <3>1 DEF c
      <4>2. \A j \in Changes' : j >= i => j = new
        BY <2>7, <2>8, <3>1
      <4> QED BY <2>2, <2>3, <2>6, <4>1, <4>2
    <3>2. CASE i \in Changes
      <4>1. /\ \E n \in Logged : kb.events[i].payload = applied[n]
            /\ \A j \in Changes : j >= i => OfGroup(j)
        BY <2>1, <2>7, <2>9, <3>2 DEF GroupTrail
      <4> QED BY <2>1, <2>3, <2>6, <2>7, <3>2, <4>1
    <3> QED BY <2>7, <2>9, <3>1, <3>2
  <2>10. ASSUME NEW n \in Logged'
         PROVE  \E i \in Changes' : OfGroup(i)' /\ kb'.events[i].payload = applied'[n]
    <3>1. CASE n = Len(applied)
      BY <2>1, <2>5, <2>6, <3>1 DEF c
    <3>2. CASE n \in Logged
      <4>1. \E i \in Changes : OfGroup(i) /\ kb.events[i].payload = applied[n]
        BY <2>1, <3>2 DEF GroupTrail
      <4> QED BY <2>1, <2>7, <4>1
    <3> QED BY <2>3, <2>10, <3>1, <3>2
  <2> QED BY <2>9, <2>10 DEF GroupTrail
<1>7. CASE UNCHANGED vars
  <2>1. UNCHANGED <<kb, run, step, phase, iteration, applied>>
    BY <1>7 DEF vars, state, group
  <2>2. /\ Changes' = Changes /\ Logged' = Logged /\ Working' = Working
        /\ \A i \in Changes : OfGroup(i)' = OfGroup(i)
    BY <2>1 DEF Changes, Logged, Working, OfGroup
  <2> QED BY <2>1, <2>2 DEF GroupTrail
<1> QED BY <1>1, <1>2, <1>3, <1>4, <1>5, <1>6, <1>7 DEF Next

\* Whether the group's changes are undone.
LEMMA VerdictsKept ==
  ASSUME Basics, Adds, run' = run, UNCHANGED <<phase, iteration>>, Changes' \subseteq DOMAIN kb.events
  PROVE  /\ GroupKept /\ Undoing' \subseteq DOMAIN kb.events => GroupKept'
         /\ GroupUndone => GroupUndone'
<1>1. \A i \in Changes' : i \in DOMAIN kb.events /\ i \in Changes /\ (OfGroup(i)' <=> OfGroup(i))
  BY OldEvents DEF Adds, Changes, OfGroup
<1>2. \A j \in DOMAIN kb.events : j \in Undoing' <=> j \in Undoing
  BY OldEvents DEF Undoing
<1>3. \A i, j \in DOMAIN kb.events : UndoneBy(j, i)' <=> UndoneBy(j, i)
  BY OldEvents
<1>4. Undoing \subseteq DOMAIN kb.events
  BY OldEvents DEF Undoing
<1>5. ASSUME GroupKept, Undoing' \subseteq DOMAIN kb.events PROVE GroupKept'
  BY <1>1, <1>2, <1>3, <1>5 DEF GroupKept
<1>6. ASSUME GroupUndone PROVE GroupUndone'
  <2>1. PICK j \in Undoing : \A i \in Changes : OfGroup(i) => UndoneBy(j, i)
    BY <1>6 DEF GroupUndone
  <2>2. j \in Undoing' /\ j \in DOMAIN kb.events
    BY <1>2, <1>4
  <2>3. \A i \in Changes' : OfGroup(i)' => UndoneBy(j, i)'
    BY <1>1, <1>3, <2>1, <2>2
  <2> QED BY <2>2, <2>3 DEF GroupUndone
<1> QED BY <1>5, <1>6

LEMMA UndoingKept ==
  ASSUME Basics, [Next]_vars, ~Begin, ~ApplyFails, ~LogRollBack
  PROVE  Undoing' \subseteq DOMAIN kb.events
<1>1. Adds
  BY AddsStep
<1>2. ASSUME NEW i \in Undoing', i \notin DOMAIN kb.events PROVE FALSE
  <2>1. i \in DOMAIN kb'.events /\ kb'.events[i].kind \in {"rollback_completed", "apply_failed"} /\ i = Coming
    BY <1>1, <1>2 DEF Undoing, EventsOf, Adds
  <2>2. CASE kb'.events = kb.events
    BY <1>2, <2>1, <2>2
  <2>3. CASE LogApplied
    BY <2>1, <2>3, AddsEvent DEF LogApplied
  <2>4. CASE \E o \in Outcomes : Evaluate(o)
    BY <2>1, <2>4, AddsEvent DEF Evaluate
  <2>5. CASE RecordIteration
    BY <2>1, <2>2, <2>5, AddsEvent DEF RecordIteration
  <2>6. CASE Finalize \/ StoreFixes \/ BuildTuneContext
    <3>1. StoreFixes => kb'.events = kb.events
      BY DEF StoreFixes, StoreRecipe
    <3> QED BY <2>2, <2>6, <3>1, FinalizeWrites, BuildWrites
  <2> QED
    BY <2>2, <2>3, <2>4, <2>5, <2>6
       DEF Next, ResolveGraph, Apply, NothingApplied, ValidationFails, Attributed, NotAttributed,
           RollBackAll,
           Propose, RejectBeforeApply, RestoreBest, Crash, vars
<1> QED BY <1>2

LEMMA NoGroupYet ==
  ASSUME \A i \in Changes' : ~OfGroup(i)'
  PROVE  GroupKept'
BY DEF GroupKept

LEMMA LogAppliedVerdict ==
  ASSUME Basics, GroupVerdict, LogApplied
  PROVE  GroupKept'
<1>1. /\ step = "log" /\ kb' = Record(kb, Event("change_applied", applied[Len(applied)])) /\ run' = run
      /\ phase' = phase /\ iteration' = iteration /\ ~Begin /\ ~ApplyFails /\ ~LogRollBack
  BY DEF LogApplied, Begin, ApplyFails, LogRollBack
<1>2. Adds
  BY <1>1, AddsEvent
<1>3. Undoing' \subseteq DOMAIN kb.events
  <2>1. [Next]_vars
    BY DEF Next
  <2> QED BY <1>1, <2>1, UndoingKept
<1>4. Undoing' \subseteq Undoing
  BY <1>1, <1>2, <1>3, OldEvents DEF Undoing
<1>5. ASSUME NEW j \in Undoing', NEW i \in Changes', OfGroup(i)' PROVE ~UndoneBy(j, i)'
  <2>1. j \in DOMAIN kb.events /\ j \in Undoing
    BY <1>3, <1>4
  <2>2. CASE i \in DOMAIN kb.events
    <3>1. i \in Changes /\ OfGroup(i)
      BY <1>1, <1>2, <1>5, <2>2, OldEvents DEF Changes, Adds, OfGroup
    <3>2. ~UndoneBy(j, i)
      BY <1>1, <2>1, <3>1 DEF GroupVerdict, GroupKept
    <3> QED BY <1>1, <1>2, <2>1, <2>2, <3>2, OldEvents
  <2>3. CASE i = Coming
    <3>1. j \in Nat /\ i \in Nat /\ j < i
      BY <2>1, <2>3, ComingLast
    <3> QED BY <3>1 DEF UndoneBy
  <2>4. i \in DOMAIN kb'.events
    BY DEF Changes, EventsOf
  <2> QED BY <1>2, <2>2, <2>3, <2>4 DEF Adds
<1> QED BY <1>5 DEF GroupKept

LEMMA ApplyFailsVerdict ==
  ASSUME Basics, GroupVerdict, ApplyFails
  PROVE  GroupVerdict'
<1> DEFINE payload == [key |-> Head(queue)[1]]
<1>1. /\ step = "apply" /\ kb' = Record(kb, Event("apply_failed", payload)) /\ run' = run
      /\ phase' = phase /\ iteration' = iteration /\ ~Begin /\ ~LogApplied /\ [Next]_vars
  BY DEF ApplyFails, Begin, LogApplied, state, Next
<1> HIDE DEF payload
<1>2. Changes' \subseteq DOMAIN kb.events
  BY <1>1, ChangesKept
<1>3. PICK new : new = Coming
  OBVIOUS
<1>4. /\ Adds /\ DOMAIN kb'.events = DOMAIN kb.events \cup {new}
      /\ kb'.events[new].kind = "apply_failed" /\ kb'.events[new].run = run
      /\ kb'.events[new].phase = phase /\ kb'.events[new].iteration = iteration + 1
  BY <1>1, <1>3, AddsEvent
<1>5. new \in Undoing' /\ \A j \in Undoing' : j \in DOMAIN kb.events \/ j = new
  BY <1>1, <1>4 DEF Undoing, EventsOf
<1>6. CASE phase = "resolve"
  <2>1. step' = "apply"
    BY <1>1, <1>6 DEF ApplyFails
  <2>2. ASSUME NEW j \in Undoing', NEW i \in Changes', OfGroup(i)' PROVE ~UndoneBy(j, i)'
    <3>1. i \in Changes /\ OfGroup(i) /\ i \in DOMAIN kb.events
      BY <1>1, <1>2, <1>4, <2>2, OldEvents DEF Changes, Adds, OfGroup
    <3>2. CASE j \in DOMAIN kb.events
      <4>1. j \in Undoing
        BY <1>1, <1>4, <2>2, <3>2, OldEvents DEF Undoing
      <4> QED BY <1>1, <1>4, <3>1, <3>2, <4>1, OldEvents DEF GroupVerdict, GroupKept
    <3>3. CASE j = new
      BY <1>4, <1>6, <3>3 DEF UndoneBy
    <3> QED BY <1>5, <2>2, <3>2, <3>3
  <2> QED BY <2>1, <2>2 DEF GroupVerdict, GroupKept
<1>7. CASE phase # "resolve"
  <2>1. step' = "undo" /\ phase = "optimize"
    BY <1>1, <1>7 DEF ApplyFails, Basics, TypeOK, Phases
  <2>2. ASSUME NEW i \in Changes', OfGroup(i)' PROVE UndoneBy(new, i)'
    <3>1. new > i
      BY <1>2, <1>3, ComingLast
    <3>2. kb'.events[i].phase = phase /\ kb'.events[i].iteration = iteration + 1
      BY <1>1, <2>2 DEF OfGroup
    <3> QED BY <1>4, <2>1, <3>1, <3>2 DEF UndoneBy
  <2>3. GroupUndone'
    BY <1>5, <2>2 DEF GroupUndone
  <2> QED BY <2>1, <2>3 DEF GroupVerdict
<1> QED BY <1>6, <1>7

\* A rollback tells that all changes of the group are undone.
LEMMA LogRollBackUndoes ==
  ASSUME Basics, GroupTrail, LogRollBack
  PROVE  GroupUndone'
<1>1. /\ step = "undone" /\ kb' = Record(kb, Event("rollback_completed", [keys |-> AppliedKeys])) /\ run' = run
      /\ phase' = phase /\ iteration' = iteration /\ ~Begin /\ ~LogApplied /\ [Next]_vars /\ applied' = applied
  BY DEF LogRollBack, Begin, LogApplied, state, Next
<1>2. Changes' \subseteq DOMAIN kb.events
  BY <1>1, ChangesKept
<1>3. PICK new : new = Coming
  OBVIOUS
<1>4. /\ Adds /\ DOMAIN kb'.events = DOMAIN kb.events \cup {new}
      /\ kb'.events[new].kind = "rollback_completed" /\ kb'.events[new].run = run
      /\ kb'.events[new].payload.keys = AppliedKeys
      /\ kb'.events[new].phase = phase /\ kb'.events[new].iteration = iteration + 1
  BY <1>1, <1>3, AddsEvent
<1>5. new \in Undoing'
  BY <1>1, <1>4 DEF Undoing, EventsOf
<1>6. ASSUME NEW i \in Changes', OfGroup(i)' PROVE UndoneBy(new, i)'
  <2>1. new > i
    BY <1>2, <1>3, ComingLast
  <2>2. kb'.events[i].phase = phase /\ kb'.events[i].iteration = iteration + 1
    BY <1>1, <1>6 DEF OfGroup
  <2>3. i \in Changes /\ OfGroup(i) /\ kb'.events[i] = kb.events[i]
    BY <1>1, <1>2, <1>4, <1>6, OldEvents DEF Changes, Adds, OfGroup
  <2>4. kb.events[i].payload.key \in AppliedKeys
    BY <1>1, <2>3 DEF GroupTrail, Working, AppliedKeys, Logged
  <2> QED BY <1>4, <2>1, <2>2, <2>3, <2>4 DEF UndoneBy
<1> QED BY <1>5, <1>6 DEF GroupUndone

LEMMA GroupVerdictStep ==
  ASSUME Basics, Basics', Numbered, GroupTrail, GroupVerdict, [Next]_vars
  PROVE  GroupVerdict'
<1>0. ~Begin => Adds /\ run' = run
  BY AddsStep
<1>1. CASE Begin \/ BuildTuneContext \/ NothingApplied \/ RecordIteration
           \/ (\E h \in Keys \X Values : RejectBeforeApply(h))
           \/ RestoreBest \/ Finalize \/ StoreFixes \/ Crash
  <2>1. step' \in {"measured", "resolve", "loop", "restored", "finalized", "idle"}
    BY <1>1 DEF Begin, BuildTuneContext, NothingApplied, RecordIteration, RejectBeforeApply,
                RestoreBest,
                Finalize, StoreFixes, Crash
  <2> QED BY <2>1 DEF GroupVerdict
<1>2. CASE ResolveGraph
  <2>1. step = "resolve" /\ step' \in {"apply", "loop"} /\ kb' = kb /\ run' = run /\ Tuning
    BY <1>2 DEF ResolveGraph, Tuning
  <2>2. \A i \in Changes' : FALSE
    BY <2>1 DEF Changes, EventsOf, Numbered
  <2> QED BY <2>1, <2>2, NoGroupYet DEF GroupVerdict
<1>3. CASE \E h \in Keys \X Values : Propose(h)
  <2>1. /\ step = "loop" /\ step' = "apply" /\ kb' = kb /\ run' = run /\ Tuning
        /\ phase' = "optimize" /\ iteration' = iteration
    BY <1>3 DEF Propose, Tuning
  <2>2. \A i \in Changes' : ~OfGroup(i)'
    BY <2>1 DEF Changes, EventsOf, Numbered, OfGroup
  <2> QED BY <2>1, <2>2, NoGroupYet DEF GroupVerdict
<1>4. CASE Apply \/ Attributed
  <2>1. /\ \/ step = "apply" /\ step' = "log"
           \/ step = "verify" /\ step' = "record" /\ outcome.decision = "accept"
        /\ phase' = phase /\ iteration' = iteration /\ outcome' = outcome
        /\ ~Begin /\ ~LogApplied /\ ~ApplyFails /\ ~LogRollBack
    BY <1>4 DEF Apply, Attributed, state, group, Begin, LogApplied, ApplyFails, LogRollBack,
                Basics, Decision
  <2>2. GroupKept'
    BY <1>0, <2>1, ChangesKept, UndoingKept, VerdictsKept DEF GroupVerdict
  <2> QED BY <2>1, <2>2 DEF GroupVerdict, Keeping
<1>5. CASE LogApplied
  <2>1. step' = "apply"
    BY <1>5 DEF LogApplied
  <2> QED BY <1>5, <2>1, LogAppliedVerdict DEF GroupVerdict
<1>6. CASE ApplyFails
  BY <1>6, ApplyFailsVerdict
<1>7. CASE \E o \in Outcomes : Evaluate(o)
  <2>1. PICK o \in Outcomes : Evaluate(o)
    BY <1>7
  <2>2. /\ step = "apply" /\ outcome' = o /\ phase' = phase /\ iteration' = iteration
        /\ ~Begin /\ ~LogApplied /\ ~ApplyFails /\ ~LogRollBack
    BY <1>7, <2>1, AddsEvent DEF Evaluate, state, Begin, LogApplied, ApplyFails, LogRollBack
  <2>3. GroupKept'
    BY <1>0, <2>2, ChangesKept, UndoingKept, VerdictsKept DEF GroupVerdict
  <2>4. o.decision \in Verdicts
    BY DEF Outcomes, Verdicts, NoOutcome
  <2>5. /\ step' = "record" => Keeping'
        /\ step' = "undo" => outcome'.decision # "not_applied"
    BY <2>1, <2>2, <2>4 DEF Evaluate, Keeping, Basics, TypeOK, Phases, Verdicts
  <2> QED BY <2>3, <2>5 DEF GroupVerdict
<1>8. CASE ValidationFails \/ NotAttributed
  <2>1. step' = "undo" /\ outcome'.decision # "not_applied"
    BY <1>8 DEF ValidationFails, NotAttributed, NoOutcome
  <2> QED BY <2>1 DEF GroupVerdict
<1>9. CASE RollBackAll
  <2>1. /\ step = "undo" /\ step' = IF outcome.decision = "not_applied" THEN "record" ELSE "undone"
        /\ phase' = phase /\ iteration' = iteration /\ outcome' = outcome /\ ~Begin /\ ~LogApplied
    BY <1>9 DEF RollBackAll, group, Begin, LogApplied
  <2>2. CASE outcome.decision = "not_applied"
    <3>1. GroupUndone'
      BY <1>0, <2>1, <2>2, ChangesKept, VerdictsKept DEF GroupVerdict
    <3>2. ~Keeping'
      BY <2>1, <2>2 DEF Keeping
    <3> QED BY <2>1, <2>2, <3>1, <3>2 DEF GroupVerdict
  <2>3. CASE outcome.decision # "not_applied"
    BY <2>1, <2>3 DEF GroupVerdict
  <2> QED BY <2>2, <2>3
<1>10. CASE LogRollBack
  <2>1. step = "undone" /\ step' \in {"record", "loop"} /\ phase' = phase /\ outcome' = outcome
    BY <1>10 DEF LogRollBack, state
  <2>2. ~Keeping'
    BY <2>1 DEF Basics, Decision, Keeping
  <2>3. GroupUndone'
    BY <1>10, LogRollBackUndoes
  <2> QED BY <2>1, <2>2, <2>3 DEF GroupVerdict
<1>11. CASE UNCHANGED vars
  <2>1. UNCHANGED <<kb, run, step, phase, iteration, outcome>>
    BY <1>11 DEF vars, state, group
  <2> QED BY <2>1 DEF GroupVerdict, GroupKept, GroupUndone, Keeping, Changes, Undoing, OfGroup,
                      UndoneBy
<1> QED BY <1>1, <1>2, <1>3, <1>4, <1>5, <1>6, <1>7, <1>8, <1>9, <1>10, <1>11 DEF Next

\* What the trail says before and after a step.
LEMMA LastingKnown ==
  ASSUME Basics
  PROVE  /\ Lasting \subseteq 1..Len(kb.events) /\ Outside \subseteq 1..Len(kb.events)
         /\ Len(kb.events) \in Nat /\ Outside \subseteq Lasting /\ Lasting \subseteq Changes
<1>1. Lasting \subseteq Changes /\ Outside \subseteq Lasting
  BY DEF Lasting, Changes, Outside
<1>2. Changes \subseteq 1..Len(kb.events) /\ Len(kb.events) \in Nat
  BY EventsKnown
<1> QED BY <1>1, <1>2

LEMMA LastingKept ==
  ASSUME Basics, Adds, run' = run, Changes' \subseteq DOMAIN kb.events, Undoing' \subseteq DOMAIN kb.events
  PROVE  Lasting' = Lasting
<1>1. Changes' = Changes /\ Undoing' = Undoing
  <2>1. \A i \in DOMAIN kb.events : (i \in Changes' <=> i \in Changes) /\ (i \in Undoing' <=> i \in Undoing)
    BY OldEvents DEF Changes, Undoing
  <2>2. Changes \subseteq DOMAIN kb.events /\ Undoing \subseteq DOMAIN kb.events
    BY OldEvents DEF Changes, Undoing
  <2> QED BY <2>1, <2>2
<1>2. \A i \in Changes, j \in Undoing : UndoneBy(j, i)' <=> UndoneBy(j, i)
  BY OldEvents DEF Changes, Undoing
<1>3. /\ Lasting = {i \in Changes : \A j \in Undoing : ~UndoneBy(j, i)}
      /\ Lasting' = {i \in Changes' : \A j \in Undoing' : ~UndoneBy(j, i)'}
  BY DEF Lasting, Changes, Undoing
<1> QED BY <1>1, <1>2, <1>3

LEMMA TrailKept ==
  ASSUME Basics, Adds, NEW S \in SUBSET (1..Len(kb.events)), NEW base, NEW k
  PROVE  TrailOf(kb'.events, base, S, k) = TrailOf(kb.events, base, S, k)
<1>1. Len(kb.events) \in Nat /\ \A i \in S : kb'.events[i] = kb.events[i]
  BY EventsKnown DEF Adds
<1> QED BY <1>1, TrailAlike

LEMMA ExactWorking ==
  ASSUME Basics, Adds, TrailExact, Working, Working', step # "record",
         UNCHANGED <<run, phase, iteration, start>>, blamed \subseteq blamed',
         \A k \in Keys : \/ step' = "record" /\ Keeping' /\ k \in AppliedKeys'
                         \/ phase = "resolve"
                         \/ InForce(k)' = InForce(k)
  PROVE  TrailExact'
<1>1. Tuning /\ Tuning'
  BY DEF Tuning
<1>2. Outside' = Outside /\ Outside \in SUBSET (1..Len(kb.events))
  BY OutsideKept, LastingKnown
<1>3. ASSUME NEW k \in Keys \ blamed'
      PROVE  \/ step' = "record" /\ Keeping' /\ k \in AppliedKeys'
             \/ TrailOf(kb'.events, start', Outside', k) = Origin(k)'
  <2>1. TrailOf(kb.events, start, Outside, k) = Origin(k)
    BY <1>1, <1>3, ExactNow
  <2>2. TrailOf(kb'.events, start', Outside', k) = TrailOf(kb.events, start, Outside, k)
    BY <1>2, TrailKept
  <2>3. \/ step' = "record" /\ Keeping' /\ k \in AppliedKeys'
        \/ Origin(k)' = Origin(k)
    BY DEF Origin
  <2> QED BY <2>1, <2>2, <2>3
<1> QED BY <1>3, ExactNext

LEMMA UndoneTrail ==
  ASSUME GroupUndone \/ \A i \in Changes : ~OfGroup(i)
  PROVE  Lasting = Outside
BY DEF GroupUndone, Lasting, Outside, Changes, Undoing

LEMMA UndoneTrailNext ==
  ASSUME GroupUndone' \/ \A i \in Changes' : ~OfGroup(i)'
  PROVE  Lasting' = Outside'
BY DEF GroupUndone, Lasting, Outside, Changes, Undoing

LEMMA NoChange ==
  ASSUME NEW events, NEW base, NEW k
  PROVE  TrailOf(events, base, {}, k) = base[k]
BY DEF TrailOf

\* When a group is recorded, the trail says what the ledger says.
LEMMA SettledTrail ==
  ASSUME Basics, Account, Entered, GroupTrail, GroupVerdict, TrailExact, step = "record", NEW k \in Keys \ blamed
  PROVE  TrailOf(kb.events, start, Lasting, k) = InForce(k)
<1>1. Working /\ Tuning /\ Logged = DOMAIN applied
  BY DEF Working, Tuning, Logged
<1>2. \/ Keeping /\ k \in AppliedKeys
      \/ TrailOf(kb.events, start, Outside, k) = Origin(k)
  BY <1>1, ExactNow
<1>3. CASE ~Keeping
  <2>1. Lasting = Outside
    BY <1>3, UndoneTrail DEF GroupVerdict
  <2>2. phase = "resolve" => DOMAIN active = {}
    BY <1>3 DEF Account, Entries
  <2> QED BY <1>2, <1>3, <2>1, <2>2 DEF Origin, InForce
<1>4. CASE Keeping
  <2>1. \A i \in Lasting : OfGroup(i) => \E n \in DOMAIN applied : kb.events[i].payload = applied[n]
    BY <1>1, LastingKnown DEF GroupTrail
  <2>2. \A i \in Changes : OfGroup(i) => i \in Lasting
    BY <1>4 DEF GroupVerdict, GroupKept, Lasting, Changes, Undoing
  <2> DEFINE made == {i \in Lasting : kb.events[i].payload.key = k}
             before == {i \in Outside : kb.events[i].payload.key = k}
  <2>3. CASE k \notin AppliedKeys
    <3>1. made = before
      BY <2>1, <2>3 DEF Outside, AppliedKeys
    <3>2. TrailOf(kb.events, start, Lasting, k) = TrailOf(kb.events, start, Outside, k)
      BY <3>1 DEF TrailOf
    <3>3. phase = "resolve" => k \notin DOMAIN active
      BY <1>1, <2>3 DEF Account, Entries
    <3> QED BY <1>2, <2>3, <3>2, <3>3 DEF Origin, InForce
  <2>4. CASE k \in AppliedKeys
    <3>1. PICK n \in DOMAIN applied : applied[n].key = k
      BY <2>4 DEF AppliedKeys
    <3>2. PICK i \in Changes : OfGroup(i) /\ kb.events[i].payload = applied[n]
      BY <1>1, <3>1 DEF GroupTrail
    <3>3. i \in made
      BY <2>2, <3>1, <3>2
    <3>4. made \subseteq Lasting /\ \A m \in made : kb.events[m].payload.key = k
      OBVIOUS
    <3>5. TrailOf(kb.events, start, Lasting, k) = kb.events[Max(made)].payload.value
      BY <3>3 DEF TrailOf
    <3> HIDE DEF made
    <3>6. \A m \in made : m \in Nat /\ m <= Len(kb.events)
      BY <3>4, LastingKnown
    <3>7. Max(made) \in made /\ Max(made) >= i
      BY <3>3, <3>6, MaxFacts, LastingKnown
    <3> DEFINE m == Max(made)
    <3>8. m \in Lasting /\ kb.events[m].payload.key = k
      BY <3>4, <3>7
    <3> HIDE DEF m
    <3>9. OfGroup(m)
      BY <1>1, <3>2, <3>7, <3>8, LastingKnown DEF GroupTrail, m
    <3>10. PICK p \in DOMAIN applied : kb.events[m].payload = applied[p]
      BY <2>1, <3>8, <3>9
    <3>11. k \in DOMAIN active /\ active[k] = applied[p]
      BY <1>4, <3>8, <3>10 DEF Entered
    <3> QED BY <3>5, <3>10, <3>11 DEF InForce, m
  <2> QED BY <2>3, <2>4
<1> QED BY <1>3, <1>4

LEMMA TrailExactStep ==
  ASSUME Basics, Basics', Account, Account', Members, Entered, Numbered, Numbered', GroupTrail, GroupVerdict,
         TrailExact, [Next]_vars
  PROVE  TrailExact'
<1>0. ~Begin => Adds /\ run' = run
  BY AddsStep
<1>1. CASE Begin \/ BuildTuneContext
  <2>1. /\ step' \in {"measured", "resolve"} /\ Tuning' /\ ~Working'
    BY <1>1 DEF Begin, BuildTuneContext, Tuning, Working
  <2>2. Changes' = {}
    BY <2>1 DEF Numbered, Changes, EventsOf
  <2>3. Lasting' = {}
    BY <2>2 DEF Lasting, Changes
  <2>4. \A k \in Keys : InForce(k)' = start'[k]
    BY <2>1 DEF Basics, Lists, InForce
  <2>5. \A k \in Keys : TrailOf(kb'.events, start', Lasting', k) = start'[k]
    BY <2>3, NoChange
  <2> QED BY <2>1, <2>4, <2>5, ExactNext
<1>2. CASE ResolveGraph
  <2>1. /\ step = "resolve" /\ step' \in {"apply", "loop"} /\ Tuning /\ phase' = phase /\ ~Working
        /\ kb' = kb /\ run' = run /\ UNCHANGED <<active, start, blamed>>
    BY <1>2 DEF ResolveGraph, Tuning, Working
  <2>2. Changes' = {}
    BY <2>1 DEF Numbered, Changes, EventsOf
  <2>3. Lasting' = {} /\ Outside' = {}
    BY <2>2 DEF Lasting, Changes, Outside
  <2>4. phase = "resolve" /\ DOMAIN active = {}
    BY <2>1 DEF Basics, Lists
  <2>5. \A k \in Keys : InForce(k)' = start'[k] /\ Origin(k)' = start'[k]
    BY <2>1, <2>4 DEF InForce, Origin
  <2>6. \A k \in Keys : /\ TrailOf(kb'.events, start', Lasting', k) = start'[k]
                        /\ TrailOf(kb'.events, start', Outside', k) = start'[k]
    BY <2>3, NoChange
  <2> QED BY <2>5, <2>6, ExactNext
<1>3. CASE Apply \/ LogApplied \/ ApplyFails \/ ValidationFails \/ NotAttributed
           \/ \E o \in Outcomes : Evaluate(o)
  <2>1. /\ step \in {"apply", "log", "verify"} /\ ~Begin
        /\ UNCHANGED <<phase, iteration, start>>
        /\ phase = "resolve" \/ active' = active
    BY <1>3 DEF Apply, LogApplied, ApplyFails, ValidationFails, NotAttributed, Evaluate, Begin,
                state, ghosts
  <2>2. blamed \subseteq blamed'
    BY <1>3 DEF Apply, LogApplied, ApplyFails, ValidationFails, NotAttributed, Evaluate, ghosts
  <2>3. Working /\ Working'
    <3>1. CASE \E o \in Outcomes : Evaluate(o)
      BY <3>1 DEF Evaluate, Working, Basics, TypeOK, Phases
    <3>2. CASE ApplyFails
      BY <3>2 DEF ApplyFails, Working
    <3> QED BY <1>3, <3>1, <3>2 DEF Apply, LogApplied, ValidationFails, NotAttributed, Working
  <2>4. \A k \in Keys : phase = "resolve" \/ InForce(k)' = InForce(k)
    BY <2>1 DEF InForce
  <2> QED BY <1>0, <2>1, <2>2, <2>3, <2>4, ExactWorking
<1>4. CASE Attributed
  <2>1. /\ step = "verify" /\ step' = "record" /\ ~Begin /\ applied' = applied /\ outcome' = outcome
        /\ UNCHANGED <<phase, iteration, start, blamed>>
        /\ active' = [k \in DOMAIN active \cup AppliedKeys |->
                  IF k \in AppliedKeys THEN Ledger(applied)[k] ELSE active[k]]
    BY <1>4 DEF Attributed, group, Begin
  <2>2. Working /\ Working' /\ Keeping' /\ AppliedKeys' = AppliedKeys
    BY <2>1 DEF Working, Keeping, Basics, Decision, AppliedKeys
  <2>3. \A k \in Keys : k \in AppliedKeys \/ InForce(k)' = InForce(k)
    BY <2>1 DEF InForce
  <2> QED BY <1>0, <2>1, <2>2, <2>3, ExactWorking
<1>5. CASE RollBackAll
  <2>1. /\ step = "undo" /\ step' \in {"record", "undone"} /\ ~Begin
        /\ UNCHANGED <<phase, iteration, start>> /\ blamed \subseteq blamed'
        /\ phase = "resolve" \/ active' = active
    BY <1>5 DEF RollBackAll, Run, Begin
  <2>2. Working /\ Working'
    BY <2>1 DEF Working
  <2>3. \A k \in Keys : phase = "resolve" \/ InForce(k)' = InForce(k)
    BY <2>1 DEF InForce
  <2> QED BY <1>0, <2>1, <2>2, <2>3, ExactWorking
<1>6. CASE LogRollBack
  <2>1. /\ step = "undone" /\ ~Begin /\ UNCHANGED <<phase, iteration, start, blamed, active>>
        /\ \/ step' = "record"
           \/ step' = "loop" /\ phase = "resolve"
    BY <1>6 DEF LogRollBack, Begin, state, ghosts
  <2>2. Working /\ Tuning
    BY <2>1 DEF Working, Tuning
  <2>3. \A k \in Keys : InForce(k)' = InForce(k)
    BY <2>1 DEF InForce
  <2>4. CASE step' = "record"
    <3>1. Working'
      BY <2>4 DEF Working
    <3> QED BY <1>0, <2>1, <2>2, <2>3, <3>1, ExactWorking
  <2>5. CASE step' = "loop" /\ phase = "resolve"
    <3>1. ~Working' /\ DOMAIN active = {}
      BY <2>1, <2>5 DEF Working, Account, Entries
    <3>2. Lasting' = Outside /\ Outside \in SUBSET (1..Len(kb.events))
      BY <1>0, <1>6, <2>1, LogRollBackUndoes, UndoneTrailNext, OutsideKept, LastingKnown
    <3>3. ASSUME NEW k \in Keys \ blamed PROVE TrailOf(kb'.events, start', Lasting', k) = InForce(k)'
      <4>1. TrailOf(kb.events, start, Outside, k) = Origin(k)
        BY <2>1, <2>2, ExactNow
      <4>2. Origin(k) = InForce(k)
        BY <2>5, <3>1 DEF Origin, InForce
      <4>3. TrailOf(kb'.events, start', Lasting', k) = TrailOf(kb.events, start, Outside, k)
        BY <1>0, <2>1, <3>2, TrailKept
      <4> QED BY <2>3, <4>1, <4>2, <4>3
    <3> QED BY <2>1, <3>1, <3>3, ExactNext
  <2> QED BY <2>1, <2>4, <2>5
<1>7. CASE NothingApplied
  <2>1. /\ step = "apply" /\ step' = "loop" /\ applied = <<>> /\ kb' = kb /\ run' = run
        /\ UNCHANGED <<phase, active, start, blamed>>
    BY <1>7 DEF NothingApplied, state, ghosts
  <2>2. Working /\ Tuning /\ ~Working' /\ AppliedKeys = {} /\ Logged = {}
    BY <2>1 DEF Working, Tuning, AppliedKeys, Logged
  <2>3. Lasting = Outside
    BY <2>2, UndoneTrail DEF GroupTrail
  <2>4. Lasting' = Lasting
    BY <2>1 DEF Lasting, UndoneBy
  <2>5. ASSUME NEW k \in Keys \ blamed PROVE TrailOf(kb'.events, start', Lasting', k) = InForce(k)'
    <3>1. TrailOf(kb.events, start, Outside, k) = Origin(k)
      BY <2>1, <2>2, ExactNow
    <3>2. Origin(k) = InForce(k)
      BY <2>2 DEF Origin, InForce, Account, Entries
    <3>3. InForce(k)' = InForce(k)
      BY <2>1 DEF InForce
    <3> QED BY <2>1, <2>3, <2>4, <3>1, <3>2, <3>3
  <2> QED BY <2>1, <2>2, <2>5, ExactNext
<1>8. CASE RecordIteration
  <2>1. /\ step = "record" /\ step' = "loop" /\ UNCHANGED <<active, start, blamed>>
        /\ ~Begin /\ ~LogApplied /\ ~ApplyFails /\ ~LogRollBack
    BY <1>8 DEF RecordIteration, ghosts, Begin, LogApplied, ApplyFails, LogRollBack
  <2>2. Lasting' = Lasting /\ Lasting \in SUBSET (1..Len(kb.events))
    BY <1>0, <2>1, ChangesKept, UndoingKept, LastingKept, LastingKnown
  <2>3. ASSUME NEW k \in Keys \ blamed PROVE TrailOf(kb'.events, start', Lasting', k) = InForce(k)'
    <3>1. TrailOf(kb.events, start, Lasting, k) = InForce(k)
      BY <2>1, SettledTrail
    <3>2. TrailOf(kb'.events, start', Lasting', k) = TrailOf(kb.events, start, Lasting, k)
      BY <1>0, <2>1, <2>2, TrailKept
    <3>3. InForce(k)' = InForce(k)
      BY <2>1 DEF InForce
    <3> QED BY <3>1, <3>2, <3>3
  <2>4. ~Working'
    BY <2>1 DEF Working
  <2> QED BY <2>1, <2>3, <2>4, ExactNext
<1>9. CASE \E h \in Keys \X Values : Propose(h) \/ RejectBeforeApply(h)
  <2>1. /\ step = "loop" /\ kb' = kb /\ run' = run /\ UNCHANGED <<active, start, blamed>>
        /\ \/ step' = "apply" /\ phase' = "optimize" /\ iteration' = iteration
           \/ step' = "loop"
    BY <1>9 DEF Propose, RejectBeforeApply
  <2>2. Tuning /\ ~Working
    BY <2>1 DEF Tuning, Working
  <2>3. Lasting' = Lasting
    BY <2>1 DEF Lasting, UndoneBy
  <2>4. step' = "apply" => Lasting' = Outside'
    <3>1. step' = "apply" => \A i \in Changes' : ~OfGroup(i)'
      BY <2>1, <2>2 DEF Changes, EventsOf, Numbered, OfGroup
    <3> QED BY <3>1, UndoneTrailNext
  <2>5. ASSUME NEW k \in Keys \ blamed
        PROVE  /\ TrailOf(kb'.events, start', Lasting', k) = InForce(k)'
               /\ step' = "apply" => Origin(k)' = InForce(k)'
    <3>1. TrailOf(kb.events, start, Lasting, k) = InForce(k)
      BY <2>2, ExactNow
    <3>2. InForce(k)' = InForce(k)
      BY <2>1 DEF InForce
    <3>3. step' = "apply" => Origin(k)' = InForce(k)'
      BY <2>1 DEF Origin
    <3> QED BY <2>1, <2>3, <3>1, <3>2, <3>3
  <2>6. Working' => step' = "apply"
    BY <2>1 DEF Working
  <2> QED BY <2>1, <2>4, <2>5, <2>6, ExactNext
<1>10. CASE RestoreBest \/ Finalize \/ StoreFixes \/ Crash
  <2>1. step' \in {"restored", "finalized", "idle"}
    BY <1>10 DEF RestoreBest, Finalize, StoreFixes, Crash
  <2> QED BY <2>1 DEF TrailExact, Tuning, Working
<1>11. CASE UNCHANGED vars
  <2>1. UNCHANGED <<kb, run, step, phase, iteration, outcome, applied, active, start, blamed>>
    BY <1>11 DEF vars, state, group, ghosts
  <2>2. /\ Tuning' = Tuning /\ Working' = Working /\ Keeping' = Keeping /\ AppliedKeys' = AppliedKeys
        /\ Outside' = Outside /\ Lasting' = Lasting
        /\ \A k \in Keys : Origin(k)' = Origin(k) /\ InForce(k)' = InForce(k)
    BY <2>1 DEF Tuning, Working, Keeping, AppliedKeys, Outside, Lasting, UndoneBy, OfGroup,
                Origin, InForce
  <2> QED BY <2>1, <2>2, ExactNow, ExactNext
<1> QED BY <1>1, <1>2, <1>3, <1>4, <1>5, <1>6, <1>7, <1>8, <1>9, <1>10, <1>11 DEF Next

Trail ==
  /\ Members /\ Entered /\ Numbered /\ GroupTrail /\ Attempted /\ GroupVerdict /\ TrailExact

LEMMA TrailInit ==
  ASSUME Init
  PROVE  Trail
BY DEF Init, Trail, Members, Entered, Numbered, GroupTrail, Attempted, GroupVerdict, TrailExact, Tuning,
       Working

LEMMA TrailStep ==
  ASSUME Basics, Basics', Account, Account', Trail, [Next]_vars
  PROVE  Trail'
<1>1. Members /\ Entered /\ Numbered /\ GroupTrail /\ Attempted /\ GroupVerdict /\ TrailExact
  BY DEF Trail
<1>2. Members' /\ Entered' /\ Numbered' /\ GroupTrail' /\ Attempted' /\ GroupVerdict'
  BY <1>1, MembersStep, EnteredStep, NumberedStep, GroupTrailStep, AttemptedStep, GroupVerdictStep
<1>3. TrailExact'
  BY <1>1, <1>2, TrailExactStep
<1> QED BY <1>2, <1>3 DEF Trail

\* As long as the session tunes, the host is what the trail says, up to the keys
\* of the group under way.
LEMMA TuningTrail ==
  ASSUME Basics, Account, Trail, Tuning, NEW k \in Keys \ (blamed \cup KeysOf(hyps))
  PROVE  host[k] = TrailOf(kb.events, start, Lasting, k)
<1>1. Members /\ GroupTrail /\ TrailExact
  BY DEF Trail
<1>2. Working => k \notin AppliedKeys
  BY <1>1 DEF Members
<1>3. host[k] = InForce(k)
  BY <1>2 DEF Account, Accounted, Unsettled, Working
<1>4. CASE ~Working
  BY <1>1, <1>3, <1>4, ExactNow
<1>5. CASE Working
  <2>1. TrailOf(kb.events, start, Outside, k) = Origin(k)
    BY <1>1, <1>2, <1>5, ExactNow
  <2>2. Origin(k) = InForce(k)
    BY <1>2, <1>5 DEF Account, Entries, Origin, InForce
  <2> DEFINE made == {i \in Lasting : kb.events[i].payload.key = k}
             before == {i \in Outside : kb.events[i].payload.key = k}
  <2>3. \A i \in Lasting : OfGroup(i) => kb.events[i].payload.key \in AppliedKeys
    BY <1>1, <1>5, LastingKnown DEF GroupTrail, Logged, AppliedKeys
  <2>4. made = before
    BY <1>2, <1>5, <2>3 DEF Outside
  <2>5. TrailOf(kb.events, start, Lasting, k) = TrailOf(kb.events, start, Outside, k)
    BY <2>4 DEF TrailOf
  <2> QED BY <1>3, <2>1, <2>2, <2>5
<1> QED BY <1>4, <1>5

LEMMA TuningAccounts ==
  ASSUME Basics, Account, Trail, Tuning
  PROVE  TrailAccountsForHost
BY TuningTrail, ValueOfTrail DEF TrailAccountsForHost

LEMMA EndAccounts ==
  ASSUME Basics, Account, Trail, TrailAccountsForHost, [Next]_vars, ~Tuning'
  PROVE  TrailAccountsForHost'
<1>1. CASE RestoreBest
  <2>1. PICK bad \in SUBSET (Surplus \cup Lacking) : Run(Restoration, bad)
    BY <1>1 DEF RestoreBest
  <2>2. /\ step = "loop" /\ kb' = kb /\ run' = run /\ start' = start
        /\ hyps' = SetToSeq({<<k, Restoration[k]>> : k \in DOMAIN Restoration})
    BY <1>1 DEF RestoreBest
  <2>3. /\ blamed \subseteq blamed' /\ \A k \in Keys \ DOMAIN Restoration : host'[k] = host[k]
    <3>1. bad \subseteq Keys /\ \A k \in DOMAIN Restoration : Restoration[k] \in Values
      BY <2>1, RestorationFacts DEF Basics
    <3> QED BY <2>1, <3>1, RunFacts DEF Basics
  <2>4. Tuning /\ ~Working /\ ~Unsettled
    BY <2>2 DEF Tuning, Working, Unsettled
  <2>5. Lasting' = Lasting
    BY <2>2 DEF Lasting, UndoneBy
  <2>6. ASSUME NEW k \in Keys \ (blamed' \cup KeysOf(hyps'))
        PROVE  host'[k] = TrailOf(kb'.events, start', Lasting', k)
    <3>1. k \notin DOMAIN Restoration /\ k \notin blamed
      BY <2>2, <2>3, <2>6, RestoredPairs DEF KeysOf, Basics
    <3>2. host[k] = InForce(k) /\ TrailOf(kb.events, start, Lasting, k) = InForce(k)
      BY <2>4, <3>1, ExactNow DEF Account, Accounted, Trail
    <3> QED BY <2>2, <2>3, <2>5, <3>1, <3>2
  <2> QED BY <2>6 DEF TrailAccountsForHost, TrailValue, TrailOf
<1>2. CASE Finalize
  <2>1. Finished(run)'
    BY <1>2, FinalizeWrites DEF Finished, Finalize
  <2> QED BY <2>1 DEF TrailAccountsForHost
<1>3. CASE StoreFixes
  <2>1. step = "finalized" /\ kb'.runs = kb.runs /\ run' = run
    BY <1>3 DEF StoreFixes, StoreRecipe
  <2>2. Finished(run)'
    BY <2>1 DEF Finished, Basics, Books
  <2> QED BY <2>2 DEF TrailAccountsForHost
<1>4. CASE Crash \/ UNCHANGED vars
  <2>1. UNCHANGED <<host, kb, run, hyps, start, blamed>>
    BY <1>4 DEF Crash, vars, group, ghosts
  <2>2. Lasting' = Lasting /\ (Finished(run)' <=> Finished(run))
    BY <2>1 DEF Lasting, UndoneBy, Finished
  <2>3. \A k : TrailValue(Lasting, k)' = TrailValue(Lasting, k)
    BY <2>1, <2>2 DEF TrailValue
  <2> QED BY <2>1, <2>2, <2>3 DEF TrailAccountsForHost
<1>5. CASE ~(RestoreBest \/ Finalize \/ StoreFixes \/ Crash \/ UNCHANGED vars)
  <2>1. CASE \E o \in Outcomes : Evaluate(o)
    BY <2>1 DEF Evaluate, Tuning, Working, Basics, TypeOK, Phases
  <2>2. CASE ApplyFails
    BY <2>2 DEF ApplyFails, Tuning, Working
  <2> QED
    BY <1>5, <2>1, <2>2
       DEF Next, Begin, BuildTuneContext, ResolveGraph, Apply, LogApplied, NothingApplied,
           ValidationFails,
           Attributed, NotAttributed, RollBackAll, LogRollBack, RecordIteration, Propose,
           RejectBeforeApply,
           Tuning, Working
<1> QED BY <1>1, <1>2, <1>3, <1>4, <1>5

\* Cut off anywhere, by a crash between any two steps, a session leaves events
\* that account for the host, up to the keys of one batch, iteration or
\* restoration and of failed commands.
THEOREM TrailAccounts == Spec => []TrailAccountsForHost
<1>1. Init => Basics /\ Account /\ Trail /\ TrailAccountsForHost
  <2>1. ASSUME Init PROVE TrailAccountsForHost
    <3>1. run = FirstRun - 1 /\ FirstRun \in Nat
      BY <2>1, SessionsAssumption DEF Init
    <3> QED BY <3>1 DEF TrailAccountsForHost
  <2> QED BY <2>1, InitBasics, InitAccount, TrailInit
<1>2. Basics /\ Account /\ Trail /\ TrailAccountsForHost /\ [Next]_vars
        => Basics' /\ Account' /\ Trail' /\ (~Tuning' => TrailAccountsForHost')
  BY BasicsStep, AccountStep, TrailStep, EndAccounts
<1>3. Basics /\ Account /\ Trail /\ Tuning => TrailAccountsForHost
  BY TuningAccounts
<1> QED BY <1>1, <1>2, <1>3, PTL DEF Spec

\* No recipe is stored but of a finished run that gained something, and none of
\* its steps without a benchmark the run accepted and, before it, the run's change
\* to that step or, of a batch, its failure to make it, however sessions crash.
THEOREM RecipesProven == Spec => []RecipesAreProven
<1>1. Init => Basics /\ Account /\ Trail /\ Proven
  BY InitBasics, InitAccount, TrailInit, InitProven
<1>2. Basics /\ Account /\ Trail /\ Proven /\ [Next]_vars => Basics' /\ Account' /\ Trail' /\ Proven'
  <2>1. ASSUME Basics, Account, Trail, Proven, [Next]_vars PROVE Basics' /\ Account' /\ Trail' /\ Proven'
    <3>1. Basics' /\ Account'
      BY <2>1, BasicsStep, AccountStep
    <3>2. Trail'
      BY <2>1, <3>1, TrailStep
    <3>3. Proven'
      BY <2>1, <3>1, ProvenStep DEF Trail
    <3> QED BY <3>1, <3>2, <3>3
  <2> QED BY <2>1
<1>3. Proven => RecipesAreProven
  BY DEF Proven
<1> QED BY <1>1, <1>2, <1>3, PTL DEF Spec
=============================================================================
