------------------------- MODULE HostAppliers_proofs -------------------------
(***************************************************************************)
(* Proofs about HostAppliers: its type invariant, that nothing the session *)
(* changed escapes the ledger, and that the benchmark measures what ledger *)
(* and group claim, for every host, set of values, group size and number   *)
(* of changes and failing commands.                                        *)
(*                                                                         *)
(* Each change carries its own undo, so the invariant says of every change *)
(* on record what its undo would do to any host: bring its parameter back  *)
(* to what the session found (Accounts), or to the earlier change it       *)
(* replaces (Claims).                                                      *)
(***************************************************************************)
EXTENDS HostCommands_proofs, WellFoundedInduction

Entries(cs) == {cs[i] : i \in DOMAIN cs}
Distinct(cs) == \A i, j \in DOMAIN cs : i # j => cs[i].key # cs[j].key
Change == {c \in ChangeType : IsScript(c.undo, c.key)}

Running(k) == current # None /\ current.key = k

\* Changes that must be able to bring back what the session found: those of
\* the ledger, and those to enter it or to be rolled back that replace none of it.
OnRecord ==
  Entries(ledger) \cup {c \in Entries(group) \cup Entries(todo) : c.key \notin Keys(ledger)}

\* Parameters whose value the session still answers for.
Tracked(k) ==
  /\ k \notin dirty \cup retuned \cup Lossy(start)
  /\ k = "prlimit" => host.pid = start.pid

\* Changes whose claim still stands.
Valid(c) ==
  /\ c.key \notin dirty
  /\ c.key = "prlimit" => host.pid = c.pid
  /\ c.key = "quota" => c.applied \notin Unparsable

Types ==
  /\ start \in HostType /\ Settled(start) /\ Shaped(host, start)
  /\ ledger \in Seq(Change) /\ group \in Seq(Change) /\ todo \in Seq(Change)
  /\ current \in Change \cup {None}
  /\ IF current = None THEN script = <<>> ELSE IsScript(script, current.key)
  /\ pc \in {"idle", "apply", "bench", "undo", "exit"}
  /\ changes \in 0..MaxChanges /\ faults \in 0..MaxFaults
  /\ dirty \subseteq Kinds /\ retuned \subseteq Kinds

\* Where the changes are, and no parameter twice in a list. No change is of a
\* process later than the one running.
Books ==
  /\ Distinct(ledger) /\ Distinct(group) /\ Distinct(todo)
  /\ \A c \in Entries(ledger) \cup Entries(group) \cup Entries(todo) : c.pid <= host.pid
  /\ current # None => current.pid <= host.pid
  /\ pc \in {"idle", "apply", "bench"} => todo = <<>>
  /\ pc \in {"idle", "undo", "exit"} => group = <<>>
  /\ pc \in {"idle", "bench"} => current = None
  /\ pc = "exit" => ledger = <<>>
  /\ pc = "apply" /\ current # None => current.key \notin Keys(group)
  /\ pc \in {"undo", "exit"} /\ current # None => todo # <<>> /\ current = Head(todo)

\* Bringing back what the session found.
Untouched ==
  \A k \in Kinds :
     /\ k \notin Keys(ledger) \cup Keys(group) \cup Keys(todo) /\ ~Running(k)
     /\ Tracked(k)
     => View(host, k) = View(start, k)
RecordsRestore == \A c \in OnRecord : Tracked(c.key) => Restoring(c, start)
ApplyRestores ==
  pc = "apply" /\ current # None /\ Tracked(current.key) /\ current.key \notin Keys(ledger) =>
     Restoring(current, start) /\ current.view = View(start, current.key)
UndoRestores ==
  /\ pc \in {"undo", "exit"} /\ current # None
  /\ Tracked(current.key) /\ current.key \notin Keys(ledger) /\ Unrefused(script)
  => View(After(host, script), current.key) = View(start, current.key)
Accounts == Untouched /\ RecordsRestore /\ ApplyRestores /\ UndoRestores

\* Having what ledger and group claim.
LedgerClaims ==
  \A c \in Entries(ledger) :
     Valid(c) /\ c.key \notin Keys(group) \cup Keys(todo) /\ ~Running(c.key) => Claimed(host, c)
GroupClaims == \A c \in Entries(group) : Valid(c) => Claimed(host, c)
RetuningReclaims ==
  \A b \in Entries(ledger), c \in Entries(group) \cup Entries(todo) :
     b.key = c.key /\ Valid(b) => Reclaims(c, b, start)
ApplyReclaims ==
  \A b \in Entries(ledger) :
     pc = "apply" /\ Running(b.key) /\ Valid(b) =>
        /\ Reclaims(current, b, start) /\ Certifies(current, b, start)
        /\ b.key = "unit" => host.plim = b.applied
UndoReclaims ==
  \A b \in Entries(ledger) :
     pc = "undo" /\ Running(b.key) /\ Valid(b) /\ Unrefused(script) => Claimed(After(host, script), b)
ApplyClaims ==
  pc = "apply" /\ current # None /\ Valid(current) /\ Unrefused(script) =>
     Claimed(After(host, script), current)
Claims ==
  /\ LedgerClaims /\ GroupClaims /\ RetuningReclaims
  /\ ApplyReclaims /\ UndoReclaims /\ ApplyClaims

-----------------------------------------------------------------------------
(* Lists of changes.                                                       *)

LEMMA SetInduction ==
  ASSUME NEW S, 0 \in S, \A n \in Nat : n \in S => n + 1 \in S
  PROVE  Nat \subseteq S
<1> DEFINE R == OpToRel(<, Nat)
           T == Nat \ S
<1>1. IsWellFoundedOn(R, Nat)
  BY NatLessThanWellFounded, Zenon
<1>2. SUFFICES ASSUME T # {} PROVE FALSE
  OBVIOUS
<1> HIDE DEF R
<1>3. PICK x \in T : \A y \in T : ~(<<y, x>> \in R)
  BY <1>1, <1>2, WFMin
<1>4. x # 0 /\ x - 1 \in Nat /\ x - 1 < x
  BY <1>3
<1>5. x - 1 \in T
  <2>1. (x - 1) + 1 = x
    BY <1>3, <1>4
  <2> QED BY <1>3, <1>4, <2>1
<1>6. <<x - 1, x>> \in R
  BY <1>3, <1>4 DEF R, OpToRel
<1> QED BY <1>3, <1>5, <1>6

LEMMA EmptyLists ==
  Entries(<<>>) = {} /\ Keys(<<>>) = {} /\ Distinct(<<>>)
BY DEF Entries, Keys, Distinct

LEMMA KeysOfEntries ==
  ASSUME NEW cs
  PROVE  /\ \A c \in Entries(cs) : c.key \in Keys(cs)
         /\ \A k \in Keys(cs) : \E c \in Entries(cs) : c.key = k
BY DEF Entries, Keys

LEMMA EntryTypes ==
  ASSUME NEW S, NEW cs \in Seq(S)
  PROVE  Entries(cs) \subseteq S /\ (\A i \in 1..Len(cs) : cs[i] \in Entries(cs))
BY DEF Entries

LEMMA ChangeTypes ==
  ASSUME NEW c \in Change
  PROVE  /\ c.key \in Kinds /\ c.applied \in Values /\ c.pid \in Nat /\ IsScript(c.undo, c.key)
         /\ c # None
BY HostsAssumption DEF Change, ChangeType

LEMMA Appending ==
  ASSUME NEW S, NEW cs \in Seq(S), NEW c \in S
  PROVE  /\ Append(cs, c) \in Seq(S)
         /\ Entries(Append(cs, c)) = Entries(cs) \cup {c}
         /\ Keys(Append(cs, c)) = Keys(cs) \cup {c.key}
         /\ Distinct(cs) /\ c.key \notin Keys(cs) => Distinct(Append(cs, c))
<1> DEFINE d == Append(cs, c)
<1>1. /\ d \in Seq(S) /\ DOMAIN d = 1..(Len(cs) + 1) /\ DOMAIN cs = 1..Len(cs) /\ Len(cs) \in Nat
      /\ \A i \in 1..Len(cs) : d[i] = cs[i]
      /\ d[Len(cs) + 1] = c
  OBVIOUS
<1> HIDE DEF d
<1>2. \A i \in DOMAIN d : i \in DOMAIN cs \/ i = Len(cs) + 1
  BY <1>1
<1>3. DOMAIN cs \subseteq DOMAIN d /\ Len(cs) + 1 \in DOMAIN d
  BY <1>1
<1>4. Entries(d) = Entries(cs) \cup {c}
  BY <1>1, <1>2, <1>3 DEF Entries
<1>5. Keys(d) = Keys(cs) \cup {c.key}
  BY <1>1, <1>2, <1>3 DEF Keys
<1>6. ASSUME Distinct(cs), c.key \notin Keys(cs) PROVE Distinct(d)
  <2>1. SUFFICES ASSUME NEW i \in DOMAIN d, NEW j \in DOMAIN d, i # j PROVE d[i].key # d[j].key
    BY DEF Distinct
  <2>2. \A m \in DOMAIN cs : d[m].key \in Keys(cs)
    BY <1>1 DEF Keys
  <2>3. CASE i \in DOMAIN cs /\ j \in DOMAIN cs
    BY <1>1, <1>6, <2>1, <2>3 DEF Distinct
  <2>4. CASE i = Len(cs) + 1 \/ j = Len(cs) + 1
    BY <1>1, <1>2, <1>6, <2>1, <2>2, <2>4
  <2> QED BY <1>2, <2>3, <2>4
<1> QED BY <1>1, <1>4, <1>5, <1>6 DEF d

LEMMA Dropping ==
  ASSUME NEW S, NEW cs \in Seq(S), cs # <<>>
  PROVE  /\ Tail(cs) \in Seq(S) /\ Head(cs) \in S
         /\ Entries(cs) = Entries(Tail(cs)) \cup {Head(cs)}
         /\ Keys(cs) = Keys(Tail(cs)) \cup {Head(cs).key}
         /\ Distinct(cs) => Distinct(Tail(cs)) /\ Head(cs).key \notin Keys(Tail(cs))
<1> DEFINE d == Tail(cs)
<1>1. /\ d \in Seq(S) /\ Len(cs) \in Nat /\ Len(cs) > 0
      /\ DOMAIN d = 1..(Len(cs) - 1) /\ DOMAIN cs = 1..Len(cs)
      /\ \A i \in 1..(Len(cs) - 1) : d[i] = cs[i + 1]
      /\ Head(cs) = cs[1] /\ Head(cs) \in S
  OBVIOUS
<1> HIDE DEF d
<1>2. \A i \in DOMAIN cs : i = 1 \/ (i - 1 \in DOMAIN d /\ d[i - 1] = cs[i])
  BY <1>1
<1>3. \A i \in DOMAIN d : i + 1 \in DOMAIN cs /\ d[i] = cs[i + 1] /\ i + 1 # 1
  BY <1>1
<1>4. 1 \in DOMAIN cs
  BY <1>1
<1>5. Entries(cs) = Entries(d) \cup {Head(cs)}
  <2>1. \A i \in DOMAIN cs : cs[i] \in Entries(d) \cup {Head(cs)}
    BY <1>1, <1>2 DEF Entries
  <2>2. \A i \in DOMAIN d : d[i] \in Entries(cs)
    BY <1>3 DEF Entries
  <2>3. Head(cs) \in Entries(cs)
    BY <1>1, <1>4 DEF Entries
  <2>4. Entries(cs) \subseteq Entries(d) \cup {Head(cs)}
    BY <2>1 DEF Entries
  <2>5. Entries(d) \subseteq Entries(cs)
    BY <2>2 DEF Entries
  <2> QED BY <2>3, <2>4, <2>5
<1>6. Keys(cs) = Keys(d) \cup {Head(cs).key}
  <2>1. \A i \in DOMAIN cs : cs[i].key \in Keys(d) \cup {Head(cs).key}
    BY <1>1, <1>2 DEF Keys
  <2>2. \A i \in DOMAIN d : d[i].key \in Keys(cs)
    BY <1>3 DEF Keys
  <2> QED BY <1>1, <1>4, <2>1, <2>2 DEF Keys
<1>7. ASSUME Distinct(cs) PROVE Distinct(d) /\ Head(cs).key \notin Keys(d)
  <2>1. ASSUME NEW i \in DOMAIN d, NEW j \in DOMAIN d, i # j PROVE d[i].key # d[j].key
    <3>1. i + 1 \in DOMAIN cs /\ j + 1 \in DOMAIN cs /\ i + 1 # j + 1
      BY <1>1, <2>1
    <3> QED BY <1>3, <1>7, <2>1, <3>1 DEF Distinct
  <2>2. ASSUME NEW i \in DOMAIN d PROVE d[i].key # Head(cs).key
    <3>1. i + 1 \in DOMAIN cs /\ d[i] = cs[i + 1] /\ i + 1 # 1
      BY <1>3
    <3> QED BY <1>1, <1>4, <1>7, <3>1 DEF Distinct
  <2> QED BY <2>1, <2>2 DEF Distinct, Keys
<1> QED BY <1>1, <1>5, <1>6, <1>7 DEF d

\* One entry of the group enters the ledger.
LEMMA Entering ==
  ASSUME NEW S, NEW l \in Seq(S), Distinct(l), NEW c \in S
  PROVE  /\ Enter(l, c) \in Seq(S) /\ Distinct(Enter(l, c))
         /\ \A b : b \in Entries(Enter(l, c)) <=> b = c \/ (b \in Entries(l) /\ b.key # c.key)
<1>1. CASE c.key \in Keys(l)
  <2> DEFINE d == [i \in DOMAIN l |-> IF l[i].key = c.key THEN c ELSE l[i]]
  <2>1. DOMAIN l = 1..Len(l) /\ Len(l) \in Nat /\ \A i \in DOMAIN l : l[i] \in S
    OBVIOUS
  <2>2. /\ d \in Seq(S) /\ DOMAIN d = DOMAIN l
        /\ \A i \in DOMAIN l : d[i] = IF l[i].key = c.key THEN c ELSE l[i]
    BY <2>1
  <2> HIDE DEF d
  <2>3. \A i \in DOMAIN l : d[i].key = l[i].key
    BY <2>2
  <2>4. Distinct(d)
    BY <2>2, <2>3 DEF Distinct
  <2>5. PICK m \in DOMAIN l : l[m].key = c.key
    BY <1>1 DEF Keys
  <2>6. \A b : b \in Entries(d) <=> b = c \/ (b \in Entries(l) /\ b.key # c.key)
    <3>1. ASSUME NEW i \in DOMAIN d PROVE d[i] = c \/ (d[i] \in Entries(l) /\ d[i].key # c.key)
      BY <2>2 DEF Entries
    <3>2. ASSUME NEW b \in Entries(l), b.key # c.key PROVE b \in Entries(d)
      BY <2>2, <3>2 DEF Entries
    <3>3. c \in Entries(d)
      BY <2>2, <2>5 DEF Entries
    <3> QED BY <3>1, <3>2, <3>3 DEF Entries
  <2>7. Enter(l, c) = d
    BY <1>1 DEF Enter, d
  <2> QED BY <2>2, <2>4, <2>6, <2>7
<1>2. CASE c.key \notin Keys(l)
  <2>1. Enter(l, c) = Append(l, c)
    BY <1>2 DEF Enter
  <2>2. \A b \in Entries(l) : b.key # c.key
    BY <1>2, KeysOfEntries
  <2> QED BY <1>2, <2>1, <2>2, Appending
<1> QED BY <1>1, <1>2

\* The group's entries are in the ledger after all of them entered, and of the
\* ledger's those whose parameter the group does not change.
LEMMA EnteredFacts ==
  ASSUME NEW S, NEW l \in Seq(S), Distinct(l), NEW cs \in Seq(S), Distinct(cs)
  PROVE  /\ Entered(l, cs) \in Seq(S) /\ Distinct(Entered(l, cs))
         /\ \A b : b \in Entries(Entered(l, cs)) <=>
                     b \in Entries(cs) \/ (b \in Entries(l) /\ b.key \notin Keys(cs))
         /\ Keys(Entered(l, cs)) = Keys(l) \cup Keys(cs)
<1> DEFINE N == Len(cs)
           Solves(f, n) == f = [m \in 0..n |-> IF m = 0 THEN l ELSE Enter(f[m - 1], cs[m])]
           after == CHOOSE f : Solves(f, N)
<1>1. N \in Nat /\ DOMAIN cs = 1..N /\ \A i \in 1..N : cs[i] \in S
  OBVIOUS
<1>2. Entered(l, cs) = after[N]
  BY DEF Entered
<1>3. \E f : Solves(f, N)
  <2> DEFINE P == {n \in Nat : \E f : Solves(f, n)}
  <2>1. 0 \in P
    <3>1. Solves([m \in 0..0 |-> l], 0)
      OBVIOUS
    <3> QED BY <3>1
  <2>2. ASSUME NEW n \in Nat, n \in P PROVE n + 1 \in P
    <3>1. PICK f : Solves(f, n)
      BY <2>2
    <3> DEFINE g == [m \in 0..(n + 1) |-> IF m = n + 1 THEN Enter(f[n], cs[n + 1]) ELSE f[m]]
    <3>2. /\ DOMAIN g = 0..(n + 1) /\ g[n + 1] = Enter(f[n], cs[n + 1])
          /\ \A m \in 0..n : g[m] = f[m]
      OBVIOUS
    <3>3. \A m \in 0..n : f[m] = IF m = 0 THEN l ELSE Enter(f[m - 1], cs[m])
      BY <3>1
    <3>4. ASSUME NEW m \in 0..(n + 1) PROVE g[m] = IF m = 0 THEN l ELSE Enter(g[m - 1], cs[m])
      <4> HIDE DEF g
      <4>1. CASE m = n + 1
        <5>1. g[n] = f[n] /\ m - 1 = n /\ m # 0
          BY <3>2, <4>1
        <5> QED BY <3>2, <4>1, <5>1
      <4>2. CASE m \in 1..n
        <5>1. g[m] = f[m] /\ g[m - 1] = f[m - 1]
          BY <3>2, <4>2
        <5> QED BY <3>3, <4>2, <5>1
      <4>3. CASE m = 0
        BY <3>2, <3>3, <4>3
      <4> QED BY <4>1, <4>2, <4>3
    <3>5. Solves(g, n + 1)
      <4>1. g = [m \in 0..(n + 1) |-> g[m]]
        OBVIOUS
      <4> HIDE DEF g
      <4>2. [m \in 0..(n + 1) |-> g[m]]
            = [m \in 0..(n + 1) |-> IF m = 0 THEN l ELSE Enter(g[m - 1], cs[m])]
        BY <3>4
      <4>3. g = [m \in 0..(n + 1) |-> IF m = 0 THEN l ELSE Enter(g[m - 1], cs[m])]
        BY <4>1, <4>2
      <4> QED BY <4>3
    <3> HIDE DEF g, Solves
    <3> QED BY <3>5
  <2>3. Nat \subseteq P
    <3> HIDE DEF P
    <3> QED BY <2>1, <2>2, SetInduction
  <2> QED BY <1>1, <2>3
<1>4. Solves(after, N)
  <2> HIDE DEF Solves
  <2> QED BY <1>3
<1>5. after[0] = l /\ \A m \in 1..N : after[m] = Enter(after[m - 1], cs[m])
  <2>1. \A m \in 0..N : after[m] = IF m = 0 THEN l ELSE Enter(after[m - 1], cs[m])
    <3> HIDE DEF after
    <3> QED BY <1>4
  <2> HIDE DEF after
  <2> QED BY <1>1, <2>1
<1> HIDE DEF after, Solves
<1> DEFINE First(n) == {cs[i] : i \in 1..n}
           FirstKeys(n) == {cs[i].key : i \in 1..n}
           Holds(n) == /\ after[n] \in Seq(S) /\ Distinct(after[n])
                       /\ \A b : b \in Entries(after[n]) <=>
                                   b \in First(n) \/ (b \in Entries(l) /\ b.key \notin FirstKeys(n))
           P == {n \in Nat : n <= N => Holds(n)}
<1>6. Holds(0)
  BY <1>5
<1>7. ASSUME NEW n \in Nat, n + 1 <= N, Holds(n) PROVE Holds(n + 1)
  <2> DEFINE c == cs[n + 1]
  <2>1. n + 1 \in 1..N /\ c \in S /\ after[n + 1] = Enter(after[n], c)
    <3>1. n + 1 \in 1..N /\ (n + 1) - 1 = n
      BY <1>1, <1>7
    <3> QED BY <1>1, <1>5, <3>1
  <2>2. First(n + 1) = First(n) \cup {c} /\ FirstKeys(n + 1) = FirstKeys(n) \cup {c.key}
    <3>1. 1..(n + 1) = 1..n \cup {n + 1}
      OBVIOUS
    <3> QED BY <3>1
  <2>3. \A b \in First(n) : b.key # c.key
    <3>1. \A i \in 1..n : i \in DOMAIN cs /\ n + 1 \in DOMAIN cs /\ i # n + 1
      BY <1>1, <1>7
    <3> QED BY <3>1 DEF Distinct
  <2> HIDE DEF First, FirstKeys, c
  <2>4. /\ Enter(after[n], c) \in Seq(S) /\ Distinct(Enter(after[n], c))
        /\ \A b : b \in Entries(Enter(after[n], c)) <=> b = c \/ (b \in Entries(after[n]) /\ b.key # c.key)
    BY <1>7, <2>1, Entering
  <2>5. \A b : b \in Entries(after[n + 1]) <=>
               b \in First(n + 1) \/ (b \in Entries(l) /\ b.key \notin FirstKeys(n + 1))
    BY <1>7, <2>1, <2>2, <2>3, <2>4
  <2> QED BY <2>1, <2>4, <2>5
<1>8. Nat \subseteq P
  <2>1. 0 \in P
    BY <1>6
  <2>2. ASSUME NEW n \in Nat, n \in P PROVE n + 1 \in P
    <3> HIDE DEF Holds
    <3> QED BY <1>1, <1>7, <2>2
  <2> HIDE DEF P
  <2> QED BY <2>1, <2>2, SetInduction
<1>9. Holds(N)
  <2> HIDE DEF Holds
  <2> QED BY <1>1, <1>8
<1>10. First(N) = Entries(cs) /\ FirstKeys(N) = Keys(cs)
  BY <1>1 DEF Entries, Keys
<1>11. \A b : b \in Entries(Entered(l, cs)) <=>
              b \in Entries(cs) \/ (b \in Entries(l) /\ b.key \notin Keys(cs))
  BY <1>2, <1>9, <1>10
<1>12. Keys(Entered(l, cs)) = Keys(l) \cup Keys(cs)
  <2>1. \A k : k \in Keys(Entered(l, cs)) <=> k \in Keys(l) \cup Keys(cs)
    BY <1>11, KeysOfEntries
  <2> QED BY <2>1
<1> QED BY <1>2, <1>9, <1>11, <1>12

-----------------------------------------------------------------------------
(* The steps of the session.                                               *)

LEMMA InitTypes == Init => Types /\ Books
<1> SUFFICES ASSUME Init PROVE Types /\ Books
  OBVIOUS
<1>1. host \in HostType /\ Settled(host) /\ start = host
  BY HostsAssumption DEF Init
<1>2. Shaped(host, start)
  BY <1>1, HostTypes DEF Shaped, Settled
<1>3. Types
  BY <1>1, <1>2, ApplierAssumption DEF Init, Types
<1>4. Books
  BY EmptyLists DEF Init, Books
<1> QED BY <1>3, <1>4

\* The change an applier makes.
LEMMA NewChangeFacts ==
  ASSUME Types, NEW k \in Kinds, NEW v \in Values
  PROVE  LET c == NewChange(k, v)
         IN /\ c \in Change /\ c.key = k /\ c.applied = v /\ c.pid = host.pid
            /\ c.undo = ApplierOf(host, k, v).undo /\ c.view = View(host, k)
            /\ IsScript(ApplierOf(host, k, v).apply, k)
<1> DEFINE c == NewChange(k, v)
<1>1. host \in HostType /\ host.pid \in Nat
  BY HostTypes DEF Types, Shaped
<1>2. IsScript(ApplierOf(host, k, v).apply, k) /\ IsScript(ApplierOf(host, k, v).undo, k)
  BY <1>1, CommandScripts
<1>3. View(host, k) \in Views
  BY <1>1, ViewTypes
<1>4. ApplierOf(host, k, v).undo \in Seq(StepType)
  <2>1. StepsOf(k) \subseteq StepType
    BY DEF StepsOf
  <2> QED BY <1>2, <2>1, SeqMonotonic DEF IsScript
<1>5. /\ c.key = k /\ c.applied = v /\ c.pid = host.pid
      /\ c.undo = ApplierOf(host, k, v).undo /\ c.view = View(host, k)
  BY DEF NewChange
<1>6. c \in ChangeType
  BY <1>1, <1>3, <1>4 DEF NewChange, ChangeType
<1> QED BY <1>2, <1>5, <1>6 DEF Change

\* A command step, failed or not, leaves the other parameters alone.
LEMMA CommandKeeps ==
  ASSUME Types, Books, current # None, RunStep \/ ApplyStepFails \/ RollbackStepFails
  PROVE  Keeps(host', host, start, current.key) /\ current \in Change /\ IsScript(script, current.key)
<1> DEFINE k == current.key
           s == Head(script)
<1>1. current \in Change /\ k \in Kinds /\ IsScript(script, k) /\ IsScript(current.undo, k)
  BY ChangeTypes DEF Types
<1>2. start \in HostType /\ Settled(start) /\ Shaped(host, start) /\ host \in HostType
  BY DEF Types, Shaped
<1>3. s \in StepsOf(k)
  BY <1>1, ScriptSteps
<1>4. ASSUME NEW h \in Failed(host, s) PROVE Keeps(h, host, start, k)
  BY <1>1, <1>2, <1>3, <1>4, FailedKeeps
<1>5. CASE RunStep
  BY <1>1, <1>2, <1>3, <1>5, DoKeeps DEF RunStep
<1>6. CASE ApplyStepFails
  <2>1. PICK h \in Failed(host, s) : host' = Restored(h, s, current) \/ host' = h
    BY <1>6 DEF ApplyStepFails
  <2>2. Keeps(h, host, start, k)
    BY <1>4
  <2> DEFINE r == Head(current.undo)
  <2>3. r \in StepsOf(k)
    BY <1>1, ScriptSteps
  <2>4. Restored(h, s, current) = h \/ (~Fails(h, r) /\ Restored(h, s, current) = Do(h, r))
    BY DEF Restored
  <2>5. ~Fails(h, r) => Keeps(Do(h, r), h, start, k)
    <3>1. Shaped(h, start)
      BY <2>2 DEF Keeps
    <3> QED BY <1>1, <1>2, <2>3, <3>1, DoKeeps
  <2>6. ~Fails(h, r) => Keeps(Do(h, r), host, start, k)
    BY <1>2, <2>2, <2>5, KeepsTransitive
  <2> QED BY <1>1, <2>1, <2>2, <2>4, <2>6
<1>7. CASE RollbackStepFails
  BY <1>1, <1>4, <1>7 DEF RollbackStepFails
<1> QED BY <1>5, <1>6, <1>7

\* The steps that leave the host alone.
Quiet ==
  \/ \E k \in Kinds, v \in Values : Apply(k, v)
  \/ \E k \in Kinds : Refuse(k)
  \/ Validate \/ Keep \/ Discard \/ Exit \/ StartRollback \/ RolledBack

LEMMA QuietHost ==
  ASSUME Quiet \/ UNCHANGED vars
  PROVE  host' = host /\ start' = start
BY DEF Quiet, Apply, Refuse, Validate, Keep, Discard, Exit, StartRollback, RolledBack, vars

\* Whatever the step, the process is the same or a later one, and nothing
\* becomes answered for again.
LEMMA SteadyFacts ==
  ASSUME Types, Books, [Next]_vars
  PROVE  /\ start' = start /\ Shaped(host', start) /\ host'.pid >= host.pid
         /\ host'.pid \in Nat /\ host.pid \in Nat /\ start.pid \in Nat /\ host.pid >= start.pid
         /\ dirty \subseteq dirty' /\ retuned \subseteq retuned'
         /\ dirty' \subseteq Kinds /\ retuned' \subseteq Kinds
         /\ host' = host \/ (/\ current # None /\ Keeps(host', host, start, current.key)
                            /\ (RunStep \/ ApplyStepFails \/ RollbackStepFails))
<1>1. Shaped(host, start) /\ host \in HostType /\ start \in HostType /\ dirty \subseteq Kinds /\ retuned \subseteq Kinds
  BY DEF Types, Shaped
<1>2. host.pid \in Nat /\ start.pid \in Nat /\ host.pid >= start.pid
  BY <1>1, HostTypes DEF Shaped
<1>3. CASE RunStep \/ ApplyStepFails \/ RollbackStepFails
  <2>1. current # None
    BY <1>3 DEF RunStep, ApplyStepFails, RollbackStepFails, Types
  <2>2. Keeps(host', host, start, current.key) /\ current.key \in Kinds
    BY <1>3, <2>1, CommandKeeps, ChangeTypes
  <2>3. Shaped(host', start) /\ host'.pid >= host.pid /\ host'.pid \in Nat
    BY <2>2, HostTypes DEF Keeps, Shaped
  <2>4. dirty' \in {dirty, dirty \cup {current.key}} /\ retuned' = retuned /\ start' = start
    <3>1. CASE RunStep
      BY <3>1 DEF RunStep
    <3>2. CASE ApplyStepFails
      BY <3>2 DEF ApplyStepFails
    <3>3. CASE RollbackStepFails
      <4>1. current = Head(todo)
        BY <2>1, <3>3 DEF RollbackStepFails, Books
      <4> QED BY <3>3, <4>1 DEF RollbackStepFails
    <3> QED BY <1>3, <3>1, <3>2, <3>3
  <2> QED BY <1>1, <1>2, <1>3, <2>1, <2>2, <2>3, <2>4
<1>4. CASE Quiet \/ UNCHANGED vars
  <2>1. host' = host /\ start' = start
    BY <1>4, QuietHost
  <2>2. dirty' = dirty
    BY <1>4 DEF Quiet, Apply, Refuse, Validate, Keep, Discard, Exit, StartRollback, RolledBack, vars
  <2>3. retuned \subseteq retuned' /\ retuned' \subseteq Kinds
    <3>1. CASE Keep
      <4>1. Keys(ledger) \subseteq Kinds
        BY ChangeTypes DEF Types, Keys
      <4> QED BY <1>1, <3>1, <4>1 DEF Keep
    <3>2. CASE ~Keep
      BY <1>1, <1>4, <3>2 DEF Quiet, Apply, Refuse, Validate, Discard, Exit, StartRollback, RolledBack, vars
    <3> QED BY <3>1, <3>2
  <2> QED BY <1>1, <1>2, <2>1, <2>2, <2>3
<1> QED BY <1>3, <1>4 DEF Next, Quiet

\* A script under way: the session is applying or rolling back.
LEMMA ScriptUnderWay ==
  ASSUME Types, Books, script # <<>>
  PROVE  /\ current # None /\ current \in Change /\ IsScript(script, current.key)
         /\ pc \in {"apply", "undo", "exit"}
         /\ pc # "apply" => todo # <<>> /\ current = Head(todo)
BY DEF Types, Books

LEMMA TypesStep ==
  ASSUME Types, Books, [Next]_vars
  PROVE  Types'
<1>0. /\ start' = start /\ Shaped(host', start) /\ start \in HostType /\ Settled(start)
      /\ dirty' \subseteq Kinds /\ retuned' \subseteq Kinds
  BY SteadyFacts DEF Types
<1> USE <1>0
<1>1. ASSUME NEW k \in Kinds, NEW v \in Values, Apply(k, v) PROVE Types'
  <2>1. NewChange(k, v) \in Change /\ NewChange(k, v).key = k /\ IsScript(ApplierOf(host, k, v).apply, k)
    BY NewChangeFacts
  <2>2. NewChange(k, v) # None
    BY <2>1, ChangeTypes
  <2>3. changes' \in 0..MaxChanges /\ faults' \in 0..MaxFaults
    <3>1. changes < MaxChanges /\ changes' = changes + 1 /\ changes \in 0..MaxChanges
      BY <1>1 DEF Apply, Types
    <3>2. faults' = faults \/ (faults < MaxFaults /\ faults' = faults + 1)
      BY <1>1 DEF Apply
    <3>3. faults \in 0..MaxFaults /\ MaxChanges \in Nat /\ MaxFaults \in Nat
      BY ApplierAssumption DEF Types
    <3> QED BY <3>1, <3>2, <3>3
  <2>4. UNCHANGED <<ledger, group, todo>> /\ current' = NewChange(k, v)
        /\ script' = ApplierOf(host, k, v).apply /\ pc' = "apply"
    BY <1>1 DEF Apply
  <2> QED BY <2>1, <2>2, <2>3, <2>4 DEF Types
<1>2. ASSUME NEW k \in Kinds, Refuse(k) PROVE Types'
  <2>1. changes' \in 0..MaxChanges /\ faults' \in 0..MaxFaults
    BY <1>2, ApplierAssumption DEF Refuse, Types
  <2>2. /\ UNCHANGED <<ledger, current, script>> /\ pc' = "undo" /\ todo' = group /\ group' = <<>>
    BY <1>2 DEF Refuse
  <2> QED BY <2>1, <2>2 DEF Types
<1>3. CASE RunStep
  <2>1. /\ current \in Change /\ IsScript(script, current.key) /\ pc \in {"apply", "undo", "exit"}
        /\ pc # "apply" => todo # <<>>
    BY <1>3, ScriptUnderWay DEF RunStep
  <2>2. UNCHANGED <<ledger, pc, changes, faults>> /\ script' = Tail(script)
    BY <1>3 DEF RunStep
  <2>3. CASE Tail(script) # <<>>
    <3>1. UNCHANGED <<group, current, todo>>
      BY <1>3, <2>3 DEF RunStep
    <3>2. IsScript(Tail(script), current.key)
      BY <2>1, <2>3, ScriptSteps
    <3>3. current # None
      BY <2>1, ChangeTypes
    <3> QED BY <2>1, <2>2, <3>1, <3>2, <3>3 DEF Types
  <2>4. CASE Tail(script) = <<>>
    <3>1. /\ current' = None
          /\ IF pc = "apply" THEN group' = Append(group, current) /\ todo' = todo
                             ELSE todo' = Tail(todo) /\ group' = group
      BY <1>3, <2>4 DEF RunStep
    <3>2. group' \in Seq(Change) /\ todo' \in Seq(Change)
      <4>1. group \in Seq(Change) /\ todo \in Seq(Change)
        BY DEF Types
      <4>2. Append(group, current) \in Seq(Change)
        BY <2>1, <4>1, Appending
      <4>3. pc # "apply" => Tail(todo) \in Seq(Change)
        BY <2>1, <4>1, Dropping
      <4> QED BY <3>1, <4>1, <4>2, <4>3
    <3> QED BY <2>2, <2>4, <3>1, <3>2 DEF Types
  <2> QED BY <2>3, <2>4
<1>4. CASE ApplyStepFails
  <2>1. /\ UNCHANGED <<ledger, changes>> /\ pc' = "undo" /\ todo' = group /\ group' = <<>>
        /\ script' = <<>> /\ current' = None
    BY <1>4 DEF ApplyStepFails
  <2>2. faults' \in 0..MaxFaults
    BY <1>4, ApplierAssumption DEF ApplyStepFails, MayFail, CountFault, Types
  <2> QED BY <2>1, <2>2 DEF Types
<1>5. CASE Validate
  <2>1. faults' \in 0..MaxFaults
    BY <1>5, ApplierAssumption DEF Validate, Types
  <2>2. /\ UNCHANGED <<ledger, current, script, changes>> /\ pc' \in {"bench", "undo"}
        /\ (group' = group /\ todo' = todo) \/ (todo' = group /\ group' = <<>>)
    BY <1>5 DEF Validate
  <2>3. group' \in Seq(Change) /\ todo' \in Seq(Change)
    <3>1. group \in Seq(Change) /\ todo \in Seq(Change) /\ <<>> \in Seq(Change)
      BY DEF Types
    <3>2. group' \in {group, <<>>} /\ todo' \in {group, todo}
      BY <2>2
    <3> QED BY <3>1, <3>2
  <2>4. /\ ledger' = ledger /\ current' = current /\ script' = script /\ changes' = changes
        /\ pc' \in {"idle", "apply", "bench", "undo", "exit"}
    BY <2>2
  <2> QED BY <2>1, <2>3, <2>4 DEF Types
<1>6. CASE Keep
  <2>1. Entered(ledger, group) \in Seq(Change)
    BY EnteredFacts DEF Types, Books
  <2> QED BY <1>6, <2>1 DEF Keep, Types
<1>7. CASE Discard
  BY <1>7 DEF Discard, Types
<1>8. CASE Exit
  BY <1>8 DEF Exit, Types
<1>9. CASE StartRollback
  <2>1. Head(todo) \in Change
    BY <1>9, Dropping DEF StartRollback, Types
  <2>2. Head(todo) # None /\ IsScript(Head(todo).undo, Head(todo).key)
    BY <2>1, ChangeTypes
  <2>3. /\ script' = Head(todo).undo /\ current' = Head(todo)
        /\ UNCHANGED <<ledger, group, todo, pc, changes, faults>>
    BY <1>9 DEF StartRollback
  <2> QED BY <2>1, <2>2, <2>3 DEF Types
<1>10. CASE RollbackStepFails
  <2>1. todo # <<>>
    BY <1>10, ScriptUnderWay DEF RollbackStepFails
  <2>2. Tail(todo) \in Seq(Change)
    BY <2>1, Dropping DEF Types
  <2>3. faults' \in 0..MaxFaults
    BY <1>10, ApplierAssumption DEF RollbackStepFails, MayFail, CountFault, Types
  <2>4. /\ UNCHANGED <<ledger, group, pc, changes>> /\ todo' = Tail(todo)
        /\ script' = <<>> /\ current' = None
    BY <1>10 DEF RollbackStepFails
  <2> QED BY <2>2, <2>3, <2>4 DEF Types
<1>11. CASE RolledBack
  BY <1>11 DEF RolledBack, Types
<1>12. CASE UNCHANGED vars
  BY <1>12 DEF vars, Types
<1> QED BY <1>1, <1>2, <1>3, <1>4, <1>5, <1>6, <1>7, <1>8, <1>9, <1>10, <1>11, <1>12 DEF Next

LEMMA BooksStep ==
  ASSUME Types, Books, [Next]_vars
  PROVE  Books'
<1>0. host'.pid \in Nat /\ host.pid \in Nat /\ host'.pid >= host.pid
  BY SteadyFacts
<1>1. ASSUME NEW c \in Change, c.pid <= host.pid PROVE c.pid <= host'.pid
  BY <1>0, <1>1, ChangeTypes
<1>2. /\ Entries(ledger) \subseteq Change /\ Entries(group) \subseteq Change /\ Entries(todo) \subseteq Change
  BY EntryTypes DEF Types
<1>3. ASSUME NEW k \in Kinds, NEW v \in Values, Apply(k, v) PROVE Books'
  <2>1. NewChange(k, v).key = k /\ NewChange(k, v).pid = host.pid
    BY NewChangeFacts
  <2>2. /\ host' = host /\ UNCHANGED <<ledger, group, todo>> /\ current' = NewChange(k, v)
        /\ pc' = "apply" /\ pc \in {"idle", "apply"} /\ k \notin Keys(group)
    BY <1>3 DEF Apply
  <2> QED BY <1>0, <2>1, <2>2 DEF Books
<1>4. ASSUME NEW k \in Kinds, Refuse(k) PROVE Books'
  BY <1>4, EmptyLists DEF Refuse, Books
<1>5. CASE RunStep
  <2>1. /\ current # None /\ current \in Change /\ pc \in {"apply", "undo", "exit"}
        /\ pc # "apply" => todo # <<>> /\ current = Head(todo)
        /\ current.pid <= host.pid
    BY <1>5, ScriptUnderWay DEF RunStep, Books
  <2>2. UNCHANGED <<ledger, pc>>
    BY <1>5 DEF RunStep
  <2>3. CASE Tail(script) # <<>>
    <3>1. UNCHANGED <<group, current, todo>>
      BY <1>5, <2>3 DEF RunStep
    <3> QED BY <1>1, <1>2, <2>1, <2>2, <3>1 DEF Books
  <2>4. CASE Tail(script) = <<>> /\ pc = "apply"
    <3>1. current' = None /\ group' = Append(group, current) /\ todo' = todo
      BY <1>5, <2>4 DEF RunStep
    <3>2. current.key \notin Keys(group) /\ Distinct(group) /\ group \in Seq(Change)
      BY <2>1, <2>4 DEF Books, Types
    <3>3. Distinct(group') /\ Entries(group') = Entries(group) \cup {current}
      BY <2>1, <3>1, <3>2, Appending
    <3> QED BY <1>1, <1>2, <2>1, <2>2, <2>4, <3>1, <3>3 DEF Books
  <2>5. CASE Tail(script) = <<>> /\ pc # "apply"
    <3>1. current' = None /\ group' = group /\ todo' = Tail(todo)
      BY <1>5, <2>5 DEF RunStep
    <3>2. Distinct(Tail(todo)) /\ Entries(Tail(todo)) \subseteq Entries(todo)
      BY <2>1, <2>5, Dropping DEF Books, Types
    <3> QED BY <1>1, <1>2, <2>1, <2>2, <2>5, <3>1, <3>2 DEF Books
  <2> QED BY <2>3, <2>4, <2>5
<1>6. CASE ApplyStepFails
  <2>1. /\ UNCHANGED ledger /\ pc' = "undo" /\ todo' = group /\ group' = <<>> /\ current' = None
    BY <1>6 DEF ApplyStepFails
  <2> QED BY <1>1, <1>2, <2>1, EmptyLists DEF Books
<1>7. CASE Validate
  <2>1. current = None
    BY <1>7 DEF Validate, Types, IsScript
  <2>2. host' = host /\ UNCHANGED <<ledger, current>> /\ pc = "apply"
    BY <1>7 DEF Validate
  <2>3. CASE pc' = "bench" /\ UNCHANGED <<group, todo>>
    BY <2>1, <2>2, <2>3 DEF Books
  <2>4. CASE pc' = "undo" /\ todo' = group /\ group' = <<>>
    BY <2>1, <2>2, <2>4, EmptyLists DEF Books
  <2> QED BY <1>7, <2>3, <2>4 DEF Validate
<1>8. CASE Keep
  <2>1. /\ Distinct(Entered(ledger, group))
        /\ Entries(Entered(ledger, group)) \subseteq Entries(ledger) \cup Entries(group)
    BY EnteredFacts DEF Types, Books
  <2>2. /\ ledger' = Entered(ledger, group) /\ group' = <<>> /\ pc' = "idle" /\ pc = "bench"
        /\ host' = host /\ UNCHANGED <<current, todo>>
    BY <1>8 DEF Keep
  <2> QED BY <2>1, <2>2, EmptyLists DEF Books
<1>9. CASE Discard
  BY <1>9, EmptyLists DEF Discard, Books
<1>10. CASE Exit
  BY <1>10, EmptyLists DEF Exit, Books
<1>11. CASE StartRollback
  <2>1. Head(todo) \in Entries(todo)
    BY <1>11, Dropping DEF StartRollback, Types
  <2> QED BY <1>11, <2>1 DEF StartRollback, Books
<1>12. CASE RollbackStepFails
  <2>1. todo # <<>>
    BY <1>12, ScriptUnderWay DEF RollbackStepFails
  <2>2. Distinct(Tail(todo)) /\ Entries(Tail(todo)) \subseteq Entries(todo)
    BY <2>1, Dropping DEF Books, Types
  <2>3. UNCHANGED <<ledger, group, pc>> /\ todo' = Tail(todo) /\ current' = None /\ pc \in {"undo", "exit"}
    BY <1>12 DEF RollbackStepFails
  <2> QED BY <1>1, <1>2, <2>2, <2>3 DEF Books
<1>13. CASE RolledBack
  <2>1. current = None
    BY <1>13 DEF RolledBack, Books
  <2> QED BY <1>13, <2>1 DEF RolledBack, Books
<1>14. CASE UNCHANGED vars
  BY <1>14 DEF vars, Books
<1> QED BY <1>3, <1>4, <1>5, <1>6, <1>7, <1>8, <1>9, <1>10, <1>11, <1>12, <1>13, <1>14 DEF Next

-----------------------------------------------------------------------------
(* Nothing behind the ledger.                                              *)

LEMMA InitAccounts == Init => Accounts
BY EmptyLists DEF Init, Accounts, Untouched, RecordsRestore, OnRecord, ApplyRestores, UndoRestores

\* A parameter that is answered for after a step was before, and the step of
\* another parameter's command does not change it.
LEMMA TrackedSteady ==
  ASSUME Types, Books, [Next]_vars, NEW k \in Kinds, Tracked(k)'
  PROVE  /\ Tracked(k)
         /\ View(host, k) = View(start, k) /\ (host' = host \/ ~Running(k)) =>
               View(host', k) = View(start, k)
<1>1. /\ start' = start /\ dirty \subseteq dirty' /\ retuned \subseteq retuned'
      /\ host'.pid >= host.pid /\ host.pid >= start.pid
      /\ host'.pid \in Nat /\ host.pid \in Nat /\ start.pid \in Nat
      /\ host' = host \/ (current # None /\ Keeps(host', host, start, current.key))
  BY SteadyFacts
<1>2. k = "prlimit" => host'.pid = start.pid /\ host.pid = start.pid
  BY <1>1 DEF Tracked
<1>3. Tracked(k)
  BY <1>1, <1>2 DEF Tracked
<1>4. ASSUME host' # host, ~Running(k), View(host, k) = View(start, k)
      PROVE  View(host', k) = View(start, k)
  <2>1. Keeps(host', host, start, current.key) /\ k \in Kinds \ {current.key}
    BY <1>1, <1>4 DEF Running
  <2>2. k = "prlimit" => host'.pid = host.pid
    BY <1>2
  <2> QED BY <1>4, <2>1, <2>2 DEF Keeps
<1> QED BY <1>3, <1>4

\* Changes on record stay able to restore while the records only move.
LEMMA RecordsSteady ==
  ASSUME Types, Books, [Next]_vars, RecordsRestore,
         \A c \in OnRecord' : c \in OnRecord \/ c.key \in retuned'
  PROVE  RecordsRestore'
<1>1. SUFFICES ASSUME NEW c \in OnRecord', Tracked(c.key)' PROVE Restoring(c, start')
  BY DEF RecordsRestore
<1>2. start' = start
  BY SteadyFacts
<1>3. c.key \notin retuned'
  BY <1>1 DEF Tracked
<1>4. c \in OnRecord
  BY <1>1, <1>3
<1>5. c.key \in Kinds
  <2>1. /\ Entries(ledger) \subseteq Change /\ Entries(group) \subseteq Change /\ Entries(todo) \subseteq Change
    BY EntryTypes DEF Types
  <2> QED BY <1>4, <2>1, ChangeTypes DEF OnRecord
<1>6. Tracked(c.key)
  BY <1>1, <1>5, TrackedSteady
<1> QED BY <1>2, <1>4, <1>6 DEF RecordsRestore

\* So do the parameters no change is on record for.
LEMMA UntouchedSteady ==
  ASSUME Types, Books, [Next]_vars, Untouched,
         \A k \in Kinds :
            /\ k \notin Keys(ledger') \cup Keys(group') \cup Keys(todo') /\ ~Running(k)' /\ Tracked(k)'
            => \/ /\ k \notin Keys(ledger) \cup Keys(group) \cup Keys(todo)
                  /\ ~Running(k)
               \/ View(host', k) = View(start, k)
  PROVE  Untouched'
<1>1. SUFFICES ASSUME NEW k \in Kinds,
                      k \notin Keys(ledger') \cup Keys(group') \cup Keys(todo'), ~Running(k)', Tracked(k)'
               PROVE  View(host', k) = View(start', k)
  BY DEF Untouched
<1>2. start' = start
  BY SteadyFacts
<1>3. CASE k \notin Keys(ledger) \cup Keys(group) \cup Keys(todo) /\ ~Running(k)
  <2>1. Tracked(k)
    BY <1>1, TrackedSteady
  <2>2. View(host, k) = View(start, k)
    BY <1>3, <2>1 DEF Untouched
  <2> QED BY <1>1, <1>2, <1>3, <2>2, TrackedSteady
<1>4. CASE View(host', k) = View(start, k)
  BY <1>2, <1>4
<1> QED BY <1>1, <1>3, <1>4

LEMMA AccountsStep ==
  ASSUME Mode["directive"] # "live", Types, Books, Accounts, [Next]_vars
  PROVE  Accounts'
<1>0. /\ start' = start /\ start \in HostType /\ Settled(start) /\ Shaped(host, start)
      /\ Untouched /\ RecordsRestore /\ ApplyRestores /\ UndoRestores
  BY SteadyFacts DEF Types, Accounts
<1>1. ASSUME NEW k \in Kinds, NEW v \in Values, Apply(k, v) PROVE Accounts'
  <2> DEFINE c == NewChange(k, v)
  <2>1. /\ UNCHANGED <<host, ledger, group, todo>> /\ current' = c /\ current = None
        /\ pc' = "apply" /\ pc \in {"idle", "apply"} /\ k \notin Keys(group)
    BY <1>1 DEF Apply
  <2>2. c.key = k /\ c.undo = ApplierOf(host, k, v).undo /\ c.view = View(host, k) /\ c \in Change
    BY NewChangeFacts
  <2>3. c # None
    BY <2>2, ChangeTypes
  <2> HIDE DEF c
  <2>4. Untouched'
    BY <1>0, <2>1, UntouchedSteady DEF Running
  <2>5. RecordsRestore'
    BY <1>0, <2>1, RecordsSteady DEF OnRecord
  <2>6. ASSUME Tracked(k)', k \notin Keys(ledger)
        PROVE  Restoring(c, start) /\ c.view = View(start, k)
    <3>1. Tracked(k)
      BY <2>6, TrackedSteady
    <3>2. k \notin Keys(todo)
      BY <2>1, EmptyLists DEF Books
    <3>3. View(host, k) = View(start, k)
      BY <1>0, <2>1, <2>6, <3>1, <3>2 DEF Untouched, Running
    <3>4. k \notin Lossy(start)
      BY <3>1 DEF Tracked
    <3> QED BY <1>0, <2>2, <3>3, <3>4, NewRestoring
  <2>7. ApplyRestores'
    BY <1>0, <2>1, <2>2, <2>6 DEF ApplyRestores
  <2>8. UndoRestores'
    BY <2>1 DEF UndoRestores
  <2> QED BY <2>4, <2>5, <2>7, <2>8 DEF Accounts
<1>2. ASSUME todo = <<>>, todo' = group, group' = <<>>, UNCHANGED <<host, ledger>>,
             current = None, current' = None
      PROVE  Accounts'
  <2>1. Untouched'
    BY <1>0, <1>2, EmptyLists, UntouchedSteady DEF Running
  <2>2. RecordsRestore'
    BY <1>0, <1>2, EmptyLists, RecordsSteady DEF OnRecord
  <2> QED BY <1>2, <2>1, <2>2 DEF Accounts, ApplyRestores, UndoRestores
<1>3. ASSUME NEW k \in Kinds, Refuse(k) PROVE Accounts'
  BY <1>2, <1>3 DEF Refuse, Books
<1>4. ASSUME UNCHANGED <<host, ledger, group, todo>>, current = None, current' = None PROVE Accounts'
  <2>1. Untouched'
    BY <1>0, <1>4, UntouchedSteady DEF Running
  <2>2. RecordsRestore'
    BY <1>0, <1>4, RecordsSteady DEF OnRecord
  <2> QED BY <1>4, <2>1, <2>2 DEF Accounts, ApplyRestores, UndoRestores
<1>5. CASE Validate
  <2>1. current = None
    BY <1>5 DEF Validate, Types, IsScript
  <2> QED BY <1>2, <1>4, <1>5, <2>1 DEF Validate, Books
<1>6. CASE Discard
  BY <1>2, <1>6 DEF Discard, Books
<1>7. CASE RolledBack
  <2>1. current = None
    BY <1>7 DEF RolledBack, Books
  <2> QED BY <1>4, <1>7, <2>1 DEF RolledBack
<1>8. CASE Exit
  <2>1. /\ todo = <<>> /\ group = <<>> /\ current = None /\ todo' = ledger /\ ledger' = <<>>
        /\ UNCHANGED <<host, group, current>>
    BY <1>8 DEF Exit, Books
  <2>2. Untouched'
    BY <1>0, <2>1, EmptyLists, UntouchedSteady DEF Running
  <2>3. RecordsRestore'
    BY <1>0, <2>1, EmptyLists, RecordsSteady DEF OnRecord
  <2> QED BY <2>1, <2>2, <2>3 DEF Accounts, ApplyRestores, UndoRestores
<1>9. CASE Keep
  <2>1. /\ ledger' = Entered(ledger, group) /\ group' = <<>> /\ UNCHANGED <<host, current, todo>>
        /\ retuned' = retuned \cup (Keys(ledger) \cap Keys(group)) /\ current = None /\ todo = <<>>
    BY <1>9 DEF Keep, Books
  <2>2. /\ \A b : b \in Entries(Entered(ledger, group)) =>
                    b \in Entries(group) \/ (b \in Entries(ledger) /\ b.key \notin Keys(group))
        /\ Keys(Entered(ledger, group)) = Keys(ledger) \cup Keys(group)
    BY EnteredFacts DEF Types, Books
  <2>3. Untouched'
    BY <1>0, <2>1, <2>2, UntouchedSteady DEF Running
  <2>4. ASSUME NEW c \in OnRecord' PROVE c \in OnRecord \/ c.key \in retuned'
    <3>1. c \in Entries(Entered(ledger, group))
      BY <2>1, EmptyLists DEF OnRecord
    <3>2. CASE c \in Entries(ledger)
      BY <3>2 DEF OnRecord
    <3>3. CASE c \in Entries(group)
      BY <2>1, <3>3, KeysOfEntries DEF OnRecord
    <3> QED BY <2>2, <3>1, <3>2, <3>3
  <2>5. RecordsRestore'
    BY <1>0, <2>4, RecordsSteady
  <2> QED BY <2>1, <2>3, <2>5 DEF Accounts, ApplyRestores, UndoRestores
<1>10. CASE StartRollback
  <2>0. PICK c : c = Head(todo)
    OBVIOUS
  <2>1. /\ pc \in {"undo", "exit"} /\ todo # <<>> /\ current = None /\ script' = c.undo /\ current' = c
        /\ UNCHANGED <<host, ledger, group, todo, pc>>
    BY <1>10, <2>0 DEF StartRollback, Types, IsScript
  <2>2. c \in Entries(todo) /\ c \in Change /\ c.key \in Keys(todo)
    BY <2>0, <2>1, Dropping DEF Types
  <2>3. Untouched'
    BY <1>0, <2>1, UntouchedSteady DEF Running
  <2>4. RecordsRestore'
    BY <1>0, <2>1, RecordsSteady DEF OnRecord
  <2>5. ASSUME Tracked(c.key)', c.key \notin Keys(ledger), Unrefused(c.undo)
        PROVE  View(After(host, c.undo), c.key) = View(start, c.key)
    <3>1. Tracked(c.key) /\ c \in OnRecord
      BY <2>2, <2>5, ChangeTypes, TrackedSteady DEF OnRecord
    <3>2. Restoring(c, start)
      BY <1>0, <3>1 DEF RecordsRestore
    <3> QED BY <1>0, <2>5, <3>2 DEF Restoring
  <2>6. UndoRestores'
    BY <1>0, <2>1, <2>5 DEF UndoRestores
  <2> QED BY <2>1, <2>3, <2>4, <2>6 DEF Accounts, ApplyRestores
<1>11. CASE RunStep
  <2>0. PICK k : k = current.key
    OBVIOUS
  <2>1. /\ current # None /\ current \in Change /\ current.key = k /\ k \in Kinds /\ IsScript(script, k)
        /\ pc \in {"apply", "undo", "exit"} /\ (pc # "apply" => todo # <<>> /\ current = Head(todo))
    BY <1>11, <2>0, ScriptUnderWay, ChangeTypes DEF RunStep
  <2>2. /\ host' = Do(host, Head(script)) /\ Head(script).op # "refuse" /\ script' = Tail(script)
        /\ UNCHANGED <<ledger, pc>>
    BY <1>11 DEF RunStep, Fails
  <2>3. /\ After(host, script) = After(host', script')
        /\ Unrefused(script') => Unrefused(script)
        /\ Tail(script) = <<>> => After(host, script) = host'
    BY <2>1, <2>2, ScriptSteps
  <2>4. CASE Tail(script) # <<>>
    <3>1. UNCHANGED <<group, current, todo>>
      BY <1>11, <2>4 DEF RunStep
    <3>2. Untouched'
      BY <1>0, <2>2, <3>1, UntouchedSteady DEF Running
    <3>3. RecordsRestore'
      BY <1>0, <2>2, <3>1, RecordsSteady DEF OnRecord
    <3>4. Tracked(k)' => Tracked(k)
      BY <2>1, TrackedSteady
    <3>5. ApplyRestores'
      BY <1>0, <2>1, <2>2, <3>1, <3>4 DEF ApplyRestores
    <3>6. UndoRestores'
      BY <1>0, <2>1, <2>2, <2>3, <3>1, <3>4 DEF UndoRestores
    <3> QED BY <3>2, <3>3, <3>5, <3>6 DEF Accounts
  <2>5. CASE Tail(script) = <<>> /\ pc = "apply"
    <3>1. current' = None /\ group' = Append(group, current) /\ todo' = todo /\ todo = <<>>
      BY <1>11, <2>5 DEF RunStep, Books
    <3>2. Entries(group') = Entries(group) \cup {current} /\ Keys(group') = Keys(group) \cup {k}
      BY <2>1, <3>1, Appending DEF Types
    <3>3. Untouched'
      BY <1>0, <2>1, <2>2, <3>1, <3>2, UntouchedSteady DEF Running
    <3>4. RecordsRestore'
      <4>1. SUFFICES ASSUME NEW c \in OnRecord', Tracked(c.key)' PROVE Restoring(c, start)
        BY <1>0 DEF RecordsRestore
      <4>2. c \in OnRecord \/ (c = current /\ k \notin Keys(ledger))
        BY <2>1, <2>2, <3>1, <3>2 DEF OnRecord
      <4>3. c.key \in Kinds
        <5>1. /\ Entries(ledger) \subseteq Change /\ Entries(group) \subseteq Change
              /\ Entries(todo) \subseteq Change
          BY EntryTypes DEF Types
        <5> QED BY <2>1, <4>2, <5>1, ChangeTypes DEF OnRecord
      <4>4. Tracked(c.key)
        BY <4>1, <4>3, TrackedSteady
      <4> QED BY <1>0, <2>1, <2>5, <4>2, <4>4 DEF RecordsRestore, ApplyRestores
    <3> QED BY <3>1, <3>3, <3>4 DEF Accounts, ApplyRestores, UndoRestores
  <2>6. CASE Tail(script) = <<>> /\ pc # "apply"
    <3>1. current' = None /\ group' = group /\ todo' = Tail(todo)
      BY <1>11, <2>6 DEF RunStep
    <3>2. /\ Entries(todo) = Entries(todo') \cup {current} /\ Keys(todo) = Keys(todo') \cup {k}
      BY <2>1, <2>6, <3>1, Dropping DEF Types
    <3>3. ASSUME Tracked(k)', k \notin Keys(ledger) PROVE View(host', k) = View(start, k)
      <4>1. Tracked(k)
        BY <2>1, <3>3, TrackedSteady
      <4>2. Unrefused(script)
        <5>1. script' = <<>>
          BY <2>2, <2>6
        <5>2. Unrefused(<<>>)
          BY DEF Unrefused
        <5> QED BY <2>3, <5>1, <5>2
      <4> QED BY <1>0, <2>1, <2>3, <2>6, <3>3, <4>1, <4>2 DEF UndoRestores
    <3>4. Untouched'
      BY <1>0, <2>1, <2>2, <3>1, <3>2, <3>3, UntouchedSteady DEF Running
    <3>5. RecordsRestore'
      BY <1>0, <2>2, <3>1, <3>2, RecordsSteady DEF OnRecord
    <3> QED BY <3>1, <3>4, <3>5 DEF Accounts, ApplyRestores, UndoRestores
  <2> QED BY <2>4, <2>5, <2>6
<1>12. CASE ApplyStepFails
  <2>0. PICK k : k = current.key
    OBVIOUS
  <2>1. /\ current # None /\ current.key = k /\ k \in Kinds /\ pc = "apply" /\ todo = <<>>
        /\ UNCHANGED ledger /\ current' = None /\ todo' = group /\ group' = <<>>
        /\ dirty' = IF View(host', k) = current.view THEN dirty ELSE dirty \cup {k}
    BY <1>12, <2>0, ScriptUnderWay, ChangeTypes DEF ApplyStepFails, Books
  <2>2. ASSUME Tracked(k)', k \notin Keys(ledger) PROVE View(host', k) = View(start, k)
    <3>1. Tracked(k)
      BY <2>1, <2>2, TrackedSteady
    <3>2. View(host', k) = current.view
      BY <2>1, <2>2 DEF Tracked
    <3> QED BY <1>0, <2>1, <2>2, <3>1, <3>2 DEF ApplyRestores
  <2>3. Untouched'
    BY <1>0, <2>1, <2>2, EmptyLists, UntouchedSteady DEF Running
  <2>4. RecordsRestore'
    BY <1>0, <2>1, EmptyLists, RecordsSteady DEF OnRecord
  <2> QED BY <2>1, <2>3, <2>4 DEF Accounts, ApplyRestores, UndoRestores
<1>13. CASE RollbackStepFails
  <2>0. PICK k : k = current.key
    OBVIOUS
  <2>1. /\ current # None /\ current.key = k /\ k \in Kinds /\ todo # <<>> /\ current = Head(todo)
        /\ UNCHANGED <<ledger, group>> /\ current' = None /\ todo' = Tail(todo)
        /\ k \in dirty'
    BY <1>13, <2>0, ScriptUnderWay, ChangeTypes DEF RollbackStepFails
  <2>2. /\ Entries(todo) = Entries(todo') \cup {current} /\ Keys(todo) = Keys(todo') \cup {k}
    BY <2>1, Dropping DEF Types
  <2>3. ~Tracked(k)'
    BY <2>1 DEF Tracked
  <2>4. Untouched'
    BY <1>0, <2>1, <2>2, <2>3, UntouchedSteady DEF Running
  <2>5. RecordsRestore'
    BY <1>0, <2>1, <2>2, RecordsSteady DEF OnRecord
  <2> QED BY <2>1, <2>4, <2>5 DEF Accounts, ApplyRestores, UndoRestores
<1>14. CASE UNCHANGED vars
  BY <1>14 DEF vars, Accounts, Untouched, RecordsRestore, OnRecord, ApplyRestores, UndoRestores, Tracked, Running
<1> QED BY <1>1, <1>3, <1>5, <1>6, <1>7, <1>8, <1>9, <1>10, <1>11, <1>12, <1>13, <1>14 DEF Next

-----------------------------------------------------------------------------
(* The benchmark measures what ledger and group claim.                     *)

LEMMA InitClaims == Init => Claims
BY EmptyLists
   DEF Init, Claims, LedgerClaims, GroupClaims, RetuningReclaims, ApplyReclaims, UndoReclaims, ApplyClaims

\* A claim that stands after a step stood before, and the step of another
\* parameter's command leaves it in effect.
LEMMA ValidSteady ==
  ASSUME Types, Books, [Next]_vars, NEW c \in Change, c.pid <= host.pid, Valid(c)'
  PROVE  /\ Valid(c)
         /\ Claimed(host, c) /\ (host' = host \/ ~Running(c.key)) => Claimed(host', c)
<1>1. /\ dirty \subseteq dirty' /\ host'.pid >= host.pid /\ host'.pid \in Nat /\ host.pid \in Nat
      /\ host' = host \/ (current # None /\ Keeps(host', host, start, current.key))
  BY SteadyFacts
<1>2. c.key \in Kinds /\ c.pid \in Nat
  BY ChangeTypes
<1>3. c.key = "prlimit" => host'.pid = c.pid
  BY DEF Valid
<1>4. c.key = "prlimit" => host.pid = c.pid /\ host'.pid = host.pid
  BY <1>1, <1>2, <1>3
<1>5. Valid(c)
  BY <1>1, <1>4 DEF Valid
<1>6. ASSUME host' # host, ~Running(c.key), Claimed(host, c) PROVE Claimed(host', c)
  <2>1. Keeps(host', host, start, current.key) /\ c.key \in Kinds \ {current.key}
    BY <1>1, <1>2, <1>6 DEF Running
  <2> QED BY <1>4, <1>6, <2>1 DEF Keeps
<1> QED BY <1>5, <1>6

LEMMA EntriesTyped ==
  ASSUME Types, Books
  PROVE  \A c \in Entries(ledger) \cup Entries(group) \cup Entries(todo) :
            c \in Change /\ c.key \in Kinds /\ c.pid <= host.pid
<1>1. /\ Entries(ledger) \subseteq Change /\ Entries(group) \subseteq Change /\ Entries(todo) \subseteq Change
  BY EntryTypes DEF Types
<1> QED BY <1>1, ChangeTypes DEF Books

\* Claims of the ledger stay in effect, or the step puts them into effect.
LEMMA LedgerSteady ==
  ASSUME Types, Books, [Next]_vars, LedgerClaims,
         \A b \in Entries(ledger') :
            Valid(b)' /\ b.key \notin Keys(group') \cup Keys(todo') /\ ~Running(b.key)' =>
               \/ /\ b \in Entries(ledger) /\ b.key \notin Keys(group) \cup Keys(todo)
                  /\ ~Running(b.key)
               \/ Claimed(host', b)
  PROVE  LedgerClaims'
<1>1. SUFFICES ASSUME NEW b \in Entries(ledger'), Valid(b)',
                      b.key \notin Keys(group') \cup Keys(todo'), ~Running(b.key)'
               PROVE  Claimed(host', b)
  BY DEF LedgerClaims
<1>2. CASE b \in Entries(ledger) /\ b.key \notin Keys(group) \cup Keys(todo) /\ ~Running(b.key)
  <2>1. b \in Change /\ b.pid <= host.pid
    BY <1>2, EntriesTyped
  <2>2. Valid(b)
    BY <1>1, <2>1, ValidSteady
  <2>3. Claimed(host, b)
    BY <1>2, <2>2 DEF LedgerClaims
  <2> QED BY <1>1, <1>2, <2>1, <2>3, ValidSteady
<1>3. CASE Claimed(host', b)
  BY <1>3
<1> QED BY <1>1, <1>2, <1>3

\* The group's claims do while another parameter's command runs.
LEMMA GroupSteady ==
  ASSUME Types, Books, [Next]_vars, GroupClaims,
         \A c \in Entries(group') : \/ c \in Entries(group) /\ (host' = host \/ ~Running(c.key))
                                    \/ Valid(c)' => Claimed(host', c)
  PROVE  GroupClaims'
<1>1. SUFFICES ASSUME NEW c \in Entries(group'), Valid(c)' PROVE Claimed(host', c)
  BY DEF GroupClaims
<1>2. CASE c \in Entries(group) /\ (host' = host \/ ~Running(c.key))
  <2>1. c \in Change /\ c.pid <= host.pid
    BY <1>2, EntriesTyped
  <2>2. Valid(c)
    BY <1>1, <2>1, ValidSteady
  <2>3. Claimed(host, c)
    BY <1>2, <2>2 DEF GroupClaims
  <2> QED BY <1>1, <1>2, <2>1, <2>3, ValidSteady
<1> QED BY <1>1, <1>2

\* Changes that replace entries of the ledger stay able to bring them back.
LEMMA RetuningSteady ==
  ASSUME Types, Books, [Next]_vars, RetuningReclaims,
         Entries(ledger') \subseteq Entries(ledger),
         \A c \in Entries(group') \cup Entries(todo') :
            \/ c \in Entries(group) \cup Entries(todo)
            \/ \A b \in Entries(ledger) : b.key = c.key /\ Valid(b) => Reclaims(c, b, start)
  PROVE  RetuningReclaims'
<1>1. SUFFICES ASSUME NEW b \in Entries(ledger'), NEW c \in Entries(group') \cup Entries(todo'),
                      b.key = c.key, Valid(b)'
               PROVE  Reclaims(c, b, start')
  BY DEF RetuningReclaims
<1>2. start' = start
  BY SteadyFacts
<1>3. b \in Entries(ledger) /\ b \in Change /\ b.pid <= host.pid
  BY <1>1, EntriesTyped
<1>4. Valid(b)
  BY <1>1, <1>3, ValidSteady
<1> QED BY <1>1, <1>2, <1>3, <1>4 DEF RetuningReclaims

\* A failed step of a unit limit's command leaves the running process its
\* limit, or starts one with the limit systemd has loaded.
LEMMA FailedLimit ==
  ASSUME Types, Books, ApplyStepFails, current.key = "unit"
  PROVE  host'.plim \in {host'.loaded, host.plim}
<1> DEFINE s == Head(script)
<1>1. /\ IsScript(script, current.key) /\ host \in HostType
      /\ \E h \in Failed(host, s) : host' = Restored(h, s, current) \/ host' = h
  BY ScriptUnderWay DEF ApplyStepFails, Types, Shaped
<1>2. s \in StepsOf(current.key)
  BY <1>1, ScriptSteps
<1> HIDE DEF s
<1>3. host' \in Failed(host, s)
  BY <1>1 DEF Restored
<1>4. host' = Stopped(host) \/ host' = host \/ (host' = Do(host, s) /\ ~Fails(host, s))
  BY <1>3 DEF Failed
<1>5. CASE host' = Stopped(host)
  BY <1>1, <1>5, StoppedFacts DEF Types
<1>6. CASE host' = Do(host, s) /\ ~Fails(host, s)
  <2>1. Fields(Do(host, s), host, s)
    BY <1>1, <1>2, <1>6, DoFields DEF StepsOf, Fails
  <2> QED BY <1>6, <2>1 DEF Fields
<1> QED BY <1>4, <1>5, <1>6

LEMMA ClaimsStep ==
  ASSUME Activating, Types, Books, Claims, [Next]_vars
  PROVE  Claims'
<1>0. /\ start' = start /\ start \in HostType /\ Shaped(host, start) /\ Shaped(host', start)
      /\ host \in HostType
      /\ LedgerClaims /\ GroupClaims /\ RetuningReclaims
      /\ ApplyReclaims /\ UndoReclaims /\ ApplyClaims
  BY SteadyFacts DEF Types, Claims, Shaped
<1>1. ASSUME NEW k \in Kinds, NEW v \in Values, Apply(k, v) PROVE Claims'
  <2> DEFINE c == NewChange(k, v)
  <2>1. /\ UNCHANGED <<host, ledger, group, todo>> /\ current' = c /\ current = None
        /\ pc' = "apply" /\ pc \in {"idle", "apply"} /\ k \notin Keys(group)
        /\ script' = ApplierOf(host, k, v).apply
    BY <1>1 DEF Apply
  <2>2. /\ c.key = k /\ c.applied = v /\ c.undo = ApplierOf(host, k, v).undo /\ c.view = View(host, k)
        /\ c \in Change
    BY NewChangeFacts
  <2>3. c # None /\ k \notin Keys(todo)
    BY <2>1, <2>2, ChangeTypes, EmptyLists DEF Books
  <2> HIDE DEF c
  <2>4. LedgerClaims'
    BY <1>0, <2>1, LedgerSteady DEF Running
  <2>5. GroupClaims'
    BY <1>0, <2>1, GroupSteady
  <2>6. RetuningReclaims'
    BY <1>0, <2>1, RetuningSteady
  <2>7. ASSUME NEW b \in Entries(ledger), b.key = k, Valid(b)'
        PROVE  /\ Reclaims(c, b, start) /\ Certifies(c, b, start)
               /\ k = "unit" => host.plim = b.applied
    <3>1. b \in Change /\ b.pid <= host.pid /\ b.applied \in Values
      BY EntriesTyped, ChangeTypes
    <3>2. Valid(b)
      BY <2>7, <3>1, ValidSteady
    <3>3. Claimed(host, b)
      BY <1>0, <2>1, <2>3, <2>7, <3>2 DEF LedgerClaims, Running
    <3>4. k = "quota" => b.applied \notin Unparsable
      BY <2>7, <3>2 DEF Valid
    <3>5. Reclaims(c, b, start)
      BY <1>0, <2>2, <2>7, <3>1, <3>3, <3>4, NewReclaims
    <3>6. Certifies(c, b, start)
      BY <1>0, <2>2, <2>7, <3>3, NewCertifies
    <3>7. k = "unit" => host.plim = b.applied
      BY <2>7, <3>3 DEF Claimed, Scalars
    <3> QED BY <3>5, <3>6, <3>7
  <2>8. ApplyReclaims'
    BY <1>0, <2>1, <2>2, <2>7 DEF ApplyReclaims, Running
  <2>9. UndoReclaims'
    BY <2>1 DEF UndoReclaims
  <2>10. Unrefused(ApplierOf(host, k, v).apply) => Claimed(After(host, ApplierOf(host, k, v).apply), c)
    BY <1>0, <2>2, NewClaims
  <2>11. ApplyClaims'
    BY <2>1, <2>10 DEF ApplyClaims
  <2> QED BY <2>4, <2>5, <2>6, <2>8, <2>9, <2>11 DEF Claims
<1>2. ASSUME todo = <<>>, todo' = group, group' = <<>>, UNCHANGED <<host, ledger>>,
             current = None, current' = None
      PROVE  Claims'
  <2>1. LedgerClaims'
    BY <1>0, <1>2, EmptyLists, LedgerSteady DEF Running
  <2>2. GroupClaims'
    BY <1>2, EmptyLists DEF GroupClaims
  <2>3. RetuningReclaims'
    BY <1>0, <1>2, EmptyLists, RetuningSteady
  <2> QED BY <1>2, <2>1, <2>2, <2>3 DEF Claims, ApplyReclaims, UndoReclaims, ApplyClaims, Running
<1>3. ASSUME NEW k \in Kinds, Refuse(k) PROVE Claims'
  BY <1>2, <1>3 DEF Refuse, Books
<1>4. ASSUME UNCHANGED <<host, ledger, group, todo>>, current = None, current' = None PROVE Claims'
  <2>1. LedgerClaims'
    BY <1>0, <1>4, LedgerSteady DEF Running
  <2>2. GroupClaims'
    BY <1>0, <1>4, GroupSteady
  <2>3. RetuningReclaims'
    BY <1>0, <1>4, RetuningSteady
  <2> QED BY <1>4, <2>1, <2>2, <2>3 DEF Claims, ApplyReclaims, UndoReclaims, ApplyClaims, Running
<1>5. CASE Validate
  <2>1. current = None
    BY <1>5 DEF Validate, Types, IsScript
  <2> QED BY <1>2, <1>4, <1>5, <2>1 DEF Validate, Books
<1>6. CASE Discard
  BY <1>2, <1>6 DEF Discard, Books
<1>7. CASE RolledBack
  <2>1. current = None
    BY <1>7 DEF RolledBack, Books
  <2> QED BY <1>4, <1>7, <2>1 DEF RolledBack
<1>8. CASE Exit
  <2>1. group = <<>> /\ current = None /\ ledger' = <<>> /\ UNCHANGED <<group, current>>
    BY <1>8 DEF Exit, Books
  <2> QED BY <2>1, EmptyLists
          DEF Claims, LedgerClaims, GroupClaims, RetuningReclaims, ApplyReclaims, UndoReclaims, ApplyClaims
<1>9. CASE Keep
  <2>1. /\ ledger' = Entered(ledger, group) /\ group' = <<>> /\ UNCHANGED <<host, current, todo>>
        /\ current = None /\ todo = <<>>
    BY <1>9 DEF Keep, Books
  <2>2. \A b : b \in Entries(Entered(ledger, group)) =>
                 b \in Entries(group) \/ (b \in Entries(ledger) /\ b.key \notin Keys(group))
    BY EnteredFacts DEF Types, Books
  <2>3. LedgerClaims'
    <3>1. ASSUME NEW b \in Entries(group), Valid(b)' PROVE Claimed(host', b)
      <4>1. b \in Change /\ b.pid <= host.pid
        BY EntriesTyped
      <4> QED BY <1>0, <2>1, <3>1, <4>1, ValidSteady DEF GroupClaims
    <3> QED BY <1>0, <2>1, <2>2, <3>1, EmptyLists, LedgerSteady DEF Running
  <2>4. GroupClaims' /\ RetuningReclaims'
    BY <2>1, EmptyLists DEF GroupClaims, RetuningReclaims
  <2> QED BY <2>1, <2>3, <2>4 DEF Claims, ApplyReclaims, UndoReclaims, ApplyClaims, Running
<1>10. CASE StartRollback
  <2>0. PICK c : c = Head(todo)
    OBVIOUS
  <2>1. /\ pc \in {"undo", "exit"} /\ todo # <<>> /\ current = None /\ script' = c.undo /\ current' = c
        /\ UNCHANGED <<host, ledger, group, todo, pc>>
    BY <1>10, <2>0 DEF StartRollback, Types, IsScript
  <2>2. c \in Entries(todo)
    BY <2>0, <2>1, Dropping DEF Types
  <2>3. LedgerClaims'
    BY <1>0, <2>1, LedgerSteady DEF Running
  <2>4. GroupClaims'
    BY <1>0, <2>1, GroupSteady
  <2>5. RetuningReclaims'
    BY <1>0, <2>1, RetuningSteady
  <2>6. ASSUME NEW b \in Entries(ledger), b.key = c.key, Valid(b)', Unrefused(c.undo)
        PROVE  Claimed(After(host, c.undo), b)
    <3>1. Valid(b)
      BY <2>6, EntriesTyped, ValidSteady
    <3>2. Reclaims(c, b, start)
      BY <1>0, <2>2, <2>6, <3>1 DEF RetuningReclaims
    <3> QED BY <1>0, <2>6, <3>2 DEF Reclaims
  <2>7. UndoReclaims'
    BY <2>1, <2>6 DEF UndoReclaims, Running
  <2> QED BY <2>1, <2>3, <2>4, <2>5, <2>7 DEF Claims, ApplyReclaims, ApplyClaims
<1>11. CASE RunStep
  <2>0. PICK k : k = current.key
    OBVIOUS
  <2>1. /\ current # None /\ current \in Change /\ current.key = k /\ k \in Kinds /\ IsScript(script, k)
        /\ pc \in {"apply", "undo", "exit"} /\ (pc # "apply" => todo # <<>> /\ current = Head(todo))
        /\ current.pid <= host.pid
    BY <1>11, <2>0, ScriptUnderWay, ChangeTypes DEF RunStep, Books
  <2>2. /\ host' = Do(host, Head(script)) /\ Head(script).op # "refuse" /\ script' = Tail(script)
        /\ ~Fails(host, Head(script)) /\ UNCHANGED <<ledger, pc>>
    BY <1>11 DEF RunStep, Fails
  <2>3. /\ After(host, script) = After(host', script')
        /\ Unrefused(script') => Unrefused(script)
        /\ Tail(script) = <<>> => After(host, script) = host'
        /\ Tail(script) # <<>> => Head(script).op \notin {"reload", "restart"}
        /\ Head(script) \in StepsOf(k)
    BY <2>1, <2>2, ScriptSteps
  <2>4. CASE Tail(script) # <<>>
    <3>1. UNCHANGED <<group, current, todo>>
      BY <1>11, <2>4 DEF RunStep
    <3>2. LedgerClaims'
      BY <1>0, <2>2, <3>1, LedgerSteady DEF Running
    <3>3. GroupClaims'
      <4>1. \A c \in Entries(group) : ~Running(c.key)
        BY <2>1, KeysOfEntries, EmptyLists DEF Books, Running
      <4> QED BY <1>0, <3>1, <4>1, GroupSteady
    <3>4. RetuningReclaims'
      BY <1>0, <2>2, <3>1, RetuningSteady
    <3>5. \A b \in Entries(ledger) : Valid(b)' => Valid(b)
      BY EntriesTyped, ValidSteady
    <3>6. host'.plim = host.plim
      <4>1. Fields(Do(host, Head(script)), host, Head(script))
        BY <1>0, <2>2, <2>3, DoFields DEF StepsOf, Fails
      <4> QED BY <2>2, <2>3, <2>4, <4>1 DEF Fields
    <3>7. ApplyReclaims'
      BY <1>0, <2>2, <3>1, <3>5, <3>6 DEF ApplyReclaims, Running
    <3>8. UndoReclaims'
      BY <1>0, <2>2, <2>3, <3>1, <3>5 DEF UndoReclaims, Running
    <3>9. Valid(current)' => Valid(current)
      <4>1. PICK c : c = current
        OBVIOUS
      <4>2. Valid(c)' => Valid(c)
        BY <2>1, <4>1, ValidSteady
      <4> QED BY <3>1, <4>1, <4>2
    <3>10. ApplyClaims'
      BY <1>0, <2>2, <2>3, <3>1, <3>9 DEF ApplyClaims
    <3> QED BY <3>2, <3>3, <3>4, <3>7, <3>8, <3>10 DEF Claims
  <2>5. Tail(script) = <<>> => Unrefused(script)
    <3>1. Unrefused(<<>>)
      BY DEF Unrefused
    <3> QED BY <2>2, <2>3, <3>1
  <2>6. CASE Tail(script) = <<>> /\ pc = "apply"
    <3>1. current' = None /\ group' = Append(group, current) /\ todo' = todo /\ todo = <<>>
      BY <1>11, <2>6 DEF RunStep, Books
    <3>2. /\ Entries(group') = Entries(group) \cup {current} /\ Keys(group') = Keys(group) \cup {k}
          /\ k \notin Keys(group)
      BY <2>1, <2>6, <3>1, Appending DEF Types, Books
    <3>3. LedgerClaims'
      BY <1>0, <2>1, <2>2, <3>1, <3>2, LedgerSteady DEF Running
    <3>4. Valid(current) => Claimed(host', current)
      BY <1>0, <2>1, <2>3, <2>5, <2>6 DEF ApplyClaims
    <3>5. GroupClaims'
      <4>1. PICK c : c = current
        OBVIOUS
      <4>2. Valid(c)' => Claimed(host', c)
        BY <2>1, <3>4, <4>1, ValidSteady
      <4>3. \A d \in Entries(group) : ~Running(d.key)
        BY <2>1, <3>2, KeysOfEntries DEF Running
      <4> QED BY <1>0, <3>2, <4>1, <4>2, <4>3, GroupSteady
    <3>6. RetuningReclaims'
      <4>1. \A b \in Entries(ledger) : b.key = k /\ Valid(b) => Reclaims(current, b, start)
        BY <1>0, <2>1, <2>6 DEF ApplyReclaims, Running
      <4> QED BY <1>0, <2>1, <2>2, <3>1, <3>2, <4>1, RetuningSteady
    <3> QED BY <3>1, <3>3, <3>5, <3>6 DEF Claims, ApplyReclaims, UndoReclaims, ApplyClaims, Running
  <2>7. CASE Tail(script) = <<>> /\ pc # "apply"
    <3>1. current' = None /\ group' = group /\ todo' = Tail(todo) /\ group = <<>>
      BY <1>11, <2>1, <2>7 DEF RunStep, Books
    <3>2. /\ Entries(todo) = Entries(todo') \cup {current} /\ Keys(todo) = Keys(todo') \cup {k}
      BY <2>1, <2>7, <3>1, Dropping DEF Types
    <3>3. ASSUME NEW b \in Entries(ledger), b.key = k, Valid(b)' PROVE Claimed(host', b)
      <4>1. Valid(b)
        BY <3>3, EntriesTyped, ValidSteady
      <4>2. pc = "undo"
        BY <2>1, <2>7, <3>3, EmptyLists DEF Books
      <4> QED BY <1>0, <2>1, <2>3, <2>5, <2>7, <3>3, <4>1, <4>2 DEF UndoReclaims, Running
    <3>4. LedgerClaims'
      BY <1>0, <2>1, <2>2, <3>1, <3>2, <3>3, LedgerSteady DEF Running
    <3>5. GroupClaims'
      BY <3>1, EmptyLists DEF GroupClaims
    <3>6. RetuningReclaims'
      BY <1>0, <2>2, <3>1, <3>2, RetuningSteady
    <3> QED BY <3>1, <3>4, <3>5, <3>6 DEF Claims, ApplyReclaims, UndoReclaims, ApplyClaims, Running
  <2> QED BY <2>4, <2>6, <2>7
<1>12. CASE ApplyStepFails
  <2>0. PICK k : k = current.key
    OBVIOUS
  <2>1. /\ current # None /\ current.key = k /\ k \in Kinds /\ pc = "apply" /\ todo = <<>>
        /\ UNCHANGED ledger /\ current' = None /\ todo' = group /\ group' = <<>> /\ pc' = "undo"
        /\ dirty' = IF View(host', k) = current.view THEN dirty ELSE dirty \cup {k}
    BY <1>12, <2>0, ScriptUnderWay, ChangeTypes DEF ApplyStepFails, Books
  <2>2. ASSUME NEW b \in Entries(ledger), b.key = k, Valid(b)' PROVE Claimed(host', b)
    <3>1. Valid(b)
      BY <2>2, EntriesTyped, ValidSteady
    <3>2. Certifies(current, b, start) /\ (k = "unit" => host.plim = b.applied)
      BY <1>0, <2>1, <2>2, <3>1 DEF ApplyReclaims, Running
    <3>3. View(host', k) = current.view
      BY <2>1, <2>2 DEF Valid
    <3>4. k = "unit" => host'.plim \in {host'.loaded, b.applied}
      BY <1>12, <2>1, <3>2, FailedLimit
    <3> QED BY <1>0, <2>1, <3>2, <3>3, <3>4 DEF Certifies
  <2>3. LedgerClaims'
    BY <1>0, <2>1, <2>2, EmptyLists, LedgerSteady DEF Running
  <2>4. GroupClaims'
    BY <2>1, EmptyLists DEF GroupClaims
  <2>5. RetuningReclaims'
    BY <1>0, <2>1, EmptyLists, RetuningSteady
  <2> QED BY <2>1, <2>3, <2>4, <2>5 DEF Claims, ApplyReclaims, UndoReclaims, ApplyClaims, Running
<1>13. CASE RollbackStepFails
  <2>0. PICK k : k = current.key
    OBVIOUS
  <2>1. /\ current # None /\ current.key = k /\ k \in Kinds /\ todo # <<>> /\ current = Head(todo)
        /\ UNCHANGED <<ledger, group>> /\ current' = None /\ todo' = Tail(todo)
        /\ k \in dirty' /\ group = <<>>
    BY <1>13, <2>0, ScriptUnderWay, ChangeTypes DEF RollbackStepFails, Books
  <2>2. /\ Entries(todo) = Entries(todo') \cup {current} /\ Keys(todo) = Keys(todo') \cup {k}
    BY <2>1, Dropping DEF Types
  <2>3. \A b \in Entries(ledger) : Valid(b)' => b.key # k
    BY <2>1 DEF Valid
  <2>4. LedgerClaims'
    BY <1>0, <2>1, <2>2, <2>3, LedgerSteady DEF Running
  <2>5. GroupClaims'
    BY <2>1, EmptyLists DEF GroupClaims
  <2>6. RetuningReclaims'
    BY <1>0, <2>1, <2>2, RetuningSteady
  <2> QED BY <2>1, <2>4, <2>5, <2>6 DEF Claims, ApplyReclaims, UndoReclaims, ApplyClaims, Running
<1>14. CASE UNCHANGED vars
  BY <1>14
     DEF vars, Claims, LedgerClaims, GroupClaims, RetuningReclaims, ApplyReclaims, UndoReclaims,
         ApplyClaims, Valid, Running
<1> QED BY <1>1, <1>3, <1>5, <1>6, <1>7, <1>8, <1>9, <1>10, <1>11, <1>12, <1>13, <1>14 DEF Next

-----------------------------------------------------------------------------
(* The theorems.                                                           *)

\* TypeOK: the host stays a host, the ledger holds one change per parameter,
\* and a command runs just while a change is under way.
THEOREM Typed == Spec => []TypeOK
<1>1. Init => Types /\ Books
  BY InitTypes
<1>2. Types /\ Books /\ [Next]_vars => (Types /\ Books)'
  BY TypesStep, BooksStep
<1>3. Types /\ Books => TypeOK
  <2>1. SUFFICES ASSUME Types, Books PROVE TypeOK
    OBVIOUS
  <2>2. Keys(ledger) \cup Keys(group) \cup Keys(todo) \subseteq Kinds
    <3>1. \A cs \in Seq(Change) : Keys(cs) \subseteq Kinds
      BY ChangeTypes DEF Keys
    <3> QED BY <2>1, <3>1 DEF Types
  <2>3. current = None <=> script = <<>>
    <3>1. CASE current = None
      BY <2>1, <3>1 DEF Types
    <3>2. CASE current # None
      BY <2>1, <3>2, ScriptSteps DEF Types
    <3> QED BY <3>1, <3>2
  <2>4. host \in HostType /\ start \in HostType
    BY <2>1 DEF Types, Shaped
  <2> QED BY <2>1, <2>2, <2>3, <2>4 DEF TypeOK, Types, Books, Distinct
<1> QED BY <1>1, <1>2, <1>3, PTL DEF Spec

\* NothingBehindTheLedger: whatever the host, however many changes, groups and
\* failing commands, a parameter that differs from what the session found is
\* in the ledger, in the group under way or still to be rolled back, but for
\* the exceptions the property names. The rollback of a directive only
\* reaches the service if the directive's mode has it reload or restart.
THEOREM NothingEscapes ==
  ASSUME Mode["directive"] # "live"
  PROVE  Spec => []NothingBehindTheLedger
<1>1. Init => Types /\ Books /\ Accounts
  BY InitTypes, InitAccounts
<1>2. Types /\ Books /\ Accounts /\ [Next]_vars => (Types /\ Books /\ Accounts)'
  BY TypesStep, BooksStep, AccountsStep
<1>3. Accounts => NothingBehindTheLedger
  BY DEF Accounts, Untouched, Running, Tracked, NothingBehindTheLedger
<1> QED BY <1>1, <1>2, <1>3, PTL DEF Spec

\* MeasuredAsClaimed: when a group is benchmarked, the running service has
\* every value ledger and group claim, if directives and unit limits are
\* applied by a mode that has the service take them up.
THEOREM BenchmarkMeasuresClaims ==
  ASSUME Activating
  PROVE  Spec => []MeasuredAsClaimed
<1>1. Init => Types /\ Books /\ Claims
  BY InitTypes, InitClaims
<1>2. Types /\ Books /\ Claims /\ [Next]_vars => (Types /\ Books /\ Claims)'
  BY TypesStep, BooksStep, ClaimsStep
<1>3. Types /\ Books /\ Claims => MeasuredAsClaimed
  <2>1. SUFFICES ASSUME Types, Books, Claims, pc = "bench", NEW c \in ActiveWith(ledger, group), Valid(c)
                 PROVE  InEffect(host, c)
    BY DEF MeasuredAsClaimed, Valid
  <2>2. c \in Entries(Entered(ledger, group))
    BY <2>1 DEF ActiveWith, Entries
  <2>3. c \in Entries(group) \/ (c \in Entries(ledger) /\ c.key \notin Keys(group))
    BY <2>1, <2>2, EnteredFacts DEF Types, Books
  <2>4. todo = <<>> /\ current = None /\ LedgerClaims /\ GroupClaims
    BY <2>1 DEF Books, Claims
  <2>5. Claimed(host, c)
    BY <2>1, <2>3, <2>4, EmptyLists DEF LedgerClaims, GroupClaims, Running
  <2>6. c.key \in Kinds
    BY <2>1, <2>3, EntriesTyped
  <2> QED BY <2>5, <2>6, ClaimedInEffect
<1> QED BY <1>1, <1>2, <1>3, PTL DEF Spec
=============================================================================
