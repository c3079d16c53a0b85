------------------------------ MODULE PlanProofs ------------------------------
(***************************************************************************)
(* For plans of any size and any edits: a run sheet shows every step of    *)
(* its plan, a confirmation passes only for the plan of its sheet, and the *)
(* plan commands do what PlanReview says.                                  *)
(*                                                                         *)
(* The renderer's loops are recursive functions; what they return is       *)
(* proved from the first position at which it would fail.                  *)
(***************************************************************************)
EXTENDS PlanCommands, FindCycleProofs, FiniteSetTheorems, SequenceTheorems,
        WellFoundedInduction, TLAPS

LEMMA FirstOf ==
    ASSUME NEW T, T \subseteq Nat, T # {}
    PROVE  \E x \in T : \A y \in T : x <= y
<1>1. PICK x \in T : \A y \in T : ~(<<y, x>> \in OpToRel(<, Nat))
  BY NatLessThanWellFounded, WFMin
<1>2. \A y \in T : ~(y < x)
  BY <1>1 DEF OpToRel
<1>. QED
  BY <1>2

-----------------------------------------------------------------------------
(***************************************************************************)
(* The loops of the renderer.                                              *)
(***************************************************************************)
\* What the loop has appended after i positions, and f if it is that for all.
Appended(f, chosen, i) ==
    IF i = 0 THEN <<>> ELSE IF i \in chosen THEN Append(f[i - 1], i) ELSE f[i - 1]

IsLoop(f, n, chosen) == f = [i \in 0..n |-> Appended(f, chosen, i)]

\* A loop over n positions is well defined.
LEMMA LoopIsDefined ==
    ASSUME NEW chosen, NEW n \in Nat
    PROVE  \E f : IsLoop(f, n, chosen)
<1>. DEFINE Bad == {m \in Nat : ~\E f : IsLoop(f, m, chosen)}
<1>1. SUFFICES ASSUME Bad # {} PROVE FALSE
  OBVIOUS
<1>2. PICK m \in Bad : \A k \in Bad : m <= k
  <2>. HIDE DEF Bad
  <2>1. Bad \subseteq Nat
    BY DEF Bad
  <2>. QED
    BY <1>1, <2>1, FirstOf
<1>3. CASE m = 0
  <2>1. IsLoop([i \in 0..0 |-> <<>>], 0, chosen)
    BY DEF IsLoop, Appended
  <2>. QED
    BY <1>3, <2>1
<1>4. CASE m # 0
  <2>1. m - 1 \in Nat /\ m - 1 \notin Bad /\ m \in Nat
    <3>1. m \in Nat
      OBVIOUS
    <3>. HIDE DEF Bad
    <3>. QED
      BY <1>2, <1>4, <3>1
  <2>2. PICK f : IsLoop(f, m - 1, chosen)
    BY <2>1
  <2>. DEFINE g == [i \in 0..m |-> IF i = m THEN Appended(f, chosen, m) ELSE f[i]]
  <2>3. ASSUME NEW i \in 0..m PROVE g[i] = Appended(g, chosen, i)
    <3>1. i = 0 \/ (i - 1 \in 0..m /\ i - 1 # m /\ g[i - 1] = f[i - 1])
      BY <2>1
    <3>2. Appended(g, chosen, i) = Appended(f, chosen, i)
      BY <3>1 DEF Appended
    <3>3. i # m => i \in 0..(m - 1)
      BY <2>1
    <3>4. i # m => f[i] = Appended(f, chosen, i)
      BY <2>2, <3>3 DEF IsLoop
    <3>. QED
      BY <3>2, <3>4
  <2>4. IsLoop(g, m, chosen)
    <3>1. g = [i \in 0..m |-> Appended(g, chosen, i)]
      BY <2>3
    <3>. HIDE DEF g
    <3>. QED
      BY <3>1 DEF IsLoop
  <2>. QED
    BY <1>2, <2>4
<1>. QED
  BY <1>3, <1>4

\* What a loop appends are the numbers that it is to choose, from the first.
LEMMA LoopsInOrder ==
    ASSUME NEW n \in Nat, NEW chosen, chosen \subseteq 1..n
    PROVE  LET s == InOrder(n, chosen) IN
           /\ s \in Seq(chosen)
           /\ \A i, j \in DOMAIN s : i < j => s[i] < s[j]
           /\ \A x \in chosen : \E i \in DOMAIN s : s[i] = x
<1>b. \A x \in chosen : x \in Int /\ ~(x <= 0)
  OBVIOUS
<1>. DEFINE upTo == CHOOSE f : IsLoop(f, n, chosen)
            Good(s, i) == /\ s \in Seq(chosen)
                          /\ \A k \in DOMAIN s : s[k] <= i
                          /\ \A k, j \in DOMAIN s : k < j => s[k] < s[j]
                          /\ \A x \in chosen : x <= i => \E k \in DOMAIN s : s[k] = x
            Bad == {i \in 0..n : ~Good(upTo[i], i)}
<1>1. InOrder(n, chosen) = upTo[n]
  BY DEF InOrder, IsLoop, Appended
<1>2. IsLoop(upTo, n, chosen)
  BY LoopIsDefined
<1>. HIDE DEF upTo
<1>3. \A i \in 0..n : upTo[i] = Appended(upTo, chosen, i)
  BY <1>2 DEF IsLoop
<1>4. Bad = {}
  <2>1. SUFFICES ASSUME Bad # {} PROVE FALSE
    OBVIOUS
  <2>2. PICK m \in Bad : \A k \in Bad : m <= k
    <3>1. Bad \subseteq Nat
      OBVIOUS
    <3>. HIDE DEF Bad
    <3>. QED
      BY <2>1, <3>1, FirstOf
  <2>3. m \in 0..n /\ m \in Nat /\ ~Good(upTo[m], m)
    OBVIOUS
  <2>4. CASE m = 0
    <3>1. upTo[0] = <<>>
      BY <1>3, <2>3, <2>4 DEF Appended
    <3>3. Good(<<>>, 0)
      BY <1>b
    <3>. HIDE DEF Good
    <3>. QED
      BY <2>3, <2>4, <3>1, <3>3
  <2>5. CASE m # 0
    <3>1. m - 1 \in 0..n /\ Good(upTo[m - 1], m - 1)
      BY <2>2, <2>3, <2>5
    <3>2. PICK s : s = upTo[m - 1] /\ Good(s, m - 1)
      BY <3>1
    <3>3. /\ s \in Seq(chosen) /\ Len(s) \in Nat /\ DOMAIN s = 1..Len(s)
          /\ \A k \in DOMAIN s : s[k] \in chosen /\ s[k] \in Int /\ s[k] <= m - 1
      <4>1. s \in Seq(chosen) /\ \A k \in DOMAIN s : s[k] <= m - 1
        BY <3>2
      <4>2. /\ Len(s) \in Nat /\ DOMAIN s = 1..Len(s)
            /\ \A k \in DOMAIN s : s[k] \in chosen
        BY <4>1
      <4>. QED
        BY <1>b, <4>1, <4>2
    <3>4. CASE m \in chosen
      <4>1. upTo[m] = Append(s, m)
        BY <1>3, <2>3, <2>5, <3>2, <3>4 DEF Appended
      <4>2. PICK t : t = Append(s, m)
        OBVIOUS
      <4>3. /\ t \in Seq(chosen) /\ Len(t) = Len(s) + 1 /\ DOMAIN t = 1..(Len(s) + 1)
            /\ \A k \in DOMAIN s : t[k] = s[k]
            /\ t[Len(s) + 1] = m
        BY <3>3, <3>4, <4>2
      <4>4. \A k \in DOMAIN t : t[k] <= m
        BY <2>3, <3>3, <4>3
      <4>5. \A k, j \in DOMAIN t : k < j => t[k] < t[j]
        <5>1. SUFFICES ASSUME NEW k \in DOMAIN t, NEW j \in DOMAIN t, k < j PROVE t[k] < t[j]
          OBVIOUS
        <5>2. k \in DOMAIN s
          BY <3>3, <4>3, <5>1
        <5>3. CASE j \in DOMAIN s
          BY <3>2, <4>3, <5>1, <5>2, <5>3
        <5>4. CASE j = Len(s) + 1
          BY <2>3, <3>3, <4>3, <5>2, <5>4
        <5>. QED
          BY <3>3, <4>3, <5>3, <5>4
      <4>6. \A x \in chosen : x <= m => \E k \in DOMAIN t : t[k] = x
        <5>1. SUFFICES ASSUME NEW x \in chosen, x <= m PROVE \E k \in DOMAIN t : t[k] = x
          OBVIOUS
        <5>2. CASE x = m
          BY <3>3, <4>3, <5>2
        <5>3. CASE x # m
          <6>1. x <= m - 1
            BY <2>3, <5>1, <5>3
          <6>2. PICK k \in DOMAIN s : s[k] = x
            BY <3>2, <6>1
          <6>. QED
            BY <3>3, <4>3, <6>2
        <5>. QED
          BY <5>2, <5>3
      <4>. QED
        BY <2>3, <4>1, <4>2, <4>3, <4>4, <4>5, <4>6
    <3>5. CASE m \notin chosen
      <4>1. upTo[m] = s
        BY <1>3, <2>3, <2>5, <3>2, <3>5 DEF Appended
      <4>2. \A x \in chosen : x <= m => x <= m - 1
        <5>1. SUFFICES ASSUME NEW x \in chosen, x <= m PROVE x <= m - 1
          OBVIOUS
        <5>. HIDE DEF Bad, Good
        <5>2. x # m
          BY <3>5
        <5>3. x \in Int /\ m \in Int
          BY <1>b, <2>3
        <5>. QED
          BY <5>1, <5>2, <5>3
      <4>3. \A k \in DOMAIN s : s[k] <= m
        BY <2>3, <3>3
      <4>. QED
        BY <2>3, <3>2, <4>1, <4>2, <4>3
    <3>. QED
      BY <3>4, <3>5
  <2>. QED
    BY <2>4, <2>5
<1>5. Good(upTo[n], n)
  BY <1>4
<1>. QED
  BY <1>1, <1>5

-----------------------------------------------------------------------------
(***************************************************************************)
(* Sequences that list a set, each element once.                           *)
(***************************************************************************)
Lists(s, S) ==
    /\ s \in Seq(S)
    /\ \A i, j \in DOMAIN s : s[i] = s[j] => i = j
    /\ \A x \in S : \E i \in DOMAIN s : s[i] = x

LEMMA LoopsList ==
    ASSUME NEW n \in Nat, NEW chosen, chosen \subseteq 1..n
    PROVE  Lists(InOrder(n, chosen), chosen)
<1>1. PICK s : s = InOrder(n, chosen)
  OBVIOUS
<1>2. /\ s \in Seq(chosen)
      /\ \A i, j \in DOMAIN s : i < j => s[i] < s[j]
      /\ \A x \in chosen : \E i \in DOMAIN s : s[i] = x
  <2>. HIDE <1>1
  <2>1. LET r == InOrder(n, chosen) IN
        /\ r \in Seq(chosen)
        /\ \A i, j \in DOMAIN r : i < j => r[i] < r[j]
        /\ \A x \in chosen : \E i \in DOMAIN r : r[i] = x
    BY LoopsInOrder
  <2>. QED
    BY <1>1, <2>1
<1>3. \A i \in DOMAIN s : i \in Int /\ s[i] \in chosen
  BY <1>2
<1>4. \A i, j \in DOMAIN s : s[i] = s[j] => i = j
  <2>1. \A x \in chosen : ~(x < x)
    OBVIOUS
  <2>2. SUFFICES ASSUME NEW i \in DOMAIN s, NEW j \in DOMAIN s, s[i] = s[j], i # j PROVE FALSE
    OBVIOUS
  <2>3. i < j \/ j < i
    BY <1>3, <2>2
  <2>. QED
    BY <1>2, <1>3, <2>1, <2>2, <2>3
<1>. QED
  BY <1>1, <1>2, <1>4 DEF Lists

LEMMA JoinedLists ==
    ASSUME NEW S, NEW T, NEW s, NEW t, Lists(s, S), Lists(t, T), S \cap T = {}
    PROVE  Lists(s \o t, S \cup T)
<1>1. /\ s \in Seq(S) /\ Len(s) \in Nat /\ DOMAIN s = 1..Len(s)
      /\ t \in Seq(T) /\ Len(t) \in Nat /\ DOMAIN t = 1..Len(t)
      /\ \A i \in DOMAIN s : s[i] \in S
      /\ \A i \in DOMAIN t : t[i] \in T
  BY DEF Lists
<1>2. PICK u : u = s \o t
  OBVIOUS
<1>3. s \in Seq(S \cup T) /\ t \in Seq(S \cup T)
  BY <1>1
<1>4. /\ u \in Seq(S \cup T) /\ Len(u) = Len(s) + Len(t) /\ DOMAIN u = 1..(Len(s) + Len(t))
      /\ \A i \in DOMAIN u : u[i] = IF i <= Len(s) THEN s[i] ELSE t[i - Len(s)]
  BY <1>1, <1>2, <1>3
<1>5. \A i \in DOMAIN u : \/ i \in DOMAIN s /\ u[i] = s[i]
                         \/ (i - Len(s) \in DOMAIN t /\ u[i] = t[i - Len(s)])
  BY <1>1, <1>4
<1>6. \A i, j \in DOMAIN u : u[i] = u[j] => i = j
  <2>1. SUFFICES ASSUME NEW i \in DOMAIN u, NEW j \in DOMAIN u, u[i] = u[j] PROVE i = j
    OBVIOUS
  <2>2. CASE i \in DOMAIN s /\ u[i] = s[i] /\ j \in DOMAIN s /\ u[j] = s[j]
    BY <2>1, <2>2 DEF Lists
  <2>3. CASE /\ i - Len(s) \in DOMAIN t /\ u[i] = t[i - Len(s)]
             /\ j - Len(s) \in DOMAIN t /\ u[j] = t[j - Len(s)]
    <3>1. i - Len(s) = j - Len(s)
      BY <2>1, <2>3 DEF Lists
    <3>. QED
      BY <1>1, <1>4, <3>1
  <2>. QED
    BY <1>1, <1>5, <2>1, <2>2, <2>3
<1>7. \A x \in S \cup T : \E i \in DOMAIN u : u[i] = x
  <2>1. ASSUME NEW x \in S PROVE \E i \in DOMAIN u : u[i] = x
    <3>1. PICK i \in DOMAIN s : s[i] = x
      BY DEF Lists
    <3>. QED
      BY <1>1, <1>4, <3>1
  <2>2. ASSUME NEW x \in T PROVE \E i \in DOMAIN u : u[i] = x
    <3>1. PICK i \in DOMAIN t : t[i] = x
      BY DEF Lists
    <3>2. Len(s) + i \in DOMAIN u /\ u[Len(s) + i] = x
      BY <1>1, <1>4, <3>1
    <3>. QED
      BY <3>2
  <2>. QED
    BY <2>1, <2>2
<1>. QED
  BY <1>2, <1>4, <1>6, <1>7 DEF Lists

\* What the sheet has joined after i phases, and f if it is that for all.
Joined(f, seqs, i) == IF i = 1 THEN seqs[i] ELSE f[i - 1] \o seqs[i]

IsJoin(f, seqs, m) == f = [i \in 1..m |-> Joined(f, seqs, i)]

LEMMA JoinIsDefined ==
    ASSUME NEW seqs, NEW n \in Nat
    PROVE  \E f : IsJoin(f, seqs, n)
<1>. DEFINE Bad == {m \in Nat : ~\E f : IsJoin(f, seqs, m)}
<1>1. SUFFICES ASSUME Bad # {} PROVE FALSE
  OBVIOUS
<1>2. PICK m \in Bad : \A k \in Bad : m <= k
  <2>. HIDE DEF Bad
  <2>1. Bad \subseteq Nat
    BY DEF Bad
  <2>. QED
    BY <1>1, <2>1, FirstOf
<1>3. CASE m = 0
  <2>1. IsJoin([i \in 1..0 |-> <<>>], seqs, 0)
    BY DEF IsJoin
  <2>. QED
    BY <1>3, <2>1
<1>4. CASE m # 0
  <2>1. m - 1 \in Nat /\ m - 1 \notin Bad /\ m \in Nat
    <3>1. m \in Nat
      OBVIOUS
    <3>. HIDE DEF Bad
    <3>. QED
      BY <1>2, <1>4, <3>1
  <2>2. PICK f : IsJoin(f, seqs, m - 1)
    BY <2>1
  <2>. DEFINE g == [i \in 1..m |-> IF i = m THEN Joined(f, seqs, m) ELSE f[i]]
  <2>3. ASSUME NEW i \in 1..m PROVE g[i] = Joined(g, seqs, i)
    <3>1. i = 1 \/ (i - 1 \in 1..m /\ i - 1 # m /\ g[i - 1] = f[i - 1])
      BY <2>1
    <3>2. Joined(g, seqs, i) = Joined(f, seqs, i)
      BY <3>1 DEF Joined
    <3>3. i # m => i \in 1..(m - 1)
      BY <2>1
    <3>4. i # m => f[i] = Joined(f, seqs, i)
      BY <2>2, <3>3 DEF IsJoin
    <3>. QED
      BY <3>2, <3>4
  <2>4. IsJoin(g, seqs, m)
    <3>1. g = [i \in 1..m |-> Joined(g, seqs, i)]
      BY <2>3
    <3>. HIDE DEF g
    <3>. QED
      BY <3>1 DEF IsJoin
  <2>. QED
    BY <1>2, <2>4
<1>. QED
  BY <1>3, <1>4

\* Sequences that list disjoint parts, joined, list them all.
LEMMA FlattenedLists ==
    ASSUME NEW seqs, NEW parts, NEW m \in Nat, DOMAIN seqs = 1..m, seqs = [k \in 1..m |-> seqs[k]],
           \A k \in 1..m : Lists(seqs[k], parts[k]),
           \A j, k \in 1..m : j # k => parts[j] \cap parts[k] = {}
    PROVE  Lists(FlattenSeq(seqs), UNION {parts[k] : k \in 1..m})
<1>1. Len(seqs) = m
  OBVIOUS
<1>2. CASE m = 0
  <2>1. FlattenSeq(seqs) = <<>>
    BY <1>1, <1>2 DEF FlattenSeq
  <2>2. UNION {parts[k] : k \in 1..m} = {}
    BY <1>2
  <2>3. Lists(<<>>, {})
    BY DEF Lists
  <2>. QED
    BY <2>1, <2>2, <2>3
<1>3. CASE m # 0
  <2>. DEFINE flatten == CHOOSE f : IsJoin(f, seqs, m)
              Upto(i) == UNION {parts[k] : k \in 1..i}
              Bad == {i \in 1..m : ~Lists(flatten[i], Upto(i))}
  <2>1. FlattenSeq(seqs) = flatten[m]
    BY <1>1, <1>3 DEF FlattenSeq, IsJoin, Joined
  <2>2. IsJoin(flatten, seqs, m)
    BY JoinIsDefined
  <2>. HIDE DEF flatten
  <2>3. \A i \in 1..m : flatten[i] = Joined(flatten, seqs, i)
    BY <2>2 DEF IsJoin
  <2>4. Bad = {}
    <3>1. SUFFICES ASSUME Bad # {} PROVE FALSE
      OBVIOUS
    <3>2. PICK i \in Bad : \A k \in Bad : i <= k
      <4>1. Bad \subseteq Nat
        OBVIOUS
      <4>. HIDE DEF Bad
      <4>. QED
        BY <3>1, <4>1, FirstOf
    <3>3. i \in 1..m /\ i \in Nat /\ ~Lists(flatten[i], Upto(i))
      OBVIOUS
    <3>4. CASE i = 1
      <4>1. flatten[1] = seqs[1]
        BY <2>3, <3>3, <3>4 DEF Joined
      <4>2. Upto(1) = parts[1]
        OBVIOUS
      <4>. QED
        BY <3>3, <3>4, <4>1, <4>2
    <3>5. CASE i # 1
      <4>1. flatten[i] = flatten[i - 1] \o seqs[i]
        BY <2>3, <3>3, <3>5 DEF Joined
      <4>2. i - 1 \in 1..m /\ Lists(flatten[i - 1], Upto(i - 1))
        <5>1. i - 1 \in 1..m /\ ~(i <= i - 1)
          BY <3>3, <3>5
        <5>. QED
          BY <3>2, <5>1
      <4>3. Upto(i - 1) \cap parts[i] = {}
        <5>1. \A k \in 1..(i - 1) : k \in 1..m /\ k # i
          BY <3>3
        <5>. QED
          BY <3>3, <5>1
      <4>4. Upto(i) = Upto(i - 1) \cup parts[i]
        <5>1. 1..i = 1..(i - 1) \cup {i}
          BY <3>3
        <5>. QED
          BY <5>1
      <4>. HIDE DEF Upto
      <4>. QED
        BY <3>3, <4>1, <4>2, <4>3, <4>4, JoinedLists
    <3>. QED
      BY <3>4, <3>5
  <2>5. Lists(flatten[m], Upto(m))
    <3>1. m \in 1..m
      BY <1>3
    <3>. HIDE DEF Upto
    <3>. QED
      BY <2>4, <3>1
  <2>. QED
    BY <2>1, <2>5
<1>. QED
  BY <1>2, <1>3

LEMMA ListLength ==
    ASSUME NEW n \in Nat, NEW s, Lists(s, 1..n)
    PROVE  Len(s) = n
<1>1. s \in Seq(1..n) /\ Len(s) \in Nat /\ DOMAIN s = 1..Len(s)
  BY DEF Lists
<1>2. s \in Bijection(1..Len(s), 1..n)
  <2>1. s \in [1..Len(s) -> 1..n]
    BY <1>1
  <2>2. s \in Injection(1..Len(s), 1..n)
    BY <1>1, <2>1 DEF Lists, Injection, IsInjective
  <2>3. s \in Surjection(1..Len(s), 1..n)
    BY <1>1, <2>1 DEF Lists, Surjection
  <2>. QED
    BY <2>2, <2>3 DEF Bijection
<1>3. Cardinality(1..n) = Len(s)
  BY <1>1, <1>2, FS_CountingElements DEF ExistsBijection
<1>4. Cardinality(1..n) = n
  BY FS_Interval
<1>. QED
  BY <1>3, <1>4

-----------------------------------------------------------------------------
(***************************************************************************)
(* The order of the sheet.                                                 *)
(***************************************************************************)
PhasesOf(plan) == {plan.steps[i].phase : i \in DOMAIN plan.steps}

LEMMA FivePhases ==
    /\ Len(Phases) = 5 /\ DOMAIN Phases = 1..5
    /\ \A j, k \in DOMAIN Phases : Phases[j] = Phases[k] => j = k
    /\ ToSet(Phases) = {Phases[k] : k \in DOMAIN Phases}
<1>1. DOMAIN Phases = 1..5 /\ Len(Phases) = 5
  BY DEF Phases
<1>2. \A j, k \in 1..5 : Phases[j] = Phases[k] => j = k
  BY DEF Phases
<1>. QED
  BY <1>1, <1>2 DEF ToSet

\* A sequence that lists numbers, shown by what has those numbers.
LEMMA ShownLists ==
    ASSUME NEW chosen, NEW s, Lists(s, chosen), NEW f, chosen \subseteq DOMAIN f,
           \A i, j \in chosen : f[i] = f[j] => i = j
    PROVE  Lists([k \in DOMAIN s |-> f[s[k]]], {f[i] : i \in chosen})
<1>1. /\ s \in Seq(chosen) /\ Len(s) \in Nat /\ DOMAIN s = 1..Len(s)
      /\ \A k \in DOMAIN s : s[k] \in chosen
  BY DEF Lists
<1>2. PICK t : t = [k \in DOMAIN s |-> f[s[k]]]
  OBVIOUS
<1>3. DOMAIN t = DOMAIN s /\ \A k \in DOMAIN s : t[k] = f[s[k]]
  BY <1>2
<1>4. t \in Seq({f[i] : i \in chosen})
  <2>1. t \in [1..Len(s) -> {f[i] : i \in chosen}]
    BY <1>1, <1>2
  <2>. QED
    BY <1>1, <2>1
<1>5. \A j, k \in DOMAIN t : t[j] = t[k] => j = k
  BY <1>1, <1>3 DEF Lists
<1>6. \A x \in {f[i] : i \in chosen} : \E k \in DOMAIN t : t[k] = x
  BY <1>3 DEF Lists
<1>. QED
  BY <1>2, <1>4, <1>5, <1>6 DEF Lists

LEMMA KnownPhasesListed ==
    ASSUME NEW plan
    PROVE  Lists(KnownPhases(plan), PhasesOf(plan) \cap ToSet(Phases))
<1>. DEFINE chosen == {k \in DOMAIN Phases :
                          \E i \in DOMAIN plan.steps : plan.steps[i].phase = Phases[k]}
<1>1. chosen \subseteq 1..5 /\ chosen \subseteq DOMAIN Phases
  BY FivePhases
<1>2. {Phases[k] : k \in chosen} = PhasesOf(plan) \cap ToSet(Phases)
  BY FivePhases DEF PhasesOf
<1>3. KnownPhases(plan) = LET s == InOrder(5, chosen) IN [k \in DOMAIN s |-> Phases[s[k]]]
  BY FivePhases DEF KnownPhases
<1>. HIDE DEF chosen
<1>4. Lists(InOrder(5, chosen), chosen)
  BY <1>1, LoopsList
<1>5. \A i, j \in chosen : Phases[i] = Phases[j] => i = j
  BY <1>1, FivePhases
<1>6. Lists(KnownPhases(plan), {Phases[k] : k \in chosen})
  <2>1. PICK s : s = InOrder(5, chosen)
    OBVIOUS
  <2>2. KnownPhases(plan) = [k \in DOMAIN s |-> Phases[s[k]]]
    BY <1>3, <2>1
  <2>3. Lists(s, chosen)
    BY <1>4, <2>1
  <2>. QED
    <3>1. chosen \subseteq DOMAIN Phases
      BY <1>1
    <3>2. Lists([k \in DOMAIN s |-> Phases[s[k]]], {Phases[i] : i \in chosen})
      BY <1>5, <2>3, <3>1, ShownLists
    <3>. QED
      BY <2>2, <3>2
<1>. QED
  BY <1>2, <1>6

LEMMA OddPhasesListed ==
    ASSUME NEW plan, NEW S, plan.steps \in Seq(S)
    PROVE  Lists(OddPhases(plan), PhasesOf(plan) \ ToSet(Phases))
<1>. DEFINE n == Len(plan.steps)
            phase == [i \in 1..n |-> plan.steps[i].phase]
            chosen == {i \in 1..n : phase[i] \notin ToSet(Phases)
                                    /\ \A j \in 1..(i - 1) : phase[j] # phase[i]}
<1>1. n \in Nat /\ DOMAIN plan.steps = 1..n
  OBVIOUS
<1>2. chosen \subseteq 1..n /\ DOMAIN phase = 1..n
  OBVIOUS
<1>3. OddPhases(plan) = LET s == InOrder(n, chosen) IN [k \in DOMAIN s |-> phase[s[k]]]
  <2>1. chosen = {i \in DOMAIN plan.steps :
                    /\ plan.steps[i].phase \notin ToSet(Phases)
                    /\ \A j \in 1..(i - 1) : plan.steps[j].phase # plan.steps[i].phase}
    <3>1. \A i \in 1..n : \A j \in 1..(i - 1) : j \in 1..n
      BY <1>1
    <3>2. \A i \in 1..n : phase[i] = plan.steps[i].phase
      OBVIOUS
    <3>. HIDE DEF phase, n
    <3>. QED
      BY <1>1, <3>1, <3>2
  <2>2. OddPhases(plan) = LET s == InOrder(n, chosen)
                          IN  [k \in DOMAIN s |-> plan.steps[s[k]].phase]
    BY <2>1 DEF OddPhases
  <2>3. PICK s : s = InOrder(n, chosen)
    OBVIOUS
  <2>4. \A k \in DOMAIN s : s[k] \in 1..n
    <3>. HIDE DEF chosen, n
    <3>1. Lists(s, chosen)
      BY <1>1, <1>2, <2>3, LoopsList
    <3>2. \A k \in DOMAIN s : s[k] \in chosen
      BY <3>1 DEF Lists
    <3>. QED
      BY <1>2, <3>2
  <2>. QED
    BY <2>2, <2>3, <2>4
<1>4. \A i, j \in chosen : phase[i] = phase[j] => i = j
  <2>1. SUFFICES ASSUME NEW i \in chosen, NEW j \in chosen, phase[i] = phase[j], i # j PROVE FALSE
    OBVIOUS
  <2>2. i \in 1..n /\ j \in 1..n
    OBVIOUS
  <2>3. i \in 1..(j - 1) \/ j \in 1..(i - 1)
    BY <1>1, <2>1, <2>2
  <2>. QED
    BY <2>1, <2>3
<1>5. {phase[i] : i \in chosen} = PhasesOf(plan) \ ToSet(Phases)
  <2>1. PhasesOf(plan) = {phase[i] : i \in 1..n}
    BY <1>1 DEF PhasesOf
  <2>2. ASSUME NEW i \in 1..n, phase[i] \notin ToSet(Phases)
        PROVE  \E j \in chosen : phase[j] = phase[i]
    <3>. DEFINE Same == {j \in 1..n : phase[j] = phase[i]}
    <3>1. Same \subseteq Nat /\ i \in Same
      BY <1>1
    <3>2. PICK j \in Same : \A k \in Same : j <= k
      <4>. HIDE DEF Same
      <4>. QED
        BY <3>1, FirstOf
    <3>3. \A k \in 1..(j - 1) : phase[k] # phase[j]
      <4>1. SUFFICES ASSUME NEW k \in 1..(j - 1), phase[k] = phase[j] PROVE FALSE
        OBVIOUS
      <4>2. j \in 1..n /\ k \in 1..n /\ ~(j <= k)
        BY <1>1, <4>1
      <4>3. k \in Same
        BY <4>1, <4>2
      <4>. QED
        BY <3>2, <4>2, <4>3
    <3>4. j \in chosen
      BY <2>2, <3>3
    <3>. QED
      BY <3>4
  <2>3. \A i \in chosen : i \in 1..n /\ phase[i] \notin ToSet(Phases)
    OBVIOUS
  <2>. HIDE DEF chosen, n, phase
  <2>. QED
    BY <2>1, <2>2, <2>3
<1>. HIDE DEF chosen, n, phase
<1>6. Lists(InOrder(n, chosen), chosen)
  BY <1>1, <1>2, LoopsList
<1>7. Lists(OddPhases(plan), {phase[i] : i \in chosen})
  <2>1. PICK s : s = InOrder(n, chosen)
    OBVIOUS
  <2>2. OddPhases(plan) = [k \in DOMAIN s |-> phase[s[k]]]
    BY <1>3, <2>1
  <2>3. Lists(s, chosen)
    BY <1>6, <2>1
  <2>. QED
    <3>1. chosen \subseteq DOMAIN phase
      BY <1>2
    <3>2. Lists([k \in DOMAIN s |-> phase[s[k]]], {phase[i] : i \in chosen})
      BY <1>4, <2>3, <3>1, ShownLists
    <3>. QED
      BY <2>2, <3>2
<1>. QED
  BY <1>5, <1>7

LEMMA OrderedPhasesListed ==
    ASSUME NEW plan, NEW S, plan.steps \in Seq(S)
    PROVE  Lists(OrderedPhases(plan), PhasesOf(plan))
<1>. DEFINE K == PhasesOf(plan) \cap ToSet(Phases)
            O == PhasesOf(plan) \ ToSet(Phases)
<1>1. Lists(KnownPhases(plan), K)
  BY KnownPhasesListed
<1>2. Lists(OddPhases(plan), O)
  BY OddPhasesListed
<1>3. K \cap O = {} /\ K \cup O = PhasesOf(plan)
  OBVIOUS
<1>. HIDE DEF K, O
<1>. QED
  BY <1>1, <1>2, <1>3, JoinedLists DEF OrderedPhases

\* The sheet prints the steps in an order, each once.
LEMMA SheetOrderListed ==
    ASSUME NEW plan, NEW S, plan.steps \in Seq(S)
    PROVE  Lists(SheetOrder(plan), 1..Len(plan.steps))
<1>. DEFINE n == Len(plan.steps)
            p == OrderedPhases(plan)
            m == Len(p)
            Of(phase) == {i \in 1..n : plan.steps[i].phase = phase}
            seqs == [k \in 1..m |-> StepsInPhase(plan)[p[k]]]
            parts == [k \in 1..m |-> Of(p[k])]
<1>1. n \in Nat /\ DOMAIN plan.steps = 1..n
  OBVIOUS
<1>2. /\ Lists(p, PhasesOf(plan)) /\ p \in Seq(PhasesOf(plan)) /\ m \in Nat /\ DOMAIN p = 1..m
      /\ \A k \in 1..m : p[k] \in PhasesOf(plan)
  <2>1. Lists(p, PhasesOf(plan))
    BY OrderedPhasesListed
  <2>. HIDE DEF p
  <2>. QED
    BY <2>1 DEF Lists
<1>. HIDE DEF p
<1>3. SheetOrder(plan) = FlattenSeq(seqs)
  BY <1>2 DEF SheetOrder, p
<1>. HIDE DEF m
<1>4. \A phase \in PhasesOf(plan) : StepsInPhase(plan)[phase] = InOrder(n, Of(phase))
  BY <1>1 DEF StepsInPhase, PhasesOf
<1>5. \A k \in 1..m : Lists(seqs[k], parts[k])
  <2>1. SUFFICES ASSUME NEW k \in 1..m PROVE Lists(InOrder(n, Of(p[k])), Of(p[k]))
    BY <1>2, <1>4
  <2>2. Of(p[k]) \subseteq 1..n
    OBVIOUS
  <2>. HIDE DEF Of, n
  <2>. QED
    BY <1>1, <2>2, LoopsList
<1>6. \A j, k \in 1..m : j # k => parts[j] \cap parts[k] = {}
  BY <1>2 DEF Lists
<1>7. UNION {parts[k] : k \in 1..m} = 1..n
  <2>1. ASSUME NEW i \in 1..n PROVE \E k \in 1..m : i \in parts[k]
    <3>1. plan.steps[i].phase \in PhasesOf(plan)
      BY <1>1 DEF PhasesOf
    <3>2. PICK k \in 1..m : p[k] = plan.steps[i].phase
      BY <1>2, <3>1 DEF Lists
    <3>. QED
      BY <3>2
  <2>. QED
    BY <2>1
<1>8. DOMAIN seqs = 1..m /\ seqs = [k \in 1..m |-> seqs[k]]
  OBVIOUS
<1>. HIDE DEF seqs, parts
<1>9. m \in Nat
  BY <1>2
<1>10. Lists(FlattenSeq(seqs), UNION {parts[k] : k \in 1..m})
  BY <1>5, <1>6, <1>8, <1>9, FlattenedLists
<1>. QED
  BY <1>3, <1>7, <1>10

-----------------------------------------------------------------------------
(***************************************************************************)
(* The sheet.                                                              *)
(***************************************************************************)
\* Where a sequence has elements of T.
Places(s, T) == {k \in DOMAIN s : s[k] \in T}

LEMMA CountsAgree ==
    ASSUME NEW n \in Nat, NEW s, Lists(s, 1..n), NEW T, T \subseteq 1..n
    PROVE  Cardinality(Places(s, T)) = Cardinality(T)
<1>. DEFINE K == Places(s, T)
            f == [k \in K |-> s[k]]
<1>0. \A k : k \in K <=> k \in DOMAIN s /\ s[k] \in T
  BY DEF Places
<1>. HIDE DEF K
<1>1. IsFiniteSet(K)
  <2>1. DOMAIN s = 1..Len(s) /\ Len(s) \in Nat
    BY DEF Lists
  <2>2. K \in SUBSET (1..Len(s))
    BY <1>0, <2>1
  <2>3. IsFiniteSet(1..Len(s))
    BY <2>1, FS_Interval
  <2>. QED
    BY <2>2, <2>3, FS_Subset
<1>2. f \in [K -> T] /\ DOMAIN f = K
  BY <1>0
<1>3. \A j, k \in K : f[j] = f[k] => j = k
  BY <1>0 DEF Lists
<1>4. \A x \in T : \E k \in K : f[k] = x
  <2>1. SUFFICES ASSUME NEW x \in T PROVE \E k \in K : f[k] = x
    OBVIOUS
  <2>2. PICK k \in DOMAIN s : s[k] = x
    BY DEF Lists
  <2>. QED
    BY <1>0, <2>2
<1>. HIDE DEF f
<1>5. f \in Bijection(K, T)
  BY <1>2, <1>3, <1>4 DEF Bijection, Injection, Surjection, IsInjective
<1>6. ExistsBijection(K, T)
  BY <1>5 DEF ExistsBijection
<1>. QED
  BY <1>1, <1>6, FS_Bijection DEF K

\* The sections of a sheet are those of the steps, in the order of the sheet.
LEMMA SectionsOfSteps ==
    ASSUME NEW plan, NEW S, plan.steps \in Seq(S)
    PROVE  LET n == Len(plan.steps)
               order == SheetOrder(plan)
               printed == Runsheet(plan)
           IN  /\ n \in Nat /\ DOMAIN plan.steps = 1..n /\ DOMAIN order = 1..n
               /\ printed.sections = [k \in 1..n |-> Section(order[k], plan.steps[order[k]])]
               /\ \A k \in 1..n : order[k] \in 1..n
               /\ \A i \in 1..n : \E k \in 1..n : order[k] = i
<1>. DEFINE n == Len(plan.steps)
            order == SheetOrder(plan)
<1>1. n \in Nat /\ DOMAIN plan.steps = 1..n
  OBVIOUS
<1>2. Lists(order, 1..n)
  BY SheetOrderListed
<1>3. Runsheet(plan).sections = [k \in DOMAIN order |->
                                    [i \in DOMAIN plan.steps |-> Section(i, plan.steps[i])][order[k]]]
  BY DEF Runsheet
<1>. HIDE DEF n, order
<1>4. /\ DOMAIN order = 1..n
      /\ \A k \in 1..n : order[k] \in 1..n
      /\ \A i \in 1..n : \E k \in 1..n : order[k] = i
  <2>1. Len(order) = n
    BY <1>1, <1>2, ListLength
  <2>. QED
    BY <1>2, <2>1 DEF Lists
<1>5. Runsheet(plan).sections = [k \in 1..n |-> Section(order[k], plan.steps[order[k]])]
  BY <1>1, <1>3, <1>4
<1>. QED
  BY <1>1, <1>4, <1>5 DEF n, order

NeedsOperator(plan) ==
    {i \in DOMAIN plan.steps : \/ plan.steps[i].kind = "operator-only"
                              \/ plan.steps[i].confirmation # NoConfirmation}

\* The rows of the index are those of the steps that need the operator.
LEMMA RowsOfSteps ==
    ASSUME NEW plan, NEW S, plan.steps \in Seq(S)
    PROVE  LET index == Runsheet(plan).index IN
           /\ \A r \in DOMAIN index :
                 /\ index[r].number \in NeedsOperator(plan)
                 /\ index[r].id = plan.steps[index[r].number].id
           /\ \A i \in NeedsOperator(plan) : \E r \in DOMAIN index : index[r].number = i
           /\ \A r, q \in DOMAIN index : r < q => index[r].number < index[q].number
<1>. DEFINE n == Len(plan.steps)
            needs == NeedsOperator(plan)
<1>1. n \in Nat /\ DOMAIN plan.steps = 1..n
  OBVIOUS
<1>2. needs \subseteq 1..n
  BY <1>1 DEF NeedsOperator
<1>3. PICK s : s = InOrder(n, needs)
  OBVIOUS
<1>4. PICK index : index = Runsheet(plan).index
  OBVIOUS
<1>5. index = [r \in DOMAIN s |-> OperatorRow(s[r], plan.steps[s[r]])]
  BY <1>3, <1>4 DEF Runsheet, OperatorIndex, OperatorSteps, NeedsOperator
<1>. HIDE DEF n, needs
<1>6. /\ s \in Seq(needs)
      /\ \A r, q \in DOMAIN s : r < q => s[r] < s[q]
      /\ \A i \in needs : \E r \in DOMAIN s : s[r] = i
  <2>1. LET t == InOrder(n, needs) IN
        /\ t \in Seq(needs)
        /\ \A r, q \in DOMAIN t : r < q => t[r] < t[q]
        /\ \A i \in needs : \E r \in DOMAIN t : t[r] = i
    BY <1>1, <1>2, LoopsInOrder
  <2>. QED
    BY <1>3, <2>1
<1>7. /\ DOMAIN index = DOMAIN s
      /\ \A r \in DOMAIN s : /\ index[r].number = s[r] /\ s[r] \in needs
                             /\ index[r].id = plan.steps[s[r]].id
  BY <1>5, <1>6 DEF OperatorRow
<1>. QED
  BY <1>4, <1>6, <1>7 DEF needs

\* Whatever the plan, the sheet prints each of its steps once, under its number,
\* with the index and the counts that belong to what it prints.
LEMMA SheetShowsPlan ==
    ASSUME NEW plan, NEW S, plan.steps \in Seq(S)
    PROVE  SheetShows(plan)
<1>. DEFINE n == Len(plan.steps)
            order == SheetOrder(plan)
            printed == Runsheet(plan)
            sections == printed.sections
            index == printed.index
            lines == Listing(plan).lines
            Step(k) == plan.steps[order[k]]
<1>1. /\ n \in Nat /\ DOMAIN plan.steps = 1..n /\ DOMAIN order = 1..n
      /\ sections = [k \in 1..n |-> Section(order[k], plan.steps[order[k]])]
      /\ \A k \in 1..n : order[k] \in 1..n
      /\ \A i \in 1..n : \E k \in 1..n : order[k] = i
  <2>. HIDE DEF n, order, printed
  <2>. QED
    BY SectionsOfSteps DEF n, order, printed
<1>2. Lists(order, 1..n)
  BY SheetOrderListed
<1>3. /\ DOMAIN lines = 1..n
      /\ \A i \in 1..n : /\ lines[i].id = plan.steps[i].id
                          /\ lines[i].destructive = plan.steps[i].destructive
                          /\ lines[i].acknowledge = AcknowledgeWith(plan.steps[i])
  BY <1>1 DEF Listing
<1>4. /\ \A r \in DOMAIN index :
            /\ index[r].number \in NeedsOperator(plan)
            /\ index[r].id = plan.steps[index[r].number].id
      /\ \A i \in NeedsOperator(plan) : \E r \in DOMAIN index : index[r].number = i
      /\ \A r, q \in DOMAIN index : r < q => index[r].number < index[q].number
  BY RowsOfSteps
<1>5. /\ printed.census.total = n
      /\ printed.census.destructive = Cardinality({i \in 1..n : plan.steps[i].destructive})
      /\ printed.census.operatorOnly = Cardinality({i \in 1..n : plan.steps[i].kind = "operator-only"})
  BY <1>1 DEF Runsheet, StepCensus
<1>. HIDE DEF order, n, printed, lines
<1>6. /\ DOMAIN sections = 1..n
      /\ \A k \in 1..n : /\ sections[k].number = order[k]
                          /\ sections[k].id = Step(k).id
                          /\ sections[k].kind = Step(k).kind
                          /\ sections[k].banner = Step(k).destructive
                          /\ sections[k].asks = (Step(k).confirmation # NoConfirmation)
                          /\ sections[k].acknowledge = AcknowledgeWith(Step(k))
  <2>. HIDE DEF sections
  <2>1. DOMAIN sections = 1..n /\ \A k \in 1..n : sections[k] = Section(order[k], Step(k))
    BY <1>1
  <2>. QED
    BY <2>1 DEF Section
<1>7. Len(sections) = Len(lines)
  BY <1>1, <1>3, <1>6
<1>8. Len(lines) = n
  BY <1>1, <1>3
<1>9. ASSUME NEW i \in 1..n
      PROVE  \E k \in DOMAIN sections :
                /\ sections[k].number = i /\ sections[k].id = lines[i].id
                /\ sections[k].banner = lines[i].destructive
                /\ sections[k].acknowledge = lines[i].acknowledge
                /\ (sections[k].asks \/ sections[k].kind = "operator-only") <=>
                      \E r \in DOMAIN index : index[r].number = i /\ index[r].id = sections[k].id
  <2>1. PICK k \in 1..n : order[k] = i
    BY <1>1
  <2>2. (sections[k].asks \/ sections[k].kind = "operator-only") <=> i \in NeedsOperator(plan)
    BY <1>1, <1>6, <2>1 DEF NeedsOperator
  <2>3. i \in NeedsOperator(plan) <=>
           \E r \in DOMAIN index : index[r].number = i /\ index[r].id = sections[k].id
    BY <1>4, <1>6, <2>1
  <2>. QED
    BY <1>3, <1>6, <2>1, <2>2, <2>3
<1>10. printed.census.destructive = Cardinality({k \in DOMAIN sections : sections[k].banner})
  <2>. DEFINE T == {i \in 1..n : plan.steps[i].destructive}
  <2>1. {k \in DOMAIN sections : sections[k].banner} = Places(order, T)
    BY <1>1, <1>6 DEF Places
  <2>2. Cardinality(Places(order, T)) = Cardinality(T)
    <3>1. T \subseteq 1..n /\ n \in Nat
      BY <1>1
    <3>. HIDE DEF T
    <3>. QED
      BY <1>2, <3>1, CountsAgree
  <2>. QED
    BY <1>5, <2>1, <2>2
<1>11. printed.census.operatorOnly =
          Cardinality({k \in DOMAIN sections : sections[k].kind = "operator-only"})
  <2>. DEFINE T == {i \in 1..n : plan.steps[i].kind = "operator-only"}
  <2>1. {k \in DOMAIN sections : sections[k].kind = "operator-only"} =
           Places(order, T)
    BY <1>1, <1>6 DEF Places
  <2>2. Cardinality(Places(order, T)) = Cardinality(T)
    <3>1. T \subseteq 1..n /\ n \in Nat
      BY <1>1
    <3>. HIDE DEF T
    <3>. QED
      BY <1>2, <3>1, CountsAgree
  <2>. QED
    BY <1>5, <2>1, <2>2
<1>. HIDE DEF sections, index
<1>. QED
  BY <1>3, <1>4, <1>5, <1>7, <1>8, <1>9, <1>10, <1>11 DEF SheetShows, printed, sections, index, lines

-----------------------------------------------------------------------------
(***************************************************************************)
(* Plans, their digests and their graphs.                                  *)
(***************************************************************************)
\* findCycle is given a graph: every dependency is a step of the plan.
LEMMA DependenciesAreGraph ==
    ASSUME NEW plan, IsPlan(plan), Searchable(plan)
    PROVE  IsGraph(Dependencies(plan))
<1>1. \A i \in DOMAIN plan.steps :
         /\ plan.steps[i].id \in Nat /\ plan.steps[i].dependsOn \in Seq(Nat)
         /\ ToSet(plan.steps[i].dependsOn) \subseteq StepIDs(plan)
  BY DEF IsPlan, Searchable
<1>2. DOMAIN Dependencies(plan) = StepIDs(plan) /\ StepIDs(plan) \subseteq Nat
  BY <1>1 DEF Dependencies, StepIDs
<1>3. ASSUME NEW id \in StepIDs(plan)
      PROVE  Dependencies(plan)[id] \in Seq(StepIDs(plan))
  <2>1. PICK i \in DOMAIN plan.steps : Dependencies(plan)[id] = plan.steps[i].dependsOn
    <3>1. \E i \in DOMAIN plan.steps : plan.steps[i].id = id
      BY <1>3 DEF StepIDs
    <3>. QED
      BY <1>3, <3>1 DEF Dependencies
  <2>2. PICK s : s = plan.steps[i].dependsOn
    OBVIOUS
  <2>3. s \in Seq(Nat) /\ \A k \in DOMAIN s : s[k] \in StepIDs(plan)
    BY <1>1, <2>2 DEF ToSet
  <2>4. s \in Seq(StepIDs(plan))
    <3>1. s \in [1..Len(s) -> StepIDs(plan)] /\ Len(s) \in Nat
      BY <2>3
    <3>. QED
      BY <3>1
  <2>. QED
    BY <2>1, <2>2, <2>4
<1>4. IsFiniteSet(StepIDs(plan))
  <2>. DEFINE idOf == [i \in DOMAIN plan.steps |-> plan.steps[i].id]
  <2>1. idOf \in Surjection(DOMAIN plan.steps, StepIDs(plan))
    BY DEF Surjection, StepIDs
  <2>2. IsFiniteSet(DOMAIN plan.steps)
    <3>1. PICK s : s = plan.steps
      OBVIOUS
    <3>2. s \in Seq(ToSet(s))
      BY <3>1 DEF IsPlan
    <3>3. PICK n \in Nat : DOMAIN s = 1..n
      BY <3>2
    <3>4. IsFiniteSet(1..n)
      BY FS_Interval
    <3>. QED
      BY <3>1, <3>3, <3>4
  <2>. HIDE DEF idOf
  <2>. QED
    BY <2>1, <2>2, FS_Surjection
<1>. QED
  BY <1>2, <1>3, <1>4 DEF IsGraph

\* A plan that has the digest of its content is known by it.
LEMMA DigestTellsPlan ==
    ASSUME NEW plan, IsPlan(plan), Searchable(plan)
    PROVE  Sealed(plan.planDigest) = plan
<1>1. plan.planDigest[2] = [plan EXCEPT !.planDigest = Blank]
  BY DEF Searchable, CanonicalDigest, Digest
<1>2. Sealed(plan.planDigest) = [[plan EXCEPT !.planDigest = Blank] EXCEPT !.planDigest = plan.planDigest]
  BY <1>1 DEF Sealed
<1>3. PICK fields : plan = [field \in fields |-> plan[field]]
  BY DEF IsPlan
<1>. QED
  BY <1>2, <1>3

\* The digest is that of a plan.
LEMMA WrittenIsPlan ==
    ASSUME NEW plan, IsPlan(plan), NEW digest
    PROVE  IsPlan([plan EXCEPT !.planDigest = digest])
BY DEF IsPlan

LEMMA BoundPlan ==
    ASSUME NEW plan, IsPlan(plan), NEW anchors
    PROVE  /\ IsPlan(Bound(plan, anchors))
           /\ Bound(plan, anchors).steps = plan.steps
           /\ Bound(plan, anchors).profileDigest = anchors.profileDigest
           /\ Bound(plan, anchors).recoveryCommit = anchors.recoveryCommit
           /\ Bound(plan, anchors).checkpointDigest = anchors.checkpointDigest
BY DEF IsPlan, Bound

\* What bind refuses at once would not be valid.
LEMMA UnbindableIsInvalid ==
    ASSUME NEW plan, IsPlan(plan), NEW anchors, ~Bindable(plan, anchors)
    PROVE  ~Valid(Bound(plan, anchors))
<1>1. PICK bound : bound = Bound(plan, anchors)
  OBVIOUS
<1>2. /\ bound.steps = plan.steps
      /\ bound.profileDigest = anchors.profileDigest
      /\ bound.recoveryCommit = anchors.recoveryCommit
      /\ bound.checkpointDigest = anchors.checkpointDigest
  BY <1>1, BoundPlan
<1>3. ~Searchable(bound)
  <2>1. SUFFICES ASSUME Searchable(bound) PROVE Bindable(plan, anchors)
    OBVIOUS
  <2>2. \A i \in DOMAIN plan.steps : plan.steps[i].destructive => AsksOperator(plan.steps[i])
    BY <1>2, <2>1 DEF Searchable, ValidateStep
  <2>. QED
    BY <1>2, <2>1, <2>2 DEF Searchable, Bindable
<1>. QED
  BY <1>1, <1>3 DEF Valid

-----------------------------------------------------------------------------
(***************************************************************************)
(* The invariant.                                                          *)
(***************************************************************************)
\* A command that goes on to search has a plan that can be searched.
LEMMA ValidateKeeps ==
    ASSUME NEW cmd, NEW plan, IsPlan(plan), Validate(cmd, plan), SearchInv, JobInv
    PROVE  SearchInv' /\ JobInv'
<1>1. CASE Searchable(plan) /\ StartSearch(Dependencies(plan)) /\ job' = [cmd |-> cmd, plan |-> plan]
  <2>1. SearchInv'
    BY <1>1, DependenciesAreGraph, StartInv
  <2>2. job'.plan = plan /\ graph' = Dependencies(plan)
    BY <1>1 DEF StartSearch
  <2>. QED
    BY <1>1, <2>1, <2>2 DEF JobInv
<1>2. CASE UNCHANGED <<searchVars, job>>
  BY <1>2, NextInv DEF JobInv, searchVars
<1>. QED
  BY <1>1, <1>2 DEF Validate

\* No steps are a graph.
LEMMA NoSteps ==
    /\ DOMAIN <<>> = {}
    /\ IsGraph(<<>>)
    /\ \A S : <<>> \in [{} -> S]
<1>1. DOMAIN <<>> = {}
  OBVIOUS
<1>2. ASSUME NEW S PROVE <<>> \in [{} -> S]
  <2>1. <<>> \in Seq(S) /\ Len(<<>>) = 0
    OBVIOUS
  <2>2. <<>> \in [1..Len(<<>>) -> S]
    BY <2>1, LenProperties
  <2>3. 1..0 = {}
    OBVIOUS
  <2>. QED
    BY <2>1, <2>2, <2>3
<1>. QED
  BY <1>1, <1>2, FS_EmptySet DEF IsGraph

LEMMA NoSearchKeeps == NoSearch => SearchInv'
<1>. SUFFICES ASSUME NoSearch PROVE SearchInv'
  OBVIOUS
<1>0. /\ graph' = <<>> /\ state' = <<>> /\ stack' = <<>> /\ next' = <<>>
      /\ ids' = {} /\ cycle' = <<>> /\ searching' = FALSE
  BY DEF NoSearch
<1>1. SearchTypes'
  <2>1. <<>> \in [{} -> {0, 1, 2}] /\ <<>> \in [{} -> Nat \ {0}] /\ <<>> \in Seq({})
    BY NoSteps
  <2>. QED
    BY <1>0, <2>1, NoSteps DEF SearchTypes
<1>2. StackIsPath'
  BY <1>0 DEF StackIsPath
<1>3. DoneIsClosed' /\ DoneIsAcyclic'
  BY <1>0 DEF DoneIsClosed, DoneIsAcyclic
<1>. QED
  BY <1>0, <1>1, <1>2, <1>3 DEF SearchInv, CycleIsReal

\* The plan of a command is valid when its search has passed, and only then.
LEMMA PassedIsValid ==
    ASSUME CommandsInv, job # NoJob, ~searching
    PROVE  cycle = <<>> <=> Valid(job.plan)
<1>1. SearchInv /\ Searchable(job.plan) /\ graph = Dependencies(job.plan)
  BY DEF CommandsInv, JobInv
<1>2. cycle = <<>> => Acyclic(graph)
  BY <1>1, PassedIsAcyclic
<1>3. cycle # <<>> => ~Acyclic(graph)
  BY <1>1, CycleIsNoOrder
<1>. QED
  BY <1>1, <1>2, <1>3 DEF Valid

LEMMA CommandsInit == Init => CommandsInv
<1>. SUFFICES ASSUME Init PROVE CommandsInv
  OBVIOUS
<1>0. /\ graph = <<>> /\ state = <<>> /\ stack = <<>> /\ next = <<>>
      /\ ids = {} /\ cycle = <<>> /\ searching = FALSE
  BY DEF Init
<1>1. SearchTypes
  <2>1. <<>> \in [{} -> {0, 1, 2}] /\ <<>> \in [{} -> Nat \ {0}] /\ <<>> \in Seq({})
    BY NoSteps
  <2>. QED
    BY <1>0, <2>1, NoSteps DEF SearchTypes
<1>2. StackIsPath /\ DoneIsClosed /\ DoneIsAcyclic
  BY <1>0 DEF StackIsPath, DoneIsClosed, DoneIsAcyclic
<1>3. SearchInv
  BY <1>0, <1>1, <1>2 DEF SearchInv, CycleIsReal
<1>4. IsPlan(file)
  BY DraftsArePlans DEF Init
<1>. QED
  BY <1>3, <1>4 DEF Init, CommandsInv, JobInv, SheetInv, RecordInv

LEMMA CommandsNext == CommandsInv /\ [Next]_vars => CommandsInv'
<1>. SUFFICES ASSUME CommandsInv, [Next]_vars PROVE CommandsInv'
  OBVIOUS
<1>0. SearchInv /\ IsPlan(file) /\ JobInv /\ SheetInv /\ RecordInv
  BY DEF CommandsInv
<1>u. ASSUME UNCHANGED searchVars PROVE SearchInv' /\ graph' = graph
  BY <1>0, <1>u, NextInv DEF searchVars
<1>1. CASE Author
  <2>1. PICK draft \in Drafts : \E digest : file' = [draft EXCEPT !.planDigest = digest]
    BY <1>1 DEF Author
  <2>2. IsPlan(file)'
    BY <2>1, DraftsArePlans, WrittenIsPlan
  <2>3. UNCHANGED <<searchVars, sheet, record, job>>
    BY <1>1 DEF Author
  <2>. QED
    BY <1>0, <1>u, <2>2, <2>3 DEF CommandsInv, JobInv, SheetInv, RecordInv
<1>2. CASE Transcribe
  <2>1. UNCHANGED <<searchVars, file, sheet, job>> /\ sheet # NoSheet
    BY <1>2 DEF Transcribe
  <2>2. record'.planDigest = sheet.planDigest /\ record'.checkpointDigest = sheet.checkpointDigest
    BY <1>2 DEF Transcribe
  <2>. QED
    BY <1>0, <1>u, <2>1, <2>2 DEF CommandsInv, JobInv, SheetInv, RecordInv
<1>3. CASE Start
  <2>1. PICK cmd : Validate(cmd, file)
    BY <1>3 DEF Start
  <2>2. SearchInv' /\ JobInv'
    BY <1>0, <2>1, ValidateKeeps
  <2>. QED
    BY <1>0, <1>3, <2>2 DEF Start, CommandsInv, SheetInv, RecordInv
<1>4. CASE StartBind
  <2>1. PICK anchors \in Bindings :
           Validate("bind", Bound(file, anchors)) \/ UNCHANGED <<searchVars, job>>
    BY <1>4 DEF StartBind
  <2>2. SearchInv' /\ JobInv'
    <3>1. CASE Validate("bind", Bound(file, anchors))
      <4>1. IsPlan(Bound(file, anchors))
        BY <1>0, BoundPlan
      <4>. QED
        BY <1>0, <3>1, <4>1, ValidateKeeps
    <3>2. CASE UNCHANGED <<searchVars, job>>
      BY <1>0, <1>u, <3>2 DEF JobInv
    <3>. QED
      BY <2>1, <3>1, <3>2
  <2>. QED
    BY <1>0, <1>4, <2>2 DEF StartBind, CommandsInv, SheetInv, RecordInv
<1>5. CASE Search
  <2>1. SearchInv' /\ graph' = graph
    BY <1>0, <1>5, NextInv
    DEF Search, SearchNext, VisitStep, VisitDependency, Leave, EndSearch
  <2>. QED
    BY <1>0, <1>5, <2>1 DEF Search, CommandsInv, JobInv, SheetInv, RecordInv
<1>6. ASSUME NEW said, End(said) PROVE SearchInv' /\ JobInv'
  BY <1>6, NoSearchKeeps DEF End, JobInv
<1>7. CASE ReportCycle \/ EndRead \/ EndConfirm
  <2>1. UNCHANGED <<file, sheet, record>> /\ \E said : End(said)
    BY <1>7 DEF ReportCycle, EndRead, EndConfirm
  <2>. QED
    BY <1>0, <1>6, <2>1 DEF CommandsInv, SheetInv, RecordInv
<1>8. CASE EndBind
  <2>1. file' = job.plan /\ IsPlan(job.plan) /\ UNCHANGED <<sheet, record>> /\ End("bound")
    BY <1>0, <1>8 DEF EndBind, Passed, JobInv
  <2>. QED
    BY <1>0, <1>6, <2>1 DEF CommandsInv, SheetInv, RecordInv
<1>9. CASE EndRunsheet
  <2>1. /\ sheet' = Runsheet(job.plan) /\ record' = NoRecord /\ file' = file /\ End("printed")
        /\ job # NoJob /\ ~searching /\ cycle = <<>>
    BY <1>9 DEF EndRunsheet, Passed
  <2>2. IsPlan(job.plan) /\ Valid(job.plan) /\ Searchable(job.plan)
    BY <1>0, <2>1, PassedIsValid DEF JobInv
  <2>3. Runsheet(job.plan).planDigest = job.plan.planDigest
    BY DEF Runsheet
  <2>4. SheetInv'
    BY <2>1, <2>2, <2>3, DigestTellsPlan DEF SheetInv
  <2>. QED
    BY <1>0, <1>6, <2>1, <2>4 DEF CommandsInv, RecordInv
<1>10. CASE UNCHANGED vars
  BY <1>0, <1>10, <1>u DEF vars, CommandsInv, JobInv, SheetInv, RecordInv
<1>. QED
  BY <1>1, <1>2, <1>3, <1>4, <1>5, <1>7, <1>8, <1>9, <1>10 DEF Next, Command

\* For any drafts and anchors: a command searches the plan it has read, and
\* every sheet is that of the valid plan its digest tells.
THEOREM Commands == Spec => []CommandsInv
<1>. QED
  BY CommandsInit, CommandsNext, PTL DEF Spec

\* A cycle that plan validate names is one of the plan, and a plan that it
\* passes has none: the properties of findCycle for the search that the
\* commands run, again and again.
THEOREM NamedCyclesAreReal == Spec => []CycleIsReal
<1>1. CommandsInv => CycleIsReal
  BY DEF CommandsInv, SearchInv
<1>. QED
  BY <1>1, Commands, PTL

THEOREM SearchedPlansAreAcyclic == Spec => []NoCycleMissed
<1>1. CommandsInv => NoCycleMissed
  BY PassedIsAcyclic DEF CommandsInv, NoCycleMissed
<1>. QED
  BY <1>1, Commands, PTL

\* No command searches for ever.
THEOREM CommandsAdvance == Spec => SearchAdvances
<1>1. CommandsInv => [SearchNext /\ searching' => Left' < Left]_searchVars
  BY StepAdvances DEF CommandsInv
<1>. QED
  BY <1>1, Commands, PTL DEF Spec, SearchAdvances

\* The run sheet of every plan file, of any length and with any phases, shows
\* each step once, under its number, and names the steps that need the
\* operator.
THEOREM SheetsAreComplete == Spec => []SheetIsComplete
<1>1. CommandsInv => SheetIsComplete
  <2>. SUFFICES ASSUME CommandsInv PROVE SheetShows(file)
    BY DEF SheetIsComplete
  <2>1. file.steps \in Seq(ToSet(file.steps))
    BY DEF CommandsInv, IsPlan
  <2>. QED
    BY <2>1, SheetShowsPlan
<1>. QED
  BY <1>1, Commands, PTL

-----------------------------------------------------------------------------
(***************************************************************************)
(* Confirmations.                                                          *)
(***************************************************************************)
Banners(printed) == {k \in DOMAIN printed.sections : printed.sections[k].banner}

\* What PlanReview demands of a record besides its digests.
Acknowledges(doc, printed) ==
    /\ doc.signed
    /\ DOMAIN doc.acknowledged = {printed.sections[k].id : k \in Banners(printed)}
    /\ \A k \in Banners(printed) :
          doc.acknowledged[printed.sections[k].id] = printed.sections[k].acknowledge

\* The banners of a sheet are the destructive steps of its plan.
LEMMA BannersAreDestructive ==
    ASSUME NEW plan, IsPlan(plan), Searchable(plan),
           NEW printed, printed = Runsheet(plan)
    PROVE  /\ \A k \in Banners(printed) : \E i \in DOMAIN plan.steps :
                 /\ plan.steps[i].destructive
                 /\ printed.sections[k].id = plan.steps[i].id
                 /\ printed.sections[k].acknowledge = plan.steps[i].confirmation.acknowledgeWith
                 /\ printed.sections[k].acknowledge # Blank
           /\ \A i \in DOMAIN plan.steps : plan.steps[i].destructive =>
                 \E k \in Banners(printed) :
                    /\ printed.sections[k].id = plan.steps[i].id
                    /\ printed.sections[k].acknowledge = plan.steps[i].confirmation.acknowledgeWith
<1>. DEFINE n == Len(plan.steps)
            order == SheetOrder(plan)
<1>1. /\ DOMAIN plan.steps = 1..n
      /\ printed.sections = [k \in 1..n |-> Section(order[k], plan.steps[order[k]])]
      /\ \A k \in 1..n : order[k] \in 1..n
      /\ \A i \in 1..n : \E k \in 1..n : order[k] = i
  <2>1. plan.steps \in Seq(ToSet(plan.steps))
    BY DEF IsPlan
  <2>. QED
    BY <2>1, SectionsOfSteps
<1>. HIDE DEF n, order
<1>2. \A i \in DOMAIN plan.steps : plan.steps[i].destructive =>
         /\ AcknowledgeWith(plan.steps[i]) = plan.steps[i].confirmation.acknowledgeWith
         /\ AcknowledgeWith(plan.steps[i]) # Blank
  BY DEF Searchable, ValidateStep, AsksOperator, AcknowledgeWith
<1>3. \A k \in 1..n :
         /\ printed.sections[k].id = plan.steps[order[k]].id
         /\ printed.sections[k].banner = plan.steps[order[k]].destructive
         /\ printed.sections[k].acknowledge = AcknowledgeWith(plan.steps[order[k]])
  BY <1>1 DEF Section
<1>4. DOMAIN printed.sections = 1..n
  BY <1>1
<1>5. ASSUME NEW k \in Banners(printed)
      PROVE  \E i \in DOMAIN plan.steps :
                /\ plan.steps[i].destructive
                /\ printed.sections[k].id = plan.steps[i].id
                /\ printed.sections[k].acknowledge = plan.steps[i].confirmation.acknowledgeWith
                /\ printed.sections[k].acknowledge # Blank
  <2>1. k \in 1..n /\ order[k] \in DOMAIN plan.steps /\ plan.steps[order[k]].destructive
    BY <1>1, <1>3, <1>4 DEF Banners
  <2>. QED
    BY <1>2, <1>3, <2>1
<1>6. ASSUME NEW i \in DOMAIN plan.steps, plan.steps[i].destructive
      PROVE  \E k \in Banners(printed) :
                /\ printed.sections[k].id = plan.steps[i].id
                /\ printed.sections[k].acknowledge = plan.steps[i].confirmation.acknowledgeWith
  <2>1. PICK k \in 1..n : order[k] = i
    BY <1>1
  <2>2. k \in Banners(printed)
    BY <1>3, <1>4, <1>6, <2>1 DEF Banners
  <2>. QED
    BY <1>2, <1>3, <1>6, <2>1, <2>2
<1>. QED
  BY <1>5, <1>6

\* A confirmation with the digests of a plan is valid exactly when it
\* acknowledges what the sheet of the plan asks for its banners.
LEMMA ConfirmsSheet ==
    ASSUME NEW plan, IsPlan(plan), Searchable(plan),
           NEW doc, doc.planDigest = plan.planDigest,
           doc.checkpointDigest = plan.checkpointDigest
    PROVE  Confirms(doc, plan) <=> Acknowledges(doc, Runsheet(plan))
<1>1. PICK printed : printed = Runsheet(plan)
  OBVIOUS
<1>2. /\ \A k \in Banners(printed) : \E i \in DOMAIN plan.steps :
            /\ plan.steps[i].destructive
            /\ printed.sections[k].id = plan.steps[i].id
            /\ printed.sections[k].acknowledge = plan.steps[i].confirmation.acknowledgeWith
      /\ \A i \in DOMAIN plan.steps : plan.steps[i].destructive =>
            \E k \in Banners(printed) :
               /\ printed.sections[k].id = plan.steps[i].id
               /\ printed.sections[k].acknowledge = plan.steps[i].confirmation.acknowledgeWith
  BY <1>1, BannersAreDestructive
<1>3. ASSUME Confirms(doc, plan) PROVE Acknowledges(doc, printed)
  <2>1. \A id \in DOMAIN doc.acknowledged :
           \E i \in DOMAIN plan.steps : plan.steps[i].id = id /\ plan.steps[i].destructive
    BY <1>3 DEF Confirms
  <2>2. \A i \in DOMAIN plan.steps : plan.steps[i].destructive =>
           /\ plan.steps[i].id \in DOMAIN doc.acknowledged
           /\ doc.acknowledged[plan.steps[i].id] = plan.steps[i].confirmation.acknowledgeWith
    BY <1>3 DEF Confirms
  <2>3. DOMAIN doc.acknowledged = {printed.sections[k].id : k \in Banners(printed)}
    BY <1>2, <2>1, <2>2
  <2>4. \A k \in Banners(printed) :
           doc.acknowledged[printed.sections[k].id] = printed.sections[k].acknowledge
    BY <1>2, <2>2
  <2>. QED
    BY <1>3, <2>3, <2>4 DEF Confirms, Acknowledges
<1>4. ASSUME Acknowledges(doc, printed) PROVE Confirms(doc, plan)
  <2>1. \A id \in DOMAIN doc.acknowledged :
           \E i \in DOMAIN plan.steps : plan.steps[i].id = id /\ plan.steps[i].destructive
    BY <1>2, <1>4 DEF Acknowledges
  <2>2. \A i \in DOMAIN plan.steps : plan.steps[i].destructive =>
           /\ plan.steps[i].id \in DOMAIN doc.acknowledged
           /\ doc.acknowledged[plan.steps[i].id] = plan.steps[i].confirmation.acknowledgeWith
    BY <1>2, <1>4 DEF Acknowledges
  <2>. QED
    BY <1>4, <2>1, <2>2 DEF Confirms, Acknowledges
<1>. QED
  BY <1>1, <1>3, <1>4

\* A record confirms the plan of a command exactly when it was written from the
\* sheet of this plan and acknowledges its banners.
LEMMA ConfirmsAsPrinted ==
    ASSUME CommandsInv, job # NoJob, record # NoRecord
    PROVE  Confirms(record, job.plan) <=> sheet = Runsheet(job.plan) /\ Acknowledges(record, sheet)
<1>0. /\ IsPlan(job.plan) /\ Searchable(job.plan) /\ sheet # NoSheet
      /\ record.planDigest = sheet.planDigest
      /\ record.checkpointDigest = sheet.checkpointDigest
  BY DEF CommandsInv, JobInv, RecordInv
<1>1. PICK plan : plan = Sealed(sheet.planDigest)
  OBVIOUS
<1>2. IsPlan(plan) /\ Searchable(plan) /\ sheet = Runsheet(plan)
  BY <1>0, <1>1 DEF CommandsInv, SheetInv, Valid
<1>3. /\ sheet.planDigest = plan.planDigest
      /\ sheet.checkpointDigest = plan.checkpointDigest
  BY <1>2 DEF Runsheet
<1>4. ASSUME record.planDigest = job.plan.planDigest PROVE plan = job.plan
  BY <1>0, <1>1, <1>4, DigestTellsPlan
<1>5. ASSUME Confirms(record, job.plan)
      PROVE  sheet = Runsheet(job.plan) /\ Acknowledges(record, sheet)
  <2>1. plan = job.plan
    BY <1>4, <1>5 DEF Confirms
  <2>. QED
    BY <1>0, <1>2, <1>3, <1>5, <2>1, ConfirmsSheet
<1>6. ASSUME sheet = Runsheet(job.plan), Acknowledges(record, sheet)
      PROVE  Confirms(record, job.plan)
  <2>1. /\ sheet.planDigest = job.plan.planDigest
        /\ sheet.checkpointDigest = job.plan.checkpointDigest
    BY <1>6 DEF Runsheet
  <2>. QED
    BY <1>0, <1>6, <2>1, ConfirmsSheet
<1>. QED
  BY <1>5, <1>6

\* Only a valid confirmation ends a command as confirmed.
LEMMA ConfirmingStep ==
    ASSUME CommandsInv, Next, Confirming, answer' = "confirmed"
    PROVE  /\ job # NoJob /\ record # NoRecord
           /\ sheet = Runsheet(job.plan) /\ Acknowledges(record, sheet)
<1>0. job # NoJob /\ job' = NoJob
  BY DEF Confirming
<1>1. ~Author /\ ~Transcribe /\ ~Start /\ ~StartBind /\ ~Search
  BY <1>0 DEF Author, Transcribe, Start, StartBind, Search
<1>2. ~ReportCycle /\ ~EndRead /\ ~EndBind /\ ~EndRunsheet
  BY DEF ReportCycle, EndRead, EndBind, EndRunsheet, End
<1>3. EndConfirm
  BY <1>1, <1>2 DEF Next, Command
<1>4. record # NoRecord /\ Confirms(record, job.plan)
  BY <1>3 DEF EndConfirm, End
<1>. QED
  BY <1>0, <1>4, ConfirmsAsPrinted

\* For any drafts, anchors and edits: a confirmation passes only for the plan
\* that its sheet shows.
THEOREM ConfirmationsAreOfTheSheet == Spec => ConfirmedAsPrinted
<1>1. CommandsInv /\ [Next]_vars =>
         [Confirming /\ answer' = "confirmed" => sheet = Runsheet(job.plan)]_vars
  BY ConfirmingStep
<1>. QED
  BY <1>1, Commands, PTL DEF Spec, ConfirmedAsPrinted

\* A confirmation passes only if every banner of its sheet has its text
\* recorded word for word, and nothing else is recorded.
THEOREM BannersAreAcknowledged == Spec => EveryBannerAcknowledged
<1>. DEFINE Recorded ==
        LET banners == {k \in DOMAIN sheet.sections : sheet.sections[k].banner} IN
        /\ DOMAIN record.acknowledged = {sheet.sections[k].id : k \in banners}
        /\ \A k \in banners :
              LET section == sheet.sections[k] IN
              /\ section.acknowledge # Blank
              /\ record.acknowledged[section.id] = section.acknowledge
<1>1. ASSUME CommandsInv, Next, Confirming, answer' = "confirmed"
      PROVE  Recorded
  <2>1. job # NoJob /\ sheet = Runsheet(job.plan) /\ Acknowledges(record, sheet)
    BY <1>1, ConfirmingStep
  <2>2. IsPlan(job.plan) /\ Searchable(job.plan)
    BY <1>1, <2>1 DEF CommandsInv, JobInv
  <2>3. \A k \in Banners(sheet) : sheet.sections[k].acknowledge # Blank
    BY <2>1, <2>2, BannersAreDestructive
  <2>. QED
    BY <2>1, <2>3 DEF Acknowledges, Banners
<1>2. CommandsInv /\ [Next]_vars =>
         [Confirming /\ answer' = "confirmed" => Recorded]_vars
  BY <1>1
<1>. QED
  BY <1>2, Commands, PTL DEF Spec, EveryBannerAcknowledged

-----------------------------------------------------------------------------
(***************************************************************************)
(* The refinement.                                                         *)
(***************************************************************************)
\* To validate is to take a plan, or to refuse one that is not valid.
LEMMA ValidateTakes ==
    ASSUME NEW cmd, NEW plan, Validate(cmd, plan)
    PROVE  Review!Take(cmd, plan)
BY DEF Validate, Valid, Review!Take

LEMMA StartRefines ==
    ASSUME CommandsInv, Start \/ StartBind
    PROVE  Review!Begin
<1>1. CASE Start
  BY <1>1, ValidateTakes DEF Start, Review!Begin
<1>2. CASE StartBind
  <2>1. PICK anchors \in Bindings :
           \/ Validate("bind", Bound(file, anchors))
           \/ ~Bindable(file, anchors) /\ answer' = "refused" /\ UNCHANGED job
    BY <1>2 DEF StartBind
  <2>2. Review!Take("bind", Bound(file, anchors))
    <3>1. CASE Validate("bind", Bound(file, anchors))
      BY <3>1, ValidateTakes
    <3>2. CASE ~Bindable(file, anchors) /\ answer' = "refused" /\ UNCHANGED job
      <4>1. ~Valid(Bound(file, anchors))
        BY <3>2, UnbindableIsInvalid DEF CommandsInv
      <4>. QED
        BY <3>2, <4>1 DEF Review!Take
    <3>. QED
      BY <2>1, <3>1, <3>2
  <2>. QED
    BY <1>2, <2>2 DEF StartBind, Review!Begin
<1>. QED
  BY <1>1, <1>2

LEMMA EndRefines ==
    ASSUME CommandsInv, ReportCycle \/ EndRead \/ EndBind \/ EndRunsheet
    PROVE  Review!Next
<1>1. job # NoJob /\ ~searching
  BY DEF ReportCycle, EndRead, EndBind, EndRunsheet, Passed
<1>2. cycle = <<>> <=> Valid(job.plan)
  BY <1>1, PassedIsValid
<1>3. CASE ReportCycle
  BY <1>2, <1>3 DEF ReportCycle, End, Review!Next, Review!Refuse, Review!Answer
<1>4. CASE EndRead
  BY <1>2, <1>4 DEF EndRead, Passed, End, Review!Next, Review!Read, Review!Passes, Review!Answer
<1>5. CASE EndBind
  BY <1>2, <1>5 DEF EndBind, Passed, End, Review!Next, Review!Bind, Review!Passes, Review!Answer
<1>6. CASE EndRunsheet
  BY <1>2, <1>6
  DEF EndRunsheet, Passed, End, Review!Next, Review!PrintSheet, Review!Passes, Review!Answer
<1>. QED
  BY <1>3, <1>4, <1>5, <1>6

LEMMA ConfirmRefines ==
    ASSUME CommandsInv, EndConfirm
    PROVE  Review!Confirm
<1>1. /\ job # NoJob /\ ~searching /\ cycle = <<>> /\ job.cmd = "confirm"
      /\ UNCHANGED <<file, sheet, record>> /\ job' = NoJob
      /\ answer' = IF record # NoRecord /\ Confirms(record, job.plan) THEN "confirmed" ELSE "refused"
  BY DEF EndConfirm, Passed, End
<1>2. Review!Passes("confirm")
  BY <1>1, PassedIsValid DEF Review!Passes
<1>3. Review!Fulfilled <=> Acknowledges(record, sheet)
  BY DEF Review!Fulfilled, Acknowledges, Banners
<1>4. record # NoRecord =>
         (Confirms(record, job.plan) <=> sheet = Runsheet(job.plan) /\ Review!Fulfilled)
  BY <1>1, <1>3, ConfirmsAsPrinted
<1>. QED
  BY <1>1, <1>2, <1>4 DEF Review!Confirm, Review!Answer

\* For any drafts, anchors and edits, the commands with their digests and their
\* search are what PlanReview says of plans and sheets alone.
THEOREM PlanCommandsImplementReview == Spec => ImplementsReview
<1>1. Init => Review!Init
  BY DEF Init, Review!Init
<1>2. CommandsInv /\ [Next]_vars => [Review!Next]_<<file, sheet, record, job, answer>>
  <2>. SUFFICES ASSUME CommandsInv, [Next]_vars
                PROVE  [Review!Next]_<<file, sheet, record, job, answer>>
    OBVIOUS
  <2>1. CASE Author \/ Transcribe
    <3>1. Review!Write
      BY <2>1 DEF Author, Transcribe, Review!Write
    <3>. QED
      BY <3>1 DEF Review!Next
  <2>2. CASE Start \/ StartBind
    BY <2>2, StartRefines DEF Review!Next
  <2>3. CASE Search \/ UNCHANGED vars
    BY <2>3 DEF Search, vars
  <2>4. CASE ReportCycle \/ EndRead \/ EndBind \/ EndRunsheet
    BY <2>4, EndRefines
  <2>5. CASE EndConfirm
    BY <2>5, ConfirmRefines DEF Review!Next
  <2>. QED
    BY <2>1, <2>2, <2>3, <2>4, <2>5 DEF Next, Command
<1>. QED
  BY <1>1, <1>2, Commands, PTL DEF Spec, ImplementsReview, Review!Spec
===============================================================================
