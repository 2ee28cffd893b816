------------------------------ MODULE Lemmas --------------------------------
(***************************************************************************)
(* Facts the proofs need about sets of naturals, prefixes of sequences and *)
(* sums over finite sets, none of them about this system.                  *)
(***************************************************************************)
EXTENDS Sums, SequencesExt, SequenceTheorems, FiniteSetTheorems, FunctionTheorems,
        WellFoundedInduction, TLAPS

-----------------------------------------------------------------------------
(* Naturals. *)

(* A set of naturals that is not empty has a least element.                *)
LEMMA LeastNatural ==
  ASSUME NEW T, T \subseteq Nat, T # {}
  PROVE  \E x \in T : \A y \in T : x <= y
<1>. DEFINE Less == {p \in Nat \X Nat : p[1] < p[2]}
<1>1. OpToRel(<, Nat) = Less
  BY DEF OpToRel
<1>. HIDE DEF Less
<1>2. IsWellFoundedOn(Less, Nat)
  BY <1>1, NatLessThanWellFounded
<1>3. PICK x \in T : \A y \in T : ~ (<<y, x>> \in Less)
  BY <1>2, WFMin
<1>4. ASSUME NEW y \in T PROVE x <= y
  <2>1. x \in Nat /\ y \in Nat /\ <<y, x>> \notin Less
    BY <1>3
  <2>2. ~ (y < x)
    BY <2>1 DEF Less
  <2>. QED  BY <2>1, <2>2
<1>. QED  BY <1>4

(* Induction, for a set of naturals.                                       *)
LEMMA InductiveSet ==
  ASSUME NEW S, 0 \in S, \A n \in Nat : n \in S => n + 1 \in S
  PROVE  Nat \subseteq S
<1>. SUFFICES ASSUME Nat \ S # {} PROVE FALSE
  OBVIOUS
<1>1. PICK x \in Nat \ S : \A y \in Nat \ S : x <= y
  BY LeastNatural
<1>2. x # 0 /\ x - 1 \in Nat /\ ~ (x <= x - 1)
  OBVIOUS
<1>3. x - 1 \in S
  BY <1>1, <1>2
<1>4. (x - 1) + 1 = x
  OBVIOUS
<1>. QED  BY <1>2, <1>3, <1>4

-----------------------------------------------------------------------------
(* Prefixes. *)

(* A prefix is the beginning of what it is a prefix of.                    *)
LEMMA PrefixIsSubSeq ==
  ASSUME NEW S, NEW s \in Seq(S), NEW t \in Seq(S), IsPrefix(s, t)
  PROVE  Len(s) \in 0 .. Len(t) /\ s = SubSeq(t, 1, Len(s))
<1>1. Len(s) \in Nat /\ Len(t) \in Nat /\ Len(s) <= Len(t)
  BY DEF IsPrefix
<1>2. SubSeq(s, 1, Len(s)) = s
  BY SubSeqFull
<1>. QED  BY <1>1, <1>2 DEF IsPrefix

(* Every sequence is a prefix of itself.                                   *)
LEMMA PrefixReflexive ==
  ASSUME NEW S, NEW s \in Seq(S)
  PROVE  IsPrefix(s, s)
BY DEF IsPrefix

(* Nothing is a prefix of everything.                                      *)
LEMMA EmptyIsPrefix ==
  ASSUME NEW S, NEW s \in Seq(S)
  PROVE  IsPrefix(<<>>, s)
<1>1. Len(<<>>) = 0 /\ Len(s) \in Nat
  OBVIOUS
<1>2. SubSeq(<<>>, 1, 0) = <<>> /\ SubSeq(s, 1, 0) = <<>>
  BY SubSeqEmpty
<1>. QED  BY <1>1, <1>2 DEF IsPrefix

(* A prefix agrees with the longer sequence at each of its places.         *)
LEMMA PrefixPointwise ==
  ASSUME NEW S, NEW s \in Seq(S), NEW t \in Seq(S)
  PROVE  IsPrefix(s, t) <=> Len(s) <= Len(t) /\ \A i \in 1 .. Len(s) : s[i] = t[i]
<1>. DEFINE n == Len(s)
<1>0. n \in Nat /\ Len(t) \in Nat /\ SubSeq(s, 1, n) = s
  BY SubSeqFull
<1>. SUFFICES ASSUME n <= Len(t)
              PROVE  SubSeq(t, 1, n) = s <=> \A i \in 1 .. n : s[i] = t[i]
  BY <1>0 DEF IsPrefix
<1>1. \A i \in 1 .. n : t[i] \in S
  BY <1>0, ElementOfSeq
<1>2. /\ SubSeq(t, 1, n) \in Seq(S)
      /\ Len(SubSeq(t, 1, n)) = n
      /\ \A i \in 1 .. n : SubSeq(t, 1, n)[i] = t[i]
  <2>1. /\ SubSeq(t, 1, n) \in Seq(S)
        /\ Len(SubSeq(t, 1, n)) = IF 1 <= n THEN n - 1 + 1 ELSE 0
        /\ \A i \in 1 .. n - 1 + 1 : SubSeq(t, 1, n)[i] = t[1 + i - 1]
    BY <1>0, <1>1, SubSeqProperties
  <2>. QED  BY <1>0, <2>1
<1>3. ASSUME \A i \in 1 .. n : s[i] = t[i] PROVE SubSeq(t, 1, n) = s
  BY <1>2, <1>3, SeqEqual
<1>. QED  BY <1>2, <1>3

(* Prefixes of prefixes are prefixes.                                      *)
LEMMA PrefixTransitive ==
  ASSUME NEW S, NEW s \in Seq(S), NEW t \in Seq(S), NEW u \in Seq(S),
         IsPrefix(s, t), IsPrefix(t, u)
  PROVE  IsPrefix(s, u)
BY PrefixPointwise

(* A log that grows keeps its beginning.                                   *)
LEMMA PrefixOfAppend ==
  ASSUME NEW S, NEW s \in Seq(S), NEW e \in S
  PROVE  IsPrefix(s, Append(s, e)) /\ Append(s, e) \in Seq(S)
<1>. DEFINE t == Append(s, e)
<1>1. t \in Seq(S) /\ Len(s) \in Nat /\ Len(t) = Len(s) + 1
  BY AppendProperties
<1>2. \A i \in 1 .. Len(s) : s[i] = t[i]
  BY AppendProperties
<1>. HIDE DEF t
<1>3. IsPrefix(s, t)
  BY <1>1, <1>2, PrefixPointwise
<1>. QED  BY <1>1, <1>3 DEF t

-----------------------------------------------------------------------------
(* Sums. *)

\* The member of s a sum takes first.
Picked(s) == CHOOSE x \in s : TRUE

(* One step of a sum of the values of f, with the sums of smaller sets.    *)
Summand(f, it, s) == IF s = {} THEN 0 ELSE f[Picked(s)] + it[s \ {Picked(s)}]

\* it gives every set inside S the sum of f over it.
Iterates(it, f, S) == it = [s \in SUBSET S |-> Summand(f, it, s)]

(* There is such an iteration over every finite set.                       *)
LEMMA IterationExists ==
  ASSUME NEW S, IsFiniteSet(S), NEW f
  PROVE  \E it : Iterates(it, f, S)
<1>. DEFINE Below(n) == {s \in SUBSET S : Cardinality(s) <= n}
            Good == {n \in Nat : \E it : it = [s \in SUBSET S |-> it[s]]
                                  /\ \A s \in Below(n) : it[s] = Summand(f, it, s)}
<1>1. \A s \in SUBSET S : IsFiniteSet(s) /\ Cardinality(s) \in Nat
  BY FS_Subset, FS_CardinalityType
<1>2. \A s \in SUBSET S : s # {} => /\ s \ {Picked(s)} \in SUBSET S
                                    /\ Cardinality(s \ {Picked(s)}) = Cardinality(s) - 1
  <2>. SUFFICES ASSUME NEW s \in SUBSET S, s # {}
                PROVE  Cardinality(s \ {Picked(s)}) = Cardinality(s) - 1
    OBVIOUS
  <2>1. Picked(s) \in s
    BY DEF Picked
  <2>. QED  BY <2>1, <1>1, FS_RemoveElement
<1>3. 0 \in Good
  <2>. DEFINE it == [s \in SUBSET S |-> 0]
  <2>1. \A s \in Below(0) : s = {}
    BY <1>1, FS_EmptySet
  <2>2. \A s \in Below(0) : it[s] = Summand(f, it, s)
    BY <2>1 DEF Summand
  <2>3. it = [s \in SUBSET S |-> it[s]]
    OBVIOUS
  <2>. HIDE DEF it
  <2>. QED  BY <2>2, <2>3
<1>4. ASSUME NEW n \in Nat, n \in Good PROVE n + 1 \in Good
  <2>1. PICK it : it = [s \in SUBSET S |-> it[s]] /\ \A s \in Below(n) : it[s] = Summand(f, it, s)
    BY <1>4
  <2>. DEFINE next == [s \in SUBSET S |-> Summand(f, it, s)]
  <2>2. \A s \in SUBSET S : next[s] = Summand(f, it, s)
    OBVIOUS
  <2>3. next = [s \in SUBSET S |-> next[s]]
    OBVIOUS
  <2>. HIDE DEF next
  <2>4. ASSUME NEW s \in Below(n + 1) PROVE next[s] = Summand(f, next, s)
    <3>1. CASE s = {}
      BY <3>1, <2>2 DEF Summand
    <3>2. CASE s # {}
      <4>. DEFINE r == s \ {Picked(s)}
      <4>1. r \in SUBSET S /\ Cardinality(r) = Cardinality(s) - 1
        BY <3>2, <1>2
      <4>2. r \in Below(n)
        BY <4>1, <1>1
      <4>3. next[r] = it[r]
        BY <4>1, <4>2, <2>1, <2>2
      <4>. QED  BY <3>2, <4>3, <2>2 DEF Summand
    <3>. QED  BY <3>1, <3>2
  <2>5. n + 1 \in Nat
    OBVIOUS
  <2>. QED  BY <2>3, <2>4, <2>5
<1>5. Cardinality(S) \in Good
  <2>. HIDE DEF Good
  <2>1. Nat \subseteq Good
    BY <1>3, <1>4, InductiveSet
  <2>. QED  BY <2>1, <1>1
<1>6. PICK it : it = [s \in SUBSET S |-> it[s]] /\ \A s \in Below(Cardinality(S)) : it[s] = Summand(f, it, s)
  BY <1>5
<1>7. \A s \in SUBSET S : Cardinality(s) <= Cardinality(S)
  BY FS_Subset
<1>8. \A s \in SUBSET S : it[s] = Summand(f, it, s)
  BY <1>6, <1>7
<1>9. [s \in SUBSET S |-> it[s]] = [s \in SUBSET S |-> Summand(f, it, s)]
  BY <1>8
<1>10. Iterates(it, f, S)
  BY <1>6, <1>9 DEF Iterates
<1>. QED  BY <1>10

(* The sum of f over S is what an iteration gives S. *)
LEMMA SumIterates ==
  ASSUME NEW S, IsFiniteSet(S), NEW f
  PROVE  \E it : Iterates(it, f, S) /\ SumOver(f, S) = it[S]
<1>. DEFINE Eq(it) == it = [s \in SUBSET S |-> IF s = {} THEN 0
                                              ELSE f[CHOOSE x \in s : TRUE] + it[s \ {CHOOSE x \in s : TRUE}]]
<1>1. SumOver(f, S) = (CHOOSE it : Eq(it))[S]
  BY DEF SumOver, MapThenSumSet, MapThenFoldSet
<1>2. \A it : Eq(it) <=> Iterates(it, f, S)
  BY DEF Summand, Picked, Iterates
<1>3. \E it : Iterates(it, f, S)
  BY IterationExists
<1>. HIDE DEF Eq
<1>4. \E it : Eq(it)
  BY <1>2, <1>3
<1>5. Eq(CHOOSE it : Eq(it))
  BY <1>4
<1>6. Iterates((CHOOSE it : Eq(it)), f, S)
  BY <1>2, <1>5
<1>. QED  BY <1>1, <1>6

(* Two iterations over sets with a common subset give it the same sum. *)
LEMMA IterationsAgree ==
  ASSUME NEW S, IsFiniteSet(S), NEW T, IsFiniteSet(T), NEW f, NEW g, NEW it, NEW jt,
         Iterates(it, f, S), Iterates(jt, g, T),
         NEW C, C \subseteq S, C \subseteq T, \A x \in C : f[x] = g[x]
  PROVE  it[C] = jt[C]
<1>. DEFINE Good == {n \in Nat : \A s \in SUBSET C : Cardinality(s) <= n => it[s] = jt[s]}
<1>1. \A s \in SUBSET C : IsFiniteSet(s) /\ Cardinality(s) \in Nat
  BY FS_Subset, FS_CardinalityType
<1>2. \A s \in SUBSET C : it[s] = Summand(f, it, s) /\ jt[s] = Summand(g, jt, s)
  BY DEF Iterates
<1>3. 0 \in Good
  <2>1. \A s \in SUBSET C : Cardinality(s) <= 0 => s = {}
    BY <1>1, FS_EmptySet
  <2>. QED  BY <2>1, <1>2 DEF Summand
<1>4. ASSUME NEW n \in Nat, n \in Good PROVE n + 1 \in Good
  <2>1. ASSUME NEW s \in SUBSET C, Cardinality(s) <= n + 1 PROVE it[s] = jt[s]
    <3>1. CASE s = {}
      BY <3>1, <1>2 DEF Summand
    <3>2. CASE s # {}
      <4>. DEFINE r == s \ {Picked(s)}
      <4>1. Picked(s) \in s
        BY <3>2 DEF Picked
      <4>2. r \in SUBSET C /\ Cardinality(r) = Cardinality(s) - 1
        BY <4>1, <1>1, FS_RemoveElement
      <4>3. Cardinality(r) <= n
        BY <4>2, <1>1, <2>1
      <4>4. it[r] = jt[r]
        BY <4>2, <4>3, <1>4
      <4>. QED  BY <3>2, <4>1, <4>4, <1>2 DEF Summand
    <3>. QED  BY <3>1, <3>2
  <2>2. n + 1 \in Nat
    OBVIOUS
  <2>. QED  BY <2>1, <2>2
<1>. HIDE DEF Good
<1>5. Nat \subseteq Good
  BY <1>3, <1>4, InductiveSet
<1>6. Cardinality(C) \in Good
  BY <1>5, <1>1
<1>7. \A s \in SUBSET C : Cardinality(s) <= Cardinality(C) => it[s] = jt[s]
  BY <1>6 DEF Good
<1>. QED  BY <1>7, <1>1

(* Nothing adds up to nothing.                                             *)
LEMMA SumEmpty == ASSUME NEW f PROVE SumOver(f, {}) = 0
<1>1. PICK it : Iterates(it, f, {}) /\ SumOver(f, {}) = it[{}]
  BY SumIterates, FS_EmptySet
<1>. QED  BY <1>1 DEF Summand, Iterates

(* A sum depends on the values at its members only. *)
LEMMA SumEqual ==
  ASSUME NEW S, IsFiniteSet(S), NEW f, NEW g, \A x \in S : f[x] = g[x]
  PROVE  SumOver(f, S) = SumOver(g, S)
<1>1. PICK it : Iterates(it, f, S) /\ SumOver(f, S) = it[S]
  BY SumIterates
<1>2. PICK jt : Iterates(jt, g, S) /\ SumOver(g, S) = jt[S]
  BY SumIterates
<1>3. it[S] = jt[S]
  BY <1>1, <1>2, IterationsAgree
<1>. QED  BY <1>1, <1>2, <1>3

(* A sum less the member the iteration takes first. *)
LEMMA SumPicked ==
  ASSUME NEW S, IsFiniteSet(S), S # {}, NEW f
  PROVE  SumOver(f, S) = f[Picked(S)] + SumOver(f, S \ {Picked(S)})
<1>. DEFINE R == S \ {Picked(S)}
<1>0. IsFiniteSet(R)
  BY FS_Subset
<1>1. PICK it : Iterates(it, f, S) /\ SumOver(f, S) = it[S]
  BY SumIterates
<1>2. PICK jt : Iterates(jt, f, R) /\ SumOver(f, R) = jt[R]
  BY <1>0, SumIterates
<1>3. it[R] = jt[R]
  <2>. HIDE DEF R
  <2>1. R \subseteq S
    BY DEF R
  <2>. QED  BY <1>0, <1>1, <1>2, <2>1, IterationsAgree
<1>4. it[S] = f[Picked(S)] + it[R]
  BY <1>1 DEF Summand, Iterates
<1>. QED  BY <1>1, <1>2, <1>3, <1>4

(* Integers add up to an integer, naturals to a natural.                   *)
LEMMA SumType ==
  ASSUME NEW S, IsFiniteSet(S), NEW f, \A x \in S : f[x] \in Int
  PROVE  /\ SumOver(f, S) \in Int
         /\ (\A x \in S : f[x] >= 0) => SumOver(f, S) >= 0
<1>. DEFINE Good == {n \in Nat : \A s \in SUBSET S : Cardinality(s) <= n =>
                       /\ SumOver(f, s) \in Int
                       /\ (\A x \in S : f[x] >= 0) => SumOver(f, s) >= 0}
<1>1. \A s \in SUBSET S : IsFiniteSet(s) /\ Cardinality(s) \in Nat
  BY FS_Subset, FS_CardinalityType
<1>3. 0 \in Good
  <2>1. \A s \in SUBSET S : Cardinality(s) <= 0 => s = {}
    BY <1>1, FS_EmptySet
  <2>. QED  BY <2>1, SumEmpty
<1>4. ASSUME NEW n \in Nat, n \in Good PROVE n + 1 \in Good
  <2>1. ASSUME NEW s \in SUBSET S, Cardinality(s) <= n + 1
        PROVE  /\ SumOver(f, s) \in Int
               /\ (\A x \in S : f[x] >= 0) => SumOver(f, s) >= 0
    <3>1. CASE s = {}
      BY <3>1, SumEmpty
    <3>2. CASE s # {}
      <4>. DEFINE r == s \ {Picked(s)}
      <4>1. Picked(s) \in s
        BY <3>2 DEF Picked
      <4>2. r \in SUBSET S /\ Cardinality(r) = Cardinality(s) - 1
        BY <4>1, <1>1, FS_RemoveElement
      <4>3. Cardinality(r) <= n
        BY <4>2, <1>1, <2>1
      <4>4. SumOver(f, r) \in Int /\ ((\A x \in S : f[x] >= 0) => SumOver(f, r) >= 0)
        BY <4>2, <4>3, <1>4
      <4>5. SumOver(f, s) = f[Picked(s)] + SumOver(f, r)
        BY <3>2, <1>1, SumPicked
      <4>. QED  BY <4>1, <4>4, <4>5
    <3>. QED  BY <3>1, <3>2
  <2>. HIDE DEF SumOver
  <2>. QED  BY <2>1
<1>. HIDE DEF Good
<1>5. Nat \subseteq Good
  BY <1>3, <1>4, InductiveSet
<1>6. Cardinality(S) \in Good
  BY <1>5, <1>1
<1>. QED  BY <1>6, <1>1 DEF Good

(* A sum less any one of its members. *)
LEMMA SumMember ==
  ASSUME NEW S, IsFiniteSet(S), NEW f, \A x \in S : f[x] \in Int, NEW x \in S
  PROVE  SumOver(f, S) = f[x] + SumOver(f, S \ {x})
<1>. DEFINE Good == {n \in Nat : \A s \in SUBSET S : Cardinality(s) <= n =>
                       \A y \in s : SumOver(f, s) = f[y] + SumOver(f, s \ {y})}
<1>1. \A s \in SUBSET S : IsFiniteSet(s) /\ Cardinality(s) \in Nat
  BY FS_Subset, FS_CardinalityType
<1>2. \A s \in SUBSET S : SumOver(f, s) \in Int
  <2>. SUFFICES ASSUME NEW s \in SUBSET S PROVE SumOver(f, s) \in Int
    OBVIOUS
  <2>. QED  BY <1>1, SumType
<1>3. 0 \in Good
  <2>1. \A s \in SUBSET S : Cardinality(s) <= 0 => s = {}
    BY <1>1, FS_EmptySet
  <2>. QED  BY <2>1
<1>4. ASSUME NEW n \in Nat, n \in Good PROVE n + 1 \in Good
  <2>1. ASSUME NEW s \in SUBSET S, Cardinality(s) <= n + 1, NEW y \in s
        PROVE  SumOver(f, s) = f[y] + SumOver(f, s \ {y})
    <3>. DEFINE p == Picked(s)
                r == s \ {p}
                q == r \ {y}
    <3>1. p \in s
      BY DEF Picked
    <3>2. SumOver(f, s) = f[p] + SumOver(f, r)
      BY <1>1, SumPicked
    <3>3. CASE p = y
      BY <3>2, <3>3
    <3>4. CASE p # y
      <4>. DEFINE u == s \ {y}
      <4>1. r \in SUBSET S /\ Cardinality(r) = Cardinality(s) - 1 /\ y \in r
        BY <3>1, <3>4, <1>1, FS_RemoveElement
      <4>2. u \in SUBSET S /\ Cardinality(u) = Cardinality(s) - 1 /\ p \in u
        BY <3>1, <3>4, <1>1, FS_RemoveElement
      <4>3. Cardinality(r) <= n /\ Cardinality(u) <= n
        BY <4>1, <4>2, <1>1, <2>1
      <4>4. SumOver(f, r) = f[y] + SumOver(f, q)
        BY <4>1, <4>3, <1>4
      <4>5. SumOver(f, u) = f[p] + SumOver(f, u \ {p})
        BY <4>2, <4>3, <1>4
      <4>6. u \ {p} = q
        OBVIOUS
      <4>7. SumOver(f, q) \in Int /\ f[p] \in Int /\ f[y] \in Int
        BY <1>2, <3>1
      <4>8. SumOver(f, s) = f[p] + (f[y] + SumOver(f, q)) /\ SumOver(f, u) = f[p] + SumOver(f, q)
        BY <3>2, <4>4, <4>5, <4>6
      <4>. HIDE DEF u, q, p
      <4>. QED  BY <4>7, <4>8 DEF u
    <3>. QED  BY <3>3, <3>4
  <2>. HIDE DEF SumOver
  <2>. QED  BY <2>1
<1>. HIDE DEF Good
<1>5. Nat \subseteq Good
  BY <1>3, <1>4, InductiveSet
<1>6. Cardinality(S) \in Good
  BY <1>5, <1>1
<1>. QED  BY <1>6, <1>1 DEF Good

(* A sum with one more member. *)
LEMMA SumInsert ==
  ASSUME NEW S, IsFiniteSet(S), NEW x, x \notin S, NEW f, f[x] \in Int, \A y \in S : f[y] \in Int
  PROVE  SumOver(f, S \cup {x}) = f[x] + SumOver(f, S)
<1>. DEFINE T == S \cup {x}
<1>1. IsFiniteSet(T) /\ x \in T /\ T \ {x} = S
  BY FS_AddElement
<1>2. \A y \in T : f[y] \in Int
  OBVIOUS
<1>. HIDE DEF T
<1>3. SumOver(f, T) = f[x] + SumOver(f, T \ {x})
  BY <1>1, <1>2, SumMember
<1>. QED  BY <1>1, <1>3 DEF T

(* An order of the values is an order of the sums.                         *)
LEMMA SumMonotone ==
  ASSUME NEW S, IsFiniteSet(S), NEW f, NEW g,
         \A x \in S : f[x] \in Int /\ g[x] \in Int /\ f[x] <= g[x]
  PROVE  SumOver(f, S) <= SumOver(g, S)
<1>. DEFINE Good == {n \in Nat : \A s \in SUBSET S : Cardinality(s) = n => SumOver(f, s) <= SumOver(g, s)}
<1>1. \A s \in SUBSET S : IsFiniteSet(s) /\ Cardinality(s) \in Nat
  BY FS_Subset, FS_CardinalityType
<1>2. ASSUME NEW s \in SUBSET S PROVE SumOver(f, s) \in Int /\ SumOver(g, s) \in Int
  BY <1>1, SumType
<1>3. 0 \in Good
  <2>1. \A s \in SUBSET S : Cardinality(s) = 0 => s = {}
    BY <1>1, FS_EmptySet
  <2>2. SumOver(f, {}) <= SumOver(g, {})
    BY SumEmpty
  <2>. QED  BY <2>1, <2>2
<1>4. ASSUME NEW n \in Nat, n \in Good PROVE n + 1 \in Good
  <2>1. ASSUME NEW s \in SUBSET S, Cardinality(s) = n + 1 PROVE SumOver(f, s) <= SumOver(g, s)
    <3>1. PICK x \in s : TRUE
      BY <2>1, FS_EmptySet
    <3>. DEFINE r == s \ {x}
    <3>2. r \in SUBSET S /\ Cardinality(r) = n
      BY <3>1, <2>1, <1>1, FS_RemoveElement
    <3>3. SumOver(f, r) <= SumOver(g, r)
      BY <3>2, <1>4
    <3>4. SumOver(f, s) = f[x] + SumOver(f, r)
      BY <3>1, <1>1, SumMember
    <3>5. SumOver(g, s) = g[x] + SumOver(g, r)
      BY <3>1, <1>1, SumMember
    <3>6. SumOver(f, r) \in Int /\ SumOver(g, r) \in Int
      BY <1>2, <3>2
    <3>7. f[x] \in Int /\ g[x] \in Int /\ f[x] <= g[x]
      BY <3>1
    <3>. HIDE DEF r
    <3>. QED  BY <3>3, <3>4, <3>5, <3>6, <3>7
  <2>2. n + 1 \in Nat
    OBVIOUS
  <2>. QED  BY <2>1, <2>2
<1>. HIDE DEF Good
<1>5. Cardinality(S) \in Good
  BY <1>1, <1>3, <1>4, InductiveSet
<1>. QED  BY <1>5 DEF Good

(* The sum of the sums of two functions' values. *)
LEMMA SumPlus ==
  ASSUME NEW S, IsFiniteSet(S), NEW f, NEW g, NEW h,
         \A x \in S : f[x] \in Int /\ g[x] \in Int /\ h[x] = f[x] + g[x]
  PROVE  SumOver(h, S) = SumOver(f, S) + SumOver(g, S)
<1>. DEFINE Good == {n \in Nat : \A s \in SUBSET S : Cardinality(s) = n =>
                       SumOver(h, s) = SumOver(f, s) + SumOver(g, s)}
<1>1. \A s \in SUBSET S : IsFiniteSet(s) /\ Cardinality(s) \in Nat
  BY FS_Subset, FS_CardinalityType
<1>2. ASSUME NEW s \in SUBSET S PROVE SumOver(f, s) \in Int /\ SumOver(g, s) \in Int
  BY <1>1, SumType
<1>3. 0 \in Good
  <2>1. \A s \in SUBSET S : Cardinality(s) = 0 => s = {}
    BY <1>1, FS_EmptySet
  <2>2. SumOver(h, {}) = SumOver(f, {}) + SumOver(g, {})
    BY SumEmpty
  <2>. QED  BY <2>1, <2>2
<1>4. ASSUME NEW n \in Nat, n \in Good PROVE n + 1 \in Good
  <2>1. ASSUME NEW s \in SUBSET S, Cardinality(s) = n + 1
        PROVE  SumOver(h, s) = SumOver(f, s) + SumOver(g, s)
    <3>1. PICK x \in s : TRUE
      BY <2>1, FS_EmptySet
    <3>. DEFINE r == s \ {x}
    <3>2. r \in SUBSET S /\ Cardinality(r) = n
      BY <3>1, <2>1, <1>1, FS_RemoveElement
    <3>3. SumOver(h, r) = SumOver(f, r) + SumOver(g, r)
      BY <3>2, <1>4
    <3>4. SumOver(f, s) = f[x] + SumOver(f, r)
      BY <3>1, <1>1, SumMember
    <3>5. SumOver(g, s) = g[x] + SumOver(g, r)
      BY <3>1, <1>1, SumMember
    <3>8. SumOver(h, s) = h[x] + SumOver(h, r)
      <4>1. \A y \in s : h[y] \in Int
        OBVIOUS
      <4>. QED  BY <3>1, <4>1, <1>1, SumMember
    <3>6. SumOver(f, r) \in Int /\ SumOver(g, r) \in Int
      BY <1>2, <3>2
    <3>7. f[x] \in Int /\ g[x] \in Int /\ h[x] = f[x] + g[x]
      BY <3>1
    <3>. HIDE DEF r
    <3>. QED  BY <3>3, <3>4, <3>5, <3>6, <3>7, <3>8
  <2>2. n + 1 \in Nat
    OBVIOUS
  <2>. QED  BY <2>1, <2>2
<1>. HIDE DEF Good
<1>5. Cardinality(S) \in Good
  BY <1>1, <1>3, <1>4, InductiveSet
<1>. QED  BY <1>5 DEF Good

(* A sum whose function changes at one member. *)
LEMMA SumChange ==
  ASSUME NEW S, IsFiniteSet(S), NEW f, NEW g, \A x \in S : f[x] \in Int /\ g[x] \in Int,
         NEW x \in S, \A y \in S \ {x} : f[y] = g[y]
  PROVE  SumOver(g, S) = SumOver(f, S) + g[x] - f[x]
<1>. DEFINE R == S \ {x}
<1>1. IsFiniteSet(R)
  BY FS_Subset
<1>2. SumOver(f, S) = f[x] + SumOver(f, R) /\ SumOver(g, S) = g[x] + SumOver(g, R)
  BY SumMember
<1>3. SumOver(f, R) = SumOver(g, R)
  BY <1>1, SumEqual
<1>4. SumOver(f, R) \in Int /\ f[x] \in Int /\ g[x] \in Int
  BY <1>1, SumType
<1>. HIDE DEF R
<1>. QED  BY <1>2, <1>3, <1>4

(* A sum over the images of an injection, the rest of whose range counts   *)
(* for nothing.                                                            *)
LEMMA SumReindexed ==
  ASSUME NEW S, IsFiniteSet(S), NEW T, IsFiniteSet(T), NEW h \in [S -> T], NEW f, NEW g,
         \A x, y \in S : h[x] = h[y] => x = y,
         \A x \in S : f[x] \in Int /\ f[x] = g[h[x]],
         \A y \in T : (\A x \in S : h[x] # y) => g[y] = 0
  PROVE  SumOver(f, S) = SumOver(g, T)
<1>. DEFINE Image(s) == {h[x] : x \in s}
            Good == {n \in Nat : \A s \in SUBSET S : Cardinality(s) = n =>
                       SumOver(f, s) = SumOver(g, Image(s))}
<1>1. \A s \in SUBSET S : IsFiniteSet(s) /\ Cardinality(s) \in Nat
  BY FS_Subset, FS_CardinalityType
<1>2. \A y \in T : g[y] \in Int
  OBVIOUS
<1>3. 0 \in Good
  <2>1. \A s \in SUBSET S : Cardinality(s) = 0 => s = {}
    BY <1>1, FS_EmptySet
  <2>2. SumOver(f, {}) = SumOver(g, Image({}))
    <3>1. Image({}) = {}
      OBVIOUS
    <3>. HIDE DEF Image
    <3>. QED  BY <3>1, SumEmpty
  <2>. QED  BY <2>1, <2>2
<1>4. ASSUME NEW n \in Nat, n \in Good PROVE n + 1 \in Good
  <2>1. ASSUME NEW s \in SUBSET S, Cardinality(s) = n + 1
        PROVE  SumOver(f, s) = SumOver(g, Image(s))
    <3>1. PICK x \in s : TRUE
      BY <2>1, FS_EmptySet
    <3>. DEFINE r == s \ {x}
    <3>2. r \in SUBSET S /\ Cardinality(r) = n
      <4>1. IsFiniteSet(s) /\ Cardinality(s) = n + 1
        BY <1>1, <2>1
      <4>2. Cardinality(r) = Cardinality(s) - 1
        BY <3>1, <4>1, FS_RemoveElement
      <4>. QED  BY <4>1, <4>2
    <3>3. SumOver(f, r) = SumOver(g, Image(r))
      BY <3>2, <1>4
    <3>4. SumOver(f, s) = f[x] + SumOver(f, r)
      BY <3>1, <1>1, SumMember
    <3>5. Image(s) = Image(r) \cup {h[x]} /\ h[x] \notin Image(r)
      BY <3>1
    <3>6. Image(r) \subseteq T
      BY <3>2
    <3>7. IsFiniteSet(Image(r))
      BY <3>6, FS_Subset
    <3>8. g[h[x]] = f[x] /\ g[h[x]] \in Int
      BY <3>1
    <3>. HIDE DEF Image, r
    <3>9. SumOver(g, Image(r) \cup {h[x]}) = g[h[x]] + SumOver(g, Image(r))
      BY <3>5, <3>6, <3>7, <3>8, <1>2, SumInsert
    <3>. QED  BY <3>3, <3>4, <3>5, <3>8, <3>9
  <2>2. n + 1 \in Nat
    OBVIOUS
  <2>. QED  BY <2>1, <2>2
<1>5. SumOver(f, S) = SumOver(g, Image(S))
  <2>. HIDE DEF Good
  <2>1. Cardinality(S) \in Good
    BY <1>1, <1>3, <1>4, InductiveSet
  <2>. QED  BY <2>1 DEF Good
<1>. DEFINE Rest == T \ Image(S)
            Kept == {n \in Nat : \A s \in SUBSET Rest : Cardinality(s) = n =>
                       SumOver(g, Image(S) \cup s) = SumOver(g, Image(S))}
<1>7. Image(S) \subseteq T /\ Rest \subseteq T
  OBVIOUS
<1>8. \A y \in Rest : g[y] = 0
  OBVIOUS
<1>9. \A s \in SUBSET T : IsFiniteSet(s) /\ Cardinality(s) \in Nat
  BY FS_Subset, FS_CardinalityType
<1>. HIDE DEF Image
<1>10. 0 \in Kept
  <2>1. \A s \in SUBSET Rest : Cardinality(s) = 0 => s = {}
    BY <1>7, <1>9, FS_EmptySet
  <2>2. Image(S) \cup {} = Image(S)
    OBVIOUS
  <2>. QED  BY <2>1, <2>2
<1>11. ASSUME NEW n \in Nat, n \in Kept PROVE n + 1 \in Kept
  <2>1. ASSUME NEW s \in SUBSET Rest, Cardinality(s) = n + 1
        PROVE  SumOver(g, Image(S) \cup s) = SumOver(g, Image(S))
    <3>1. PICK x \in s : TRUE
      BY <2>1, FS_EmptySet
    <3>. DEFINE r == s \ {x}
                q == Image(S) \cup r
    <3>2. r \in SUBSET Rest /\ Cardinality(r) = n
      <4>1. IsFiniteSet(s) /\ Cardinality(s) = n + 1
        BY <1>7, <1>9, <2>1
      <4>2. Cardinality(r) = Cardinality(s) - 1
        BY <3>1, <4>1, FS_RemoveElement
      <4>. QED  BY <4>1, <4>2
    <3>3. SumOver(g, q) = SumOver(g, Image(S))
      BY <3>2, <1>11
    <3>4. x \notin q /\ Image(S) \cup s = q \cup {x} /\ q \subseteq T /\ x \in T
      BY <3>1, <1>7
    <3>5. IsFiniteSet(q)
      BY <3>4, <1>9
    <3>6. g[x] = 0
      BY <3>1, <1>8
    <3>. HIDE DEF q
    <3>7. SumOver(g, q \cup {x}) = g[x] + SumOver(g, q)
      BY <3>4, <3>5, <1>2, SumInsert
    <3>8. SumOver(g, q) \in Int
      BY <3>4, <3>5, <1>2, SumType
    <3>9. SumOver(g, q \cup {x}) = SumOver(g, q)
      <4>. HIDE DEF SumOver
      <4>. QED  BY <3>6, <3>7, <3>8
    <3>10. Image(S) \cup s = q \cup {x}
      BY <3>4
    <3>. QED  BY <3>3, <3>9, <3>10
  <2>2. n + 1 \in Nat
    OBVIOUS
  <2>. QED  BY <2>1, <2>2
<1>12. SumOver(g, Image(S) \cup Rest) = SumOver(g, Image(S))
  <2>1. Cardinality(Rest) \in Kept
    <3>. HIDE DEF Kept, Rest
    <3>. QED  BY <1>7, <1>9, <1>10, <1>11, InductiveSet
  <2>. QED  BY <2>1
<1>13. Image(S) \cup Rest = T
  BY <1>7
<1>. QED  BY <1>5, <1>12, <1>13

(* A sum over some of the members, and the members left out for nothing.   *)
LEMMA SumWithin ==
  ASSUME NEW T, IsFiniteSet(T), NEW S \in SUBSET T, NEW f, NEW g,
         \A x \in S : f[x] \in Int /\ g[x] = f[x], \A x \in T \ S : g[x] = 0
  PROVE  SumOver(f, S) = SumOver(g, T)
<1>. DEFINE same == [x \in S |-> x]
<1>1. IsFiniteSet(S) /\ same \in [S -> T]
  BY FS_Subset
<1>2. \A x \in S : same[x] = x
  OBVIOUS
<1>. HIDE DEF same
<1>3. \A x, y \in S : same[x] = same[y] => x = y
  BY <1>2
<1>4. \A x \in S : f[x] \in Int /\ f[x] = g[same[x]]
  BY <1>2
<1>5. \A y \in T : (\A x \in S : same[x] # y) => g[y] = 0
  BY <1>2
<1>. QED  BY <1>1, <1>3, <1>4, <1>5, SumReindexed

(* A constant counted once for every member. *)
LEMMA SumConstant ==
  ASSUME NEW S, IsFiniteSet(S), NEW c \in Int, NEW f, \A x \in S : f[x] = c
  PROVE  SumOver(f, S) = c * Cardinality(S)
<1>. DEFINE Good == {n \in Nat : \A s \in SUBSET S : Cardinality(s) = n => SumOver(f, s) = c * n}
<1>1. \A s \in SUBSET S : IsFiniteSet(s) /\ Cardinality(s) \in Nat
  BY FS_Subset, FS_CardinalityType
<1>3. 0 \in Good
  <2>1. \A s \in SUBSET S : Cardinality(s) = 0 => s = {}
    BY <1>1, FS_EmptySet
  <2>2. SumOver(f, {}) = c * 0
    BY SumEmpty
  <2>. QED  BY <2>1, <2>2
<1>4. ASSUME NEW n \in Nat, n \in Good PROVE n + 1 \in Good
  <2>1. ASSUME NEW s \in SUBSET S, Cardinality(s) = n + 1 PROVE SumOver(f, s) = c * (n + 1)
    <3>1. PICK x \in s : TRUE
      BY <2>1, FS_EmptySet
    <3>. DEFINE r == s \ {x}
    <3>2. r \in SUBSET S /\ Cardinality(r) = n
      BY <3>1, <2>1, <1>1, FS_RemoveElement
    <3>3. SumOver(f, r) = c * n
      BY <3>2, <1>4
    <3>4. SumOver(f, s) = f[x] + SumOver(f, r)
      BY <3>1, <1>1, SumMember
    <3>5. f[x] = c
      BY <3>1
    <3>. HIDE DEF r
    <3>. QED  BY <3>3, <3>4, <3>5
  <2>2. n + 1 \in Nat
    OBVIOUS
  <2>. QED  BY <2>1, <2>2
<1>. HIDE DEF Good
<1>5. Cardinality(S) \in Good
  BY <1>1, <1>3, <1>4, InductiveSet
<1>. QED  BY <1>5 DEF Good

(* A sum whose function changes at two members.                            *)
LEMMA SumChangeTwo ==
  ASSUME NEW S, IsFiniteSet(S), NEW f, NEW g, \A x \in S : f[x] \in Int /\ g[x] \in Int,
         NEW x \in S, NEW y \in S, x # y, \A z \in S : z # x /\ z # y => f[z] = g[z]
  PROVE  SumOver(g, S) = SumOver(f, S) + (g[x] - f[x]) + (g[y] - f[y])
<1>. DEFINE mid == [z \in S |-> IF z = x THEN g[x] ELSE f[z]]
<1>1. /\ \A z \in S : mid[z] \in Int
      /\ mid[x] = g[x] /\ mid[y] = f[y]
      /\ \A z \in S \ {x} : f[z] = mid[z]
      /\ \A z \in S \ {y} : mid[z] = g[z]
  OBVIOUS
<1>. HIDE DEF mid
<1>2. SumOver(mid, S) = SumOver(f, S) + mid[x] - f[x]
  BY <1>1, SumChange
<1>3. SumOver(g, S) = SumOver(mid, S) + g[y] - mid[y]
  BY <1>1, SumChange
<1>4. SumOver(f, S) \in Int /\ SumOver(g, S) \in Int /\ SumOver(mid, S) \in Int
  BY <1>1, SumType
<1>. QED  BY <1>1, <1>2, <1>3, <1>4

(* A sum of one member's value and nothing else.                           *)
LEMMA SumOfOne ==
  ASSUME NEW S, IsFiniteSet(S), NEW f, NEW x \in S, f[x] \in Int, \A y \in S \ {x} : f[y] = 0
  PROVE  SumOver(f, S) = f[x]
<1>. DEFINE none == [y \in S |-> 0]
<1>1. SumOver(none, S) = 0 * Cardinality(S)
  <2>1. \A y \in S : none[y] = 0
    OBVIOUS
  <2>. HIDE DEF none
  <2>. QED  BY <2>1, SumConstant
<1>2. Cardinality(S) \in Nat
  BY FS_CardinalityType
<1>3. SumOver(none, S) = 0
  BY <1>1, <1>2
<1>4. /\ \A y \in S : none[y] \in Int /\ f[y] \in Int
      /\ \A y \in S \ {x} : none[y] = f[y]
      /\ none[x] = 0
  OBVIOUS
<1>. HIDE DEF none
<1>5. SumOver(f, S) = SumOver(none, S) + f[x] - none[x]
  BY <1>4, SumChange
<1>. QED  BY <1>3, <1>4, <1>5

-----------------------------------------------------------------------------
(* Amounts. *)

(* What a quotient, rounded down or up, times its divisor is.              *)
LEMMA Quotients ==
  ASSUME NEW n \in Nat, NEW d \in Nat \ {0}
  PROVE  /\ n \div d \in Nat /\ d * (n \div d) <= n /\ n < d * (n \div d) + d
         /\ (n + d - 1) \div d \in Nat /\ n <= d * ((n + d - 1) \div d)
         /\ n \div d <= (n + d - 1) \div d
<1>1. n \div d \in Nat /\ d * (n \div d) <= n /\ n < d * (n \div d) + d
  BY SMT
<1>2. n + d - 1 \in Nat
  OBVIOUS
<1>3. (n + d - 1) \div d \in Nat /\ n + d - 1 < d * ((n + d - 1) \div d) + d
  BY <1>2, SMT
<1>4. d * ((n + d - 1) \div d) \in Int
  BY <1>3
<1>5. n \div d <= (n + d - 1) \div d
  BY SMT
<1>. QED  BY <1>1, <1>3, <1>4, <1>5

(* The larger of two amounts at the higher of two rates.                   *)
LEMMA RateWithin ==
  ASSUME NEW a \in Nat, NEW b \in Nat, a <= b, NEW r \in Nat, NEW m \in Nat, r <= m
  PROVE  a * r <= m * b
<1>1. a * r <= b * r
  OBVIOUS
<1>2. b * r <= b * m
  OBVIOUS
<1>. QED  BY <1>1, <1>2
\* A sum of naturals over disjoint sets, and over a smaller set.
LEMMA SumUnion ==
  ASSUME NEW S, NEW T, IsFiniteSet(S), IsFiniteSet(T), S \cap T = {}, NEW f,
         \A x \in S \cup T : f[x] \in Int
  PROVE  SumOver(f, S \cup T) = SumOver(f, S) + SumOver(f, T)
<1>. DEFINE both == S \cup T
            onS == [x \in both |-> IF x \in S THEN f[x] ELSE 0]
            onT == [x \in both |-> IF x \in T THEN f[x] ELSE 0]
<1>1. IsFiniteSet(both)
  BY FS_Union
<1>2. \A x \in both : onS[x] \in Int /\ onT[x] \in Int /\ f[x] = onS[x] + onT[x]
  OBVIOUS
<1>3. /\ \A x \in S : f[x] \in Int /\ onS[x] = f[x]
      /\ \A x \in both \ S : onS[x] = 0
  OBVIOUS
<1>4. /\ \A x \in T : f[x] \in Int /\ onT[x] = f[x]
      /\ \A x \in both \ T : onT[x] = 0
  OBVIOUS
<1>5. S \in SUBSET both /\ T \in SUBSET both
  OBVIOUS
<1>. HIDE DEF both, onS, onT
<1>6. SumOver(f, both) = SumOver(onS, both) + SumOver(onT, both)
  BY <1>1, <1>2, SumPlus
<1>7. SumOver(f, S) = SumOver(onS, both)
  BY <1>1, <1>3, <1>5, SumWithin
<1>8. SumOver(f, T) = SumOver(onT, both)
  BY <1>1, <1>4, <1>5, SumWithin
<1>. QED  BY <1>6, <1>7, <1>8 DEF both

LEMMA SumNatural ==
  ASSUME NEW S, IsFiniteSet(S), NEW f, \A x \in S : f[x] \in Nat
  PROVE  SumOver(f, S) \in Nat
<1>. DEFINE zero == [x \in S |-> 0]
<1>1. /\ \A x \in S : zero[x] = 0
      /\ \A x \in S : zero[x] \in Int /\ f[x] \in Int /\ zero[x] <= f[x]
  OBVIOUS
<1>. HIDE DEF zero
<1>2. SumOver(zero, S) = 0 * Cardinality(S)
  BY <1>1, SumConstant
<1>3. Cardinality(S) \in Nat
  BY FS_CardinalityType
<1>4. SumOver(zero, S) <= SumOver(f, S)
  BY <1>1, SumMonotone
<1>5. SumOver(f, S) \in Int
  BY <1>1, SumType
<1>. QED  BY <1>2, <1>3, <1>4, <1>5

LEMMA SumOfPart ==
  ASSUME NEW T, IsFiniteSet(T), NEW S \in SUBSET T, NEW f, \A x \in T : f[x] \in Nat
  PROVE  SumOver(f, S) <= SumOver(f, T)
<1>. DEFINE rest == T \ S
<1>1. IsFiniteSet(S) /\ IsFiniteSet(rest) /\ S \cup rest = T /\ S \cap rest = {}
  BY FS_Subset
<1>2. \A x \in S \cup rest : f[x] \in Int
  OBVIOUS
<1>3. SumOver(f, T) = SumOver(f, S) + SumOver(f, rest)
  <2>. HIDE DEF rest
  <2>1. SumOver(f, S \cup rest) = SumOver(f, S) + SumOver(f, rest)
    BY <1>1, <1>2, SumUnion
  <2>. QED  BY <1>1, <2>1
<1>4. SumOver(f, S) \in Nat /\ SumOver(f, rest) \in Nat
  <2>1. /\ \A x \in S : f[x] \in Nat
        /\ \A x \in rest : f[x] \in Nat
    OBVIOUS
  <2>. HIDE DEF rest
  <2>. QED  BY <1>1, <2>1, SumNatural
<1>. HIDE DEF rest
<1>. QED  BY <1>3, <1>4

\* One term one larger.
LEMMA SumOneMore ==
  ASSUME NEW S, IsFiniteSet(S), NEW f, NEW g, \A y \in S : f[y] \in Int /\ g[y] \in Int,
         NEW x \in S, \A y \in S \ {x} : f[y] = g[y], g[x] = f[x] + 1
  PROVE  SumOver(g, S) = SumOver(f, S) + 1
<1>1. SumOver(g, S) = SumOver(f, S) + g[x] - f[x]
  BY SumChange
<1>2. SumOver(f, S) \in Int /\ f[x] \in Int
  BY SumType
<1>. QED  BY <1>1, <1>2

-----------------------------------------------------------------------------
(* The reserves x and y of a pool and its s shares. *)

\* Products of amounts keep their order, and a common factor can be left out.
LEMMA ProductsKeepOrder ==
  ASSUME NEW a \in Nat, NEW b \in Nat, NEW c \in Nat, NEW d \in Nat, a <= b, c <= d
  PROVE  a * c <= b * d
<1>1. a * c <= b * c
  OBVIOUS
<1>2. b * c <= b * d
  OBVIOUS
<1>. QED  BY <1>1, <1>2

LEMMA FactorLeavesOrder ==
  ASSUME NEW a \in Nat, NEW b \in Nat, NEW k \in Nat \ {0}, a * k <= b * k
  PROVE  a <= b
<1>1. SUFFICES ASSUME a > b PROVE FALSE
  OBVIOUS
<1>2. PICK e \in Nat : a = b + 1 + e
  <2>1. a - b - 1 \in Nat /\ a = b + 1 + (a - b - 1)
    BY <1>1
  <2>. QED  BY <2>1
<1>3. a * k = b * k + k + e * k /\ e * k \in Nat
  BY <1>2
<1>. QED  BY <1>3

\* A swap of z for as much as the fee leaves: the product of the reserves grows.
LEMMA SwapGrows ==
  ASSUME NEW x \in Nat \ {0}, NEW y \in Nat \ {0}, NEW z \in Nat, NEW bps \in Nat \ {0},
         NEW rate \in Nat, rate <= bps,
         NEW out \in Nat, out <= y, out = (z * rate * y) \div (x * bps + z * rate)
  PROVE  x * y <= (x + z) * (y - out)
<1>1. PICK paid \in Nat : paid = z * rate
  OBVIOUS
<1>2. PICK whole \in Nat \ {0} : whole = x * bps + paid
  <2>1. x * bps \in Nat \ {0}
    OBVIOUS
  <2>. QED  BY <1>1, <2>1
<1>3. PICK n \in Nat : n = paid * y
  BY <1>1
<1>4. out = n \div whole
  BY <1>1, <1>2, <1>3
<1>5. whole * out <= n
  BY <1>2, <1>3, <1>4, Quotients
<1>6. PICK rest \in Nat : rest = y - out
  OBVIOUS
<1>7. whole * rest >= x * bps * y
  <2>1. y = out + rest
    BY <1>6
  <2>2. whole * y = whole * out + whole * rest
    <3>1. whole * (out + rest) = whole * out + whole * rest
      OBVIOUS
    <3>. QED  BY <2>1, <3>1
  <2>3. whole * y = x * bps * y + paid * y
    BY <1>2
  <2>. QED  BY <1>3, <1>5, <2>2, <2>3
<1>8. whole <= (x + z) * bps
  <2>1. paid <= z * bps
    BY <1>1
  <2>2. (x + z) * bps = x * bps + z * bps
    OBVIOUS
  <2>. QED  BY <1>1, <1>2, <2>1, <2>2
<1>9. whole * rest <= ((x + z) * bps) * rest
  BY <1>2, <1>6, <1>8, ProductsKeepOrder
<1>10. PICK u \in Nat, v \in Nat : u = x * y /\ v = (x + z) * rest
  BY <1>6
<1>11. u * bps = x * bps * y /\ v * bps = ((x + z) * bps) * rest
  BY <1>10
<1>12. u * bps <= v * bps
  BY <1>7, <1>9, <1>11, <1>6, <1>2
<1>. QED  BY <1>6, <1>10, <1>12, FactorLeavesOrder

\* A deposit: the quote asked is rounded up, the shares given are rounded down.
LEMMA MintGrows ==
  ASSUME NEW x \in Nat \ {0}, NEW y \in Nat, NEW s \in Nat, NEW z \in Nat,
         NEW q \in Nat, z * y <= q * x,
         NEW t \in Nat, t * x <= z * s,
         NEW k \in Nat, NEW l \in Nat, k * (s * s) <= l * (x * y)
  PROVE  k * ((s + t) * (s + t)) <= l * ((x + z) * (y + q))
<1>1. PICK m \in Nat : m = x + z
  OBVIOUS
<1>2. PICK n \in Nat : n = y + q
  OBVIOUS
<1>3. PICK r \in Nat : r = s + t
  OBVIOUS
<1>4. y * m <= n * x
  <2>1. y * m = y * x + z * y /\ n * x = y * x + q * x
    BY <1>1, <1>2
  <2>. QED  BY <2>1
<1>5. r * x <= s * m
  <2>1. r * x = s * x + t * x /\ s * m = s * x + z * s
    BY <1>1, <1>3
  <2>. QED  BY <2>1
<1>6. (r * x) * (r * x) <= (s * m) * (s * m)
  BY <1>1, <1>3, <1>5, ProductsKeepOrder
<1>7. k * ((r * x) * (r * x)) <= k * ((s * m) * (s * m))
  BY <1>1, <1>3, <1>6, ProductsKeepOrder
<1>8. k * ((s * m) * (s * m)) = (k * (s * s)) * (m * m)
  BY <1>1
<1>9. (k * (s * s)) * (m * m) <= (l * (x * y)) * (m * m)
  BY <1>1, ProductsKeepOrder
<1>10. (l * (x * y)) * (m * m) = (l * (x * m)) * (y * m)
  BY <1>1
<1>11. (l * (x * m)) * (y * m) <= (l * (x * m)) * (n * x)
  BY <1>1, <1>2, <1>4, ProductsKeepOrder
<1>12. PICK u \in Nat, v \in Nat, w \in Nat \ {0} : u = k * (r * r) /\ v = l * (m * n) /\ w = x * x
  BY <1>1, <1>2, <1>3
<1>13. u * w = k * ((r * x) * (r * x)) /\ v * w = (l * (x * m)) * (n * x)
  BY <1>1, <1>2, <1>3, <1>12
<1>14. u * w <= v * w
  <2>1. PICK c1 \in Nat, c2 \in Nat, c3 \in Nat, c4 \in Nat :
          /\ c1 = k * ((r * x) * (r * x)) /\ c2 = k * ((s * m) * (s * m))
          /\ c3 = (l * (x * y)) * (m * m) /\ c4 = (l * (x * m)) * (n * x)
    BY <1>1, <1>2, <1>3
  <2>2. c1 <= c2 /\ c2 <= c3 /\ c3 <= c4
    BY <1>7, <1>8, <1>9, <1>10, <1>11, <2>1
  <2>. QED  BY <1>13, <2>1, <2>2
<1>15. u <= v
  BY <1>12, <1>14, FactorLeavesOrder
<1>. QED  BY <1>1, <1>2, <1>3, <1>12, <1>15

\* What is left when all but a shares are burned: at least their part of each reserve.
LEMMA BurnLeaves ==
  ASSUME NEW x \in Nat \ {0}, NEW a \in Nat \ {0}, NEW h \in Nat, NEW s \in Nat, s = a + h
  PROVE  /\ x - (h * x) \div s \in Nat \ {0}
         /\ a * x <= (x - (h * x) \div s) * s
<1>1. PICK n \in Nat : n = h * x
  OBVIOUS
<1>2. PICK o \in Nat : o = n \div s /\ s * o <= n
  BY Quotients
<1>3. o * s <= h * x /\ a * x > 0 /\ s * x = a * x + h * x
  BY <1>1, <1>2
<1>4. o < x
  <2>1. SUFFICES ASSUME x <= o PROVE FALSE
    BY <1>2
  <2>2. x * s <= o * s
    BY <1>2, <2>1, ProductsKeepOrder
  <2>. QED  BY <1>3, <2>2
<1>5. PICK r \in Nat \ {0} : r = x - o
  <2>1. x - o \in Nat \ {0}
    BY <1>4
  <2>. QED  BY <2>1
<1>6. r * s = x * s - o * s
  BY <1>2, <1>5
<1>. QED  BY <1>1, <1>2, <1>3, <1>5, <1>6

-----------------------------------------------------------------------------
(* Lists in the order of numbers. *)

(* The members of a finite set, each with a number of its own, can be      *)
(* listed in the order of their numbers.                                   *)
LEMMA OrderExists ==
  ASSUME NEW S, IsFiniteSet(S), NEW key \in [S -> Int],
         \A x, y \in S : key[x] = key[y] => x = y
  PROVE  \E s \in [1..Cardinality(S) -> S] :
           \A i, j \in 1..Cardinality(S) : i < j => key[s[i]] < key[s[j]]
<1>. DEFINE Upto(x) == {y \in S : key[y] <= key[x]}
            rank == [x \in S |-> Cardinality(Upto(x))]
<1>1. PICK n \in Nat : n = Cardinality(S)
  BY FS_CardinalityType
<1>2. \A x \in S : IsFiniteSet(Upto(x)) /\ Cardinality(Upto(x)) \in 1..n
  <2>. SUFFICES ASSUME NEW x \in S PROVE IsFiniteSet(Upto(x)) /\ Cardinality(Upto(x)) \in 1..n
    OBVIOUS
  <2>1. Upto(x) \in SUBSET S /\ key[x] <= key[x]
    OBVIOUS
  <2>2. x \in Upto(x)
    BY <2>1
  <2>. HIDE DEF Upto
  <2>3. IsFiniteSet(Upto(x)) /\ Cardinality(Upto(x)) <= n
    BY <1>1, <2>1, FS_Subset
  <2>4. Cardinality(Upto(x)) \in Nat /\ Cardinality(Upto(x)) # 0
    BY <2>2, <2>3, FS_EmptySet, FS_CardinalityType
  <2>. QED  BY <2>3, <2>4
<1>3. ASSUME NEW x \in S, NEW y \in S, key[x] < key[y] PROVE rank[x] < rank[y]
  <2>1. Upto(x) \in SUBSET Upto(y)
    BY <1>3
  <2>2. y \in Upto(y) /\ y \notin Upto(x)
    BY <1>3
  <2>3. IsFiniteSet(Upto(y)) /\ Cardinality(Upto(x)) \in Int /\ Cardinality(Upto(y)) \in Int
    BY <1>2
  <2>4. rank[x] = Cardinality(Upto(x)) /\ rank[y] = Cardinality(Upto(y))
    OBVIOUS
  <2>. HIDE DEF Upto, rank
  <2>5. Cardinality(Upto(x)) <= Cardinality(Upto(y)) /\ Cardinality(Upto(x)) # Cardinality(Upto(y))
    BY <2>1, <2>2, <2>3, FS_Subset
  <2>. QED  BY <2>3, <2>4, <2>5
<1>4. rank \in [S -> 1..n] /\ \A x \in S : rank[x] \in 1..n
  BY <1>2
<1>. HIDE DEF Upto, rank
<1>5. \A x, y \in S : rank[x] = rank[y] => x = y
  <2>. SUFFICES ASSUME NEW x \in S, NEW y \in S, x # y PROVE rank[x] # rank[y]
    OBVIOUS
  <2>1. key[x] < key[y] \/ key[y] < key[x]
    OBVIOUS
  <2>. QED  BY <1>3, <1>4, <2>1
<1>6. rank \in Injection(S, 1..n)
  BY <1>4, <1>5, Fun_IsInj
<1>7. IsFiniteSet(1..n) /\ Cardinality(1..n) = n
  BY FS_Interval
<1>8. rank \in Surjection(S, 1..n)
  BY <1>1, <1>6, <1>7, FS_Injection
<1>9. \A i \in 1..n : \E x \in S : rank[x] = i
  BY <1>8, Fun_SurjectionProperties
<1>. DEFINE s == [i \in 1..n |-> CHOOSE x \in S : rank[x] = i]
<1>10. s \in [1..n -> S] /\ \A i \in 1..n : s[i] \in S /\ rank[s[i]] = i
  BY <1>9
<1>. HIDE DEF s
<1>11. ASSUME NEW i \in 1..n, NEW j \in 1..n, i < j PROVE key[s[i]] < key[s[j]]
  <2>1. s[i] \in S /\ s[j] \in S /\ rank[s[i]] = i /\ rank[s[j]] = j
    BY <1>10
  <2>2. ~ (key[s[j]] < key[s[i]])
    BY <1>3, <1>11, <2>1
  <2>3. key[s[i]] # key[s[j]]
    BY <1>11, <2>1
  <2>. QED  BY <2>1, <2>2, <2>3
<1>. QED  BY <1>1, <1>10, <1>11

(* Such a list has them all, and is as long as they are many.              *)
LEMMA OrderIsAll ==
  ASSUME NEW S, IsFiniteSet(S), NEW key \in [S -> Int], NEW s \in [1..Cardinality(S) -> S],
         \A i, j \in 1..Cardinality(S) : i < j => key[s[i]] < key[s[j]]
  PROVE  /\ s \in Seq(S) /\ Len(s) = Cardinality(S)
         /\ \A x \in S : \E i \in DOMAIN s : s[i] = x
<1>1. PICK n \in Nat : n = Cardinality(S)
  BY FS_CardinalityType
<1>2. s \in [1..n -> S] /\ \A i, j \in 1..n : i < j => key[s[i]] < key[s[j]]
  BY <1>1
<1>3. s \in Seq(S) /\ Len(s) = n /\ DOMAIN s = 1..n
  BY <1>1, <1>2
<1>4. ASSUME NEW i \in 1..n, NEW j \in 1..n, s[i] = s[j] PROVE i = j
  <2>1. s[i] \in S /\ key[s[i]] \in Int /\ key[s[i]] = key[s[j]]
    BY <1>2, <1>4
  <2>. QED  BY <1>2, <2>1
<1>5. s \in Injection(1..n, S)
  BY <1>2, <1>4, Fun_IsInj
<1>6. IsFiniteSet(1..n) /\ Cardinality(1..n) = n
  BY FS_Interval
<1>7. s \in Surjection(1..n, S)
  BY <1>1, <1>5, <1>6, FS_Injection
<1>8. \A x \in S : \E i \in 1..n : s[i] = x
  BY <1>7 DEF Surjection
<1>. QED  BY <1>1, <1>3, <1>8

(* A list without repetitions has as many members as places.               *)
LEMMA DistinctCount ==
  ASSUME NEW n \in Nat, NEW T, NEW f \in [1..n -> T], \A i, j \in 1..n : f[i] = f[j] => i = j
  PROVE  Cardinality(Range(f)) = n
<1>1. f \in [1..n -> Range(f)] /\ \A y \in Range(f) : \E i \in 1..n : f[i] = y
  BY DEF Range
<1>2. f \in Injection(1..n, Range(f)) /\ f \in Surjection(1..n, Range(f))
  BY <1>1, Fun_IsInj, Fun_IsSurj
<1>3. IsFiniteSet(1..n) /\ Cardinality(1..n) = n
  BY FS_Interval
<1>. QED  BY <1>2, <1>3, FS_Surjection

-----------------------------------------------------------------------------
(* Sums by parts. *)

(* A sum over a set that is split into classes is the sum of their sums.   *)
LEMMA SumByClass ==
  ASSUME NEW S, IsFiniteSet(S), NEW T, IsFiniteSet(T), NEW class \in [S -> T],
         NEW f, \A x \in S : f[x] \in Int,
         NEW of, \A y \in T : of[y] = {x \in S : class[x] = y},
         NEW g, \A y \in T : g[y] = SumOver(f, of[y])
  PROVE  SumOver(f, S) = SumOver(g, T)
<1>. DEFINE Within(u) == {x \in S : class[x] \in u}
            Good == {n \in Nat : \A u \in SUBSET T : Cardinality(u) <= n =>
                       SumOver(f, Within(u)) = SumOver(g, u)}
<1>1. \A u \in SUBSET T : IsFiniteSet(u) /\ Cardinality(u) \in Nat
  BY FS_Subset, FS_CardinalityType
<1>2. \A u \in SUBSET T : IsFiniteSet(Within(u))
  <2>. SUFFICES ASSUME NEW u \in SUBSET T PROVE IsFiniteSet(Within(u))
    OBVIOUS
  <2>1. Within(u) \in SUBSET S
    OBVIOUS
  <2>. QED  BY <2>1, FS_Subset
<1>3. \A y \in T : of[y] \in SUBSET S /\ IsFiniteSet(of[y])
  <2>1. \A y \in T : of[y] \in SUBSET S
    OBVIOUS
  <2>. QED  BY <2>1, FS_Subset
<1>4. \A y \in T : g[y] \in Int
  <2>. SUFFICES ASSUME NEW y \in T PROVE SumOver(f, of[y]) \in Int
    OBVIOUS
  <2>1. IsFiniteSet(of[y]) /\ \A x \in of[y] : f[x] \in Int
    BY <1>3
  <2>. QED  BY <2>1, SumType
<1>5. 0 \in Good
  <2>1. ASSUME NEW u \in SUBSET T, Cardinality(u) <= 0 PROVE SumOver(f, Within(u)) = SumOver(g, u)
    <3>1. u = {}
      BY <1>1, <2>1, FS_EmptySet
    <3>2. Within(u) = {}
      BY <3>1
    <3>. QED  BY <3>1, <3>2, SumEmpty
  <2>. QED  BY <2>1
<1>6. ASSUME NEW n \in Nat, n \in Good PROVE n + 1 \in Good
  <2>1. ASSUME NEW u \in SUBSET T, Cardinality(u) <= n + 1
        PROVE  SumOver(f, Within(u)) = SumOver(g, u)
    <3>1. CASE u = {}
      <4>1. Within(u) = {}
        BY <3>1
      <4>. QED  BY <3>1, <4>1, SumEmpty
    <3>2. CASE u # {}
      <4>1. PICK y \in u : TRUE
        BY <3>2
      <4>2. PICK r : r = u \ {y}
        OBVIOUS
      <4>3. r \in SUBSET T /\ Cardinality(r) = Cardinality(u) - 1
        BY <4>1, <4>2, <1>1, FS_RemoveElement
      <4>4. Cardinality(r) <= n
        BY <4>3, <1>1, <2>1
      <4>5. SumOver(f, Within(r)) = SumOver(g, r)
        BY <4>3, <4>4, <1>6
      <4>6. PICK rest : rest = Within(r)
        OBVIOUS
      <4>7. Within(u) = rest \cup of[y] /\ rest \cap of[y] = {}
        BY <4>1, <4>2, <4>6
      <4>8. \A x \in rest \cup of[y] : f[x] \in Int
        BY <4>1, <4>6, <1>3
      <4>9. IsFiniteSet(rest) /\ IsFiniteSet(of[y])
        BY <4>1, <4>3, <4>6, <1>2, <1>3
      <4>10. SumOver(f, rest \cup of[y]) = SumOver(f, rest) + SumOver(f, of[y])
        BY <4>7, <4>8, <4>9, SumUnion
      <4>11. IsFiniteSet(u) /\ \A z \in u : g[z] \in Int
        BY <1>1, <1>4
      <4>12. SumOver(g, u) = g[y] + SumOver(g, r)
        BY <4>1, <4>2, <4>11, SumMember
      <4>13. SumOver(f, rest) \in Int /\ SumOver(f, of[y]) \in Int
        BY <4>8, <4>9, SumType
      <4>14. g[y] = SumOver(f, of[y])
        BY <4>1
      <4>15. SumOver(f, rest) = SumOver(g, r) /\ SumOver(f, Within(u)) = SumOver(f, rest \cup of[y])
        BY <4>5, <4>6, <4>7
      <4>. HIDE DEF Within
      <4>. QED  BY <4>10, <4>12, <4>13, <4>14, <4>15
    <3>. QED  BY <3>1, <3>2
  <2>2. n + 1 \in Nat
    OBVIOUS
  <2>. QED  BY <2>1, <2>2
<1>7. Cardinality(T) \in Good
  <2>. HIDE DEF Good
  <2>1. Nat \subseteq Good
    BY <1>5, <1>6, InductiveSet
  <2>. QED  BY <2>1, <1>1
<1>8. SumOver(f, Within(T)) = SumOver(g, T)
  BY <1>1, <1>7
<1>9. Within(T) = S
  OBVIOUS
<1>. QED  BY <1>8, <1>9

(* One place more.                                                         *)
LEMMA OneLonger ==
  ASSUME NEW k \in Nat
  PROVE  1..(k + 1) = (1..k) \cup {k + 1}
OBVIOUS

(* Differences of neighbours add up to the difference of the ends.         *)
LEMMA SumTelescopes ==
  ASSUME NEW n \in Nat, NEW f, NEW at \in [0..n -> Int],
         \A i \in 1..n : f[i] = at[i] - at[i - 1]
  PROVE  SumOver(f, 1..n) = at[n] - at[0]
<1>. DEFINE Good == {k \in Nat : k <= n => SumOver(f, 1..k) = at[k] - at[0]}
<1>1. 0 \in Good
  <2>1. 1..0 = {}
    OBVIOUS
  <2>2. at[0] \in Int
    OBVIOUS
  <2>. QED  BY <2>1, <2>2, SumEmpty
<1>2. ASSUME NEW k \in Nat, k \in Good PROVE k + 1 \in Good
  <2>. SUFFICES ASSUME k + 1 <= n PROVE SumOver(f, 1..(k + 1)) = at[k + 1] - at[0]
    OBVIOUS
  <2>1. SumOver(f, 1..k) = at[k] - at[0]
    BY <1>2
  <2>2. k + 1 \notin 1..k
    OBVIOUS
  <2>10. 1..(k + 1) = (1..k) \cup {k + 1}
    BY OneLonger
  <2>3. /\ k + 1 \in 1..n /\ (k + 1) - 1 = k
        /\ \A i \in 1..(k + 1) : i \in 1..n /\ i \in 0..n /\ i - 1 \in 0..n
    OBVIOUS
  <2>4. at[k] \in Int /\ at[k + 1] \in Int /\ at[0] \in Int
    OBVIOUS
  <2>5. \A i \in 1..(k + 1) : f[i] \in Int
    BY <2>3
  <2>6. f[k + 1] \in Int /\ \A i \in 1..k : f[i] \in Int
    BY <2>5
  <2>7. IsFiniteSet(1..k)
    BY FS_Interval
  <2>8. SumOver(f, (1..k) \cup {k + 1}) = f[k + 1] + SumOver(f, 1..k)
    BY <2>2, <2>6, <2>7, SumInsert
  <2>9. f[k + 1] = at[k + 1] - at[k]
    BY <2>3
  <2>11. SumOver(f, 1..(k + 1)) = f[k + 1] + SumOver(f, 1..k)
    BY <2>8, <2>10
  <2>. QED  BY <2>1, <2>4, <2>9, <2>11
<1>. HIDE DEF Good
<1>3. n \in Good
  BY <1>1, <1>2, InductiveSet
<1>. QED  BY <1>3 DEF Good

(* A set of places that has every place before one of its own is the first *)
(* so many.                                                                *)
LEMMA ClosedDownwards ==
  ASSUME NEW n \in Nat, NEW S \in SUBSET (1..n), \A i \in S : \A j \in 1..i : j \in S
  PROVE  Cardinality(S) \in 0..n /\ S = 1..Cardinality(S)
<1>. DEFINE Out == {i \in Nat : i + 1 \notin S}
<1>1. n \in Out
  OBVIOUS
<1>2. Out \subseteq Nat /\ Out # {}
  BY <1>1
<1>. HIDE DEF Out
<1>3. PICK k \in Out : \A i \in Out : k <= i
  BY <1>2, LeastNatural
<1>4. k \in Nat /\ k <= n /\ k + 1 \notin S
  BY <1>1, <1>3 DEF Out
<1>5. ASSUME NEW i \in 1..k PROVE i \in S
  <2>1. i - 1 \in Nat /\ ~ (k <= i - 1)
    BY <1>4
  <2>2. i - 1 \notin Out
    BY <1>3, <2>1
  <2>3. (i - 1) + 1 = i
    OBVIOUS
  <2>. QED  BY <2>1, <2>2, <2>3 DEF Out
<1>6. ASSUME NEW i \in S PROVE i \in 1..k
  <2>1. i \in Nat /\ 1 <= i
    OBVIOUS
  <2>2. ~ (k + 1 <= i)
    BY <1>4, <2>1
  <2>. QED  BY <1>4, <2>1, <2>2
<1>7. S = 1..k
  BY <1>5, <1>6
<1>8. Cardinality(1..k) = k
  BY <1>4, FS_Interval
<1>. QED  BY <1>4, <1>7, <1>8

-----------------------------------------------------------------------------
(* Searches. *)

(* A search goes on from each state to the next until it may stop, and     *)
(* answers what the state has for it.                                      *)
Search(it, D, stop, val, next) == it = [s \in D |-> IF s \in stop THEN val[s] ELSE it[next[s]]]

(* Each state is nearer an end than the one before it.                     *)
Closer(D, stop, next, far, most) ==
  /\ most \in Nat /\ far \in [D -> 0..most]
  /\ \A s \in D \ stop : next[s] \in D /\ far[next[s]] < far[s]

(* Such a search exists.                                                   *)
LEMMA SearchExists ==
  ASSUME NEW D, NEW stop, NEW val, NEW next, NEW far, NEW most,
         Closer(D, stop, next, far, most)
  PROVE  \E it : Search(it, D, stop, val, next)
<1>. DEFINE Answer(it, s) == IF s \in stop THEN val[s] ELSE it[next[s]]
            Good == {n \in Nat : \E it : /\ it = [s \in D |-> it[s]]
                                         /\ \A s \in D : far[s] < n => it[s] = Answer(it, s)}
<1>1. /\ most \in Nat /\ \A s \in D : far[s] \in Nat /\ far[s] <= most
      /\ \A s \in D \ stop : next[s] \in D /\ far[next[s]] < far[s]
  BY DEF Closer
<1>2. 0 \in Good
  <2>. DEFINE it == [s \in D |-> 0]
  <2>1. it = [s \in D |-> it[s]]
    OBVIOUS
  <2>2. \A s \in D : ~ (far[s] < 0)
    BY <1>1
  <2>. HIDE DEF it
  <2>. QED  BY <2>1, <2>2
<1>3. ASSUME NEW n \in Nat, n \in Good PROVE n + 1 \in Good
  <2>1. PICK it : it = [s \in D |-> it[s]] /\ \A s \in D : far[s] < n => it[s] = Answer(it, s)
    BY <1>3
  <2>. DEFINE jt == [s \in D |-> Answer(it, s)]
  <2>2. jt = [s \in D |-> jt[s]] /\ \A s \in D : jt[s] = Answer(it, s)
    OBVIOUS
  <2>. HIDE DEF jt
  <2>3. ASSUME NEW s \in D, far[s] < n + 1 PROVE jt[s] = Answer(jt, s)
    <3>1. CASE s \in stop
      BY <2>2, <3>1
    <3>2. CASE s \notin stop
      <4>1. next[s] \in D /\ far[next[s]] < n
        BY <1>1, <2>3, <3>2
      <4>2. jt[next[s]] = it[next[s]]
        BY <4>1, <2>1, <2>2
      <4>. QED  BY <3>2, <4>2, <2>2
    <3>. QED  BY <3>1, <3>2
  <2>4. n + 1 \in Nat
    OBVIOUS
  <2>. QED  BY <2>2, <2>3, <2>4
<1>4. most + 1 \in Good
  <2>. HIDE DEF Good
  <2>. QED  BY <1>1, <1>2, <1>3, InductiveSet
<1>5. PICK it : it = [s \in D |-> it[s]] /\ \A s \in D : far[s] < most + 1 => it[s] = Answer(it, s)
  BY <1>4
<1>6. \A s \in D : it[s] = Answer(it, s)
  BY <1>1, <1>5
<1>7. [s \in D |-> it[s]] = [s \in D |-> Answer(it, s)]
  BY <1>6
<1>8. it = [s \in D |-> Answer(it, s)]
  BY <1>5, <1>7
<1>. QED  BY <1>8 DEF Search

(* It answers with what a state has where it may stop, and that state has  *)
(* whatever every step of the search keeps.                                *)
LEMMA SearchEnds ==
  ASSUME NEW D, NEW stop, NEW val, NEW next, NEW far, NEW most,
         Closer(D, stop, next, far, most),
         NEW it, Search(it, D, stop, val, next),
         NEW P \in SUBSET D, \A s \in P \ stop : next[s] \in P, NEW s \in P
  PROVE  \E z \in P \cap stop : it[s] = val[z]
<1>. DEFINE Good == {n \in Nat : \A x \in P : far[x] < n => \E z \in P \cap stop : it[x] = val[z]}
<1>1. /\ \A x \in D : far[x] \in Nat
      /\ \A x \in D \ stop : next[x] \in D /\ far[next[x]] < far[x]
  BY DEF Closer
<1>2. \A x \in D : it[x] = IF x \in stop THEN val[x] ELSE it[next[x]]
  BY DEF Search
<1>3. 0 \in Good
  BY <1>1
<1>4. ASSUME NEW n \in Nat, n \in Good PROVE n + 1 \in Good
  <2>1. ASSUME NEW x \in P, far[x] < n + 1 PROVE \E z \in P \cap stop : it[x] = val[z]
    <3>1. CASE x \in stop
      BY <1>2, <3>1
    <3>2. CASE x \notin stop
      <4>1. next[x] \in P /\ far[next[x]] < n
        BY <1>1, <2>1, <3>2
      <4>2. it[x] = it[next[x]]
        BY <1>2, <3>2
      <4>. QED  BY <4>1, <4>2, <1>4
    <3>. QED  BY <3>1, <3>2
  <2>2. n + 1 \in Nat
    OBVIOUS
  <2>. QED  BY <2>1, <2>2
<1>5. PICK n \in Nat : n = far[s] + 1
  BY <1>1
<1>6. n \in Good
  <2>. HIDE DEF Good
  <2>. QED  BY <1>3, <1>4, InductiveSet
<1>. QED  BY <1>1, <1>5, <1>6
=============================================================================
