--------------------------- MODULE ChatTurnProofs ---------------------------
(* Theorems about ChatTurn for any requests, tools, experts and limits.     *)
EXTENDS ChatTurn, Memory, FiniteSetTheorems, SequenceTheorems, WellFoundedInduction, TLAPS

\* What the gate has let through was approved in its request, what it asked about was
\* not, and before the request is read it has done neither.
Gated ==
  /\ \A r \in ran :
       /\ r.tool \in Risky \ Remote => r.tool \in approved[r.turn]
       /\ r.level = "expert" => r.tool \in Reach \ Remote
       /\ stage[r.turn] # "idle"
  /\ \A q \in asked : q.tool \in Server \ approved[q.turn] /\ stage[q.turn] # "idle"

\* A loop waits for the call at its head, and has the results of those before it.
Waits(lp, ow) ==
  /\ lp.at = "model" => ow = <<>>
  /\ lp.at \in {"calls", "tool"} => ow = lp.todo
  /\ lp.at = "tool" => lp.todo # <<>>

\* How the two levels of a request stand to each other.  Its expert is never cut
\* short: it has a tool only while it waits for it, and leaves nothing owed.  The top
\* level runs only while the stream lives; it then waits for one tool or for the
\* expert, and the progress channel is theirs who run the tool.
Nested(st, lp, ow, tk, sk) ==
  /\ lp["expert"].at = "off" => ow["expert"] = <<>>
  /\ tk["expert"] # None => lp["expert"].at = "tool"
  /\ lp["chat"].at # "off" => st = "live"
  /\ st = "live" =>
       /\ tk["chat"] # None =>
            lp["chat"].at = "tool" /\ lp["expert"].at = "off" /\ sk = "chat"
       /\ lp["expert"].at # "off" => lp["chat"].at = "tool"
       /\ tk["expert"] # None => sk = "expert"
  /\ st \in {"idle", "posted", "saved", "prompted"} =>
       /\ lp["expert"].at = "off"
       /\ ow["chat"] = <<>>
       /\ tk["chat"] = None /\ tk["expert"] = None

LinkedAt(t) ==
  /\ \A l \in Levels : Waits(loop[t][l], owed[t][l])
  /\ Nested(stage[t], loop[t], owed[t], task[t], sink[t])

Linked == \A t \in Turns : LinkedAt(t)

\* The inductive invariant.
IInv == TypeOK /\ Gated /\ Linked

-----------------------------------------------------------------------------
(* What is selected from a sequence                                        *)

\* Among positions every number up to their own has its bearer: the k-th of them.
LEMMA Numbered ==
  ASSUME NEW m \in Nat, NEW I \in SUBSET (1..m), NEW k \in 1..Cardinality(I)
  PROVE  \E i \in I : Cardinality({j \in I : j <= i}) = k
<1> DEFINE Upto(n) == {j \in I : j <= n}
           Enough == {n \in Nat : Cardinality(Upto(n)) >= k}
<1>1. IsFiniteSet(I) /\ Cardinality(I) \in Nat
  <2>1. IsFiniteSet(1..m)
    BY FS_Interval
  <2>2. QED
    BY <2>1, FS_Subset, FS_CardinalityType
<1>2. ASSUME NEW n PROVE IsFiniteSet(Upto(n)) /\ Cardinality(Upto(n)) \in Nat
  <2>1. Upto(n) \in SUBSET I
    OBVIOUS
  <2>2. QED
    BY <1>1, <2>1, FS_Subset, FS_CardinalityType
<1>3. Enough \subseteq Nat /\ Enough # {}
  <2>1. Upto(m) = I
    <3>1. \A j \in I : j \in 1..m
      OBVIOUS
    <3>2. \A j \in 1..m : j <= m
      OBVIOUS
    <3>3. QED
      BY <3>1, <3>2
  <2>2. m \in Enough
    BY <1>1, <2>1
  <2>3. QED
    BY <2>2
<1>4. PICK n \in Enough : \A x \in Enough : n <= x
  <2>1. IsWellFoundedOn(OpToRel(<, Nat), Nat)
    BY NatLessThanWellFounded
  <2>2. PICK x \in Enough : \A y \in Enough : ~ (<<y, x>> \in OpToRel(<, Nat))
    BY <1>3, <2>1, WFMin
  <2>3. \A y \in Enough : ~ (y < x)
    BY <1>3, <2>2 DEF OpToRel
  <2>4. \A y \in Enough : x <= y
    <3> HIDE DEF Enough
    <3>1. TAKE y \in Enough
    <3>2. x \in Nat /\ y \in Nat /\ ~ (y < x)
      BY <1>3, <2>3
    <3>3. QED
      BY <3>2
  <2>5. QED
    BY <2>4
<1>5. n \in Nat /\ Cardinality(Upto(n)) >= k
  OBVIOUS
<1>6. n # 0
  <2>1. Upto(0) = {}
    <3>1. \A j \in I : j \in 1..m
      OBVIOUS
    <3>2. \A j \in 1..m : ~ (j <= 0)
      OBVIOUS
    <3>3. QED
      BY <3>1, <3>2
  <2>2. Cardinality(Upto(0)) = 0
    BY <2>1, FS_EmptySet
  <2>3. QED
    BY <1>5, <2>2
<1>7. n - 1 \in Nat /\ Cardinality(Upto(n - 1)) < k
  <2>1. n - 1 \in Nat /\ ~ (n <= n - 1)
    BY <1>5, <1>6
  <2>2. n - 1 \notin Enough
    BY <1>4, <2>1
  <2>3. ~ (Cardinality(Upto(n - 1)) >= k)
    BY <2>1, <2>2
  <2>4. Cardinality(Upto(n - 1)) \in Nat
    BY <1>2
  <2>5. QED
    BY <2>1, <2>3, <2>4
<1>8. Upto(n) = IF n \in I THEN Upto(n - 1) \cup {n} ELSE Upto(n - 1)
  <2>1. \A j \in I : j <= n <=> j <= n - 1 \/ j = n
    BY <1>5
  <2>2. QED
    BY <2>1
<1>9. n \in I
  <2>1. SUFFICES ASSUME n \notin I PROVE FALSE
    OBVIOUS
  <2>2. Upto(n) = Upto(n - 1)
    BY <1>8, <2>1
  <2>3. Cardinality(Upto(n - 1)) \in Nat
    BY <1>2
  <2> HIDE DEF Upto
  <2>4. QED
    BY <1>5, <1>7, <2>2, <2>3
<1>10. Cardinality(Upto(n)) = Cardinality(Upto(n - 1)) + 1
  <2>1. n \notin Upto(n - 1)
    BY <1>5
  <2>2. IsFiniteSet(Upto(n - 1))
    BY <1>2
  <2>3. Upto(n) = Upto(n - 1) \cup {n}
    BY <1>8, <1>9
  <2> HIDE DEF Upto
  <2>4. QED
    BY <2>1, <2>2, <2>3, FS_AddElement
<1>11. Cardinality(Upto(n)) = k
  <2>1. Cardinality(Upto(n - 1)) \in Nat
    BY <1>2
  <2> HIDE DEF Upto
  <2>2. QED
    BY <1>5, <1>7, <1>10, <2>1
<1>12. QED
  BY <1>9, <1>11

\* What is selected from a sequence is a sequence of the same things.
LEMMA SelectedSeq ==
  ASSUME NEW S, NEW s \in Seq(S), NEW I \in SUBSET (DOMAIN s)
  PROVE  Selected(s, I) \in Seq(S)
<1>1. I \in SUBSET (1..Len(s)) /\ Len(s) \in Nat
  OBVIOUS
<1>2. Cardinality(I) \in Nat
  <2>1. IsFiniteSet(1..Len(s))
    BY FS_Interval
  <2>2. QED
    BY <1>1, <2>1, FS_Subset, FS_CardinalityType
<1>3. ASSUME NEW k \in 1..Cardinality(I)
      PROVE  s[CHOOSE i \in I : Cardinality({j \in I : j <= i}) = k] \in S
  <2>1. \E i \in I : Cardinality({j \in I : j <= i}) = k
    BY <1>1, Numbered
  <2>2. (CHOOSE i \in I : Cardinality({j \in I : j <= i}) = k) \in I
    BY <2>1
  <2>3. QED
    BY <1>1, <2>2
<1>4. Selected(s, I) \in [1..Cardinality(I) -> S]
  BY <1>3 DEF Selected
<1>5. QED
  BY <1>2, <1>4

\* How many of I there are up to i.
Rank(I, i) == Cardinality({x \in I : x <= i})

\* Two positions with as many up to them are one.
LEMMA RankedOnce ==
  ASSUME NEW m \in Nat, NEW I \in SUBSET (1..m), NEW i \in I, NEW j \in I, i < j
  PROVE  Rank(I, i) # Rank(I, j)
<1> DEFINE A == {x \in I : x <= i}
           B == {x \in I : x <= j}
<1>1. I \subseteq Nat
  OBVIOUS
<1>2. A \in SUBSET B /\ B \in SUBSET I
  <2>1. \A x \in I : x <= i => x <= j
    BY <1>1
  <2>2. QED
    BY <2>1
<1>3. j \in B /\ j \notin A
  BY <1>1
<1>4. IsFiniteSet(B)
  <2>1. IsFiniteSet(1..m)
    BY FS_Interval
  <2>2. IsFiniteSet(I)
    BY <2>1, FS_Subset
  <2>3. QED
    BY <1>2, <2>2, FS_Subset
<1> HIDE DEF A, B
<1>5. Cardinality(B) # Cardinality(A)
  BY <1>2, <1>3, <1>4, FS_Subset
<1>6. QED
  BY <1>5 DEF A, B, Rank

\* An element that is selected comes at the place of its position among those selected.
LEMMA SelectedAt ==
  ASSUME NEW S, NEW s \in Seq(S), NEW I \in SUBSET (DOMAIN s), NEW i \in I,
         NEW k, k = Rank(I, i)
  PROVE  k \in 1..Cardinality(I) /\ Selected(s, I)[k] = s[i]
<1>1. I \in SUBSET (1..Len(s)) /\ Len(s) \in Nat /\ I \subseteq Nat
  OBVIOUS
<1>2. IsFiniteSet(I) /\ Cardinality(I) \in Nat
  <2>1. IsFiniteSet(1..Len(s))
    BY FS_Interval
  <2>2. QED
    BY <1>1, <2>1, FS_Subset, FS_CardinalityType
<1> DEFINE Upto(n) == {x \in I : x <= n}
<1>3. Upto(i) \in SUBSET I /\ i \in Upto(i)
  BY <1>1
<1>4. k = Cardinality(Upto(i))
  BY DEF Rank
<1>5. \A j \in I : Rank(I, j) = k => j = i
  <2>1. TAKE j \in I
  <2>2. CASE i < j
    <3>1. Rank(I, i) # Rank(I, j)
      BY <1>1, <2>2, RankedOnce
    <3>2. QED
      BY <3>1
  <2>3. CASE j < i
    <3>1. Rank(I, j) # Rank(I, i)
      BY <1>1, <2>3, RankedOnce
    <3>2. QED
      BY <3>1
  <2>4. i < j \/ j < i \/ i = j
    BY <1>1
  <2>5. QED
    BY <2>2, <2>3, <2>4
<1>6. (CHOOSE j \in I : Cardinality({x \in I : x <= j}) = k) = i
  <2>1. (CHOOSE j \in I : Rank(I, j) = k) = i
    BY <1>5
  <2>2. QED
    BY <2>1 DEF Rank
<1> HIDE DEF Upto
<1>7. k \in 1..Cardinality(I)
  <2>1. IsFiniteSet(Upto(i)) /\ Cardinality(Upto(i)) \in Nat /\ Cardinality(Upto(i)) <= Cardinality(I)
    BY <1>2, <1>3, FS_Subset, FS_CardinalityType
  <2>2. Cardinality(Upto(i)) # 0
    BY <1>3, <2>1, FS_EmptySet
  <2>3. QED
    BY <1>2, <1>4, <2>1, <2>2
<1>8. Selected(s, I)[k] = s[CHOOSE j \in I : Cardinality({x \in I : x <= j}) = k]
  BY <1>7 DEF Selected
<1>9. QED
  BY <1>6, <1>7, <1>8

\* Every element of what is selected comes from a position that is selected.
LEMMA SelectedFrom ==
  ASSUME NEW S, NEW s \in Seq(S), NEW I \in SUBSET (DOMAIN s), NEW k \in 1..Cardinality(I)
  PROVE  \E i \in I : k = Rank(I, i) /\ Selected(s, I)[k] = s[i]
<1>1. I \in SUBSET (1..Len(s)) /\ Len(s) \in Nat
  OBVIOUS
<1>2. PICK i \in I : Cardinality({x \in I : x <= i}) = k
  BY <1>1, Numbered
<1>3. k = Rank(I, i)
  BY <1>2 DEF Rank
<1>4. QED
  BY <1>3, SelectedAt

\* What is counted up to a position is what is up to an earlier one and what comes
\* between the two.
LEMMA Counted ==
  ASSUME NEW m \in Nat, NEW I \in SUBSET (1..m), NEW d \in Nat, NEW n \in Nat
  PROVE  /\ Cardinality({x \in I : x <= n + d})
              = Cardinality({x \in I : x <= d}) + Cardinality({j \in 1..n : j + d \in I})
         /\ Cardinality({x \in I : x <= d}) \in Nat
         /\ Cardinality({j \in 1..n : j + d \in I}) \in Nat
<1> DEFINE A == {x \in I : x <= d}
           B == {x \in I : d < x /\ x <= n + d}
           L == {j \in 1..n : j + d \in I}
           U == {x \in I : x <= n + d}
           f == [j \in L |-> j + d]
<1>1. I \subseteq Nat
  OBVIOUS
<1>2. U = A \cup B /\ A \cap B = {}
  <2>1. \A x \in I : /\ x <= n + d <=> x <= d \/ (d < x /\ x <= n + d)
                     /\ ~ (x <= d /\ d < x)
    BY <1>1
  <2>2. QED
    BY <2>1
<1>3. f \in Bijection(L, B)
  <2>1. \A j \in L : j \in Nat /\ j + d \in B
    BY <1>1
  <2>2. f \in [L -> B]
    BY <2>1
  <2>3. \A a, b \in L : f[a] = f[b] => a = b
    BY <2>1
  <2>4. \A x \in B : x - d \in L /\ (x - d) + d = x
    BY <1>1
  <2>5. \A x \in B : \E j \in L : f[j] = x
    BY <2>4
  <2> HIDE DEF f, L, B
  <2>6. f \in Injection(L, B)
    BY <2>2, <2>3 DEF Injection, IsInjective
  <2>7. f \in Surjection(L, B)
    BY <2>2, <2>5 DEF Surjection
  <2>8. QED
    BY <2>6, <2>7 DEF Bijection
<1>4. A \in SUBSET I /\ B \in SUBSET I /\ L \in SUBSET (1..n)
  OBVIOUS
<1>5. IsFiniteSet(I) /\ IsFiniteSet(1..n)
  <2>1. IsFiniteSet(1..m) /\ IsFiniteSet(1..n)
    BY FS_Interval
  <2>2. QED
    BY <2>1, FS_Subset
<1> HIDE DEF A, B, L, U, f
<1>6. IsFiniteSet(A) /\ IsFiniteSet(B) /\ IsFiniteSet(L)
  BY <1>4, <1>5, FS_Subset
<1>7. Cardinality(A) \in Nat /\ Cardinality(B) \in Nat /\ Cardinality(L) \in Nat
  BY <1>6, FS_CardinalityType
<1>8. Cardinality(B) = Cardinality(L)
  BY <1>3, <1>6, FS_Bijection DEF ExistsBijection
<1>9. Cardinality(U) = Cardinality(A) + Cardinality(B)
  <2>1. Cardinality(A \cup B) = Cardinality(A) + Cardinality(B) - Cardinality({})
    BY <1>2, <1>6, FS_Union
  <2>2. Cardinality({}) = 0
    BY FS_EmptySet
  <2>3. QED
    BY <1>2, <1>7, <2>1, <2>2
<1>10. Cardinality(U) = Cardinality(A) + Cardinality(L)
  BY <1>8, <1>9
<1>11. QED
  BY <1>7, <1>10 DEF A, L, U

\* The end of a sequence.
LEMMA EndOf ==
  ASSUME NEW S, NEW s \in Seq(S), NEW d \in 0..Len(s), NEW r, r = SubSeq(s, d + 1, Len(s))
  PROVE  /\ r \in Seq(S) /\ Len(r) = Len(s) - d /\ Len(s) \in Nat /\ Len(s) - d \in Nat
         /\ \A i \in 1..Len(r) : r[i] = s[i + d]
<1>1. Len(s) \in Nat /\ d \in Nat /\ Len(s) - d \in Nat /\ \A i \in 1..Len(s) : s[i] \in S
  OBVIOUS
<1>2. PICK a \in Int, b \in Int : a = d + 1 /\ b = Len(s)
  BY <1>1
<1>3. \A i \in a..b : s[i] \in S
  BY <1>1, <1>2
<1>4. PICK q : q = SubSeq(s, a, b)
  OBVIOUS
<1>5. /\ q \in Seq(S) /\ Len(q) = IF a <= b THEN b - a + 1 ELSE 0
      /\ \A i \in 1..b - a + 1 : q[i] = s[a + i - 1]
  BY <1>3, <1>4, SubSeqProperties
<1>6. (IF a <= b THEN b - a + 1 ELSE 0) = Len(s) - d /\ b - a + 1 = Len(s) - d
  <2>1. \A x, y \in Nat : x - y \in Nat =>
          (IF y + 1 <= x THEN x - (y + 1) + 1 ELSE 0) = x - y /\ x - (y + 1) + 1 = x - y
    OBVIOUS
  <2>2. QED
    BY <1>1, <1>2, <2>1
<1>7. \A i \in Nat : a + i - 1 = i + d
  <2>1. \A x, i \in Nat : (x + 1) + i - 1 = i + x
    OBVIOUS
  <2>2. QED
    BY <1>1, <1>2, <2>1
<1>8. Len(q) = Len(s) - d
  BY <1>5, <1>6
<1>9. \A i \in 1..Len(q) : q[i] = s[i + d]
  <2>1. TAKE i \in 1..Len(q)
  <2>2. i \in Nat /\ i \in 1..b - a + 1
    BY <1>6, <1>8
  <2>3. q[i] = s[a + i - 1]
    BY <1>5, <2>2
  <2>4. QED
    BY <1>7, <2>2, <2>3
<1>10. r = q
  BY <1>2, <1>4
<1>11. QED
  BY <1>1, <1>5, <1>8, <1>9, <1>10

\* A sequence that is element by element the end of another is a suffix of it.
LEMMA SuffixOf ==
  ASSUME NEW S, NEW h \in Seq(S), NEW o \in Seq(S), NEW c \in Nat, Len(o) = c + Len(h),
         \A k \in 1..Len(h) : h[k] = o[c + k]
  PROVE  IsSuffix(h, o) /\ (c = 0 => h = o)
<1>1. Len(h) \in Nat /\ Len(o) \in Nat
  OBVIOUS
<1> DEFINE a == Reverse(h)
           b == Reverse(o)
<1>2. a \in Seq(S) /\ Len(a) = Len(h) /\ \A k \in 1..Len(h) : a[k] = h[(Len(h) - k) + 1]
  BY <1>1 DEF Reverse
<1>3. b \in Seq(S) /\ Len(b) = Len(o) /\ \A k \in 1..Len(o) : b[k] = o[(Len(o) - k) + 1]
  BY <1>1 DEF Reverse
<1>4. \A k \in 1..Len(h) : a[k] = b[k]
  <2>1. TAKE k \in 1..Len(h)
  <2>2. /\ k \in 1..Len(o) /\ (Len(h) - k) + 1 \in 1..Len(h)
        /\ c + ((Len(h) - k) + 1) = (Len(o) - k) + 1
    BY <1>1
  <2>3. h[(Len(h) - k) + 1] = o[c + ((Len(h) - k) + 1)]
    BY <2>2
  <2>4. QED
    BY <1>2, <1>3, <2>2, <2>3
<1> HIDE DEF a, b
<1>5. Len(a) <= Len(b)
  BY <1>1, <1>2, <1>3
<1>6. SubSeq(a, 1, Len(a)) = SubSeq(b, 1, Len(a))
  <2>1. SubSeq(a, 1, Len(a)) = [k \in 1..Len(a) |-> a[k]]
    BY <1>1, <1>2
  <2>2. SubSeq(b, 1, Len(a)) = [k \in 1..Len(a) |-> b[k]]
    BY <1>1, <1>2, <1>3, <1>5
  <2>3. QED
    BY <1>2, <1>4, <2>1, <2>2
<1>7. IsSuffix(h, o)
  BY <1>5, <1>6 DEF IsSuffix, IsPrefix, a, b
<1>8. ASSUME c = 0 PROVE h = o
  <2>1. Len(h) = Len(o) /\ \A k \in 1..Len(h) : c + k = k
    BY <1>1, <1>8
  <2>2. \A k \in 1..Len(h) : h[k] = o[k]
    BY <2>1
  <2>3. h = [k \in 1..Len(h) |-> h[k]] /\ o = [k \in 1..Len(o) |-> o[k]]
    OBVIOUS
  <2>4. QED
    BY <2>1, <2>2, <2>3
<1>9. QED
  BY <1>7, <1>8

\* J has the positions of r that I has of the sequence r ends.
Shifted(r, J, I, d) == \A i \in DOMAIN r : i \in J <=> i + d \in I

\* r is what s has after its first d.
EndsAfter(r, s, d) == d \in 0..Len(s) /\ r = SubSeq(s, d + 1, Len(s))

\* What is selected from the end of a sequence is the end of what is selected from it.
LEMMA SelectedEnd ==
  ASSUME NEW S, NEW s \in Seq(S), NEW d, NEW r, EndsAfter(r, s, d),
         NEW I \in SUBSET (DOMAIN s), NEW J \in SUBSET (DOMAIN r),
         Shifted(r, J, I, d)
  PROVE  /\ Selected(r, J) \in Seq(S) /\ IsSuffix(Selected(r, J), Selected(s, I))
         /\ d = 0 => Selected(r, J) = Selected(s, I)
<1> PICK h, o : h = Selected(r, J) /\ o = Selected(s, I)
  OBVIOUS
<1>0. d \in 0..Len(s) /\ r = SubSeq(s, d + 1, Len(s))
  BY DEF EndsAfter
<1> DEFINE c == Cardinality({x \in I : x <= d})
           n == Len(s) - d
<1>1. Len(s) \in Nat /\ d \in Nat /\ n \in Nat /\ n + d = Len(s) /\ I \in SUBSET (1..Len(s))
  BY <1>0
<1>2. r \in Seq(S) /\ Len(r) = n /\ DOMAIN r = 1..n /\ \A i \in 1..n : r[i] = s[i + d]
  BY <1>0, EndOf
<1>4. J = {i \in 1..n : i + d \in I}
  BY <1>2 DEF Shifted
<1>5. ASSUME NEW i \in 0..n
      PROVE  /\ Cardinality({x \in I : x <= i + d}) = c + Cardinality({j \in J : j <= i})
             /\ c \in Nat /\ Cardinality({j \in J : j <= i}) \in Nat
  <2>1. i \in Nat /\ \A j \in 1..n : (j \in 1..i <=> j <= i)
    BY <1>1
  <2>2. \A j \in 1..i : j \in 1..n
    BY <1>1, <2>1
  <2>3. {j \in 1..i : j + d \in I} = {j \in J : j <= i}
    BY <1>4, <2>1, <2>2
  <2>4. /\ Cardinality({x \in I : x <= i + d})
              = Cardinality({x \in I : x <= d}) + Cardinality({j \in 1..i : j + d \in I})
        /\ Cardinality({x \in I : x <= d}) \in Nat
        /\ Cardinality({j \in 1..i : j + d \in I}) \in Nat
    BY <1>1, <2>1, Counted
  <2>5. QED
    BY <2>3, <2>4
<1>6. c \in Nat /\ Cardinality(I) = c + Cardinality(J) /\ Cardinality(J) \in Nat
  <2>1. n \in 0..n
    BY <1>1
  <2>2. (\A x \in I : x <= n + d) /\ (\A j \in J : j <= n)
    BY <1>1, <1>4
  <2>3. {x \in I : x <= n + d} = I /\ {j \in J : j <= n} = J
    BY <2>2
  <2> HIDE DEF n, c
  <2>4. QED
    BY <1>5, <2>1, <2>3
<1>7. Len(Selected(s, I)) = Cardinality(I) /\ Len(Selected(r, J)) = Cardinality(J)
  <2>1. c + Cardinality(J) \in Nat
    BY <1>6
  <2> HIDE DEF c
  <2>2. Cardinality(I) \in Nat
    BY <1>6, <2>1
  <2>3. QED
    BY <1>6, <2>2 DEF Selected
<1> HIDE DEF c
<1>8. ASSUME NEW k \in 1..Cardinality(J) PROVE Selected(r, J)[k] = Selected(s, I)[c + k]
  <2>1. PICK i \in J : k = Rank(J, i) /\ Selected(r, J)[k] = r[i]
    BY <1>2, SelectedFrom
  <2>2. k = Cardinality({x \in J : x <= i})
    BY <2>1 DEF Rank
  <2>3. i \in 0..n /\ i \in 1..n /\ i + d \in I
    BY <1>1, <1>4, <2>1
  <2>4. c + k = Cardinality({x \in I : x <= i + d})
    BY <1>5, <2>2, <2>3
  <2>5. Selected(s, I)[c + k] = s[i + d]
    <3>1. PICK m : m = c + k
      OBVIOUS
    <3>2. PICK q \in I : q = i + d
      BY <2>3
    <3>3. m = Rank(I, q)
      BY <2>4, <3>1, <3>2 DEF Rank
    <3>4. Selected(s, I)[m] = s[q]
      BY <3>3, SelectedAt
    <3>5. QED
      BY <3>1, <3>2, <3>4
  <2>6. QED
    BY <1>2, <2>1, <2>3, <2>5
<1>9. h \in Seq(S) /\ o \in Seq(S)
  BY <1>2, SelectedSeq
<1>10. d = 0 => c = 0
  <2>1. \A x \in I : ~ (x <= 0)
    BY <1>1
  <2>2. d = 0 => {x \in I : x <= d} = {}
    BY <2>1
  <2>3. QED
    BY <2>2, FS_EmptySet DEF c
<1>11. Len(o) = c + Len(h) /\ \A k \in 1..Len(h) : h[k] = o[c + k]
  BY <1>7, <1>6, <1>8
<1>12. QED
  BY <1>6, <1>9, <1>10, <1>11, SuffixOf

-----------------------------------------------------------------------------
(* The gate                                                                *)

\* The types the gate goes by.
GateTypes ==
  /\ DOMAIN stage = Turns
  /\ approved \in [Turns -> SUBSET Risky]
  /\ ran \subseteq [turn : Turns, level : Levels, tool : Server \cup Remote]
  /\ asked \subseteq [turn : Turns, tool : Risky]

\* Steps that leave the gate alone, and bring no request back to its start.
Elsewhere ==
  /\ UNCHANGED <<approved, ran, asked>>
  /\ \A u \in Turns : stage'[u] = "idle" => stage[u] = "idle"

\* What a pass sends to the client touches nothing else of the gate.
Sends(t) ==
  /\ UNCHANGED <<approved, asked>>
  /\ ran' \subseteq ran \cup [turn : {t}, level : {"chat"}, tool : Remote]
  /\ \A u \in Turns : stage'[u] = "idle" => stage[u] = "idle"

\* All steps but five are such.
LEMMA StepsElsewhere ==
  ASSUME GateTypes, NEW t \in Turns,
         \/ SaveQuestion(t) \/ BuildPrompt(t) \/ StartLoop(t) \/ Wrap(t) \/ SaveAnswer(t) \/ SaveTrace(t)
         \/ OtherSaves(t) \/ Hangup(t)
         \/ \E x \in Experts : Delegate(t, x)
         \/ \E l \in Levels : ModelFails(t, l) \/ NextPass(t, l) \/ ToolEnds(t, l)
                             \/ \E x \in Tools : Refuse(t, l, x)
  PROVE  Elsewhere
<1>1. ASSUME NEW next, stage' = [stage EXCEPT ![t] = next], next # "idle"
      PROVE  \A u \in Turns : stage'[u] = "idle" => stage[u] = "idle"
  BY <1>1 DEF GateTypes
<1>2. CASE SaveQuestion(t) \/ BuildPrompt(t) \/ StartLoop(t) \/ Wrap(t) \/ SaveAnswer(t) \/ SaveTrace(t)
  <2>1. UNCHANGED <<approved, ran, asked>>
    BY <1>2 DEF SaveQuestion, BuildPrompt, StartLoop, Wrap, SaveAnswer, SaveTrace
  <2>2. \E next : stage' = [stage EXCEPT ![t] = next] /\ next # "idle"
    BY <1>2 DEF SaveQuestion, BuildPrompt, StartLoop, Wrap, SaveAnswer, SaveTrace
  <2>3. QED
    BY <1>1, <2>1, <2>2 DEF Elsewhere
<1>3. CASE OtherSaves(t) \/ \E x \in Experts : Delegate(t, x)
  BY <1>3 DEF OtherSaves, Delegate, Elsewhere
<1>4. CASE Hangup(t)
  BY <1>1, <1>4 DEF Hangup, Elsewhere
<1>5. ASSUME NEW l \in Levels, ModelFails(t, l) \/ NextPass(t, l)
      PROVE  Elsewhere
  <2>1. UNCHANGED <<approved, ran, asked>>
    BY <1>5 DEF ModelFails, NextPass
  <2>2. stage' = stage \/ ChatEnds(t, "wrap") \/ ChatEnds(t, "failed")
    BY <1>5 DEF ModelFails, NextPass, ExpertEnds
  <2>3. QED
    BY <1>1, <2>1, <2>2 DEF ChatEnds, Elsewhere
<1>6. ASSUME NEW l \in Levels, ToolEnds(t, l) \/ \E x \in Tools : Refuse(t, l, x)
      PROVE  Elsewhere
  BY <1>6 DEF ToolEnds, Refuse, Elsewhere
<1>7. QED
  BY <1>2, <1>3, <1>4, <1>5, <1>6

\* The model's passes send out calls of client tools, and only from the top level.
LEMMA PassesSend ==
  ASSUME GateTypes, NEW t \in Turns, NEW l \in Levels, Answers(t, l) \/ CallsTools(t, l)
  PROVE  Sends(t)
<1>1. ASSUME NEW next, stage' = [stage EXCEPT ![t] = next], next # "idle"
      PROVE  \A u \in Turns : stage'[u] = "idle" => stage[u] = "idle"
  BY <1>1 DEF GateTypes
<1>2. UNCHANGED <<approved, asked>>
  BY DEF Answers, CallsTools
<1>3. stage' = stage \/ ChatEnds(t, "wrap")
  BY DEF Answers, CallsTools, ExpertEnds
<1>4. ran' = ran \/ \E calls \in Calls : ClientCalls(t, l, calls)
  BY DEF Answers, CallsTools
<1>5. ASSUME NEW calls \in Calls, ClientCalls(t, l, calls)
      PROVE  ran' \subseteq ran \cup [turn : {t}, level : {"chat"}, tool : Remote]
  BY <1>5 DEF ClientCalls, IsClientTool
<1>6. QED
  BY <1>1, <1>2, <1>3, <1>4, <1>5 DEF ChatEnds, Sends

\* A step elsewhere keeps the gate.
LEMMA ElsewhereGated ==
  ASSUME GateTypes, Gated, Elsewhere
  PROVE  Gated'
<1>1. UNCHANGED <<approved, ran, asked>>
  BY DEF Elsewhere
<1>2. ASSUME NEW r \in ran
      PROVE  /\ r.tool \in Risky \ Remote => r.tool \in approved[r.turn]
             /\ r.level = "expert" => r.tool \in Reach \ Remote
             /\ stage'[r.turn] # "idle"
  <2>1. r.turn \in Turns
    BY DEF GateTypes
  <2>2. QED
    BY <2>1 DEF Gated, Elsewhere
<1>3. ASSUME NEW q \in asked
      PROVE  q.tool \in Server \ approved[q.turn] /\ stage'[q.turn] # "idle"
  <2>1. q.turn \in Turns
    BY DEF GateTypes
  <2>2. QED
    BY <2>1 DEF Gated, Elsewhere
<1>4. QED
  BY <1>1, <1>2, <1>3 DEF Gated

\* What is sent to the client keeps the gate, which does not cover it.
LEMMA SendsGated ==
  ASSUME GateTypes, Gated, NEW t \in Turns, Sends(t), stage[t] # "idle"
  PROVE  /\ ran' \subseteq [turn : Turns, level : Levels, tool : Server \cup Remote]
         /\ Gated'
<1>1. UNCHANGED <<approved, asked>>
  BY DEF Sends
<1>2. \A r \in ran' : r \in ran \/ r \in [turn : {t}, level : {"chat"}, tool : Remote]
  BY DEF Sends
<1>3. ran' \subseteq [turn : Turns, level : Levels, tool : Server \cup Remote]
  BY <1>2 DEF GateTypes, Levels
<1>4. \A u \in Turns : stage[u] # "idle" => stage'[u] # "idle"
  BY DEF Sends
<1>5. ASSUME NEW r \in ran'
      PROVE  /\ r.tool \in Risky \ Remote => r.tool \in approved[r.turn]
             /\ r.level = "expert" => r.tool \in Reach \ Remote
             /\ stage'[r.turn] # "idle"
  <2>1. CASE r \in ran
    <3>1. r.turn \in Turns
      BY <2>1 DEF GateTypes
    <3>2. QED
      BY <1>4, <2>1, <3>1 DEF Gated
  <2>2. CASE r \in [turn : {t}, level : {"chat"}, tool : Remote]
    <3>1. r.turn = t /\ r.level = "chat" /\ r.tool \in Remote
      BY <2>2
    <3>2. QED
      BY <1>4, <3>1
  <2>3. QED
    BY <1>2, <2>1, <2>2
<1>6. ASSUME NEW q \in asked PROVE q.tool \in Server \ approved[q.turn] /\ stage'[q.turn] # "idle"
  <2>1. q.turn \in Turns
    BY DEF GateTypes
  <2>2. QED
    BY <1>4, <2>1 DEF Gated
<1>7. QED
  BY <1>1, <1>3, <1>5, <1>6 DEF Gated

\* A request comes in with its approvals: nothing was asked or ran for it before.
LEMMA PostGated ==
  ASSUME GateTypes, Gated, NEW t \in Turns, Post(t)
  PROVE  Gated'
<1>1. PICK ok \in SUBSET Risky : approved' = [approved EXCEPT ![t] = ok]
  BY DEF Post
<1>2. stage[t] = "idle" /\ stage' = [stage EXCEPT ![t] = "posted"] /\ UNCHANGED <<ran, asked>>
  BY DEF Post
<1>3. ASSUME NEW u \in Turns, stage[u] # "idle" PROVE approved'[u] = approved[u] /\ stage'[u] # "idle"
  BY <1>1, <1>2, <1>3 DEF GateTypes
<1>4. ASSUME NEW r \in ran
      PROVE  /\ r.tool \in Risky \ Remote => r.tool \in approved'[r.turn]
             /\ r.level = "expert" => r.tool \in Reach \ Remote
             /\ stage'[r.turn] # "idle"
  <2>1. r.turn \in Turns
    BY DEF GateTypes
  <2>2. QED
    BY <1>3, <2>1 DEF Gated
<1>5. ASSUME NEW q \in asked PROVE q.tool \in Server \ approved'[q.turn] /\ stage'[q.turn] # "idle"
  <2>1. q.turn \in Turns
    BY DEF GateTypes
  <2>2. QED
    BY <1>3, <2>1 DEF Gated
<1>6. QED
  BY <1>2, <1>4, <1>5 DEF Gated

\* What is permitted runs.
LEMMA InvokeGated ==
  ASSUME GateTypes, Gated, NEW t \in Turns, NEW l \in Levels, NEW x \in Tools, Invoke(t, l, x),
         stage[t] # "idle"
  PROVE  /\ ran' \subseteq [turn : Turns, level : Levels, tool : Server \cup Remote]
         /\ Gated'
<1> DEFINE new == [turn |-> t, level |-> l, tool |-> x]
<1>1. ran' = ran \cup {new} /\ UNCHANGED <<stage, approved, asked>>
  BY DEF Invoke
<1>2. /\ x \in Server
      /\ x \in Risky => x \in approved[t]
      /\ l = "expert" => x \in Reach \ Remote
  BY ChatAssumption DEF Invoke, Available, Permitted
<1>3. new \in [turn : Turns, level : Levels, tool : Server \cup Remote]
  BY <1>2
<1>4. ASSUME NEW r \in ran'
      PROVE  /\ r.tool \in Risky \ Remote => r.tool \in approved[r.turn]
             /\ r.level = "expert" => r.tool \in Reach \ Remote
             /\ stage[r.turn] # "idle"
  BY <1>1, <1>2 DEF Gated
<1>5. QED
  BY <1>1, <1>3, <1>4 DEF Gated, GateTypes

\* What is not permitted is asked about, if there is a user to ask.
LEMMA BlockGated ==
  ASSUME GateTypes, Gated, NEW t \in Turns, NEW l \in Levels, NEW x \in Tools, Block(t, l, x),
         stage[t] # "idle"
  PROVE  asked' \subseteq [turn : Turns, tool : Risky] /\ Gated'
<1> DEFINE new == [turn |-> t, tool |-> x]
<1>1. asked' \subseteq asked \cup {new} /\ UNCHANGED <<stage, approved, ran>>
  BY DEF Block, AskApproval
<1>2. x \in Risky /\ x \in Server \ approved[t]
  BY DEF Block, Available, Permitted
<1>3. ASSUME NEW q \in asked' PROVE q.tool \in Server \ approved[q.turn] /\ stage[q.turn] # "idle"
  BY <1>1, <1>2 DEF Gated
<1>4. QED
  BY <1>1, <1>2, <1>3 DEF Gated, GateTypes

-----------------------------------------------------------------------------
(* The loops: types                                                        *)

Stages == {"idle", "posted", "saved", "prompted"} \cup Streaming \cup Final
Loop == [at : {"off", "model", "calls", "tool"},
         pass : 0..MaxIters \cup 0..ExpertIters,
         todo : Seq(Tools)]
Loops == [Turns -> [Levels -> Loop]]
Debts == [Turns -> [Levels -> Seq(Tools)]]
Tasks == [Turns -> [Levels -> Server \cup {None}]]

\* The types of what the loops change, and of the rest.
CoreTypes ==
  /\ stage \in [Turns -> Stages]
  /\ loop \in Loops
  /\ owed \in Debts
  /\ task \in Tasks
  /\ sink \in [Turns -> Levels \cup {None}]

SideTypes ==
  /\ approved \in [Turns -> SUBSET Risky]
  /\ heard \in [Turns -> BOOLEAN]
  /\ steps \in [Turns -> BOOLEAN]
  /\ rows \in Seq([turn : Turns, role : {"user", "assistant", "tool"}])
  /\ log \in [Turns -> Seq(Messages)]
  /\ prompt \in [Turns -> Seq(Messages)]
  /\ ran \subseteq [turn : Turns, level : Levels, tool : Server \cup Remote]
  /\ asked \subseteq [turn : Turns, tool : Risky]

\* Together they are TypeOK.
LEMMA TypesTogether == TypeOK <=> CoreTypes /\ SideTypes
BY DEF TypeOK, CoreTypes, SideTypes, Stages, Loop, Loops, Debts, Tasks

\* A loop that has just begun, or has ended, is a loop.
LEMMA FirstLoops == Off \in Loop /\ FirstPass \in Loop /\ Off.at = "off" /\ FirstPass.at = "model"
<1>1. 0 \in 0..MaxIters /\ 1 \in 0..MaxIters
  BY ChatAssumption
<1>2. <<>> \in Seq(Tools)
  OBVIOUS
<1>3. QED
  BY <1>1, <1>2 DEF Off, FirstPass, Loop

\* g is f with x for one request at one level; it is f for all others.
Replaced(f, g, t, l, x) == g = [f EXCEPT ![t][l] = x]
Goes(f, g, t, l, place) == g = [f EXCEPT ![t][l].at = place]
Filled(f, g, t, l, calls) == g = [f EXCEPT ![t][l].at = "calls", ![t][l].todo = calls]
Others(f, g, t, l) ==
  /\ \A m \in Levels \ {l} : g[t][m] = f[t][m]
  /\ \A u \in Turns \ {t} : g[u] = f[u]

\* A loop is replaced.
LEMMA LoopReplaced ==
  ASSUME NEW f \in Loops, NEW g, NEW t \in Turns, NEW l \in Levels, NEW x \in Loop,
         Replaced(f, g, t, l, x)
  PROVE  g \in Loops /\ g[t][l] = x /\ Others(f, g, t, l)
BY DEF Loops, Replaced, Others

\* A loop goes on to another place.
LEMMA LoopGoes ==
  ASSUME NEW f \in Loops, NEW t \in Turns, NEW l \in Levels,
         NEW place \in {"off", "model", "calls", "tool"},
         NEW g, Goes(f, g, t, l, place)
  PROVE  /\ g \in Loops /\ Others(f, g, t, l)
         /\ g[t][l].at = place /\ g[t][l].todo = f[t][l].todo
<1> DEFINE x == [f[t][l] EXCEPT !.at = place]
<1>1. f[t][l] \in Loop
  BY DEF Loops
<1>2. x \in Loop /\ x.at = place /\ x.todo = f[t][l].todo
  BY <1>1 DEF Loop
<1>3. Replaced(f, g, t, l, x)
  BY DEF Replaced, Goes
<1> HIDE DEF x
<1>4. g \in Loops /\ g[t][l] = x /\ Others(f, g, t, l)
  BY <1>2, <1>3, LoopReplaced
<1>5. QED
  BY <1>2, <1>4

\* A loop has calls to make.
LEMMA LoopCalls ==
  ASSUME NEW f \in Loops, NEW t \in Turns, NEW l \in Levels, NEW calls \in Seq(Tools),
         NEW g, Filled(f, g, t, l, calls)
  PROVE  /\ g \in Loops /\ Others(f, g, t, l)
         /\ g[t][l].at = "calls" /\ g[t][l].todo = calls
<1> DEFINE h == [f EXCEPT ![t][l].at = "calls"]
           x == [h[t][l] EXCEPT !.todo = calls]
<1>1. h \in Loops /\ Others(f, h, t, l) /\ h[t][l].at = "calls"
  <2>1. Goes(f, h, t, l, "calls")
    BY DEF Goes
  <2> HIDE DEF h
  <2>2. QED
    BY <2>1, LoopGoes
<1>2. g = [h EXCEPT ![t][l].todo = calls]
  BY DEF Filled
<1> HIDE DEF h
<1>3. h[t][l] \in Loop
  BY <1>1 DEF Loops
<1>4. x \in Loop /\ x.at = "calls" /\ x.todo = calls
  BY <1>1, <1>3 DEF Loop
<1>5. Replaced(h, g, t, l, x)
  BY <1>2 DEF Replaced
<1> HIDE DEF x
<1>6. g \in Loops /\ g[t][l] = x /\ Others(h, g, t, l)
  BY <1>1, <1>4, <1>5, LoopReplaced
<1>7. Others(f, g, t, l)
  BY <1>1, <1>6 DEF Others
<1>8. QED
  BY <1>4, <1>6, <1>7

\* A loop has the result of a call.
LEMMA LoopResult ==
  ASSUME NEW f \in Loops, NEW t \in Turns, NEW l \in Levels, f[t][l].todo # <<>>,
         NEW g, g = [f EXCEPT ![t][l].at = "calls", ![t][l].todo = Tail(@)]
  PROVE  /\ g \in Loops /\ Others(f, g, t, l)
         /\ g[t][l].at = "calls" /\ g[t][l].todo = Tail(f[t][l].todo)
<1> DEFINE h == [f EXCEPT ![t][l].at = "calls"]
           x == [h[t][l] EXCEPT !.todo = Tail(@)]
<1>1. h \in Loops /\ Others(f, h, t, l) /\ h[t][l].at = "calls" /\ h[t][l].todo = f[t][l].todo
  <2>1. Goes(f, h, t, l, "calls")
    BY DEF Goes
  <2> HIDE DEF h
  <2>2. QED
    BY <2>1, LoopGoes
<1>2. g = [h EXCEPT ![t][l].todo = Tail(@)]
  OBVIOUS
<1> HIDE DEF h
<1>3. h[t][l] \in Loop
  BY <1>1 DEF Loops
<1>4. h[t][l].todo \in Seq(Tools) /\ Tail(h[t][l].todo) \in Seq(Tools)
  BY <1>1, <1>3 DEF Loop
<1>5. x \in Loop /\ x.at = "calls" /\ x.todo = Tail(f[t][l].todo)
  BY <1>1, <1>3, <1>4 DEF Loop
<1>6. Replaced(h, g, t, l, x)
  BY <1>2 DEF Replaced
<1> HIDE DEF x
<1>7. g \in Loops /\ g[t][l] = x /\ Others(h, g, t, l)
  <2>1. h \in Loops /\ x \in Loop
    BY <1>1, <1>5
  <2>2. QED
    BY <1>6, <2>1, LoopReplaced, Zenon
<1>8. Others(f, g, t, l)
  BY <1>1, <1>7 DEF Others
<1>9. QED
  BY <1>5, <1>7, <1>8

\* A loop makes another pass.
LEMMA LoopPass ==
  ASSUME NEW f \in Loops, NEW t \in Turns, NEW l \in Levels, f[t][l].pass < Limit(l),
         NEW g, g = [f EXCEPT ![t][l].at = "model", ![t][l].pass = @ + 1]
  PROVE  /\ g \in Loops /\ Others(f, g, t, l)
         /\ g[t][l].at = "model" /\ g[t][l].todo = f[t][l].todo
<1> DEFINE h == [f EXCEPT ![t][l].at = "model"]
           x == [h[t][l] EXCEPT !.pass = @ + 1]
<1>1. h \in Loops /\ Others(f, h, t, l) /\ h[t][l].at = "model" /\ h[t][l].todo = f[t][l].todo
  <2>1. Goes(f, h, t, l, "model")
    BY DEF Goes
  <2> HIDE DEF h
  <2>2. QED
    BY <2>1, LoopGoes
<1>2. h[t][l].pass = f[t][l].pass
  BY DEF Loops, Loop
<1>3. g = [h EXCEPT ![t][l].pass = @ + 1]
  OBVIOUS
<1> HIDE DEF h
<1>4. h[t][l] \in Loop
  BY <1>1 DEF Loops
<1>5. h[t][l].pass + 1 \in 0..MaxIters \cup 0..ExpertIters
  <2>1. h[t][l].pass \in 0..MaxIters \cup 0..ExpertIters
    BY <1>4 DEF Loop
  <2>2. QED
    BY <1>2, <2>1, ChatAssumption DEF Limit
<1>6. x \in Loop /\ x.at = "model" /\ x.todo = f[t][l].todo
  BY <1>1, <1>4, <1>5 DEF Loop
<1>7. Replaced(h, g, t, l, x)
  BY <1>3 DEF Replaced
<1> HIDE DEF x
<1>8. g \in Loops /\ g[t][l] = x /\ Others(h, g, t, l)
  <2>1. h \in Loops /\ x \in Loop
    BY <1>1, <1>6
  <2>2. QED
    BY <1>7, <2>1, LoopReplaced, Zenon
<1>9. Others(f, g, t, l)
  BY <1>1, <1>8 DEF Others
<1>10. QED
  BY <1>6, <1>8, <1>9

\* What is owed at one level of one request changes.
LEMMA DebtChanges ==
  ASSUME NEW f \in Debts, NEW g, NEW t \in Turns, NEW l \in Levels, NEW calls \in Seq(Tools),
         Replaced(f, g, t, l, calls)
  PROVE  g \in Debts /\ g[t][l] = calls /\ Others(f, g, t, l)
BY DEF Debts, Replaced, Others

\* A tool begins or ends.
LEMMA TaskChanges ==
  ASSUME NEW f \in Tasks, NEW g, NEW t \in Turns, NEW l \in Levels,
         NEW x \in Server \cup {None}, Replaced(f, g, t, l, x)
  PROVE  g \in Tasks /\ g[t][l] = x /\ Others(f, g, t, l)
BY DEF Tasks, Replaced, Others

-----------------------------------------------------------------------------
(* The loops: their links                                                  *)

SameAt(u) == UNCHANGED <<stage[u], loop[u], owed[u], task[u], sink[u]>>
StepOf(t) == \A u \in Turns \ {t} : SameAt(u)

\* A step of one request keeps the links if it keeps that request's.
LEMMA OneTurn ==
  ASSUME Linked, NEW t \in Turns, StepOf(t), LinkedAt(t)'
  PROVE  Linked'
<1>1. ASSUME NEW u \in Turns \ {t} PROVE LinkedAt(u)'
  <2>1. LinkedAt(u) /\ SameAt(u)
    BY DEF Linked, StepOf
  <2>2. QED
    BY <2>1 DEF LinkedAt, SameAt
<1>2. QED
  BY <1>1 DEF Linked

\* What the links of a request come to for one of its loops.
LEMMA Links ==
  ASSUME Linked, NEW t \in Turns
  PROVE  /\ \A l \in Levels : Waits(loop[t][l], owed[t][l])
         /\ Nested(stage[t], loop[t], owed[t], task[t], sink[t])
BY DEF Linked, LinkedAt

\* A result comes in: the debt shrinks with the list.
LEMMA ResultedKeeps ==
  ASSUME CoreTypes, NEW t \in Turns, NEW l \in Levels, NEW f \in Loops, Resulted(t, l, f),
         f[t][l].todo # <<>>, owed[t][l] = f[t][l].todo
  PROVE  /\ loop' \in Loops /\ owed' \in Debts /\ sink' \in [Turns -> Levels \cup {None}]
         /\ loop'[t][l].at = "calls" /\ owed'[t][l] = loop'[t][l].todo
         /\ Others(f, loop', t, l) /\ Others(owed, owed', t, l)
         /\ sink'[t] = None /\ \A u \in Turns \ {t} : sink'[u] = sink[u]
<1>1. /\ loop' = [f EXCEPT ![t][l].at = "calls", ![t][l].todo = Tail(@)]
      /\ owed' = [owed EXCEPT ![t][l] = Tail(@)]
      /\ sink' = [sink EXCEPT ![t] = None]
  BY DEF Resulted
<1>2. /\ loop' \in Loops /\ Others(f, loop', t, l)
      /\ loop'[t][l].at = "calls" /\ loop'[t][l].todo = Tail(f[t][l].todo)
  <2>1. ASSUME NEW g, g = [f EXCEPT ![t][l].at = "calls", ![t][l].todo = Tail(@)]
        PROVE  /\ g \in Loops /\ Others(f, g, t, l)
               /\ g[t][l].at = "calls" /\ g[t][l].todo = Tail(f[t][l].todo)
    BY <2>1, LoopResult, ZenonT(60)
  <2>2. QED
    BY <1>1, <2>1
<1>3. Tail(f[t][l].todo) \in Seq(Tools)
  <2>1. f[t][l].todo \in Seq(Tools)
    BY DEF Loops, Loop
  <2>2. QED
    BY <2>1
<1>4. owed' \in Debts /\ owed'[t][l] = Tail(f[t][l].todo) /\ Others(owed, owed', t, l)
  <2>1. owed \in Debts /\ Replaced(owed, owed', t, l, Tail(f[t][l].todo))
    BY <1>1 DEF Replaced, CoreTypes
  <2>2. QED
    BY <1>3, <2>1, DebtChanges
<1>5. /\ sink' \in [Turns -> Levels \cup {None}]
      /\ sink'[t] = None /\ \A u \in Turns \ {t} : sink'[u] = sink[u]
  BY <1>1 DEF CoreTypes
<1>6. QED
  BY <1>2, <1>4, <1>5

\* The stage of a request changes while its top level does not run.
LEMMA StageLinked ==
  ASSUME CoreTypes, Linked, NEW t \in Turns, NEW st \in Stages \ {"live"},
         stage[t] # "live",
         st \in {"idle", "posted", "saved", "prompted"} => stage[t] \in {"idle", "posted", "saved", "prompted"},
         stage' = [stage EXCEPT ![t] = st], UNCHANGED <<loop, owed, task, sink>>
  PROVE  CoreTypes' /\ Linked' /\ StepOf(t)
<1>1. stage' \in [Turns -> Stages] /\ stage'[t] = st /\ \A u \in Turns \ {t} : stage'[u] = stage[u]
  BY DEF CoreTypes
<1>2. CoreTypes'
  BY <1>1 DEF CoreTypes
<1>3. LinkedAt(t)'
  <2>1. LinkedAt(t)
    BY DEF Linked
  <2>2. QED
    BY <1>1, <2>1 DEF LinkedAt, Nested, Stages
<1>4. QED
  BY <1>1, <1>2, <1>3, OneTurn DEF StepOf, SameAt

\* The top level ends, by itself or because the client has gone.
LEMMA ChatEndsLinked ==
  ASSUME CoreTypes, Linked, NEW t \in Turns, NEW st \in {"wrap", "failed", "gone"},
         loop' = [loop EXCEPT ![t]["chat"] = Off], stage' = [stage EXCEPT ![t] = st],
         UNCHANGED <<owed, task>>, sink' = sink \/ sink' = [sink EXCEPT ![t] = None]
  PROVE  CoreTypes' /\ Linked' /\ StepOf(t)
<1>1. loop' \in Loops /\ loop'[t]["chat"] = Off /\ Others(loop, loop', t, "chat")
  <2>1. Replaced(loop, loop', t, "chat", Off) /\ loop \in Loops /\ "chat" \in Levels /\ Off \in Loop
    BY FirstLoops DEF Replaced, CoreTypes, Levels
  <2>2. QED
    BY <2>1, LoopReplaced
<1>2. stage' \in [Turns -> Stages] /\ stage'[t] = st /\ \A u \in Turns \ {t} : stage'[u] = stage[u]
  BY DEF CoreTypes, Stages, Streaming, Final
<1>3. sink' \in [Turns -> Levels \cup {None}] /\ \A u \in Turns \ {t} : sink'[u] = sink[u]
  BY DEF CoreTypes
<1>4. CoreTypes'
  BY <1>1, <1>2, <1>3 DEF CoreTypes
<1>5. LinkedAt(t)'
  <2>1. LinkedAt(t)
    BY DEF Linked
  <2>2. loop'[t]["expert"] = loop[t]["expert"] /\ loop'[t]["chat"].at = "off"
    BY <1>1, FirstLoops DEF Others, Levels
  <2>3. \A l \in Levels : Waits(loop'[t][l], owed[t][l])
    BY <2>1, <2>2 DEF LinkedAt, Waits, Levels
  <2>4. Nested(stage'[t], loop'[t], owed[t], task[t], sink'[t])
    BY <1>2, <2>1, <2>2 DEF LinkedAt, Nested
  <2>5. QED
    BY <2>3, <2>4 DEF LinkedAt
<1>6. QED
  BY <1>1, <1>2, <1>3, <1>4, <1>5, OneTurn DEF StepOf, SameAt, Others

\* The expert ends, and whoever waits for it has its result.
LEMMA ExpertEndsLinked ==
  ASSUME CoreTypes, Linked, NEW t \in Turns, ExpertEnds(t), UNCHANGED task,
         loop[t]["expert"].at \in {"model", "calls"}, owed[t]["expert"] = <<>>
  PROVE  CoreTypes' /\ Linked' /\ StepOf(t)
<1> DEFINE ended == [loop EXCEPT ![t]["expert"] = Off]
<1>1. ended \in Loops /\ ended[t]["expert"] = Off /\ Others(loop, ended, t, "expert")
  <2>1. Replaced(loop, ended, t, "expert", Off) /\ loop \in Loops /\ "expert" \in Levels /\ Off \in Loop
    BY FirstLoops DEF Replaced, CoreTypes, Levels
  <2> HIDE DEF ended
  <2>2. QED
    BY <2>1, LoopReplaced
<1>2. /\ IF loop[t]["chat"].at = "tool"
           THEN Resulted(t, "chat", ended)
           ELSE loop' = ended /\ UNCHANGED <<sink, owed>>
      /\ UNCHANGED <<stage, task>>
  BY DEF ExpertEnds
<1> HIDE DEF ended
<1>3. LinkedAt(t) /\ ended[t]["chat"] = loop[t]["chat"] /\ ended[t]["expert"].at = "off"
  BY <1>1, FirstLoops DEF Linked, Others, Levels
<1>4. task[t]["expert"] = None
  BY <1>3 DEF LinkedAt, Nested
<1>5. CASE loop[t]["chat"].at = "tool"
  <2>1. /\ ended[t]["chat"].todo # <<>> /\ owed[t]["chat"] = ended[t]["chat"].todo
    BY <1>3, <1>5 DEF LinkedAt, Waits, Levels
  <2>2. /\ loop' \in Loops /\ owed' \in Debts /\ sink' \in [Turns -> Levels \cup {None}]
        /\ loop'[t]["chat"].at = "calls" /\ owed'[t]["chat"] = loop'[t]["chat"].todo
        /\ Others(ended, loop', t, "chat") /\ Others(owed, owed', t, "chat")
        /\ sink'[t] = None /\ \A u \in Turns \ {t} : sink'[u] = sink[u]
    BY <1>1, <1>2, <1>5, <2>1, ResultedKeeps DEF Levels
  <2>3. CoreTypes'
    BY <1>2, <2>2 DEF CoreTypes
  <2>4. loop'[t]["expert"].at = "off" /\ owed'[t]["expert"] = <<>>
    BY <1>3, <2>2 DEF Others, Levels
  <2>5. stage[t] = "live" /\ task[t]["chat"] = None
    BY <1>3, <1>5 DEF LinkedAt, Nested
  <2>6. \A l \in Levels : Waits(loop'[t][l], owed'[t][l])
    BY <2>2, <2>4 DEF Waits, Levels
  <2>7. Nested(stage[t], loop'[t], owed'[t], task[t], sink'[t])
    BY <1>4, <2>2, <2>4, <2>5 DEF Nested
  <2>8. LinkedAt(t)'
    BY <1>2, <2>6, <2>7 DEF LinkedAt
  <2>9. StepOf(t)
    BY <1>1, <1>2, <2>2 DEF StepOf, Others, SameAt
  <2>10. QED
    BY <2>3, <2>8, <2>9, OneTurn
<1>6. CASE loop[t]["chat"].at # "tool"
  <2>1. loop' = ended /\ UNCHANGED <<stage, task, sink, owed>>
    BY <1>2, <1>6
  <2>2. CoreTypes'
    BY <1>1, <2>1 DEF CoreTypes
  <2>3. \A l \in Levels : Waits(loop'[t][l], owed[t][l])
    BY <1>3, <2>1 DEF LinkedAt, Waits, Levels
  <2>4. Nested(stage[t], loop'[t], owed[t], task[t], sink[t])
    BY <1>3, <1>4, <1>6, <2>1 DEF LinkedAt, Nested
  <2>5. LinkedAt(t)'
    BY <2>1, <2>3, <2>4 DEF LinkedAt
  <2>6. StepOf(t)
    BY <1>1, <2>1 DEF StepOf, Others, SameAt
  <2>7. QED
    BY <2>2, <2>5, <2>6, OneTurn
<1>7. QED
  BY <1>5, <1>6

\* A step of one loop that runs no tool, by which it comes to make a pass or calls.
LEMMA LevelLinked ==
  ASSUME CoreTypes, Linked, NEW t \in Turns, NEW l \in Levels,
         loop[t][l].at \in {"model", "calls"},
         loop' \in Loops, Others(loop, loop', t, l), loop'[t][l].at \in {"model", "calls"},
         Waits(loop'[t][l], owed'[t][l]), owed' \in Debts, Others(owed, owed', t, l),
         sink' \in [Turns -> Levels \cup {None}], \A u \in Turns \ {t} : sink'[u] = sink[u],
         UNCHANGED <<stage, task>>
  PROVE  CoreTypes' /\ Linked' /\ StepOf(t)
<1>1. CoreTypes'
  BY DEF CoreTypes
<1>2. LinkedAt(t) /\ stage[t] \notin {"idle", "posted", "saved", "prompted"}
  BY DEF Linked, LinkedAt, Nested, Levels
<1>3. \A m \in Levels : Waits(loop'[t][m], owed'[t][m])
  <2>1. \A m \in Levels \ {l} : Waits(loop'[t][m], owed'[t][m])
    BY <1>2 DEF LinkedAt, Others
  <2>2. QED
    BY <2>1
<1>4. Nested(stage[t], loop'[t], owed'[t], task[t], sink'[t])
  <2>1. CASE l = "chat"
    <3>1. loop'[t]["expert"] = loop[t]["expert"] /\ owed'[t]["expert"] = owed[t]["expert"]
      BY <2>1 DEF Others, Levels
    <3>2. stage[t] = "live" /\ loop[t]["expert"].at = "off" /\ task[t]["chat"] = None
      BY <1>2, <2>1 DEF LinkedAt, Nested
    <3>3. task[t]["expert"] = None
      BY <1>2, <3>2 DEF LinkedAt, Nested
    <3>4. QED
      BY <1>2, <3>1, <3>2, <3>3 DEF LinkedAt, Nested
  <2>2. CASE l = "expert"
    <3>1. loop'[t]["chat"] = loop[t]["chat"]
      BY <2>2 DEF Others, Levels
    <3>2. task[t]["expert"] = None /\ loop'[t]["expert"].at # "off"
      BY <1>2, <2>2 DEF LinkedAt, Nested
    <3>3. stage[t] = "live" => loop[t]["chat"].at = "tool" /\ task[t]["chat"] = None
      BY <1>2, <2>2 DEF LinkedAt, Nested
    <3>4. QED
      BY <1>2, <3>1, <3>2, <3>3 DEF LinkedAt, Nested
  <2>3. QED
    BY <2>1, <2>2 DEF Levels
<1>5. LinkedAt(t)'
  BY <1>3, <1>4 DEF LinkedAt
<1>6. StepOf(t)
  BY DEF StepOf, SameAt, Others
<1>7. QED
  BY <1>1, <1>5, <1>6, OneTurn

\* The sequences the model's calls are taken from are finite.
LEMMA ServerCallsSeq ==
  ASSUME NEW l \in Levels, NEW calls \in Calls
  PROVE  ServerCalls(l, calls) \in Seq(Tools)
<1>1. calls \in Seq(Tools)
  BY ChatAssumption DEF Calls
<1>2. QED
  BY <1>1, SelectedSeq DEF ServerCalls

\* The model calls tools.
LEMMA CallsToolsLinked ==
  ASSUME CoreTypes, Linked, NEW t \in Turns, NEW l \in Levels, CallsTools(t, l)
  PROVE  CoreTypes' /\ Linked' /\ StepOf(t)
<1>1. PICK calls \in Calls :
        /\ loop' = [loop EXCEPT ![t][l].at = "calls", ![t][l].todo = ServerCalls(l, calls)]
        /\ owed' = [owed EXCEPT ![t][l] = ServerCalls(l, calls)]
  BY DEF CallsTools
<1>2. ServerCalls(l, calls) \in Seq(Tools) /\ loop \in Loops /\ owed \in Debts
  BY ServerCallsSeq DEF CoreTypes
<1>3. /\ loop' \in Loops /\ Others(loop, loop', t, l)
      /\ loop'[t][l].at = "calls" /\ loop'[t][l].todo = ServerCalls(l, calls)
  <2>1. Filled(loop, loop', t, l, ServerCalls(l, calls))
    BY <1>1 DEF Filled
  <2>2. QED
    BY <1>2, <2>1, LoopCalls
<1>4. owed' \in Debts /\ owed'[t][l] = ServerCalls(l, calls) /\ Others(owed, owed', t, l)
  <2>1. Replaced(owed, owed', t, l, ServerCalls(l, calls))
    BY <1>1 DEF Replaced
  <2>2. QED
    BY <1>2, <2>1, DebtChanges
<1>5. Waits(loop'[t][l], owed'[t][l])
  BY <1>3, <1>4 DEF Waits
<1>6. loop[t][l].at = "model" /\ UNCHANGED <<stage, task, sink>>
  BY DEF CallsTools
<1>7. QED
  BY <1>3, <1>4, <1>5, <1>6, LevelLinked DEF CoreTypes

\* All results are in, and there is another pass.
LEMMA AnotherPassLinked ==
  ASSUME CoreTypes, Linked, NEW t \in Turns, NEW l \in Levels,
         loop[t][l].at = "calls", loop[t][l].todo = <<>>, loop[t][l].pass < Limit(l),
         loop' = [loop EXCEPT ![t][l].at = "model", ![t][l].pass = @ + 1],
         UNCHANGED <<stage, owed, task, sink>>
  PROVE  CoreTypes' /\ Linked' /\ StepOf(t)
<1>1. loop \in Loops /\ owed \in Debts /\ sink \in [Turns -> Levels \cup {None}]
  BY DEF CoreTypes
<1>2. loop' \in Loops /\ Others(loop, loop', t, l) /\ loop'[t][l].at = "model"
  <2>1. ASSUME NEW g, g = [loop EXCEPT ![t][l].at = "model", ![t][l].pass = @ + 1]
        PROVE  g \in Loops /\ Others(loop, g, t, l) /\ g[t][l].at = "model"
    BY <1>1, <2>1, LoopPass, ZenonT(60)
  <2>2. QED
    BY <2>1
<1>3. owed[t][l] = <<>>
  BY Links DEF Waits
<1>4. Waits(loop'[t][l], owed'[t][l])
  BY <1>2, <1>3 DEF Waits
<1>5. owed' \in Debts /\ Others(owed, owed', t, l)
  BY <1>1 DEF Others
<1>6. sink' \in [Turns -> Levels \cup {None}] /\ \A u \in Turns \ {t} : sink'[u] = sink[u]
  BY <1>1
<1>7. QED
  BY <1>2, <1>4, <1>5, <1>6, LevelLinked

\* A call is answered without a tool: it is blocked, refused, or empty.
LEMMA AnsweredLinked ==
  ASSUME CoreTypes, Linked, NEW t \in Turns, NEW l \in Levels, NEW x, Due(t, l, x),
         Resulted(t, l, loop), UNCHANGED <<stage, task>>
  PROVE  CoreTypes' /\ Linked' /\ StepOf(t)
<1>1. loop[t][l].at = "calls" /\ loop[t][l].todo # <<>>
  BY DEF Due
<1>2. loop \in Loops /\ owed[t][l] = loop[t][l].todo
  BY <1>1, Links DEF CoreTypes, Waits
<1>3. /\ loop' \in Loops /\ owed' \in Debts /\ sink' \in [Turns -> Levels \cup {None}]
      /\ loop'[t][l].at = "calls" /\ owed'[t][l] = loop'[t][l].todo
      /\ Others(loop, loop', t, l) /\ Others(owed, owed', t, l)
      /\ sink'[t] = None /\ \A u \in Turns \ {t} : sink'[u] = sink[u]
  BY <1>1, <1>2, ResultedKeeps
<1>4. Waits(loop'[t][l], owed'[t][l])
  BY <1>3 DEF Waits
<1>5. QED
  BY <1>1, <1>3, <1>4, LevelLinked

\* A tool begins: its loop waits for it, and has the progress channel.
LEMMA InvokeLinked ==
  ASSUME CoreTypes, Linked, NEW t \in Turns, NEW l \in Levels, NEW x, Invoke(t, l, x)
  PROVE  CoreTypes' /\ Linked' /\ StepOf(t)
<1>1. /\ loop[t][l].at = "calls" /\ loop[t][l].todo # <<>> /\ x \in Server
      /\ UNCHANGED <<stage, owed>>
  BY DEF Invoke, Due, Available
<1>2. /\ loop' \in Loops /\ Others(loop, loop', t, l)
      /\ loop'[t][l].at = "tool" /\ loop'[t][l].todo = loop[t][l].todo
  <2>1. loop \in Loops /\ Goes(loop, loop', t, l, "tool")
    BY DEF Goes, Invoke, CoreTypes
  <2>2. QED
    BY <2>1, LoopGoes
<1>3. task' \in Tasks /\ task'[t][l] = x /\ Others(task, task', t, l)
  <2>1. task \in Tasks /\ Replaced(task, task', t, l, x) /\ x \in Server \cup {None}
    BY <1>1 DEF Replaced, Invoke, CoreTypes
  <2>2. QED
    BY <2>1, TaskChanges
<1>4. /\ sink' \in [Turns -> Levels \cup {None}]
      /\ sink'[t] = l /\ \A u \in Turns \ {t} : sink'[u] = sink[u]
  BY DEF Invoke, CoreTypes
<1>5. CoreTypes'
  BY <1>1, <1>2, <1>3, <1>4 DEF CoreTypes
<1>6. LinkedAt(t)
  BY DEF Linked
<1>7. \A m \in Levels : Waits(loop'[t][m], owed[t][m])
  <2>1. \A m \in Levels \ {l} : Waits(loop'[t][m], owed[t][m])
    BY <1>2, <1>6 DEF LinkedAt, Others
  <2>2. Waits(loop'[t][l], owed[t][l])
    BY <1>1, <1>2, <1>6 DEF LinkedAt, Waits
  <2>3. QED
    BY <2>1, <2>2
<1>8. Nested(stage[t], loop'[t], owed[t], task'[t], sink'[t])
  <2>1. CASE l = "chat"
    <3>1. loop'[t]["expert"] = loop[t]["expert"] /\ task'[t]["expert"] = task[t]["expert"]
      BY <1>2, <1>3, <2>1 DEF Others, Levels
    <3>2. stage[t] = "live" /\ loop[t]["expert"].at = "off" /\ task[t]["expert"] = None
      BY <1>1, <1>6, <2>1 DEF LinkedAt, Nested
    <3>3. QED
      BY <1>2, <1>4, <1>6, <2>1, <3>1, <3>2 DEF LinkedAt, Nested
  <2>2. CASE l = "expert"
    <3>1. loop'[t]["chat"] = loop[t]["chat"] /\ task'[t]["chat"] = task[t]["chat"]
      BY <1>2, <1>3, <2>2 DEF Others, Levels
    <3>2. /\ stage[t] \notin {"idle", "posted", "saved", "prompted"}
          /\ stage[t] = "live" => loop[t]["chat"].at = "tool" /\ task[t]["chat"] = None
      BY <1>1, <1>6, <2>2 DEF LinkedAt, Nested
    <3>3. QED
      BY <1>2, <1>4, <1>6, <2>2, <3>1, <3>2 DEF LinkedAt, Nested
  <2>3. QED
    BY <2>1, <2>2 DEF Levels
<1>9. LinkedAt(t)'
  BY <1>1, <1>7, <1>8 DEF LinkedAt
<1>10. StepOf(t)
  BY <1>1, <1>2, <1>3, <1>4 DEF StepOf, SameAt, Others
<1>11. QED
  BY <1>5, <1>9, <1>10, OneTurn

\* A tool ends, and whoever waits for it has its result.
LEMMA ToolEndsLinked ==
  ASSUME CoreTypes, Linked, NEW t \in Turns, NEW l \in Levels, ToolEnds(t, l)
  PROVE  CoreTypes' /\ Linked' /\ StepOf(t)
<1>1. task[t][l] # None /\ UNCHANGED stage
  BY DEF ToolEnds
<1>2. task' \in Tasks /\ task'[t][l] = None /\ Others(task, task', t, l)
  <2>1. task \in Tasks /\ Replaced(task, task', t, l, None) /\ None \in Server \cup {None}
    BY DEF Replaced, ToolEnds, CoreTypes
  <2>2. QED
    BY <2>1, TaskChanges
<1>3. LinkedAt(t)
  BY DEF Linked
<1>4. /\ loop' \in Loops /\ owed' \in Debts /\ sink' \in [Turns -> Levels \cup {None}]
      /\ Others(loop, loop', t, l) /\ Others(owed, owed', t, l)
      /\ \A u \in Turns \ {t} : sink'[u] = sink[u]
      /\ Waits(loop'[t][l], owed'[t][l])
      /\ \/ loop[t][l].at = "tool" /\ loop'[t][l].at = "calls"
         \/ loop[t][l].at # "tool" /\ UNCHANGED <<loop, owed, sink>>
  <2>1. CASE loop[t][l].at = "tool"
    <3>1. Resulted(t, l, loop) /\ loop \in Loops
      BY <2>1 DEF ToolEnds, CoreTypes
    <3>2. loop[t][l].todo # <<>> /\ owed[t][l] = loop[t][l].todo
      BY <1>3, <2>1 DEF LinkedAt, Waits
    <3>3. /\ loop' \in Loops /\ owed' \in Debts /\ sink' \in [Turns -> Levels \cup {None}]
          /\ loop'[t][l].at = "calls" /\ owed'[t][l] = loop'[t][l].todo
          /\ Others(loop, loop', t, l) /\ Others(owed, owed', t, l)
          /\ sink'[t] = None /\ \A u \in Turns \ {t} : sink'[u] = sink[u]
      BY <3>1, <3>2, ResultedKeeps
    <3>4. QED
      BY <2>1, <3>3 DEF Waits
  <2>2. CASE loop[t][l].at # "tool"
    <3>1. UNCHANGED <<loop, owed, sink>>
      BY <2>2 DEF ToolEnds
    <3>2. QED
      BY <1>3, <2>2, <3>1 DEF LinkedAt, Others, CoreTypes
  <2>3. QED
    BY <2>1, <2>2
<1>5. CoreTypes'
  BY <1>1, <1>2, <1>4 DEF CoreTypes
<1>6. \A m \in Levels : Waits(loop'[t][m], owed'[t][m])
  <2>1. \A m \in Levels \ {l} : Waits(loop'[t][m], owed'[t][m])
    BY <1>3, <1>4 DEF LinkedAt, Others
  <2>2. QED
    BY <1>4, <2>1
<1>7. stage[t] \notin {"idle", "posted", "saved", "prompted"}
  BY <1>1, <1>3 DEF LinkedAt, Nested, Levels
<1>8. Nested(stage[t], loop'[t], owed'[t], task'[t], sink'[t])
  <2>1. CASE l = "chat"
    <3>1. /\ loop'[t]["expert"] = loop[t]["expert"] /\ owed'[t]["expert"] = owed[t]["expert"]
          /\ task'[t]["expert"] = task[t]["expert"]
      BY <1>2, <1>4, <2>1 DEF Others, Levels
    <3>2. stage[t] = "live" => loop[t]["expert"].at = "off" /\ task[t]["expert"] = None
      BY <1>1, <1>3, <2>1 DEF LinkedAt, Nested
    <3>3. loop'[t]["chat"].at # "off" => stage[t] = "live"
      BY <1>3, <1>4, <2>1 DEF LinkedAt, Nested
    <3>4. QED
      BY <1>2, <1>3, <1>7, <2>1, <3>1, <3>2, <3>3 DEF LinkedAt, Nested
  <2>2. CASE l = "expert"
    <3>1. loop'[t]["chat"] = loop[t]["chat"] /\ task'[t]["chat"] = task[t]["chat"]
      BY <1>2, <1>4, <2>2 DEF Others, Levels
    <3>2. loop[t]["expert"].at = "tool" /\ loop'[t]["expert"].at = "calls"
      BY <1>1, <1>3, <1>4, <2>2 DEF LinkedAt, Nested
    <3>3. stage[t] = "live" => loop[t]["chat"].at = "tool" /\ task[t]["chat"] = None
      BY <1>3, <3>2 DEF LinkedAt, Nested
    <3>4. QED
      BY <1>2, <1>3, <1>7, <2>2, <3>1, <3>2, <3>3 DEF LinkedAt, Nested
  <2>3. QED
    BY <2>1, <2>2 DEF Levels
<1>9. LinkedAt(t)'
  BY <1>1, <1>6, <1>8 DEF LinkedAt
<1>10. StepOf(t)
  BY <1>1, <1>2, <1>4 DEF StepOf, SameAt, Others
<1>11. QED
  BY <1>5, <1>9, <1>10, OneTurn

\* The top level delegates: the expert's loop begins while it waits.
LEMMA DelegateLinked ==
  ASSUME CoreTypes, Linked, NEW t \in Turns, NEW x, Due(t, "chat", x),
         loop' = [loop EXCEPT ![t]["chat"].at = "tool", ![t]["expert"] = FirstPass],
         sink' = [sink EXCEPT ![t] = "chat"], UNCHANGED <<stage, owed, task>>
  PROVE  CoreTypes' /\ Linked' /\ StepOf(t)
<1> DEFINE h == [loop EXCEPT ![t]["chat"].at = "tool"]
<1>1. /\ h \in Loops /\ Others(loop, h, t, "chat")
      /\ h[t]["chat"].at = "tool" /\ h[t]["chat"].todo = loop[t]["chat"].todo
  <2>1. loop \in Loops /\ Goes(loop, h, t, "chat", "tool") /\ "chat" \in Levels
    BY DEF Goes, CoreTypes, Levels
  <2> HIDE DEF h
  <2>2. QED
    BY <2>1, LoopGoes
<1>2. Replaced(h, loop', t, "expert", FirstPass)
  BY DEF Replaced
<1> HIDE DEF h
<1>3. loop' \in Loops /\ loop'[t]["expert"] = FirstPass /\ Others(h, loop', t, "expert")
  <2>1. h \in Loops /\ FirstPass \in Loop /\ "expert" \in Levels
    BY <1>1, FirstLoops DEF Levels
  <2>2. QED
    BY <1>2, <2>1, LoopReplaced
<1>4. /\ loop'[t]["chat"].at = "tool" /\ loop'[t]["chat"].todo = loop[t]["chat"].todo
      /\ loop'[t]["expert"].at = "model"
  BY <1>1, <1>3, FirstLoops DEF Others, Levels
<1>5. /\ sink' \in [Turns -> Levels \cup {None}]
      /\ sink'[t] = "chat" /\ \A u \in Turns \ {t} : sink'[u] = sink[u]
  BY DEF CoreTypes, Levels
<1>6. CoreTypes'
  BY <1>3, <1>5 DEF CoreTypes
<1>7. LinkedAt(t) /\ loop[t]["chat"].at = "calls" /\ loop[t]["chat"].todo # <<>>
  BY DEF Linked, Due
<1>8. /\ stage[t] = "live" /\ loop[t]["expert"].at = "off" /\ owed[t]["expert"] = <<>>
      /\ task[t]["chat"] = None /\ task[t]["expert"] = None
  BY <1>7 DEF LinkedAt, Nested
<1>9. \A m \in Levels : Waits(loop'[t][m], owed[t][m])
  <2>1. owed[t]["chat"] = loop[t]["chat"].todo
    BY <1>7 DEF LinkedAt, Waits, Levels
  <2>2. QED
    BY <1>4, <1>7, <1>8, <2>1 DEF Waits, Levels
<1>10. Nested(stage[t], loop'[t], owed[t], task[t], sink'[t])
  BY <1>4, <1>8 DEF Nested
<1>11. LinkedAt(t)'
  BY <1>9, <1>10 DEF LinkedAt
<1>12. StepOf(t)
  BY <1>1, <1>3, <1>5 DEF StepOf, SameAt, Others
<1>13. QED
  BY <1>6, <1>11, <1>12, OneTurn

\* The top level begins.
LEMMA StartLoopLinked ==
  ASSUME CoreTypes, Linked, NEW t \in Turns, StartLoop(t)
  PROVE  CoreTypes' /\ Linked' /\ StepOf(t)
<1>1. stage[t] = "prompted" /\ UNCHANGED <<owed, task, sink>>
  BY DEF StartLoop
<1>2. loop' \in Loops /\ loop'[t]["chat"] = FirstPass /\ Others(loop, loop', t, "chat")
  <2>1. Replaced(loop, loop', t, "chat", FirstPass) /\ loop \in Loops /\ "chat" \in Levels
    BY DEF Replaced, CoreTypes, Levels, StartLoop
  <2>2. QED
    BY <2>1, FirstLoops, LoopReplaced
<1>3. stage' \in [Turns -> Stages] /\ stage'[t] = "live" /\ \A u \in Turns \ {t} : stage'[u] = stage[u]
  BY DEF CoreTypes, Stages, Streaming, StartLoop
<1>4. CoreTypes'
  BY <1>1, <1>2, <1>3 DEF CoreTypes
<1>5. LinkedAt(t)
  BY DEF Linked
<1>6. /\ loop'[t]["chat"].at = "model" /\ loop'[t]["expert"].at = "off"
      /\ owed[t]["chat"] = <<>> /\ owed[t]["expert"] = <<>>
      /\ task[t]["chat"] = None /\ task[t]["expert"] = None
  BY <1>1, <1>2, <1>5, FirstLoops DEF LinkedAt, Nested, Others, Levels
<1>7. \A m \in Levels : Waits(loop'[t][m], owed[t][m])
  BY <1>6 DEF Waits, Levels
<1>8. Nested(stage'[t], loop'[t], owed[t], task[t], sink[t])
  BY <1>3, <1>6 DEF Nested
<1>9. LinkedAt(t)'
  BY <1>1, <1>7, <1>8 DEF LinkedAt
<1>10. StepOf(t)
  BY <1>1, <1>2, <1>3 DEF StepOf, SameAt, Others
<1>11. QED
  BY <1>4, <1>9, <1>10, OneTurn

\* The end of a pass that is the loop's last.
LEMMA LastPassLinked ==
  ASSUME CoreTypes, Linked, NEW t \in Turns, NEW l \in Levels, UNCHANGED task,
         \/ loop[t][l].at = "model"
         \/ loop[t][l].at = "calls" /\ loop[t][l].todo = <<>>,
         \/ l = "expert" /\ ExpertEnds(t)
         \/ ChatEnds(t, "wrap") \/ ChatEnds(t, "failed")
  PROVE  CoreTypes' /\ Linked' /\ StepOf(t)
<1>1. CASE ChatEnds(t, "wrap") \/ ChatEnds(t, "failed")
  <2>1. \E st \in {"wrap", "failed", "gone"} :
           stage' = [stage EXCEPT ![t] = st] /\ loop' = [loop EXCEPT ![t]["chat"] = Off]
    BY <1>1 DEF ChatEnds
  <2>2. UNCHANGED <<owed, sink>>
    BY <1>1 DEF ChatEnds
  <2>3. QED
    BY <2>1, <2>2, ChatEndsLinked
<1>2. CASE l = "expert" /\ ExpertEnds(t)
  <2>1. Waits(loop[t]["expert"], owed[t]["expert"])
    BY Links DEF Levels
  <2>2. owed[t]["expert"] = <<>> /\ loop[t]["expert"].at \in {"model", "calls"}
    BY <1>2, <2>1 DEF Waits
  <2>3. QED
    BY <1>2, <2>2, ExpertEndsLinked
<1>3. QED
  BY <1>1, <1>2

\* Every step of a request keeps its links.
LEMMA StepLinked ==
  ASSUME CoreTypes, Linked, NEW t \in Turns, Post(t) \/ OtherSaves(t) \/ Work(t) \/ Hangup(t)
  PROVE  CoreTypes' /\ Linked' /\ StepOf(t)
<1>1. ASSUME NEW from \in Stages \ {"live"}, NEW st \in Stages \ {"live"}, stage[t] = from,
             st \in {"posted", "saved", "prompted"} => from \in {"idle", "posted", "saved"}, st # "idle",
             stage' = [stage EXCEPT ![t] = st], UNCHANGED <<loop, owed, task, sink>>
      PROVE  CoreTypes' /\ Linked' /\ StepOf(t)
  BY <1>1, StageLinked
<1>2. CASE Post(t) \/ SaveQuestion(t) \/ BuildPrompt(t)
  BY <1>1, <1>2 DEF Post, SaveQuestion, BuildPrompt, Stages
<1>3. CASE Wrap(t) \/ SaveAnswer(t) \/ SaveTrace(t)
  BY <1>1, <1>3 DEF Wrap, SaveAnswer, SaveTrace, Stages, Streaming, Final
<1>4. CASE OtherSaves(t)
  <2>1. UNCHANGED <<stage, loop, owed, task, sink>>
    BY <1>4 DEF OtherSaves
  <2>2. QED
    BY <2>1 DEF CoreTypes, Linked, LinkedAt, StepOf, SameAt
<1>5. CASE StartLoop(t)
  BY <1>5, StartLoopLinked
<1>6. CASE Hangup(t)
  <2>1. /\ loop' = [loop EXCEPT ![t]["chat"] = Off] /\ stage' = [stage EXCEPT ![t] = "gone"]
        /\ UNCHANGED <<owed, task>> /\ (sink' = sink \/ sink' = [sink EXCEPT ![t] = None])
    BY <1>6 DEF Hangup
  <2>2. QED
    BY <2>1, ChatEndsLinked
<1>7. ASSUME NEW x \in Experts, Delegate(t, x) PROVE CoreTypes' /\ Linked' /\ StepOf(t)
  <2>1. Due(t, "chat", x) /\ UNCHANGED <<stage, task>> /\ "chat" \in Levels
    BY <1>7 DEF Delegate, Levels
  <2>2. CASE Resulted(t, "chat", loop)
    BY <2>1, <2>2, AnsweredLinked
  <2>3. CASE /\ loop' = [loop EXCEPT ![t]["chat"].at = "tool", ![t]["expert"] = FirstPass]
             /\ sink' = [sink EXCEPT ![t] = "chat"] /\ UNCHANGED owed
    BY <2>1, <2>3, DelegateLinked
  <2>4. QED
    BY <1>7, <2>2, <2>3 DEF Delegate
<1>8. ASSUME NEW l \in Levels, Answers(t, l) \/ ModelFails(t, l)
      PROVE  CoreTypes' /\ Linked' /\ StepOf(t)
  <2>1. loop[t][l].at = "model" /\ UNCHANGED task
    BY <1>8 DEF Answers, ModelFails
  <2>2. (l = "expert" /\ ExpertEnds(t)) \/ ChatEnds(t, "wrap") \/ ChatEnds(t, "failed")
    BY <1>8 DEF Answers, ModelFails
  <2>3. QED
    BY <2>1, <2>2, LastPassLinked
<1>9. ASSUME NEW l \in Levels, NextPass(t, l)
      PROVE  CoreTypes' /\ Linked' /\ StepOf(t)
  <2>1. loop[t][l].at = "calls" /\ loop[t][l].todo = <<>> /\ UNCHANGED task
    BY <1>9 DEF NextPass
  <2>2. CASE /\ loop[t][l].pass < Limit(l)
             /\ loop' = [loop EXCEPT ![t][l].at = "model", ![t][l].pass = @ + 1]
             /\ UNCHANGED <<stage, owed, sink>>
    BY <2>1, <2>2, AnotherPassLinked
  <2>3. CASE (l = "expert" /\ ExpertEnds(t)) \/ ChatEnds(t, "wrap")
    BY <2>1, <2>3, LastPassLinked
  <2>4. QED
    BY <1>9, <2>2, <2>3 DEF NextPass
<1>10. ASSUME NEW l \in Levels, NEW x \in Tools, Block(t, l, x) \/ Refuse(t, l, x)
       PROVE  CoreTypes' /\ Linked' /\ StepOf(t)
  <2>1. Due(t, l, x) /\ Resulted(t, l, loop) /\ UNCHANGED <<stage, task>>
    BY <1>10 DEF Block, Refuse
  <2>2. QED
    BY <2>1, AnsweredLinked
<1>11. ASSUME NEW l \in Levels, Level(t, l) PROVE CoreTypes' /\ Linked' /\ StepOf(t)
  BY <1>8, <1>9, <1>10, <1>11, CallsToolsLinked, InvokeLinked, ToolEndsLinked DEF Level
<1>12. QED
  BY <1>2, <1>3, <1>4, <1>5, <1>6, <1>7, <1>11 DEF Work

-----------------------------------------------------------------------------
(* What is written down: types                                             *)

RowTypes == Seq([turn : Turns, role : {"user", "assistant", "tool"}])
Wordings == [Turns -> Seq(Messages)]

\* What is noted of a turn is a truth value.
LEMMA NotesTyped ==
  ASSUME heard \in [Turns -> BOOLEAN], steps \in [Turns -> BOOLEAN],
         NEW t \in Turns, Post(t) \/ OtherSaves(t) \/ Work(t) \/ Hangup(t)
  PROVE  heard' \in [Turns -> BOOLEAN] /\ steps' \in [Turns -> BOOLEAN]
<1>1. ASSUME NEW f \in [Turns -> BOOLEAN], NEW b \in BOOLEAN
      PROVE  [f EXCEPT ![t] = b] \in [Turns -> BOOLEAN]
  OBVIOUS
<1>2. ASSUME NEW text \in BOOLEAN, Forward(t, text) PROVE heard' \in [Turns -> BOOLEAN]
  <2>1. heard[t] \/ text \in BOOLEAN
    OBVIOUS
  <2>2. QED
    BY <1>1, <1>2, <2>1 DEF Forward
<1>3. ASSUME NEW l, NEW calls, ClientCalls(t, l, calls) PROVE steps' \in [Turns -> BOOLEAN]
  <2>1. PICK out : steps' = [steps EXCEPT ![t] = @ \/ out # {}]
    BY <1>3 DEF ClientCalls
  <2>2. (steps[t] \/ out # {}) \in BOOLEAN
    OBVIOUS
  <2>3. QED
    BY <1>1, <2>1, <2>2
<1>4. ASSUME NEW l, NEW f, Resulted(t, l, f) PROVE steps' \in [Turns -> BOOLEAN]
  <2>1. steps' = steps \/ steps' = [steps EXCEPT ![t] = TRUE]
    BY <1>4 DEF Resulted, StepNoted
  <2>2. QED
    BY <1>1, <2>1
<1>5. ASSUME ExpertEnds(t) PROVE steps' \in [Turns -> BOOLEAN]
  <2>1. CASE loop[t]["chat"].at = "tool"
    BY <1>4, <1>5, <2>1 DEF ExpertEnds
  <2>2. CASE loop[t]["chat"].at # "tool"
    BY <1>5, <2>2 DEF ExpertEnds
  <2>3. QED
    BY <2>1, <2>2
<1>6. CASE Post(t) \/ OtherSaves(t) \/ Hangup(t) \/ SaveQuestion(t) \/ BuildPrompt(t) \/ StartLoop(t)
           \/ SaveAnswer(t) \/ SaveTrace(t)
  <2>1. UNCHANGED <<heard, steps>>
    BY <1>6 DEF Post, OtherSaves, Hangup, SaveQuestion, BuildPrompt, StartLoop, SaveAnswer, SaveTrace
  <2>2. QED
    BY <2>1
<1>7. CASE Wrap(t)
  BY <1>1, <1>7 DEF Wrap
<1>8. ASSUME NEW x \in Experts, Delegate(t, x)
      PROVE  heard' \in [Turns -> BOOLEAN] /\ steps' \in [Turns -> BOOLEAN]
  <2>1. UNCHANGED heard /\ (UNCHANGED steps \/ Resulted(t, "chat", loop))
    BY <1>8 DEF Delegate
  <2>2. QED
    BY <1>4, <2>1
<1>9. ASSUME NEW l \in Levels, Level(t, l)
      PROVE  heard' \in [Turns -> BOOLEAN] /\ steps' \in [Turns -> BOOLEAN]
  <2>1. CASE Answers(t, l)
    <3>1. PICK calls \in Calls, text \in BOOLEAN :
            \/ Forward(t, text) /\ ClientCalls(t, l, calls)
            \/ ExpertEnds(t) /\ UNCHANGED heard
      BY <2>1 DEF Answers
    <3>2. QED
      BY <1>2, <1>3, <1>5, <3>1
  <2>2. CASE CallsTools(t, l)
    <3>1. PICK calls \in Calls, text \in BOOLEAN :
            Forward(t, text /\ l = "chat") /\ ClientCalls(t, l, calls)
      BY <2>2 DEF CallsTools
    <3>2. (text /\ l = "chat") \in BOOLEAN
      OBVIOUS
    <3>3. QED
      BY <1>2, <1>3, <3>1, <3>2
  <2>3. CASE ModelFails(t, l) \/ NextPass(t, l)
    <3>1. UNCHANGED heard /\ (UNCHANGED steps \/ ExpertEnds(t))
      BY <2>3 DEF ModelFails, NextPass
    <3>2. QED
      BY <1>5, <3>1
  <2>4. CASE ToolEnds(t, l) \/ \E x \in Tools : Invoke(t, l, x) \/ Block(t, l, x) \/ Refuse(t, l, x)
    <3>1. UNCHANGED heard /\ (UNCHANGED steps \/ Resulted(t, l, loop))
      BY <2>4 DEF ToolEnds, Invoke, Block, Refuse
    <3>2. QED
      BY <1>4, <3>1
  <2>5. QED
    BY <1>9, <2>1, <2>2, <2>3, <2>4 DEF Level
<1>10. QED
  BY <1>6, <1>7, <1>8, <1>9 DEF Work

\* The window and the prompt are made of messages.
LEMMA PromptTyped ==
  ASSUME NEW msgs \in Seq(Messages)
  PROVE  LET recent == Recent(msgs)
         IN  Prompt(Selected(recent, {i \in DOMAIN recent : recent[i] # Question})) \in Seq(Messages)
<1> DEFINE spoken == Selected(msgs, {i \in DOMAIN msgs : msgs[i].role # "tool"})
<1>1. spoken \in Seq(Messages)
  BY SelectedSeq
<1>2. Recent(msgs) = IF Len(spoken) <= RecentN THEN spoken
                     ELSE SubSeq(spoken, Len(spoken) - RecentN + 1, Len(spoken))
  BY DEF Recent
<1> HIDE DEF spoken
<1>3. Recent(msgs) \in Seq(Messages)
  BY <1>1, <1>2, ChatAssumption, SMTT(60)
<1>4. ASSUME NEW recent \in Seq(Messages)
      PROVE  Prompt(Selected(recent, {i \in DOMAIN recent : recent[i] # Question})) \in Seq(Messages)
  <2>1. Selected(recent, {i \in DOMAIN recent : recent[i] # Question}) \in Seq(Messages)
    BY SelectedSeq
  <2>2. Question \in Messages
    BY DEF Messages
  <2>3. QED
    BY <2>1, <2>2 DEF Prompt
<1>5. QED
  BY <1>3, <1>4

\* What is saved are rows of messages, and what is read are messages.
LEMMA TextsTyped ==
  ASSUME rows \in RowTypes, log \in Wordings, prompt \in Wordings,
         NEW t \in Turns, Post(t) \/ OtherSaves(t) \/ Work(t) \/ Hangup(t)
  PROVE  rows' \in RowTypes /\ log' \in Wordings /\ prompt' \in Wordings
<1>1. ASSUME NEW f \in Wordings, NEW msgs \in Seq(Messages) PROVE [f EXCEPT ![t] = msgs] \in Wordings
  BY <1>1 DEF Wordings
<1>2. ASSUME NEW msg \in Messages PROVE Append(log[t], msg) \in Seq(Messages)
  <2>1. log[t] \in Seq(Messages)
    BY DEF Wordings
  <2>2. QED
    BY <2>1
<1>3. ASSUME NEW role \in {"user", "assistant", "tool"} PROVE Append(rows, Row(t, role)) \in RowTypes
  BY <1>3 DEF Row, RowTypes
<1>4. CASE Post(t)
  <2>1. PICK told \in Sessions : log' = [log EXCEPT ![t] = told]
    BY <1>4 DEF Post
  <2>2. told \in Seq(Messages)
    BY ChatAssumption DEF Sessions
  <2>3. UNCHANGED <<rows, prompt>>
    BY <1>4 DEF Post
  <2>4. QED
    BY <1>1, <2>1, <2>2, <2>3
<1>5. CASE SaveQuestion(t)
  <2>1. Question \in Messages
    BY DEF Messages
  <2>2. /\ rows' = Append(rows, Row(t, "user")) /\ log' = [log EXCEPT ![t] = Append(log[t], Question)]
        /\ UNCHANGED prompt
    BY <1>5 DEF SaveQuestion
  <2>3. QED
    BY <1>1, <1>2, <1>3, <2>1, <2>2
<1>6. CASE OtherSaves(t)
  <2>1. PICK msg \in Messages : log' = [log EXCEPT ![t] = Append(log[t], msg)]
    BY <1>6 DEF OtherSaves
  <2>2. UNCHANGED <<rows, prompt>>
    BY <1>6 DEF OtherSaves
  <2>3. QED
    BY <1>1, <1>2, <2>1, <2>2
<1>7. CASE BuildPrompt(t)
  <2> DEFINE recent == Recent(log[t])
             built == Prompt(Selected(recent, {i \in DOMAIN recent : recent[i] # Question}))
  <2>1. log[t] \in Seq(Messages)
    BY DEF Wordings
  <2>2. built \in Seq(Messages)
    BY <2>1, PromptTyped
  <2>3. prompt' = [prompt EXCEPT ![t] = built] /\ UNCHANGED <<rows, log>>
    BY <1>7 DEF BuildPrompt
  <2> HIDE DEF built
  <2>4. QED
    BY <1>1, <2>2, <2>3
<1>8. CASE StartLoop(t)
  <2>1. /\ log' = [log EXCEPT ![t] = <<>>] /\ prompt' = [prompt EXCEPT ![t] = <<>>] /\ UNCHANGED rows
    BY <1>8 DEF StartLoop
  <2>2. <<>> \in Seq(Messages)
    OBVIOUS
  <2>3. QED
    BY <1>1, <2>1, <2>2
<1>9. CASE SaveAnswer(t) \/ SaveTrace(t)
  <2>1. /\ UNCHANGED <<log, prompt>>
        /\ \/ rows' = rows
           \/ \E role \in {"user", "assistant", "tool"} : rows' = Append(rows, Row(t, role))
    BY <1>9 DEF SaveAnswer, SaveTrace
  <2>2. QED
    BY <1>3, <2>1
<1>10. CASE Hangup(t) \/ Wrap(t) \/ (\E x \in Experts : Delegate(t, x)) \/ \E l \in Levels : Level(t, l)
  <2>1. UNCHANGED <<rows, log, prompt>>
    BY <1>10, ZenonT(60) DEF Hangup, Wrap, Delegate, Level, Answers, CallsTools, ModelFails, NextPass,
       ToolEnds, Invoke, Block, Refuse
  <2>2. QED
    BY <2>1
<1>11. QED
  BY <1>4, <1>5, <1>6, <1>7, <1>8, <1>9, <1>10 DEF Work

-----------------------------------------------------------------------------
(* Together                                                                *)

\* Every step of a request keeps the gate, and the types of what it goes by.
LEMMA StepGated ==
  ASSUME TypeOK, Gated, Linked, NEW t \in Turns, Post(t) \/ OtherSaves(t) \/ Work(t) \/ Hangup(t)
  PROVE  /\ Gated'
         /\ approved' \in [Turns -> SUBSET Risky]
         /\ ran' \subseteq [turn : Turns, level : Levels, tool : Server \cup Remote]
         /\ asked' \subseteq [turn : Turns, tool : Risky]
<1>1. GateTypes
  BY DEF TypeOK, GateTypes
<1>2. CASE Post(t)
  <2>1. approved' \in [Turns -> SUBSET Risky] /\ UNCHANGED <<ran, asked>>
    BY <1>1, <1>2 DEF Post, GateTypes
  <2>2. QED
    BY <1>1, <1>2, <2>1, PostGated DEF GateTypes
<1>3. ASSUME NEW l \in Levels,
             Answers(t, l) \/ CallsTools(t, l) \/ \E x \in Tools : Invoke(t, l, x) \/ Block(t, l, x)
      PROVE  stage[t] # "idle"
  <2>1. loop[t][l].at \in {"model", "calls"}
    BY <1>3 DEF Answers, CallsTools, Invoke, Block, Due
  <2>2. Nested(stage[t], loop[t], owed[t], task[t], sink[t])
    BY Links
  <2>3. QED
    BY <2>1, <2>2 DEF Nested, Levels
<1>4. ASSUME NEW l \in Levels, NEW x \in Tools, Invoke(t, l, x)
      PROVE  Gated' /\ ran' \subseteq [turn : Turns, level : Levels, tool : Server \cup Remote]
             /\ UNCHANGED <<approved, asked>>
  BY <1>1, <1>3, <1>4, InvokeGated DEF Invoke
<1>5. ASSUME NEW l \in Levels, NEW x \in Tools, Block(t, l, x)
      PROVE  Gated' /\ asked' \subseteq [turn : Turns, tool : Risky] /\ UNCHANGED <<approved, ran>>
  BY <1>1, <1>3, <1>5, BlockGated DEF Block
<1>6. ASSUME Elsewhere PROVE Gated' /\ UNCHANGED <<approved, ran, asked>>
  BY <1>1, <1>6, ElsewhereGated DEF Elsewhere
<1>7. ASSUME NEW l \in Levels, Answers(t, l) \/ CallsTools(t, l)
      PROVE  Gated' /\ ran' \subseteq [turn : Turns, level : Levels, tool : Server \cup Remote]
             /\ UNCHANGED <<approved, asked>>
  BY <1>1, <1>3, <1>7, PassesSend, SendsGated DEF Sends
<1>8. \/ Post(t) \/ Elsewhere
      \/ \E l \in Levels : Answers(t, l) \/ CallsTools(t, l)
      \/ \E l \in Levels, x \in Tools : Invoke(t, l, x) \/ Block(t, l, x)
  BY <1>1, StepsElsewhere DEF Work, Level
<1>9. QED
  BY <1>1, <1>2, <1>4, <1>5, <1>6, <1>7, <1>8 DEF GateTypes

\* The invariant holds before the first request.
LEMMA InitInv == Init => IInv
<1> SUFFICES ASSUME Init PROVE IInv
  OBVIOUS
<1>1. CoreTypes
  BY FirstLoops DEF Init, CoreTypes, Stages, Loops, Debts, Tasks
<1>2. SideTypes
  BY DEF Init, SideTypes
<1>3. Gated
  BY DEF Init, Gated
<1>4. Linked
  BY FirstLoops DEF Init, Linked, LinkedAt, Waits, Nested, Levels
<1>5. QED
  BY <1>1, <1>2, <1>3, <1>4, TypesTogether DEF IInv

\* Holds for any requests, tools, experts and limits.
THEOREM Invariance == Spec => []IInv
<1>1. Init => IInv
  BY InitInv
<1>2. IInv /\ [Next]_vars => IInv'
  <2> SUFFICES ASSUME IInv, [Next]_vars PROVE IInv'
    OBVIOUS
  <2>1. TypeOK /\ CoreTypes /\ SideTypes /\ Gated /\ Linked
    BY TypesTogether DEF IInv
  <2>2. ASSUME NEW t \in Turns, Post(t) \/ OtherSaves(t) \/ Work(t) \/ Hangup(t) PROVE IInv'
    <3>1. CoreTypes' /\ Linked' /\ StepOf(t)
      BY <2>1, <2>2, StepLinked
    <3>2. /\ Gated'
          /\ approved' \in [Turns -> SUBSET Risky]
          /\ ran' \subseteq [turn : Turns, level : Levels, tool : Server \cup Remote]
          /\ asked' \subseteq [turn : Turns, tool : Risky]
      BY <2>1, <2>2, StepGated
    <3>3. heard' \in [Turns -> BOOLEAN] /\ steps' \in [Turns -> BOOLEAN]
      BY <2>1, <2>2, NotesTyped DEF SideTypes
    <3>4. rows' \in RowTypes /\ log' \in Wordings /\ prompt' \in Wordings
      BY <2>1, <2>2, TextsTyped DEF SideTypes, RowTypes, Wordings
    <3>5. SideTypes'
      BY <3>2, <3>3, <3>4 DEF SideTypes, RowTypes, Wordings
    <3>6. TypeOK'
      BY <3>1, <3>5 DEF TypeOK, CoreTypes, SideTypes, Stages, Loop, Loops, Debts, Tasks
    <3>7. QED
      BY <3>1, <3>2, <3>6 DEF IInv
  <2>3. CASE UNCHANGED vars
    BY <2>3 DEF IInv, TypeOK, Gated, Linked, LinkedAt, vars
  <2>4. QED
    BY <2>2, <2>3 DEF Next
<1>3. QED
  BY <1>1, <1>2, PTL DEF Spec

\* A tool of the server that needs approval runs only in a request whose user approved
\* it, at either level and also after the user has gone; nothing the user was asked
\* about has run; experts keep to their tools.  Tools of the client are not covered.
THEOREM GateHolds == Spec => []ApprovedOnly
<1>1. IInv => ApprovedOnly
  <2> SUFFICES ASSUME IInv, NEW r \in ran
               PROVE  /\ r.tool \in Risky \ Remote => r.tool \in approved[r.turn]
                      /\ r.level = "expert" => r.tool \in Reach \ Remote
                      /\ [turn |-> r.turn, tool |-> r.tool] \notin asked
    BY DEF ApprovedOnly
  <2>1. /\ r.tool \in Risky \ Remote => r.tool \in approved[r.turn]
        /\ r.level = "expert" => r.tool \in Reach \ Remote
    BY DEF IInv, Gated
  <2>2. \A q \in asked : q.tool \in Risky \ Remote /\ q.tool \notin approved[q.turn]
    BY ChatAssumption DEF IInv, Gated, TypeOK
  <2>3. QED
    BY <2>1, <2>2
<1>2. QED
  BY <1>1, Invariance, PTL

\* Whenever a model is called every call in its transcript has its result, and a tool
\* that is waited for narrates to the loop that waits for it.
THEOREM LoopsAreSound == Spec => []LoopInv
<1>1. IInv => LoopInv
  <2> SUFFICES ASSUME IInv PROVE LoopInv
    OBVIOUS
  <2>1. ASSUME NEW t \in Turns, NEW l \in Levels
        PROVE  /\ loop[t][l].at = "model" => owed[t][l] = <<>>
               /\ loop[t][l].at \in {"calls", "tool"} => owed[t][l] = loop[t][l].todo
               /\ stage[t] = "live" /\ task[t][l] # None => sink[t] = l
    BY Links DEF IInv, Waits, Nested, Levels
  <2>2. QED
    BY <2>1 DEF IInv, LoopInv, ResultsMatchCalls, NarrationHeard
<1>2. QED
  BY <1>1, Invariance, PTL

\* A step of a request whose user has gone begins nothing at its top level: that is off.
LEMMA StepOnceGone ==
  ASSUME TypeOK, Linked, NEW t \in Turns, stage[t] \in Final,
         Post(t) \/ OtherSaves(t) \/ Work(t) \/ Hangup(t)
  PROVE  /\ task'[t]["chat"] \in {task[t]["chat"], None}
         /\ loop[t]["expert"].at = "off" => loop'[t]["expert"].at = "off"
<1>1. stage[t] \notin {"idle", "posted", "saved", "prompted"} \cup Streaming /\ stage[t] # "live"
  BY DEF Final, Streaming
<1>2. loop[t]["chat"].at = "off" /\ "chat" \in Levels /\ "expert" \in Levels
  BY <1>1, Links DEF Nested, Levels
<1>3. task \in Tasks /\ DOMAIN task = Turns /\ DOMAIN task[t] = Levels
  BY DEF TypeOK, Tasks
<1>4. ASSUME NEW l \in Levels, Level(t, l), loop[t][l].at # "off"
      PROVE  /\ task'[t]["chat"] \in {task[t]["chat"], None}
             /\ loop[t]["expert"].at = "off" => loop'[t]["expert"].at = "off"
  <2>1. l = "expert" /\ loop[t]["expert"].at # "off"
    BY <1>2, <1>4 DEF Levels
  <2>2. task' = task \/ \E x : task' = [task EXCEPT ![t]["expert"] = x]
    BY <1>4, <2>1 DEF Level, Answers, CallsTools, ModelFails, NextPass, ToolEnds, Invoke, Block, Refuse
  <2>3. task'[t]["chat"] = task[t]["chat"]
    BY <1>2, <1>3, <2>2
  <2>4. QED
    BY <2>1, <2>3
<1>5. ASSUME NEW l \in Levels, Level(t, l), loop[t][l].at = "off"
      PROVE  /\ task'[t]["chat"] \in {task[t]["chat"], None}
             /\ loop[t]["expert"].at = "off" => loop'[t]["expert"].at = "off"
  <2>1. ToolEnds(t, l)
    BY <1>5 DEF Level, Answers, CallsTools, ModelFails, NextPass, Invoke, Block, Refuse, Due
  <2>2. UNCHANGED loop /\ task' = [task EXCEPT ![t][l] = None]
    BY <1>5, <2>1 DEF ToolEnds
  <2>3. QED
    BY <1>2, <1>3, <2>2
<1>6. CASE OtherSaves(t)
  BY <1>6 DEF OtherSaves
<1>7. ~ Post(t) /\ ~ Hangup(t) /\ ~ \E x \in Experts : Delegate(t, x)
  BY <1>1, <1>2 DEF Post, Hangup, Delegate, Due
<1>8. /\ ~ SaveQuestion(t) /\ ~ BuildPrompt(t) /\ ~ StartLoop(t)
      /\ ~ Wrap(t) /\ ~ SaveAnswer(t) /\ ~ SaveTrace(t)
  BY <1>1 DEF SaveQuestion, BuildPrompt, StartLoop, Wrap, SaveAnswer, SaveTrace, Streaming
<1>9. QED
  BY <1>4, <1>5, <1>6, <1>7, <1>8 DEF Work

\* Once the user has gone the top level starts no tool and no expert.
THEOREM QuietOnceGone == Spec => NothingNewOnceGone
<1> DEFINE Nothing(t) == /\ task'[t]["chat"] \in {task[t]["chat"], None}
                         /\ loop[t]["expert"].at = "off" => loop'[t]["expert"].at = "off"
<1>1. IInv /\ [Next]_vars => [\A t \in Turns : stage[t] \in Final => Nothing(t)]_vars
  <2> SUFFICES ASSUME IInv, Next, NEW t \in Turns, stage[t] \in Final PROVE Nothing(t)
    OBVIOUS
  <2>1. PICK u \in Turns : Post(u) \/ OtherSaves(u) \/ Work(u) \/ Hangup(u)
    BY DEF Next
  <2>2. CASE u = t
    BY <2>1, <2>2, StepOnceGone DEF IInv
  <2>3. CASE u # t
    <3>1. CoreTypes /\ Linked
      BY TypesTogether DEF IInv
    <3>2. StepOf(u)
      BY <2>1, <3>1, StepLinked
    <3>3. task'[t] = task[t] /\ loop'[t] = loop[t]
      BY <2>3, <3>2 DEF StepOf, SameAt
    <3>4. QED
      BY <3>3
  <2>4. QED
    BY <2>2, <2>3
<1>2. QED
  BY <1>1, Invariance, PTL DEF Spec, NothingNewOnceGone

-----------------------------------------------------------------------------
(* What the model is asked and what the user is answered                   *)

\* What the two have said, and what they have said but for the question.
Spoken(msgs) == Selected(msgs, {i \in DOMAIN msgs : msgs[i].role # "tool"})
Other(said) == Selected(said, {i \in DOMAIN said : said[i] # Question})

\* A prompt that is made of these messages of the session.
Sound(msgs, pr) ==
  /\ pr[Len(pr)] = Question
  /\ IsSuffix(SubSeq(pr, 1, Len(pr) - 1), Other(Spoken(msgs)))
  /\ SubSeq(pr, 1, Len(pr) - 1) = Other(Spoken(msgs)) \/ Len(Spoken(msgs)) > RecentN

\* What is left of the window without the question is the end of what is left of all.
LEMMA WindowSound ==
  ASSUME NEW said \in Seq(Messages), NEW d, NEW recent, EndsAfter(recent, said, d)
  PROVE  /\ Other(recent) \in Seq(Messages) /\ IsSuffix(Other(recent), Other(said))
         /\ d = 0 => Other(recent) = Other(said)
<1> DEFINE I == {i \in DOMAIN said : said[i] # Question}
           J == {i \in DOMAIN recent : recent[i] # Question}
<1>1. Other(recent) = Selected(recent, J) /\ Other(said) = Selected(said, I)
  BY DEF Other
<1>2. /\ recent \in Seq(Messages) /\ Len(recent) = Len(said) - d /\ Len(said) \in Nat
      /\ \A i \in 1..Len(recent) : recent[i] = said[i + d]
  BY EndOf DEF EndsAfter
<1>3. \A i \in DOMAIN recent : i + d \in DOMAIN said /\ recent[i] = said[i + d]
  <2>1. TAKE i \in DOMAIN recent
  <2>2. i \in 1..Len(recent) /\ d \in Nat /\ i \in Nat
    BY <1>2 DEF EndsAfter
  <2>3. i + d \in 1..Len(said)
    BY <1>2, <2>2
  <2>4. QED
    BY <1>2, <2>2, <2>3
<1>4. I \in SUBSET (DOMAIN said) /\ J \in SUBSET (DOMAIN recent)
  OBVIOUS
<1>5. Shifted(recent, J, I, d)
  BY <1>3 DEF Shifted
<1> HIDE DEF I, J
<1>6. /\ Selected(recent, J) \in Seq(Messages)
      /\ IsSuffix(Selected(recent, J), Selected(said, I))
      /\ d = 0 => Selected(recent, J) = Selected(said, I)
  <2>1. PICK A : A \in SUBSET (DOMAIN said) /\ A = I
    BY <1>4
  <2>2. PICK B : B \in SUBSET (DOMAIN recent) /\ B = J
    BY <1>4
  <2>3. Shifted(recent, B, A, d)
    BY <1>5, <2>1, <2>2
  <2>4. Selected(recent, B) \in Seq(Messages)
    BY <2>1, <2>2, <2>3, SelectedEnd
  <2>5. IsSuffix(Selected(recent, B), Selected(said, A))
    BY <2>1, <2>2, <2>3, SelectedEnd
  <2>6. d = 0 => Selected(recent, B) = Selected(said, A)
    BY <2>1, <2>2, <2>3, SelectedEnd
  <2>7. QED
    BY <2>1, <2>2, <2>4, <2>5, <2>6
<1>7. QED
  BY <1>1, <1>6

\* A history with the question behind it.
LEMMA PromptEnds ==
  ASSUME NEW h \in Seq(Messages), NEW pr, pr = Prompt(h)
  PROVE  pr[Len(pr)] = Question /\ SubSeq(pr, 1, Len(pr) - 1) = h
<1>1. Question \in Messages /\ pr = Append(h, Question)
  BY DEF Messages, Prompt
<1>2. /\ pr \in Seq(Messages) /\ Len(pr) = Len(h) + 1 /\ pr[Len(h) + 1] = Question
      /\ \A k \in 1..Len(h) : pr[k] = h[k]
  BY <1>1, AppendProperties
<1>3. Len(h) \in Nat /\ Len(pr) - 1 = Len(h)
  BY <1>2
<1>4. SubSeq(pr, 1, Len(h)) = h
  BY <1>2, <1>3
<1>5. QED
  BY <1>2, <1>3, <1>4

\* The prompt that is built is sound.
LEMMA PromptBuilt ==
  ASSUME NEW msgs \in Seq(Messages), NEW pr, pr = Prompt(Other(Recent(msgs)))
  PROVE  Sound(msgs, pr)
<1>1. PICK said : said = Spoken(msgs)
  OBVIOUS
<1>2. said \in Seq(Messages)
  BY <1>1, SelectedSeq DEF Spoken
<1>3. RecentN \in Nat /\ Len(said) \in Nat
  BY <1>2, ChatAssumption
<1>4. PICK recent : recent = Recent(msgs)
  OBVIOUS
<1>5. recent = IF Len(said) <= RecentN THEN said ELSE SubSeq(said, Len(said) - RecentN + 1, Len(said))
  BY <1>1, <1>4 DEF Recent, Spoken
<1>6. PICK d \in 0..Len(said) :
        EndsAfter(recent, said, d) /\ (d = 0 \/ Len(said) > RecentN)
  <2>1. CASE Len(said) <= RecentN
    <3>1. SubSeq(said, 0 + 1, Len(said)) = said
      BY <1>2
    <3>2. QED
      BY <1>3, <1>5, <2>1, <3>1 DEF EndsAfter
  <2>2. CASE Len(said) > RecentN
    <3>1. Len(said) - RecentN \in 0..Len(said)
      BY <1>3, <2>2
    <3>2. recent = SubSeq(said, Len(said) - RecentN + 1, Len(said))
      BY <1>3, <1>5, <2>2
    <3>3. QED
      BY <2>2, <3>1, <3>2 DEF EndsAfter
  <2>3. QED
    BY <1>3, <2>1, <2>2
<1>7. /\ Other(recent) \in Seq(Messages) /\ IsSuffix(Other(recent), Other(said))
      /\ d = 0 => Other(recent) = Other(said)
  BY <1>2, <1>6, WindowSound
<1>8. pr[Len(pr)] = Question /\ SubSeq(pr, 1, Len(pr) - 1) = Other(recent)
  BY <1>4, <1>7, PromptEnds
<1>9. QED
  BY <1>1, <1>6, <1>7, <1>8 DEF Sound

\* What holds of a turn, and of the rows, as the answer is built and kept.
Answered == {"answering", "tracing", "over"}
HeardAt(u) == stage[u] \in Answered => heard[u]
AskedAt(u) == stage[u] = "prompted" => Sound(log[u], prompt[u])
KeptHeard == \A i \in DOMAIN rows : rows[i].role = "assistant" => heard[rows[i].turn]
Conversed == (\A u \in Turns : HeardAt(u) /\ AskedAt(u)) /\ KeptHeard

\* What the user has heard stays heard.
LEMMA HeardStays ==
  ASSUME heard \in [Turns -> BOOLEAN],
         NEW t \in Turns, Post(t) \/ OtherSaves(t) \/ Work(t) \/ Hangup(t), NEW u \in Turns, heard[u]
  PROVE  heard'[u]
<1>1. ASSUME NEW text, Forward(t, text) PROVE heard'[u]
  <2>1. heard' = [heard EXCEPT ![t] = heard[t] \/ text]
    BY <1>1 DEF Forward
  <2>2. CASE u = t
    BY <2>1, <2>2, Zenon
  <2>3. CASE u # t
    BY <2>1, <2>3
  <2>4. QED
    BY <2>2, <2>3
<1>2. CASE Wrap(t)
  BY <1>2 DEF Wrap
<1>3. ASSUME NEW l \in Levels, Level(t, l) PROVE heard'[u]
  <2>1. UNCHANGED heard \/ \E text : Forward(t, text)
    BY <1>3 DEF Level, Answers, CallsTools, ModelFails, NextPass, ToolEnds, Invoke, Block, Refuse
  <2>2. QED
    BY <1>1, <2>1
<1>4. CASE \/ Post(t) \/ OtherSaves(t) \/ Hangup(t) \/ SaveQuestion(t) \/ BuildPrompt(t) \/ StartLoop(t)
           \/ SaveAnswer(t) \/ SaveTrace(t) \/ \E x \in Experts : Delegate(t, x)
  <2>1. UNCHANGED heard
    BY <1>4 DEF Post, OtherSaves, Hangup, SaveQuestion, BuildPrompt, StartLoop, SaveAnswer, SaveTrace,
       Delegate
  <2>2. QED
    BY <2>1
<1>5. QED
  BY <1>2, <1>3, <1>4 DEF Work

\* The messages and the prompt of another turn stay as they are.
LEMMA TextsElsewhere ==
  ASSUME log \in Wordings, prompt \in Wordings,
         NEW t \in Turns, Post(t) \/ OtherSaves(t) \/ Work(t) \/ Hangup(t), NEW u \in Turns, u # t
  PROVE  log'[u] = log[u] /\ prompt'[u] = prompt[u]
<1>1. log' = log \/ \E msgs : log' = [log EXCEPT ![t] = msgs]
  BY DEF Work, Level, Post, OtherSaves, SaveQuestion, BuildPrompt, StartLoop, SaveAnswer, SaveTrace,
     Hangup, Wrap, Delegate, Answers, CallsTools, ModelFails, NextPass, ToolEnds, Invoke, Block, Refuse
<1>2. prompt' = prompt \/ \E pr : prompt' = [prompt EXCEPT ![t] = pr]
  BY DEF Work, Level, Post, OtherSaves, SaveQuestion, BuildPrompt, StartLoop, SaveAnswer, SaveTrace,
     Hangup, Wrap, Delegate, Answers, CallsTools, ModelFails, NextPass, ToolEnds, Invoke, Block, Refuse
<1>3. QED
  BY <1>1, <1>2 DEF Wordings

\* A loop takes its turn no further than to its end.
LEMMA LoopStage ==
  ASSUME NEW t \in Turns, (\E x \in Experts : Delegate(t, x)) \/ \E l \in Levels : Level(t, l)
  PROVE  /\ stage' = stage \/ \E s \in {"wrap", "failed"} : stage' = [stage EXCEPT ![t] = s]
         /\ UNCHANGED <<rows, log, prompt>>
<1>1. ASSUME NEW next \in {"wrap", "failed"}, ChatEnds(t, next)
      PROVE  \E s \in {"wrap", "failed"} : stage' = [stage EXCEPT ![t] = s]
  BY <1>1 DEF ChatEnds
<1>2. ExpertEnds(t) => stage' = stage
  BY DEF ExpertEnds
<1>3. ASSUME NEW l \in Levels, Level(t, l)
      PROVE  stage' = stage \/ ChatEnds(t, "wrap") \/ ChatEnds(t, "failed") \/ ExpertEnds(t)
  BY <1>3 DEF Level, Answers, CallsTools, ModelFails, NextPass, ToolEnds, Invoke, Block, Refuse
<1>4. (\E x \in Experts : Delegate(t, x)) => stage' = stage
  BY DEF Delegate
<1>5. UNCHANGED <<rows, log, prompt>>
  BY ZenonT(60) DEF Delegate, Level, Answers, CallsTools, ModelFails, NextPass, ToolEnds, Invoke, Block, Refuse
<1>6. QED
  BY <1>1, <1>2, <1>3, <1>4, <1>5

\* A turn that is at its end has said something.
LEMMA StepHeard ==
  ASSUME TypeOK, Conversed, NEW t \in Turns, Post(t) \/ OtherSaves(t) \/ Work(t) \/ Hangup(t)
  PROVE  HeardAt(t)'
<1>1. HeardAt(t) /\ DOMAIN stage = Turns /\ heard \in [Turns -> BOOLEAN]
  BY DEF Conversed, TypeOK
<1>2. heard[t] => heard'[t]
  BY <1>1, HeardStays
<1>3. ASSUME stage' = stage \/ \E s : s \notin Answered /\ stage' = [stage EXCEPT ![t] = s]
      PROVE  HeardAt(t)'
  BY <1>1, <1>2, <1>3 DEF HeardAt
<1>4. CASE Wrap(t)
  <2>1. heard'[t]
    BY <1>1, <1>4 DEF Wrap
  <2>2. QED
    BY <2>1 DEF HeardAt
<1>5. CASE SaveAnswer(t) \/ SaveTrace(t)
  <2>1. stage[t] \in Answered
    BY <1>5 DEF SaveAnswer, SaveTrace, Answered
  <2>2. QED
    BY <1>1, <1>2, <2>1 DEF HeardAt
<1>6. CASE Post(t) \/ OtherSaves(t) \/ Hangup(t) \/ SaveQuestion(t) \/ BuildPrompt(t) \/ StartLoop(t)
  <2>1. stage' = stage \/ \E s \in {"posted", "gone", "saved", "prompted", "live"} :
                            stage' = [stage EXCEPT ![t] = s]
    BY <1>6 DEF Post, OtherSaves, Hangup, SaveQuestion, BuildPrompt, StartLoop
  <2>2. QED
    BY <1>3, <2>1 DEF Answered
<1>7. CASE (\E x \in Experts : Delegate(t, x)) \/ \E l \in Levels : Level(t, l)
  <2>1. stage' = stage \/ \E s \in {"wrap", "failed"} : stage' = [stage EXCEPT ![t] = s]
    BY <1>7, LoopStage
  <2>2. QED
    BY <1>3, <2>1 DEF Answered
<1>8. QED
  BY <1>4, <1>5, <1>6, <1>7 DEF Work

\* A prompt is sound when it is built, and stays as it is until the loop takes it.
LEMMA StepAsked ==
  ASSUME TypeOK, Conversed, NEW t \in Turns, Post(t) \/ OtherSaves(t) \/ Work(t) \/ Hangup(t)
  PROVE  AskedAt(t)'
<1>1. AskedAt(t) /\ DOMAIN stage = Turns /\ log \in Wordings /\ prompt \in Wordings
  BY DEF Conversed, TypeOK, Wordings
<1>2. ASSUME UNCHANGED <<log, prompt>>,
             stage' = stage \/ \E s : s # "prompted" /\ stage' = [stage EXCEPT ![t] = s]
      PROVE  AskedAt(t)'
  BY <1>1, <1>2 DEF AskedAt
<1>3. CASE BuildPrompt(t)
  <2>1. log[t] \in Seq(Messages)
    BY <1>1 DEF Wordings
  <2>2. PICK pr : pr = Prompt(Other(Recent(log[t])))
    OBVIOUS
  <2>3. Sound(log[t], pr)
    BY <2>1, <2>2, PromptBuilt
  <2>4. prompt' = [prompt EXCEPT ![t] = pr] /\ UNCHANGED log
    BY <1>3, <2>2 DEF BuildPrompt, Other
  <2>5. prompt'[t] = pr /\ log'[t] = log[t]
    BY <1>1, <2>4 DEF Wordings
  <2>6. QED
    BY <2>3, <2>5 DEF AskedAt
<1>4. CASE Post(t) \/ OtherSaves(t) \/ SaveQuestion(t) \/ StartLoop(t)
  <2>1. stage'[t] # "prompted"
    BY <1>1, <1>4 DEF Post, OtherSaves, SaveQuestion, StartLoop
  <2>2. QED
    BY <2>1 DEF AskedAt
<1>5. CASE Hangup(t) \/ Wrap(t) \/ SaveAnswer(t) \/ SaveTrace(t)
  <2>1. /\ UNCHANGED <<log, prompt>>
        /\ \E s \in {"gone", "answering", "tracing", "over"} : stage' = [stage EXCEPT ![t] = s]
    BY <1>5 DEF Hangup, Wrap, SaveAnswer, SaveTrace
  <2>2. QED
    BY <1>2, <2>1
<1>6. CASE (\E x \in Experts : Delegate(t, x)) \/ \E l \in Levels : Level(t, l)
  <2>1. /\ UNCHANGED <<log, prompt>>
        /\ stage' = stage \/ \E s \in {"wrap", "failed"} : stage' = [stage EXCEPT ![t] = s]
    BY <1>6, LoopStage
  <2>2. QED
    BY <1>2, <2>1
<1>7. QED
  BY <1>3, <1>4, <1>5, <1>6 DEF Work

\* No answer is kept that the user was not given.
LEMMA StepKept ==
  ASSUME TypeOK, Conversed, NEW t \in Turns, Post(t) \/ OtherSaves(t) \/ Work(t) \/ Hangup(t)
  PROVE  KeptHeard'
<1>1. KeptHeard /\ heard \in [Turns -> BOOLEAN] /\ rows \in RowTypes
  BY DEF Conversed, TypeOK, RowTypes
<1>2. \A u \in Turns : heard[u] => heard'[u]
  BY <1>1, HeardStays
<1>3. \A i \in DOMAIN rows : rows[i].turn \in Turns
  <2>1. TAKE i \in DOMAIN rows
  <2>2. PICK R : R = [turn : Turns, role : {"user", "assistant", "tool"}]
    OBVIOUS
  <2>3. rows \in Seq(R)
    BY <1>1, <2>2 DEF RowTypes
  <2>4. rows[i] \in R
    BY <2>3
  <2>5. QED
    BY <2>2, <2>4
<1>4. CASE rows' = rows
  BY <1>1, <1>2, <1>3, <1>4 DEF KeptHeard
<1>5. ASSUME NEW role \in {"user", "assistant", "tool"}, rows' = Append(rows, Row(t, role)),
             role = "assistant" => heard'[t]
      PROVE  KeptHeard'
  <2>1. Row(t, role).turn = t /\ Row(t, role).role = role
    BY DEF Row
  <2>2. PICK row \in [turn : Turns, role : {"user", "assistant", "tool"}] :
          row = Row(t, role) /\ row.turn = t /\ row.role = role
    BY <2>1 DEF Row
  <2>3. /\ DOMAIN rows' = 1..Len(rows) + 1 /\ Len(rows) \in Nat /\ DOMAIN rows = 1..Len(rows)
        /\ rows'[Len(rows) + 1] = row /\ \A i \in 1..Len(rows) : rows'[i] = rows[i]
    BY <1>1, <1>5, <2>2, AppendProperties DEF RowTypes
  <2>4. ASSUME NEW i \in DOMAIN rows', rows'[i].role = "assistant" PROVE heard'[rows'[i].turn]
    <3>1. i \in DOMAIN rows \/ i = Len(rows) + 1
      BY <2>3
    <3>2. CASE i \in DOMAIN rows
      <4>1. rows'[i] = rows[i] /\ rows[i].turn \in Turns
        BY <1>3, <2>3, <3>2
      <4>2. heard[rows[i].turn]
        BY <1>1, <2>4, <3>2, <4>1 DEF KeptHeard
      <4>3. QED
        BY <1>2, <4>1, <4>2
    <3>3. CASE i = Len(rows) + 1
      BY <1>5, <2>2, <2>3, <2>4, <3>3
    <3>4. QED
      BY <3>1, <3>2, <3>3
  <2>5. QED
    BY <2>4 DEF KeptHeard
<1>6. CASE SaveAnswer(t)
  <2>1. stage[t] \in Answered
    BY <1>6 DEF SaveAnswer, Answered
  <2>2. heard'[t]
    BY <1>2, <2>1 DEF Conversed, HeardAt
  <2>3. rows' = rows \/ rows' = Append(rows, Row(t, "assistant"))
    BY <1>6 DEF SaveAnswer
  <2>4. QED
    BY <1>4, <1>5, <2>2, <2>3
<1>7. CASE SaveQuestion(t) \/ SaveTrace(t)
  <2>1. rows' = rows \/ rows' = Append(rows, Row(t, "user")) \/ rows' = Append(rows, Row(t, "tool"))
    BY <1>7 DEF SaveQuestion, SaveTrace
  <2>2. QED
    BY <1>4, <1>5, <2>1
<1>8. CASE Post(t) \/ OtherSaves(t) \/ Hangup(t) \/ BuildPrompt(t) \/ StartLoop(t) \/ Wrap(t)
  BY <1>4, <1>8 DEF Post, OtherSaves, Hangup, BuildPrompt, StartLoop, Wrap
<1>9. CASE (\E x \in Experts : Delegate(t, x)) \/ \E l \in Levels : Level(t, l)
  BY <1>4, <1>9, LoopStage
<1>10. QED
  BY <1>6, <1>7, <1>8, <1>9 DEF Work

\* A turn that ends has said something and keeps no answer that was not given, and
\* the prompt is the last of the conversation with the question once, at its end.
THEOREM Conversation == Spec => []ConversationHolds
<1>1. Init => Conversed
  BY DEF Init, Conversed, HeardAt, AskedAt, KeptHeard, Answered
<1>2. IInv /\ Conversed /\ [Next]_vars => Conversed'
  <2> SUFFICES ASSUME IInv, Conversed, [Next]_vars PROVE Conversed'
    OBVIOUS
  <2>1. TypeOK /\ CoreTypes /\ Linked /\ heard \in [Turns -> BOOLEAN] /\ log \in Wordings /\ prompt \in Wordings
    BY TypesTogether DEF IInv, TypeOK, Wordings
  <2>2. ASSUME NEW t \in Turns, Post(t) \/ OtherSaves(t) \/ Work(t) \/ Hangup(t) PROVE Conversed'
    <3>1. HeardAt(t)' /\ AskedAt(t)' /\ KeptHeard'
      BY <2>1, <2>2, StepHeard, StepAsked, StepKept
    <3>2. ASSUME NEW u \in Turns, u # t PROVE HeardAt(u)' /\ AskedAt(u)'
      <4>1. stage'[u] = stage[u]
        <5>1. StepOf(t)
          BY <2>1, <2>2, StepLinked
        <5>2. QED
          BY <3>2, <5>1 DEF StepOf, SameAt
      <4>2. log'[u] = log[u] /\ prompt'[u] = prompt[u]
        BY <2>1, <2>2, <3>2, TextsElsewhere
      <4>3. heard[u] => heard'[u]
        BY <2>1, <2>2, HeardStays
      <4>4. HeardAt(u) /\ AskedAt(u)
        BY DEF Conversed
      <4>5. QED
        BY <4>1, <4>2, <4>3, <4>4 DEF HeardAt, AskedAt
    <3>3. QED
      BY <3>1, <3>2 DEF Conversed
  <2>3. CASE UNCHANGED vars
    BY <2>3 DEF Conversed, HeardAt, AskedAt, KeptHeard, vars
  <2>4. QED
    BY <2>2, <2>3 DEF Next
<1>3. Conversed => ConversationHolds
  <2>1. \A msgs, pr : Sound(msgs, pr) =>
          LET n == Len(pr)
              history == SubSeq(pr, 1, n - 1)
              spoken == Selected(msgs, {i \in DOMAIN msgs : msgs[i].role # "tool"})
              others == Selected(spoken, {i \in DOMAIN spoken : spoken[i] # Question})
          IN  pr[n] = Question /\ IsSuffix(history, others) /\ (history = others \/ Len(spoken) > RecentN)
    BY DEF Sound, Other, Spoken
  <2>2. Conversed => PromptSound
    BY <2>1 DEF Conversed, AskedAt, PromptSound
  <2>3. Conversed => NeverSilent
    BY DEF Conversed, HeardAt, KeptHeard, Answered, NeverSilent
  <2>4. QED
    BY <2>2, <2>3 DEF ConversationHolds
<1>4. QED
  BY <1>1, <1>2, <1>3, Invariance, PTL DEF Spec

-----------------------------------------------------------------------------
(***************************************************************************)
(* The table of memories, which a prompt is built from: theorems about     *)
(* Memory for any numbers of callers, texts and rows to a page.            *)
(***************************************************************************)
\* What a caller may be doing, and where in it.
Kinds == {"none", "remember", "save", "seed", "awaken", "facts", "mine", "import", "export"}
Places == {"idle", "pool", "model", "check", "store", "scan", "merge", "page", "over"}

\* A row, and the work of a caller, when w rows have been written.
Memo(w) == [id : 1..w, text : Texts]
MemoryWork(w) ==
  [kind : Kinds, at : Places, todo : Lists, known : SUBSET Texts,
   page : Seq([id : Nat, text : Texts]), saw : SUBSET (1..w), moved : BOOLEAN,
   missed : SUBSET Texts]

\* The ids in a table or a page.
IdsOf(s) == {s[i].id : i \in DOMAIN s}

\* Which kind of work is where.
Shaped(o) ==
  /\ o.at \in {"check", "store", "scan", "merge"} => o.todo # <<>>
  /\ o.kind = "import" => o.at \in {"scan", "merge", "store", "over"}
  /\ o.kind = "export" => o.at \in {"page", "over"}
  /\ o.at \in {"scan", "merge"} => o.kind = "import"
  /\ o.at = "page" => o.kind = "export"
  /\ o.at = "over" => o.kind \in {"import", "export"}
  /\ o.kind \notin {"import", "export"} => ~ o.moved
  /\ o.kind # "import" => o.missed = {}

\* What is about to be written is in no row that its writer had reason to know.
Unseen(o, s) ==
  o.at = "store" /\ ~ o.moved =>
    \A i \in DOMAIN s : s[i].text = Head(o.todo) => s[i].id \notin o.saw

\* An import knows the texts of its rows, and only texts that are there.
Knows(o, s) ==
  o.kind = "import" /\ ~ o.moved =>
    /\ o.missed = {} /\ o.known \subseteq TextsOf(s)
    /\ o.at # "scan" => \A i \in DOMAIN s : s[i].id \in o.saw => s[i].text \in o.known

\* Of the rows that were there a pager has read those behind its offset.
Paged(o, s) ==
  o.at \in {"scan", "page"} /\ ~ o.moved =>
    /\ Len(o.page) <= Len(s)
    /\ \A i \in DOMAIN s : s[i].id \in o.saw =>
         \/ i + Len(o.page) <= Len(s)
         \/ o.at = "page" /\ s[i].id \in IdsOf(o.page)
         \/ o.at = "scan" /\ s[i].text \in o.known

\* An export's rows stay, it reads no older one before a newer, and unless it
\* comes to its cap it has read them all in the end.
Exports(o, s) ==
  o.kind = "export" /\ ~ o.moved =>
    /\ o.saw \subseteq IdsOf(s)
    /\ \A x \in o.saw \ IdsOf(o.page), y \in IdsOf(o.page) : x < y
    /\ o.at = "over" => Capped(o.page) \/ o.saw \subseteq IdsOf(o.page)

Good(o, s, w) ==
  o \in MemoryWork(w) /\ Shaped(o) /\ Unseen(o, s) /\ Knows(o, s) /\ Paged(o, s) /\ Exports(o, s)

\* The older row has the smaller id.
Aged(s) == \A i, j \in DOMAIN s : i < j => s[i].id < s[j].id

Table(s, w) == w \in Nat /\ s \in Seq(Memo(w)) /\ Aged(s)

\* The inductive invariant.
TableInv ==
  /\ Table(memories, written)
  /\ op = [c \in Callers |-> op[c]]
  /\ \A c \in Callers : Good(op[c], memories, written)
  /\ backend \in {"postgres", "sqlite"}
  /\ starts \in 0..MaxStarts /\ forgets \in 0..MaxForgets

USE MemoryAssumption

\* A bounded sequence is a short sequence.
LEMMA ShortSeq ==
  ASSUME NEW S, NEW n \in Nat
  PROVE  \A s : s \in BoundedSeq(S, n) <=> s \in Seq(S) /\ Len(s) <= n
<1>1. ASSUME NEW s, s \in BoundedSeq(S, n) PROVE s \in Seq(S) /\ Len(s) <= n
  BY <1>1 DEF BoundedSeq, SeqOf
<1>2. ASSUME NEW s \in Seq(S), Len(s) <= n PROVE s \in BoundedSeq(S, n)
  <2>1. Len(s) \in 0..n /\ s \in [1..Len(s) -> S]
    BY <1>2
  <2>2. QED
    BY <2>1 DEF BoundedSeq, SeqOf
<1>3. QED
  BY <1>1, <1>2

\* A list has two texts at most.
LEMMA ListsAre == \A s : s \in Lists <=> s \in Seq(Texts) /\ Len(s) <= 2
<1>1. 2 \in Nat
  OBVIOUS
<1>2. QED
  BY <1>1, ShortSeq DEF Lists

\* A text more in the table.
LEMMA TableGrows ==
  ASSUME NEW s, NEW w, Table(s, w), NEW t \in Texts
  PROVE  LET u == Append(s, [id |-> w + 1, text |-> t])
         IN  /\ Table(u, w + 1) /\ Len(u) = Len(s) + 1 /\ Len(s) \in Nat
             /\ DOMAIN s = 1..Len(s) /\ DOMAIN u = 1..(Len(s) + 1)
             /\ \A i \in DOMAIN s : u[i] = s[i]
             /\ u[Len(s) + 1] = [id |-> w + 1, text |-> t]
<1> DEFINE r == [id |-> w + 1, text |-> t]
           u == Append(s, r)
<1>1. w \in Nat /\ s \in Seq(Memo(w)) /\ Aged(s)
  BY DEF Table
<1>2. r \in Memo(w + 1)
  BY <1>1 DEF Memo
<1>3. \A x \in Memo(w) : x \in Memo(w + 1) /\ x.id < w + 1
  BY <1>1 DEF Memo
<1>4. Len(s) \in Nat /\ DOMAIN s = 1..Len(s) /\ \A i \in 1..Len(s) : s[i] \in Memo(w)
  BY <1>1
<1>5. Len(u) = Len(s) + 1 /\ DOMAIN u = 1..(Len(s) + 1) /\ u[Len(s) + 1] = r
      /\ \A i \in 1..Len(s) : u[i] = s[i]
  BY <1>1, <1>4
<1>6. u \in Seq(Memo(w + 1))
  <2>1. s \in Seq(Memo(w + 1))
    BY <1>1, <1>3, <1>4, SeqDef
  <2>2. QED
    BY <2>1, <1>2
<1>7. Aged(u)
  <2>1. SUFFICES ASSUME NEW i \in 1..(Len(s) + 1), NEW j \in 1..(Len(s) + 1), i < j PROVE u[i].id < u[j].id
    BY <1>5 DEF Aged
  <2>2. CASE i \in 1..Len(s) /\ j \in 1..Len(s)
    BY <2>1, <2>2, <1>1, <1>4, <1>5 DEF Aged
  <2>3. CASE j = Len(s) + 1 /\ i \in 1..Len(s)
    BY <2>1, <2>3, <1>3, <1>4, <1>5
  <2>4. QED
    BY <2>1, <2>2, <2>3, <1>4
<1>8. QED
  BY <1>1, <1>4, <1>5, <1>6, <1>7 DEF Table

\* A sequence over a set is one over a larger set.
LEMMA Wider ==
  ASSUME NEW S, NEW T, S \subseteq T, NEW s \in Seq(S)
  PROVE  s \in Seq(T)
<1>1. \A i \in 1..Len(s) : s[i] \in T
  OBVIOUS
<1>2. QED
  BY <1>1

\* A part of a sequence.
LEMMA Part ==
  ASSUME NEW S, NEW s \in Seq(S), NEW m \in Nat \ {0}, NEW n \in Nat, n <= Len(s)
  PROVE  /\ SubSeq(s, m, n) \in Seq(S)
         /\ Len(SubSeq(s, m, n)) = IF m <= n THEN n - m + 1 ELSE 0
         /\ \A i \in 1..(n - m + 1) : SubSeq(s, m, n)[i] = s[m + i - 1]
<1>1. \A i \in m..n : s[i] \in S
  OBVIOUS
<1>2. QED
  BY <1>1, SubSeqProperties

\* A sequence without one of its members.
LEMMA Without ==
  ASSUME NEW S, NEW s \in Seq(S), NEW d \in 1..Len(s)
  PROVE  /\ RemoveAt(s, d) \in Seq(S) /\ Len(RemoveAt(s, d)) = Len(s) - 1
         /\ \A i \in 1..(Len(s) - 1) :
              RemoveAt(s, d)[i] = IF i < d THEN s[i] ELSE s[i + 1]
<1>1. PICK l \in Nat : l = Len(s) /\ d \in 1..l /\ l <= Len(s)
  OBVIOUS
<1>2. PICK e \in Nat, m \in Nat \ {0} : e = d - 1 /\ m = d + 1 /\ e <= l /\ d \in 1..l
  BY <1>1
<1>3. PICK a : a = SubSeq(s, 1, e)
  OBVIOUS
<1>4. PICK b : b = SubSeq(s, m, l)
  OBVIOUS
<1>5. a \in Seq(S) /\ Len(a) = e /\ \A i \in 1..e : a[i] = s[i]
  BY <1>1, <1>2, <1>3
<1>6. b \in Seq(S) /\ Len(b) = l - d /\ \A i \in 1..(l - d) : b[i] = s[i + d]
  <2>5. /\ SubSeq(s, m, l) \in Seq(S) /\ Len(SubSeq(s, m, l)) = IF m <= l THEN l - m + 1 ELSE 0
        /\ \A i \in 1..(l - m + 1) : SubSeq(s, m, l)[i] = s[m + i - 1]
    <3>1. l <= Len(s)
      BY <1>1
    <3>2. SubSeq(s, m, l) \in Seq(S)
      BY <3>1, Part
    <3>3. Len(SubSeq(s, m, l)) = IF m <= l THEN l - m + 1 ELSE 0
      BY <3>1, Part
    <3>4. \A i \in 1..(l - m + 1) : SubSeq(s, m, l)[i] = s[m + i - 1]
      BY <3>1, Part
    <3>5. QED
      BY <3>2, <3>3, <3>4
  <2>1. /\ b \in Seq(S) /\ Len(b) = IF m <= l THEN l - m + 1 ELSE 0
        /\ \A i \in 1..(l - m + 1) : b[i] = s[m + i - 1]
    BY <2>5, <1>4, Zenon
  <2>2. Len(b) = l - d /\ l - m + 1 = l - d
    BY <1>2, <2>1
  <2>3. ASSUME NEW i \in 1..(l - d) PROVE b[i] = s[i + d]
    <3>1. i \in 1..(l - m + 1) /\ m + i - 1 = i + d
      BY <1>2, <2>2
    <3>2. b[i] = s[m + i - 1]
      BY <2>1, <3>1
    <3>3. QED
      BY <3>1, <3>2
  <2>4. QED
    BY <2>1, <2>2, <2>3
<1>7. RemoveAt(s, d) = a \o b
  BY <1>1, <1>2, <1>3, <1>4 DEF RemoveAt
<1>8. /\ a \o b \in Seq(S) /\ Len(a \o b) = e + (l - d)
      /\ \A i \in 1..(e + (l - d)) : (a \o b)[i] = IF i <= e THEN a[i] ELSE b[i - e]
  <2>1. /\ a \o b \in Seq(S) /\ Len(a \o b) = Len(a) + Len(b)
        /\ \A i \in 1..Len(a) + Len(b) : (a \o b)[i] = IF i <= Len(a) THEN a[i] ELSE b[i - Len(a)]
    <3>1. a \in Seq(S) /\ b \in Seq(S)
      BY <1>5, <1>6
    <3>2. QED
      BY <3>1, ConcatProperties, Zenon
  <2>2. Len(a) = e /\ Len(b) = l - d
    BY <1>5, <1>6
  <2>3. QED
    BY <2>1, <2>2, Zenon
<1>9. e + (l - d) = l - 1
  BY <1>2
<1>10. ASSUME NEW i \in 1..(l - 1) PROVE (a \o b)[i] = IF i < d THEN s[i] ELSE s[i + 1]
  <2>1. (a \o b)[i] = IF i <= e THEN a[i] ELSE b[i - e]
    BY <1>8, <1>9
  <2>2. CASE i < d
    <3>1. i <= e /\ i \in 1..e
      BY <1>2, <2>2
    <3>2. QED
      BY <2>1, <2>2, <3>1, <1>5
  <2>3. CASE ~ (i < d)
    <3>1. ~ (i <= e) /\ i - e \in 1..(l - d) /\ (i - e) + d = i + 1
      BY <1>2, <2>3
    <3>2. b[i - e] = s[i + 1]
      BY <1>6, <3>1
    <3>3. QED
      BY <2>1, <2>3, <3>1, <3>2
  <2>4. QED
    BY <2>2, <2>3
<1>11. QED
  BY <1>1, <1>7, <1>8, <1>9, <1>10

\* A row less: those behind it move up.
LEMMA TableShrinks ==
  ASSUME NEW s, NEW w, Table(s, w), NEW d \in DOMAIN s
  PROVE  LET u == RemoveAt(s, d)
         IN  /\ Table(u, w)
             /\ \A i \in DOMAIN u : \E k \in DOMAIN s : u[i] = s[k]
<1> DEFINE u == RemoveAt(s, d)
           K1(i) == IF i < d THEN i ELSE i + 1
<1>1. w \in Nat /\ s \in Seq(Memo(w)) /\ Aged(s)
  BY DEF Table
<1>2. Len(s) \in Nat /\ DOMAIN s = 1..Len(s) /\ d \in 1..Len(s)
  BY <1>1
<1>3. /\ u \in Seq(Memo(w)) /\ Len(u) = Len(s) - 1
      /\ \A i \in 1..(Len(s) - 1) : u[i] = IF i < d THEN s[i] ELSE s[i + 1]
  BY <1>1, <1>2, Without
<1> HIDE DEF u
<1>4. DOMAIN u = 1..(Len(s) - 1)
  BY <1>2, <1>3
<1>5. ASSUME NEW i \in 1..(Len(s) - 1) PROVE K1(i) \in 1..Len(s) /\ u[i] = s[K1(i)]
  <2>1. K1(i) \in 1..Len(s)
    BY <1>2
  <2>2. u[i] = IF i < d THEN s[i] ELSE s[i + 1]
    BY <1>3
  <2>3. QED
    BY <2>1, <2>2
<1>6. \A i, j \in 1..(Len(s) - 1) : i < j => K1(i) < K1(j)
  BY <1>2
<1> HIDE DEF K1
<1>7. Aged(u)
  <2>1. SUFFICES ASSUME NEW i \in 1..(Len(s) - 1), NEW j \in 1..(Len(s) - 1), i < j PROVE u[i].id < u[j].id
    BY <1>4 DEF Aged
  <2>2. K1(i) \in DOMAIN s /\ K1(j) \in DOMAIN s /\ K1(i) < K1(j)
    BY <2>1, <1>2, <1>5, <1>6
  <2>3. s[K1(i)].id < s[K1(j)].id
    BY <2>2, <1>1 DEF Aged
  <2>4. QED
    BY <2>3, <1>5
<1>8. \A i \in DOMAIN u : \E k \in DOMAIN s : u[i] = s[k]
  BY <1>2, <1>4, <1>5
<1>9. QED
  BY <1>1, <1>3, <1>7, <1>8 DEF Table, u

\* A caller's work stays good when another writes a row,
LEMMA GoodGrows ==
  ASSUME NEW s, NEW w, Table(s, w), NEW t \in Texts, NEW o, Good(o, s, w)
  PROVE  Good(o, Append(s, [id |-> w + 1, text |-> t]), w + 1)
<1> DEFINE u == Append(s, [id |-> w + 1, text |-> t])
<1>1. /\ Table(u, w + 1) /\ Len(u) = Len(s) + 1 /\ Len(s) \in Nat
      /\ DOMAIN s = 1..Len(s) /\ DOMAIN u = 1..(Len(s) + 1)
      /\ \A i \in DOMAIN s : u[i] = s[i]
      /\ u[Len(s) + 1] = [id |-> w + 1, text |-> t]
  BY TableGrows
<1> HIDE DEF u
<1>2. o \in MemoryWork(w) /\ w \in Nat
  BY DEF Good, Table
<1>3. w + 1 \notin o.saw /\ o.saw \subseteq 1..w
  BY <1>2 DEF MemoryWork
<1>4. o \in MemoryWork(w + 1)
  BY <1>2 DEF MemoryWork
<1>5. Len(o.page) \in Nat
  BY <1>2 DEF MemoryWork
<1>6. \A i \in DOMAIN u : u[i].id \in o.saw => i \in DOMAIN s /\ u[i] = s[i]
  BY <1>1, <1>3
<1>7. Unseen(o, u)
  BY <1>6 DEF Good, Unseen
<1>8. TextsOf(s) \subseteq TextsOf(u) /\ IdsOf(s) \subseteq IdsOf(u)
  BY <1>1 DEF TextsOf, IdsOf
<1>9. Knows(o, u)
  BY <1>6, <1>8 DEF Good, Knows
<1>10. Paged(o, u)
  BY <1>1, <1>5, <1>6, SMTT(60) DEF Good, Paged
<1>11. Exports(o, u)
  BY <1>8 DEF Good, Exports
<1>12. QED
  BY <1>4, <1>7, <1>9, <1>10, <1>11 DEF Good, u

\* and when a row goes, if the pagers note it.
LEMMA GoodShrinks ==
  ASSUME NEW s, NEW w, Table(s, w), NEW d \in DOMAIN s, NEW o, Good(o, s, w),
         NEW n, n = IF o.kind \in {"import", "export"} THEN [o EXCEPT !.moved = TRUE] ELSE o
  PROVE  Good(n, RemoveAt(s, d), w)
<1> DEFINE u == RemoveAt(s, d)
<1>1. \A i \in DOMAIN u : \E k \in DOMAIN s : u[i] = s[k]
  BY TableShrinks
<1> HIDE DEF u
<1>2. o \in MemoryWork(w)
  BY DEF Good
<1>3. n \in MemoryWork(w)
  BY <1>2 DEF MemoryWork
<1>4. /\ n.kind = o.kind /\ n.at = o.at /\ n.todo = o.todo /\ n.missed = o.missed /\ n.saw = o.saw
      /\ n.kind \in {"import", "export"} => n.moved
      /\ n.kind \notin {"import", "export"} => n = o
  BY <1>2 DEF MemoryWork
<1>5. Shaped(n)
  BY <1>4 DEF Good, Shaped
<1>6. Unseen(n, u)
  BY <1>1, <1>4 DEF Good, Unseen
<1>7. Knows(n, u) /\ Exports(n, u)
  BY <1>4 DEF Knows, Exports
<1>8. Paged(n, u)
  BY <1>4, <1>5 DEF Paged, Shaped
<1>9. QED
  BY <1>3, <1>5, <1>6, <1>7, <1>8 DEF Good, u

\* Who does nothing does well,
LEMMA IdleGood ==
  ASSUME NEW s, NEW w, w \in Nat
  PROVE  Idle \in MemoryWork(w) /\ Good(Idle, s, w)
<1>1. <<>> \in Lists
  <2>1. <<>> \in Seq(Texts) /\ Len(<<>>) <= 2
    OBVIOUS
  <2>2. QED
    BY <2>1, ListsAre
<1>2. <<>> \in Seq([id : Nat, text : Texts])
  OBVIOUS
<1>3. Idle \in MemoryWork(w)
  BY <1>1, <1>2 DEF Idle, MemoryWork, Kinds, Places
<1>4. Idle.kind = "none" /\ Idle.at = "idle" /\ Idle.moved = FALSE /\ Idle.missed = {}
  BY DEF Idle
<1>5. QED
  BY <1>3, <1>4 DEF Good, Shaped, Unseen, Knows, Paged, Exports

\* and so does who begins to mine.
LEMMA MiningGood ==
  ASSUME NEW s, NEW w, w \in Nat
  PROVE  Good(Mining, s, w)
<1>1. PICK i \in MemoryWork(w) : i = Idle
  BY IdleGood
<1>2. i.moved = FALSE /\ i.missed = {}
  BY <1>1 DEF Idle
<1>3. Mining = [i EXCEPT !.kind = "mine", !.at = "model"]
  BY <1>1 DEF Mining
<1>4. Mining \in MemoryWork(w)
  BY <1>3 DEF MemoryWork, Kinds, Places
<1>5. Mining.kind = "mine" /\ Mining.at = "model" /\ Mining.moved = FALSE /\ Mining.missed = {}
  BY <1>2, <1>3 DEF MemoryWork
<1>6. QED
  BY <1>4, <1>5 DEF Good, Shaped, Unseen, Knows, Paged, Exports

\* A list of texts that is not empty has a first and a rest.
LEMMA ListParts ==
  ASSUME NEW ts \in Lists, ts # <<>>
  PROVE  Head(ts) \in Texts /\ Tail(ts) \in Lists
<1>1. ts \in Seq(Texts) /\ Len(ts) <= 2
  BY ListsAre
<1>2. Head(ts) \in Texts /\ Tail(ts) \in Seq(Texts) /\ Len(Tail(ts)) = Len(ts) - 1 /\ Len(ts) \in Nat
  BY <1>1
<1>3. Len(Tail(ts)) <= 2
  BY <1>1, <1>2
<1>4. QED
  BY <1>2, <1>3, ListsAre

\* Ids and texts of a table.
LEMMA IdsBounded ==
  ASSUME NEW s, NEW w, Table(s, w)
  PROVE  IdsOf(s) \subseteq 1..w /\ TextsOf(s) \subseteq Texts
<1>1. \A i \in DOMAIN s : s[i] \in Memo(w)
  BY DEF Table
<1>2. QED
  BY <1>1 DEF IdsOf, TextsOf, Memo

\* The work of a caller that may go on to its next text.
GoesOn(o, s, w) ==
  /\ o \in MemoryWork(w) /\ o.todo # <<>> /\ o.kind # "export"
  /\ o.kind # "import" => ~ o.moved /\ o.missed = {}
  /\ o.kind = "import" /\ ~ o.moved =>
       /\ o.missed = {} /\ o.known \subseteq TextsOf(s)
       /\ \A i \in DOMAIN s : s[i].id \in o.saw => s[i].text \in o.known

\* With the next text, or after the last, the work stays good.
LEMMA OnwardGood ==
  ASSUME NEW s, NEW w, w \in Nat, NEW o, GoesOn(o, s, w)
  PROVE  Good(Onward(o), s, w)
<1>1. PICK rest : rest = Tail(o.todo)
  OBVIOUS
<1>2. rest \in Lists /\ o \in MemoryWork(w)
  BY <1>1, ListParts DEF GoesOn, MemoryWork
<1>3. CASE rest # <<>> /\ o.kind = "import"
  <2>1. PICK n : n = Onward(o)
    OBVIOUS
  <2>2. n = [o EXCEPT !.todo = rest, !.at = "merge", !.saw = o.saw]
    BY <1>1, <1>3, <2>1 DEF Onward
  <2>3. n \in MemoryWork(w)
    BY <1>2, <2>2 DEF MemoryWork, Places
  <2>4. /\ n.kind = "import" /\ n.at = "merge" /\ n.todo = rest /\ n.known = o.known /\ n.saw = o.saw
        /\ n.moved = o.moved /\ n.missed = o.missed
    BY <1>2, <1>3, <2>2 DEF MemoryWork
  <2>5. Good(n, s, w)
    BY <1>3, <2>3, <2>4 DEF Good, Shaped, Unseen, Knows, Paged, Exports, GoesOn
  <2>6. QED
    BY <2>1, <2>5
<1>4. CASE rest # <<>> /\ o.kind = "awaken"
  <2>1. PICK n : n = Onward(o)
    OBVIOUS
  <2>2. n = [o EXCEPT !.todo = rest, !.at = "store", !.saw = {}]
    BY <1>1, <1>4, <2>1 DEF Onward
  <2>3. n \in MemoryWork(w)
    BY <1>2, <2>2 DEF MemoryWork, Places
  <2>4. /\ n.kind = "awaken" /\ n.at = "store" /\ n.todo = rest /\ n.saw = {}
        /\ n.moved = o.moved /\ n.missed = o.missed
    BY <1>2, <1>4, <2>2 DEF MemoryWork
  <2>5. Good(n, s, w)
    BY <1>4, <2>3, <2>4 DEF Good, Shaped, Unseen, Knows, Paged, Exports, GoesOn
  <2>6. QED
    BY <2>1, <2>5
<1>5. CASE rest # <<>> /\ o.kind \notin {"import", "awaken"}
  <2>1. PICK n : n = Onward(o)
    OBVIOUS
  <2>2. n = [o EXCEPT !.todo = rest, !.at = "check", !.saw = o.saw]
    BY <1>1, <1>5, <2>1 DEF Onward
  <2>3. n \in MemoryWork(w)
    BY <1>2, <2>2 DEF MemoryWork, Places
  <2>4. /\ n.kind = o.kind /\ n.at = "check" /\ n.todo = rest
        /\ n.moved = o.moved /\ n.missed = o.missed
    BY <1>2, <1>5, <2>2 DEF MemoryWork
  <2>5. Good(n, s, w)
    BY <1>5, <2>3, <2>4 DEF Good, Shaped, Unseen, Knows, Paged, Exports, GoesOn
  <2>6. QED
    BY <2>1, <2>5
<1>6. CASE rest = <<>> /\ o.kind = "facts"
  BY <1>1, <1>6, MiningGood DEF Onward
<1>7. CASE rest = <<>> /\ o.kind = "import"
  <2>1. PICK n : n = Onward(o)
    OBVIOUS
  <2>2. n = [o EXCEPT !.todo = rest, !.at = "over"]
    BY <1>1, <1>7, <2>1 DEF Onward
  <2>3. n \in MemoryWork(w)
    BY <1>2, <2>2 DEF MemoryWork, Places
  <2>4. /\ n.kind = "import" /\ n.at = "over" /\ n.todo = rest /\ n.known = o.known /\ n.saw = o.saw
        /\ n.moved = o.moved /\ n.missed = o.missed
    BY <1>2, <1>7, <2>2 DEF MemoryWork
  <2>5. Good(n, s, w)
    BY <1>7, <2>3, <2>4 DEF Good, Shaped, Unseen, Knows, Paged, Exports, GoesOn
  <2>6. QED
    BY <2>1, <2>5
<1>8. CASE rest = <<>> /\ o.kind \notin {"facts", "import"}
  BY <1>1, <1>8, IdleGood DEF Onward
<1>9. QED
  BY <1>3, <1>4, <1>5, <1>6, <1>7, <1>8

\* A page is what is left behind the offset, newest first, if it is not too much.
PageAt(s, n) == First(SubSeq(Reverse(s), n + 1, Len(s)), PageSize)

\* What a page is: the rows behind the offset, counted from the end.
LEMMA PageIs ==
  ASSUME NEW S, NEW s \in Seq(S), NEW n \in Nat, n <= Len(s)
  PROVE  /\ PageAt(s, n) \in Seq(S)
         /\ Len(PageAt(s, n)) = IF PageSize < Len(s) - n THEN PageSize ELSE Len(s) - n
         /\ \A k \in 1..Len(PageAt(s, n)) : PageAt(s, n)[k] = s[Len(s) - (n + k) + 1]
<1>1. PICK l \in Nat : l = Len(s) /\ n <= l
  OBVIOUS
<1>2. PICK r : r = Reverse(s)
  OBVIOUS
<1>3. r \in Seq(S) /\ Len(r) = l /\ \A i \in 1..l : r[i] = s[(l - i) + 1]
  <2>1. r = [i \in 1..l |-> s[(l - i) + 1]]
    BY <1>1, <1>2 DEF Reverse
  <2>2. \A i \in 1..l : (l - i) + 1 \in 1..l
    OBVIOUS
  <2>3. \A i \in 1..l : s[(l - i) + 1] \in S
    BY <1>1, <2>2
  <2>4. r \in [1..l -> S]
    BY <2>1, <2>3
  <2>5. QED
    BY <1>1, <2>1, <2>4
<1>4. PICK m \in Nat \ {0} : m = n + 1
  OBVIOUS
<1>5. PICK q : q = SubSeq(r, m, l)
  OBVIOUS
<1>6. q \in Seq(S) /\ Len(q) = l - n /\ \A k \in 1..(l - n) : q[k] = r[n + k]
  <2>1. l <= Len(r)
    BY <1>3
  <2>2. SubSeq(r, m, l) \in Seq(S)
    BY <1>3, <2>1, Part
  <2>3. Len(SubSeq(r, m, l)) = IF m <= l THEN l - m + 1 ELSE 0
    BY <1>3, <2>1, Part
  <2>4. \A i \in 1..(l - m + 1) : SubSeq(r, m, l)[i] = r[m + i - 1]
    BY <1>3, <2>1, Part
  <2>5. Len(q) = l - n
    BY <1>1, <1>4, <1>5, <2>3
  <2>6. ASSUME NEW k \in 1..(l - n) PROVE q[k] = r[n + k]
    <3>1. k \in 1..(l - m + 1) /\ m + k - 1 = n + k
      BY <1>1, <1>4
    <3>2. SubSeq(r, m, l)[k] = r[m + k - 1]
      BY <2>4, <3>1
    <3>3. QED
      BY <1>5, <3>1, <3>2
  <2>7. QED
    BY <1>5, <2>2, <2>5, <2>6
<1>7. PICK c \in Nat : c = IF PageSize < l - n THEN PageSize ELSE l - n
  BY <1>1
<1>8. c <= Len(q) /\ 1 \in Nat \ {0}
  BY <1>1, <1>6, <1>7
<1>9. PICK p : p = SubSeq(q, 1, c)
  OBVIOUS
<1>10. p \in Seq(S) /\ Len(p) = c /\ \A k \in 1..c : p[k] = q[k]
  BY <1>6, <1>8, <1>9, SMTT(60)
<1>11. PageAt(s, n) = p
  BY <1>1, <1>2, <1>4, <1>5, <1>6, <1>7, <1>9 DEF PageAt, First
<1>12. ASSUME NEW k \in 1..c PROVE p[k] = s[l - (n + k) + 1]
  <2>1. k \in 1..(l - n) /\ n + k \in 1..l /\ (l - (n + k)) + 1 = l - (n + k) + 1
    BY <1>1, <1>7
  <2>2. p[k] = r[n + k] /\ r[n + k] = s[(l - (n + k)) + 1]
    BY <1>3, <1>6, <1>10, <2>1
  <2>3. QED
    BY <2>2
<1>13. QED
  BY <1>1, <1>7, <1>10, <1>11, <1>12

\* A page holds rows, also when rows have gone that were read before.
LEMMA PageHolds ==
  ASSUME NEW S, NEW s \in Seq(S), NEW n \in Nat
  PROVE  PageAt(s, n) \in Seq(S)
<1>1. PICK l \in Nat : l = Len(s)
  OBVIOUS
<1>2. PICK r : r = Reverse(s)
  OBVIOUS
<1>3. r \in Seq(S) /\ Len(r) = l
  <2>1. r = [i \in 1..l |-> s[(l - i) + 1]]
    BY <1>1, <1>2 DEF Reverse
  <2>2. \A i \in 1..l : (l - i) + 1 \in 1..l
    OBVIOUS
  <2>3. \A i \in 1..l : s[(l - i) + 1] \in S
    BY <1>1, <2>2
  <2>4. r \in [1..l -> S]
    BY <2>1, <2>3
  <2>5. QED
    BY <1>1, <2>1, <2>4
<1>4. PICK m \in Nat \ {0} : m = n + 1
  OBVIOUS
<1>5. PICK q : q = SubSeq(r, m, l)
  OBVIOUS
<1>6. q \in Seq(S)
  <2>1. l <= Len(r)
    BY <1>3
  <2>2. QED
    BY <1>3, <1>5, <2>1, Part
<1>7. PICK c \in Nat : c = IF PageSize < Len(q) THEN PageSize ELSE Len(q)
  BY <1>6
<1>8. c <= Len(q) /\ 1 \in Nat \ {0}
  BY <1>6, <1>7
<1>9. SubSeq(q, 1, c) \in Seq(S)
  BY <1>6, <1>8, Part
<1>10. QED
  BY <1>1, <1>2, <1>4, <1>5, <1>7, <1>9 DEF PageAt, First

\* Which entry of a page a row behind the offset is.
LEMMA Behind ==
  ASSUME NEW l \in Nat, NEW n \in Nat, NEW c \in Nat, NEW i \in 1..l,
         i + n <= l, ~ (i + (n + c) <= l)
  PROVE  \E k \in 1..c : l - (n + k) + 1 = i
<1>1. PICK k \in Int : k = l - (n + i) + 1
  OBVIOUS
<1>2. k \in 1..c /\ l - (n + k) + 1 = i
  BY <1>1
<1>3. QED
  BY <1>2

\* What a page adds to what was read.
LEMMA PageReads ==
  ASSUME NEW s, NEW w, Table(s, w), NEW q \in Seq([id : Nat, text : Texts]), Len(q) <= Len(s)
  PROVE  LET p == PageAt(s, Len(q))
         IN  /\ q \o p \in Seq([id : Nat, text : Texts])
             /\ Len(q \o p) <= Len(s)
             /\ \A i \in DOMAIN s : i + Len(q) <= Len(s) =>
                  \/ i + Len(q \o p) <= Len(s) /\ ~ LastPage(p)
                  \/ s[i].id \in IdsOf(p) /\ s[i].text \in TextsOf(p)
             /\ IdsOf(q \o p) = IdsOf(q) \cup IdsOf(p)
             /\ \A y \in IdsOf(p) : \E j \in DOMAIN s : s[j].id = y /\ j + Len(q \o p) > Len(s)
             /\ TextsOf(p) \subseteq TextsOf(s)
<1>1. w \in Nat /\ s \in Seq(Memo(w))
  BY DEF Table
<1>2. PICK n \in Nat : n = Len(q) /\ n <= Len(s)
  OBVIOUS
<1>3. PICK l \in Nat : l = Len(s) /\ DOMAIN s = 1..l /\ n <= l
  BY <1>1, <1>2
<1>4. PICK p : p = PageAt(s, n)
  OBVIOUS
<1>5. /\ p \in Seq(Memo(w)) /\ Len(p) = IF PageSize < l - n THEN PageSize ELSE l - n
      /\ \A k \in 1..Len(p) : p[k] = s[l - (n + k) + 1]
  <2>1. s \in Seq(Memo(w)) /\ n <= Len(s)
    BY <1>1, <1>2
  <2>2. /\ PageAt(s, n) \in Seq(Memo(w))
        /\ Len(PageAt(s, n)) = IF PageSize < Len(s) - n THEN PageSize ELSE Len(s) - n
        /\ \A k \in 1..Len(PageAt(s, n)) : PageAt(s, n)[k] = s[Len(s) - (n + k) + 1]
    BY <2>1, PageIs, Zenon
  <2>3. QED
    BY <2>2, <1>3, <1>4, Zenon
<1>6. PICK c \in Nat : c = Len(p) /\ DOMAIN p = 1..c /\ n + c <= l /\ (c < PageSize => n + c = l)
  BY <1>3, <1>5
<1>7. Memo(w) \subseteq [id : Nat, text : Texts]
  BY <1>1 DEF Memo
<1>8. p \in Seq([id : Nat, text : Texts])
  <2>1. p \in Seq(Memo(w))
    BY <1>5
  <2>2. QED
    BY <2>1, <1>7, Wider, Zenon
<1>9. /\ q \o p \in Seq([id : Nat, text : Texts]) /\ Len(q \o p) = n + c
      /\ DOMAIN (q \o p) = 1..(n + c) /\ DOMAIN q = 1..n
      /\ \A i \in 1..n : (q \o p)[i] = q[i]
      /\ \A k \in 1..c : (q \o p)[n + k] = p[k]
  <2>1. /\ q \o p \in Seq([id : Nat, text : Texts]) /\ Len(q \o p) = Len(q) + Len(p)
        /\ \A i \in 1..Len(q) + Len(p) : (q \o p)[i] = IF i <= Len(q) THEN q[i] ELSE p[i - Len(q)]
    BY <1>8, ConcatProperties, SMTT(60)
  <2>2. ASSUME NEW k \in 1..c PROVE (q \o p)[n + k] = p[k]
    <3>1. n + k \in 1..Len(q) + Len(p) /\ ~ (n + k <= Len(q)) /\ (n + k) - Len(q) = k
      BY <1>2, <1>6
    <3>2. QED
      BY <2>1, <3>1
  <2>3. \A i \in 1..n : (q \o p)[i] = q[i]
    BY <1>2, <1>6, <2>1
  <2>4. Len(q \o p) = n + c /\ DOMAIN (q \o p) = 1..(n + c) /\ DOMAIN q = 1..n
    BY <1>2, <1>6, <2>1
  <2>5. QED
    BY <2>1, <2>2, <2>3, <2>4
<1>10. ASSUME NEW i \in 1..l, i + n <= l
       PROVE  \/ i + (n + c) <= l /\ ~ LastPage(p)
              \/ s[i].id \in IdsOf(p) /\ s[i].text \in TextsOf(p)
  <2>1. CASE i + (n + c) <= l
    <3>1. ~ (c < PageSize)
      BY <2>1, <1>3, <1>6
    <3>2. QED
      BY <2>1, <3>1, <1>6 DEF LastPage
  <2>2. CASE ~ (i + (n + c) <= l)
    <3>7. i + n <= l /\ ~ (i + (n + c) <= l)
      BY <2>2, <1>10
    <3>8. \E k \in 1..c : l - (n + k) + 1 = i
      BY <3>7, Behind
    <3>2. PICK k \in 1..c : l - (n + k) + 1 = i
      BY <3>8
    <3>5. p[k] = s[l - (n + k) + 1]
      BY <1>5, <1>6
    <3>3. p[k] = s[i]
      BY <3>2, <3>5
    <3>6. QED
      BY <3>3, <1>6 DEF IdsOf, TextsOf
  <2>3. QED
    BY <2>1, <2>2
<1>11. IdsOf(q) \subseteq IdsOf(q \o p)
  <2>1. SUFFICES ASSUME NEW i \in 1..n PROVE q[i].id \in IdsOf(q \o p)
    BY <1>9 DEF IdsOf
  <2>2. i \in 1..(n + c) /\ (q \o p)[i] = q[i]
    BY <1>9
  <2>3. QED
    BY <2>2, <1>9 DEF IdsOf
<1>12. IdsOf(p) \subseteq IdsOf(q \o p)
  <2>1. SUFFICES ASSUME NEW k \in 1..c PROVE p[k].id \in IdsOf(q \o p)
    BY <1>6 DEF IdsOf
  <2>2. PICK j \in 1..(n + c) : j = n + k
    OBVIOUS
  <2>3. (q \o p)[j] = p[k]
    BY <2>2, <1>9
  <2>4. QED
    BY <2>2, <2>3, <1>9 DEF IdsOf
<1>13. IdsOf(q \o p) \subseteq IdsOf(q) \cup IdsOf(p)
  <2>1. SUFFICES ASSUME NEW i \in 1..(n + c) PROVE (q \o p)[i].id \in IdsOf(q) \cup IdsOf(p)
    BY <1>9 DEF IdsOf
  <2>2. CASE i <= n
    <3>1. i \in 1..n
      BY <2>2
    <3>2. QED
      BY <3>1, <1>9 DEF IdsOf
  <2>3. CASE ~ (i <= n)
    <3>1. PICK k \in 1..c : i = n + k
      <4>1. i - n \in 1..c /\ i = n + (i - n)
        BY <2>3
      <4>2. QED
        BY <4>1
    <3>2. QED
      BY <3>1, <1>6, <1>9 DEF IdsOf
  <2>4. QED
    BY <2>2, <2>3
<1>14. ASSUME NEW y \in IdsOf(p) PROVE \E j \in 1..l : s[j].id = y /\ j + (n + c) > l
  <2>1. PICK k \in 1..c : p[k].id = y
    BY <1>6 DEF IdsOf
  <2>2. PICK j \in 1..l : j = l - (n + k) + 1
    BY <1>6
  <2>3. p[k] = s[j]
    BY <2>2, <1>5, <1>6
  <2>4. j + (n + c) > l
    <3>1. k \in Int /\ k <= c
      OBVIOUS
    <3>2. QED
      BY <2>2, <3>1
  <2>5. QED
    BY <2>1, <2>3, <2>4, Zenon
<1>15. TextsOf(p) \subseteq TextsOf(s)
  <2>1. SUFFICES ASSUME NEW k \in 1..c PROVE p[k].text \in TextsOf(s)
    BY <1>6 DEF TextsOf
  <2>2. PICK j \in 1..l : j = l - (n + k) + 1
    BY <1>6
  <2>3. p[k] = s[j]
    BY <2>2, <1>5, <1>6
  <2>4. QED
    BY <2>2, <2>3, <1>3 DEF TextsOf
<1>16. QED
  BY <1>2, <1>3, <1>4, <1>6, <1>9, <1>10, <1>11, <1>12, <1>13, <1>14, <1>15

\* The texts of what was read.
LEMMA TextsRead ==
  ASSUME NEW p \in Seq([id : Nat, text : Texts])
  PROVE  TextsOf(p) \subseteq Texts
<1>1. PICK S : S = [id : Nat, text : Texts]
  OBVIOUS
<1>2. p \in Seq(S)
  BY <1>1
<1>3. DOMAIN p = 1..Len(p) /\ \A i \in 1..Len(p) : p[i] \in S
  BY <1>2
<1>4. QED
  BY <1>1, <1>3 DEF TextsOf

\* A page that an import scans.
LEMMA ScanGood ==
  ASSUME NEW s, NEW w, Table(s, w), NEW o, Good(o, s, w), o.at = "scan",
         NEW p, o.moved \/ p = PageAt(s, Len(o.page)), p \in Seq([id : Nat, text : Texts])
  PROVE  Good([Reads(o, p, LastPage(p), "merge") EXCEPT !.known = @ \cup TextsOf(p)], s, w)
<1>1. o \in MemoryWork(w) /\ o.kind = "import" /\ o.todo # <<>>
  BY DEF Good, Shaped
<1>2. PICK n : n = [Reads(o, p, LastPage(p), "merge") EXCEPT !.known = @ \cup TextsOf(p)]
  OBVIOUS
<1>3. PICK q \in Seq([id : Nat, text : Texts]) : q = o.page \o p
  BY <1>1, ConcatProperties DEF MemoryWork
<1>4. PICK a \in {"scan", "merge"} : a = IF LastPage(p) THEN "merge" ELSE "scan"
  OBVIOUS
<1>5. n = [o EXCEPT !.page = q, !.at = a, !.known = o.known \cup TextsOf(p)]
  BY <1>1, <1>2, <1>3, <1>4 DEF Reads, MemoryWork
<1>6. TextsOf(p) \subseteq Texts
  BY TextsRead
<1>7. n \in MemoryWork(w)
  BY <1>1, <1>5, <1>6 DEF MemoryWork, Places
<1>8. /\ n.kind = "import" /\ n.at = a /\ n.page = q /\ n.known = o.known \cup TextsOf(p)
      /\ n.moved = o.moved /\ n.missed = o.missed /\ n.saw = o.saw /\ n.todo = o.todo
  BY <1>1, <1>5 DEF MemoryWork
<1>9. Shaped(n) /\ Unseen(n, s) /\ Exports(n, s)
  BY <1>1, <1>8 DEF Good, Shaped, Unseen, Exports
<1>10. CASE o.moved
  BY <1>2, <1>7, <1>8, <1>9, <1>10 DEF Good, Knows, Paged
<1>11. CASE ~ o.moved
  <2>1. /\ Len(o.page) <= Len(s) /\ o.missed = {} /\ o.known \subseteq TextsOf(s)
        /\ \A i \in DOMAIN s : s[i].id \in o.saw =>
             i + Len(o.page) <= Len(s) \/ s[i].text \in o.known
    BY <1>1, <1>11 DEF Good, Paged, Knows
  <2>2. o.page \in Seq([id : Nat, text : Texts])
    BY <1>1 DEF MemoryWork
  <2>3. /\ Len(q) <= Len(s) /\ TextsOf(p) \subseteq TextsOf(s)
        /\ \A i \in DOMAIN s : i + Len(o.page) <= Len(s) =>
             \/ i + Len(q) <= Len(s) /\ ~ LastPage(p)
             \/ s[i].id \in IdsOf(p) /\ s[i].text \in TextsOf(p)
    <3>1. p = PageAt(s, Len(o.page)) /\ Len(o.page) <= Len(s)
      BY <1>11, <2>1
    <3>2. Len(q) <= Len(s)
      BY <1>3, <2>2, <3>1, PageReads
    <3>3. TextsOf(p) \subseteq TextsOf(s)
      BY <1>3, <2>2, <3>1, PageReads
    <3>4. \A i \in DOMAIN s : i + Len(o.page) <= Len(s) =>
            \/ i + Len(q) <= Len(s) /\ ~ LastPage(p)
            \/ s[i].id \in IdsOf(p) /\ s[i].text \in TextsOf(p)
      BY <1>3, <2>2, <3>1, PageReads
    <3>5. QED
      BY <3>2, <3>3, <3>4
  <2>4. ASSUME NEW i \in DOMAIN s, s[i].id \in n.saw
        PROVE  (i + Len(q) <= Len(s) /\ ~ LastPage(p)) \/ s[i].text \in n.known
    BY <1>8, <2>1, <2>3, <2>4
  <2>5. Knows(n, s)
    BY <1>4, <1>8, <2>1, <2>3, <2>4 DEF Knows
  <2>6. Paged(n, s)
    BY <1>8, <2>3, <2>4 DEF Paged
  <2>7. QED
    BY <1>2, <1>7, <1>9, <2>5, <2>6 DEF Good
<1>12. QED
  BY <1>2, <1>10, <1>11

\* A page that an export reads.
LEMMA ReadGood ==
  ASSUME NEW s, NEW w, Table(s, w), NEW o, Good(o, s, w), o.at = "page",
         NEW p, o.moved \/ p = PageAt(s, Len(o.page)), p \in Seq([id : Nat, text : Texts])
  PROVE  Good(Reads(o, p, LastPage(p) \/ Capped(o.page \o p), "over"), s, w)
<1>1. o \in MemoryWork(w) /\ o.kind = "export" /\ o.missed = {}
  BY DEF Good, Shaped
<1>2. PICK n : n = Reads(o, p, LastPage(p) \/ Capped(o.page \o p), "over")
  OBVIOUS
<1>3. PICK q \in Seq([id : Nat, text : Texts]) : q = o.page \o p
  BY <1>1, ConcatProperties DEF MemoryWork
<1>4. PICK a \in {"page", "over"} : a = IF LastPage(p) \/ Capped(q) THEN "over" ELSE "page"
  OBVIOUS
<1>5. n = [o EXCEPT !.page = q, !.at = a]
  BY <1>1, <1>2, <1>3, <1>4 DEF Reads, MemoryWork
<1>6. n \in MemoryWork(w)
  BY <1>1, <1>5 DEF MemoryWork, Places
<1>7. /\ n.kind = "export" /\ n.at = a /\ n.page = q /\ n.known = o.known
      /\ n.moved = o.moved /\ n.missed = o.missed /\ n.saw = o.saw /\ n.todo = o.todo
  BY <1>1, <1>5 DEF MemoryWork
<1>8. Shaped(n) /\ Unseen(n, s) /\ Knows(n, s)
  BY <1>1, <1>7 DEF Shaped, Unseen, Knows
<1>9. CASE o.moved
  BY <1>2, <1>6, <1>7, <1>8, <1>9 DEF Good, Exports, Paged
<1>10. CASE ~ o.moved
  <2>1. /\ Len(o.page) <= Len(s) /\ o.saw \subseteq IdsOf(s)
        /\ \A i \in DOMAIN s : s[i].id \in o.saw =>
             i + Len(o.page) <= Len(s) \/ s[i].id \in IdsOf(o.page)
        /\ \A x \in o.saw \ IdsOf(o.page), y \in IdsOf(o.page) : x < y
    BY <1>1, <1>10 DEF Good, Paged, Exports
  <2>2. o.page \in Seq([id : Nat, text : Texts])
    BY <1>1 DEF MemoryWork
  <2>3. /\ Len(q) <= Len(s) /\ IdsOf(q) = IdsOf(o.page) \cup IdsOf(p)
        /\ \A y \in IdsOf(p) : \E j \in DOMAIN s : s[j].id = y /\ j + Len(q) > Len(s)
        /\ \A i \in DOMAIN s : i + Len(o.page) <= Len(s) =>
             \/ i + Len(q) <= Len(s) /\ ~ LastPage(p)
             \/ s[i].id \in IdsOf(p) /\ s[i].text \in TextsOf(p)
    <3>1. p = PageAt(s, Len(o.page)) /\ Len(o.page) <= Len(s)
      BY <1>10, <2>1
    <3>2. Len(q) <= Len(s)
      BY <1>3, <2>2, <3>1, PageReads
    <3>3. IdsOf(q) = IdsOf(o.page) \cup IdsOf(p)
      BY <1>3, <2>2, <3>1, PageReads
    <3>4. \A i \in DOMAIN s : i + Len(o.page) <= Len(s) =>
            \/ i + Len(q) <= Len(s) /\ ~ LastPage(p)
            \/ s[i].id \in IdsOf(p) /\ s[i].text \in TextsOf(p)
      BY <1>3, <2>2, <3>1, PageReads
    <3>5. \A y \in IdsOf(p) : \E j \in DOMAIN s : s[j].id = y /\ j + Len(q) > Len(s)
      BY <1>3, <2>2, <3>1, PageReads
    <3>6. QED
      BY <3>2, <3>3, <3>4, <3>5
  <2>4. ASSUME NEW i \in DOMAIN s, s[i].id \in n.saw
        PROVE  (i + Len(q) <= Len(s) /\ ~ LastPage(p)) \/ s[i].id \in IdsOf(q)
    BY <1>7, <2>1, <2>3, <2>4
  <2>5. Paged(n, s)
    BY <1>7, <2>3, <2>4 DEF Paged
  <2>6. ASSUME LastPage(p), NEW x \in n.saw PROVE x \in IdsOf(q)
    <3>1. PICK i \in DOMAIN s : s[i].id = x
      BY <1>7, <2>1, <2>6 DEF IdsOf
    <3>2. QED
      BY <2>4, <2>6, <3>1
  <2>7. ASSUME NEW x \in n.saw \ IdsOf(q), NEW y \in IdsOf(q) PROVE x < y
    <3>1. x \in o.saw \ IdsOf(o.page)
      BY <1>7, <2>3
    <3>2. CASE y \in IdsOf(o.page)
      BY <2>1, <3>1, <3>2
    <3>3. CASE y \in IdsOf(p)
      <4>1. PICK j \in DOMAIN s : s[j].id = y /\ j + Len(q) > Len(s)
        BY <2>3, <3>3
      <4>2. PICK i \in DOMAIN s : s[i].id = x
        BY <2>1, <3>1 DEF IdsOf
      <4>3. i + Len(q) <= Len(s)
        BY <2>4, <2>7, <4>2
      <4>4. i \in Nat /\ j \in Nat /\ Len(q) \in Nat /\ Len(s) \in Nat /\ s \in Seq(Memo(w)) /\ Aged(s)
        BY <1>3 DEF Table
      <4>5. i < j
        BY <4>1, <4>3, <4>4
      <4>6. QED
        BY <4>1, <4>2, <4>4, <4>5 DEF Aged
    <3>4. QED
      BY <2>3, <3>2, <3>3
  <2>8. Exports(n, s)
    BY <1>4, <1>7, <2>1, <2>6, <2>7 DEF Exports
  <2>9. QED
    BY <1>2, <1>6, <1>8, <2>5, <2>8 DEF Good
<1>11. QED
  BY <1>2, <1>9, <1>10

\* A record that is known is passed over, one that is not will be stored.
LEMMA MergeGood ==
  ASSUME NEW s, NEW w, Table(s, w), NEW o, Good(o, s, w), o.at = "merge", NEW t, t = Head(o.todo)
  PROVE  /\ t \in o.known => Good(Onward([o EXCEPT !.missed = @ \cup ({t} \ TextsOf(s))]), s, w)
         /\ t \notin o.known => Good([o EXCEPT !.at = "store"], s, w)
<1>1. o \in MemoryWork(w) /\ o.kind = "import" /\ o.todo # <<>> /\ w \in Nat
  BY DEF Good, Shaped, Table
<1>2. t \in Texts
  BY <1>1, ListParts DEF MemoryWork
<1>3. ~ o.moved => /\ o.missed = {} /\ o.known \subseteq TextsOf(s)
                   /\ \A i \in DOMAIN s : s[i].id \in o.saw => s[i].text \in o.known
  BY <1>1 DEF Good, Knows
<1>4. ASSUME t \in o.known
      PROVE  Good(Onward([o EXCEPT !.missed = @ \cup ({t} \ TextsOf(s))]), s, w)
  <2>1. PICK n : n = [o EXCEPT !.missed = o.missed \cup ({t} \ TextsOf(s))]
    OBVIOUS
  <2>2. n \in MemoryWork(w)
    BY <1>1, <1>2, <2>1 DEF MemoryWork
  <2>3. /\ n.kind = "import" /\ n.todo = o.todo /\ n.known = o.known /\ n.saw = o.saw
        /\ n.moved = o.moved /\ n.missed = o.missed \cup ({t} \ TextsOf(s))
    BY <1>1, <2>1 DEF MemoryWork
  <2>4. GoesOn(n, s, w)
    BY <1>1, <1>3, <1>4, <2>2, <2>3 DEF GoesOn
  <2>5. Good(Onward(n), s, w)
    BY <1>1, <2>4, OnwardGood
  <2>6. QED
    BY <2>1, <2>5
<1>5. ASSUME t \notin o.known PROVE Good([o EXCEPT !.at = "store"], s, w)
  <2>1. PICK n : n = [o EXCEPT !.at = "store"]
    OBVIOUS
  <2>2. n \in MemoryWork(w)
    BY <1>1, <2>1 DEF MemoryWork, Places
  <2>3. /\ n.kind = "import" /\ n.at = "store" /\ n.todo = o.todo /\ n.known = o.known /\ n.saw = o.saw
        /\ n.moved = o.moved /\ n.missed = o.missed
    BY <1>1, <2>1 DEF MemoryWork
  <2>4. Unseen(n, s)
    BY <1>3, <1>5, <2>3 DEF Unseen
  <2>5. Good(n, s, w)
    BY <1>1, <1>3, <2>2, <2>3, <2>4 DEF Good, Shaped, Knows, Paged, Exports
  <2>6. QED
    BY <2>1, <2>5
<1>6. QED
  BY <1>4, <1>5

\* The row is written, and its id is known to an import.
LEMMA StoreGood ==
  ASSUME NEW s, NEW w, Table(s, w), NEW o, Good(o, s, w), o.at = "store", NEW t, t = Head(o.todo)
  PROVE  /\ t \in Texts
         /\ Good(Onward([o EXCEPT !.known = @ \cup {t},
                                  !.saw = IF o.kind = "import" THEN @ \cup {w + 1} ELSE {}]),
                 Append(s, [id |-> w + 1, text |-> t]), w + 1)
<1>1. o \in MemoryWork(w) /\ o.todo # <<>> /\ w \in Nat /\ o.kind # "export"
  BY DEF Good, Shaped, Table
<1>2. t \in Texts
  BY <1>1, ListParts DEF MemoryWork
<1>3. PICK u : u = Append(s, [id |-> w + 1, text |-> t])
  OBVIOUS
<1>4. /\ Table(u, w + 1) /\ DOMAIN s = 1..Len(s) /\ DOMAIN u = 1..(Len(s) + 1) /\ Len(s) \in Nat
      /\ \A i \in DOMAIN s : u[i] = s[i]
      /\ u[Len(s) + 1] = [id |-> w + 1, text |-> t]
  BY <1>2, <1>3, TableGrows
<1>5. PICK v : v = IF o.kind = "import" THEN o.saw \cup {w + 1} ELSE {}
  OBVIOUS
<1>6. v \subseteq 1..(w + 1) /\ (o.kind = "import" => v = o.saw \cup {w + 1})
  BY <1>1, <1>5 DEF MemoryWork
<1>7. PICK n : n = [o EXCEPT !.known = o.known \cup {t}, !.saw = v]
  OBVIOUS
<1>8. /\ n.kind = o.kind /\ n.todo = o.todo /\ n.known = o.known \cup {t} /\ n.saw = v
      /\ n.moved = o.moved /\ n.missed = o.missed
  BY <1>1, <1>7 DEF MemoryWork
<1>9. n \in MemoryWork(w + 1)
  BY <1>1, <1>2, <1>6, <1>7 DEF MemoryWork
<1>10. TextsOf(s) \cup {t} \subseteq TextsOf(u)
  <2>1. Len(s) + 1 \in DOMAIN u
    BY <1>4
  <2>2. t \in TextsOf(u)
    BY <1>4, <2>1 DEF TextsOf
  <2>3. TextsOf(s) \subseteq TextsOf(u)
    BY <1>4 DEF TextsOf
  <2>4. QED
    BY <2>2, <2>3
<1>11. ASSUME o.kind = "import", ~ o.moved, NEW i \in DOMAIN u, u[i].id \in v PROVE u[i].text \in n.known
  <2>1. \A j \in DOMAIN s : s[j].id \in o.saw => s[j].text \in o.known
    BY <1>11 DEF Good, Knows
  <2>2. CASE i \in DOMAIN s
    <3>1. s[i] \in Memo(w)
      BY <2>2 DEF Table
    <3>2. s[i].id # w + 1
      BY <3>1, <1>1 DEF Memo
    <3>3. QED
      BY <1>4, <1>6, <1>8, <1>11, <2>1, <2>2, <3>2
  <2>3. CASE i = Len(s) + 1
    BY <1>4, <1>8, <2>3
  <2>4. QED
    BY <1>4, <2>2, <2>3
<1>12. GoesOn(n, u, w + 1)
  BY <1>1, <1>8, <1>9, <1>10, <1>11 DEF GoesOn, Good, Shaped, Knows
<1>13. Good(Onward(n), u, w + 1)
  <2>1. w + 1 \in Nat
    BY <1>1
  <2>2. QED
    BY <1>12, <2>1, OnwardGood
<1>14. QED
  BY <1>1, <1>2, <1>3, <1>5, <1>7, <1>13

\* What a page may hold is read as a page, whatever the offset.
LEMMA PageTyped ==
  ASSUME NEW s, NEW w, Table(s, w), NEW n \in Nat
  PROVE  PageAt(s, n) \in Seq([id : Nat, text : Texts])
<1>1. w \in Nat /\ s \in Seq(Memo(w))
  BY DEF Table
<1>2. PageAt(s, n) \in Seq(Memo(w))
  BY <1>1, PageHolds
<1>3. Memo(w) \subseteq [id : Nat, text : Texts]
  BY <1>1 DEF Memo
<1>4. QED
  BY <1>2, <1>3, Wider

\* A request begins well.
LEMMA StartGood ==
  ASSUME NEW s, NEW w, Table(s, w), NEW todo \in Lists, NEW kind, NEW at,
         \/ kind \in {"remember", "save", "seed", "awaken"} /\ at \in {"check", "store"} /\ todo # <<>>
         \/ kind = "facts" /\ at = "pool"
         \/ kind = "import" /\ at = "scan" /\ todo # <<>>
         \/ kind = "export" /\ at = "page",
         NEW saw, saw = IF kind \in {"import", "export"} THEN IdsOf(s) ELSE {}
  PROVE  Good([Idle EXCEPT !.kind = kind, !.at = at, !.todo = todo, !.saw = saw], s, w)
<1>1. w \in Nat /\ s \in Seq(Memo(w))
  BY DEF Table
<1>2. saw \subseteq 1..w
  BY IdsBounded
<1>3. PICK d \in MemoryWork(w) : d = Idle
  BY <1>1, IdleGood
<1>4. d.page = <<>> /\ d.known = {} /\ d.missed = {} /\ d.moved = FALSE
  BY <1>3 DEF Idle
<1>5. PICK n : n = [d EXCEPT !.kind = kind, !.at = at, !.todo = todo, !.saw = saw]
  OBVIOUS
<1>6. kind \in Kinds /\ at \in Places
  BY DEF Kinds, Places
<1>7. n \in MemoryWork(w)
  BY <1>2, <1>5, <1>6 DEF MemoryWork
<1>8. /\ n.kind = kind /\ n.at = at /\ n.todo = todo /\ n.saw = saw
      /\ n.page = <<>> /\ n.known = {} /\ n.missed = {} /\ n.moved = FALSE
  BY <1>4, <1>5 DEF MemoryWork
<1>9. Shaped(n)
  BY <1>8 DEF Shaped
<1>10. Unseen(n, s)
  BY <1>8 DEF Unseen
<1>11. Knows(n, s)
  BY <1>8 DEF Knows
<1>12. Exports(n, s)
  <2>1. IdsOf(n.page) = {}
    BY <1>8 DEF IdsOf
  <2>2. QED
    BY <1>8, <2>1 DEF Exports
<1>13. Len(n.page) = 0 /\ Len(s) \in Nat /\ DOMAIN s = 1..Len(s)
  BY <1>1, <1>8
<1>14. Paged(n, s)
  BY <1>13 DEF Paged
<1>15. QED
  BY <1>3, <1>5, <1>7, <1>9, <1>10, <1>11, <1>12, <1>14 DEF Good

\* What the model has found is looked for.
LEMMA ListGood ==
  ASSUME NEW s, NEW w, NEW o, Good(o, s, w), o.at = "model", NEW ts \in Lists, ts # <<>>
  PROVE  Good([o EXCEPT !.at = "check", !.todo = ts], s, w)
<1>1. o \in MemoryWork(w) /\ o.kind \notin {"import", "export"} /\ ~ o.moved /\ o.missed = {}
  BY DEF Good, Shaped
<1>2. PICK n : n = [o EXCEPT !.at = "check", !.todo = ts]
  OBVIOUS
<1>3. n \in MemoryWork(w)
  BY <1>1, <1>2 DEF MemoryWork, Places
<1>4. /\ n.kind = o.kind /\ n.at = "check" /\ n.todo = ts /\ n.moved = o.moved /\ n.missed = o.missed
  BY <1>1, <1>2 DEF MemoryWork
<1>5. QED
  BY <1>1, <1>2, <1>3, <1>4 DEF Good, Shaped, Unseen, Knows, Paged, Exports

\* So does who has got a connection go on to the model,
LEMMA PooledGood ==
  ASSUME NEW s, NEW w, NEW o, Good(o, s, w), o.at = "pool"
  PROVE  Good([o EXCEPT !.at = "model"], s, w)
<1>1. o \in MemoryWork(w) /\ o.kind \notin {"import", "export"} /\ ~ o.moved /\ o.missed = {}
  BY DEF Good, Shaped
<1>2. PICK n : n = [o EXCEPT !.at = "model"]
  OBVIOUS
<1>3. n \in MemoryWork(w)
  BY <1>1, <1>2 DEF MemoryWork, Places
<1>4. n.kind = o.kind /\ n.at = "model" /\ n.moved = o.moved /\ n.missed = o.missed
  BY <1>1, <1>2 DEF MemoryWork
<1>5. QED
  BY <1>1, <1>2, <1>3, <1>4 DEF Good, Shaped, Unseen, Knows, Paged, Exports

\* who has not found a text goes on to write it,
LEMMA NewGood ==
  ASSUME NEW s, NEW w, Table(s, w), NEW o, Good(o, s, w), o.at = "check", Head(o.todo) \notin TextsOf(s)
  PROVE  Good([o EXCEPT !.at = "store", !.saw = IdsOf(s)], s, w)
<1>1. o \in MemoryWork(w) /\ o.kind \notin {"import", "export"} /\ ~ o.moved /\ o.missed = {} /\ o.todo # <<>>
  BY DEF Good, Shaped
<1>2. PICK n : n = [o EXCEPT !.at = "store", !.saw = IdsOf(s)]
  OBVIOUS
<1>3. n \in MemoryWork(w)
  BY <1>1, <1>2, IdsBounded DEF MemoryWork, Places
<1>4. n.kind = o.kind /\ n.at = "store" /\ n.todo = o.todo /\ n.moved = o.moved /\ n.missed = o.missed
  BY <1>1, <1>2 DEF MemoryWork
<1>5. Unseen(n, s)
  BY <1>4 DEF Unseen, TextsOf
<1>6. QED
  BY <1>1, <1>2, <1>3, <1>4, <1>5 DEF Good, Shaped, Knows, Paged, Exports

\* and an import whose scan has failed merges what it has.
LEMMA CutGood ==
  ASSUME NEW s, NEW w, NEW o, Good(o, s, w), o.at = "scan"
  PROVE  Good([o EXCEPT !.at = "merge", !.moved = TRUE], s, w)
<1>1. o \in MemoryWork(w) /\ o.kind = "import" /\ o.todo # <<>>
  BY DEF Good, Shaped
<1>2. PICK n : n = [o EXCEPT !.at = "merge", !.moved = TRUE]
  OBVIOUS
<1>3. n \in MemoryWork(w)
  BY <1>1, <1>2 DEF MemoryWork, Places
<1>4. n.kind = "import" /\ n.at = "merge" /\ n.todo = o.todo /\ n.moved = TRUE
  BY <1>1, <1>2 DEF MemoryWork
<1>5. QED
  BY <1>1, <1>2, <1>3, <1>4 DEF Good, Shaped, Unseen, Knows, Paged, Exports

\* Who looked for a text, or failed to write it, may go on to the next.
LEMMA MayGoOn ==
  ASSUME NEW s, NEW w, NEW o, Good(o, s, w), o.at \in {"check", "store"}
  PROVE  GoesOn(o, s, w)
<1>1. o \in MemoryWork(w) /\ o.kind # "export" /\ o.todo # <<>>
  BY DEF Good, Shaped
<1>2. o.kind # "import" => ~ o.moved /\ o.missed = {}
  BY <1>1 DEF Good, Shaped
<1>3. QED
  BY <1>1, <1>2 DEF Good, Knows, GoesOn

\* A step of one caller that leaves the table alone.
LEMMA DoesKeeps ==
  ASSUME TableInv, NEW c \in Callers, NEW o, Good(o, memories, written), Does(c, o),
         memories' = memories, written' = written, starts' \in 0..MaxStarts, forgets' = forgets
  PROVE  TableInv'
<1>1. op' = [x \in Callers |-> IF x = c THEN o ELSE op[x]]
  BY DEF Does, TableInv
<1>2. op' = [x \in Callers |-> op'[x]]
  BY <1>1
<1>3. \A x \in Callers : Good(op'[x], memories, written)
  BY <1>1 DEF TableInv
<1>4. backend' \in {"postgres", "sqlite"} /\ forgets' \in 0..MaxForgets
  BY DEF Does, TableInv
<1>5. Table(memories', written')
  BY DEF TableInv
<1>6. \A x \in Callers : Good(op'[x], memories', written')
  BY <1>3
<1>7. QED
  BY <1>2, <1>4, <1>5, <1>6 DEF TableInv

\* One that writes.
LEMMA StoreKeeps ==
  ASSUME TableInv, NEW c \in Callers, Store(c)
  PROVE  TableInv'
<1>1. Table(memories, written) /\ Good(op[c], memories, written) /\ op[c].at = "store" /\ written \in Nat
  BY DEF TableInv, Store, Table
<1>2. PICK t : t = Head(op[c].todo)
  OBVIOUS
<1>3. PICK u : u = Append(memories, [id |-> written + 1, text |-> t])
  OBVIOUS
<1>4. PICK o : o = Onward([op[c] EXCEPT !.known = @ \cup {t},
                                        !.saw = IF op[c].kind = "import" THEN @ \cup {written + 1} ELSE {}])
  OBVIOUS
<1>5. t \in Texts /\ Good(o, u, written + 1)
  BY <1>1, <1>2, <1>3, <1>4, StoreGood
<1>6. memories' = u /\ written' = written + 1 /\ Does(c, o)
  BY <1>2, <1>3, <1>4 DEF Store, Inserted
<1>7. op' = [x \in Callers |-> IF x = c THEN o ELSE op[x]]
  BY <1>6 DEF Does, TableInv
<1>8. Table(u, written + 1)
  BY <1>1, <1>3, <1>5, TableGrows
<1>9. ASSUME NEW x \in Callers PROVE Good(op'[x], u, written + 1)
  <2>1. CASE x = c
    BY <1>5, <1>7, <2>1
  <2>2. CASE x # c
    <3>1. Good(op[x], memories, written)
      BY DEF TableInv
    <3>2. Good(op[x], u, written + 1)
      BY <1>1, <1>3, <1>5, <3>1, GoodGrows
    <3>3. op'[x] = op[x]
      BY <1>7, <2>2
    <3>4. QED
      BY <3>2, <3>3
  <2>3. QED
    BY <2>1, <2>2
<1>10. op' = [x \in Callers |-> op'[x]]
  BY <1>7
<1>11. /\ backend' \in {"postgres", "sqlite"}
       /\ starts' \in 0..MaxStarts /\ forgets' \in 0..MaxForgets
  BY <1>6 DEF Does, Store, TableInv
<1>12. Table(memories', written') /\ \A x \in Callers : Good(op'[x], memories', written')
  BY <1>6, <1>8, <1>9
<1>13. QED
  BY <1>10, <1>11, <1>12 DEF TableInv

\* A deletion.
LEMMA ForgetKeeps ==
  ASSUME TableInv, Forget
  PROVE  TableInv'
<1>1. PICK i \in DOMAIN memories :
        /\ forgets < MaxForgets /\ forgets' = forgets + 1
        /\ memories' = RemoveAt(memories, i)
        /\ op' = [c \in Callers |->
                    IF op[c].kind \in {"import", "export"} THEN [op[c] EXCEPT !.moved = TRUE]
                                                           ELSE op[c]]
        /\ UNCHANGED <<backend, written, starts>>
  BY DEF Forget, Deleted
<1>2. Table(memories, written)
  BY DEF TableInv
<1>3. Table(memories', written')
  BY <1>1, <1>2, TableShrinks
<1>4. ASSUME NEW x \in Callers PROVE Good(op'[x], memories', written')
  <2>1. Good(op[x], memories, written)
    BY DEF TableInv
  <2>2. op'[x] = IF op[x].kind \in {"import", "export"} THEN [op[x] EXCEPT !.moved = TRUE] ELSE op[x]
    BY <1>1
  <2>3. Good(op'[x], RemoveAt(memories, i), written)
    BY <1>2, <2>1, <2>2, GoodShrinks
  <2>4. QED
    BY <1>1, <2>3
<1>5. op' = [x \in Callers |-> op'[x]]
  BY <1>1
<1>6. /\ backend' \in {"postgres", "sqlite"}
      /\ starts' \in 0..MaxStarts /\ forgets' \in 0..MaxForgets
  BY <1>1 DEF TableInv
<1>7. QED
  BY <1>3, <1>4, <1>5, <1>6 DEF TableInv

\* Every request keeps the invariant.
LEMMA RequestKeeps ==
  ASSUME TableInv, NEW c \in Callers, Request(c)
  PROVE  TableInv'
<1>1. ASSUME NEW kind, NEW at, NEW todo \in Lists, Start(c, kind, at, todo),
             \/ kind \in {"remember", "save", "seed", "awaken"} /\ at \in {"check", "store"} /\ todo # <<>>
             \/ kind = "facts" /\ at = "pool"
             \/ kind = "import" /\ at = "scan" /\ todo # <<>>
             \/ kind = "export" /\ at = "page"
      PROVE  TableInv'
  <2>1. Table(memories, written)
    BY DEF TableInv
  <2>2. PICK saw : saw = IF kind \in {"import", "export"} THEN IdsOf(memories) ELSE {}
    OBVIOUS
  <2>3. PICK o : o = [Idle EXCEPT !.kind = kind, !.at = at, !.todo = todo, !.saw = saw]
    OBVIOUS
  <2>4. Good(o, memories, written)
    BY <1>1, <2>1, <2>2, <2>3, StartGood
  <2>5. Does(c, o) /\ memories' = memories /\ written' = written /\ forgets' = forgets
    BY <1>1, <2>2, <2>3 DEF Start, Ids, IdsOf
  <2>6. starts' \in 0..MaxStarts
    BY <1>1 DEF Start, TableInv
  <2>7. QED
    BY <2>4, <2>5, <2>6, DoesKeeps
<1>2. \A t \in Texts : <<t>> \in Lists /\ <<t>> # <<>>
  <2>1. SUFFICES ASSUME NEW t \in Texts PROVE <<t>> \in Lists /\ <<t>> # <<>>
    OBVIOUS
  <2>2. <<t>> \in Seq(Texts) /\ Len(<<t>>) <= 2
    OBVIOUS
  <2>3. <<t>> # <<>>
    OBVIOUS
  <2>4. <<t>> \in Lists
    BY <2>2, ListsAre, Zenon
  <2>5. QED
    BY <2>3, <2>4
<1>3. <<>> \in Lists
  <2>1. <<>> \in Seq(Texts) /\ Len(<<>>) <= 2
    OBVIOUS
  <2>2. QED
    BY <2>1, ListsAre
<1>4. CASE Remember(c)
  <2>1. PICK t \in Texts : Start(c, "remember", "check", <<t>>)
    BY <1>4 DEF Remember
  <2>2. QED
    BY <1>1, <1>2, <2>1
<1>5. CASE Save(c) \/ AddMemory(c) \/ RememberBuild(c)
  <2>1. PICK t \in Texts : Start(c, "save", "store", <<t>>)
    BY <1>5 DEF Save, AddMemory, RememberBuild
  <2>2. QED
    BY <1>1, <1>2, <2>1
<1>6. CASE Seed(c)
  <2>1. PICK ts \in Lists : ts # <<>> /\ Start(c, "seed", "check", ts)
    BY <1>6 DEF Seed
  <2>2. QED
    BY <1>1, <2>1
<1>7. CASE Awaken(c)
  <2>1. PICK ts \in Lists : ts # <<>> /\ Start(c, "awaken", "check", ts)
    BY <1>7 DEF Awaken
  <2>2. QED
    BY <1>1, <2>1
<1>8. CASE Consolidate(c)
  <2>1. Start(c, "facts", "pool", <<>>)
    BY <1>8 DEF Consolidate
  <2>2. QED
    BY <1>1, <1>3, <2>1
<1>9. CASE Import(c)
  <2>1. PICK ts \in Lists : ts # <<>> /\ Start(c, "import", "scan", ts)
    BY <1>9 DEF Import
  <2>2. QED
    BY <1>1, <2>1
<1>10. CASE Export(c)
  <2>1. Start(c, "export", "page", <<>>)
    BY <1>10 DEF Export
  <2>2. QED
    BY <1>1, <1>3, <2>1
<1>11. QED
  BY <1>4, <1>5, <1>6, <1>7, <1>8, <1>9, <1>10 DEF Request

\* Every step of a caller keeps it.
LEMMA StepKeeps ==
  ASSUME TableInv, NEW c \in Callers, Step(c)
  PROVE  TableInv'
<1>1. Table(memories, written) /\ Good(op[c], memories, written) /\ written \in Nat /\ starts \in 0..MaxStarts
  BY DEF TableInv, Table
<1>2. ASSUME NEW o, Does(c, o), Good(o, memories, written), UNCHANGED <<memories, written, starts, forgets>>
      PROVE  TableInv'
  BY <1>1, <1>2, DoesKeeps
<1>3. Good(Idle, memories, written) /\ Good(Mining, memories, written)
  BY <1>1, IdleGood, MiningGood
<1>4. CASE NoPool(c) \/ Raises(c) \/ Answer(c)
  BY <1>2, <1>3, <1>4 DEF NoPool, Raises, Answer, Ends
<1>5. CASE Pooled(c)
  <2>1. op[c].at = "pool" /\ Does(c, [op[c] EXCEPT !.at = "model"])
        /\ UNCHANGED <<memories, written, starts, forgets>>
    BY <1>5 DEF Pooled
  <2>2. Good([op[c] EXCEPT !.at = "model"], memories, written)
    BY <1>1, <2>1, PooledGood
  <2>3. QED
    BY <1>2, <2>1, <2>2
<1>6. CASE ExtractsFacts(c) \/ ExtractsPlaybooks(c)
  <2>1. PICK ts \in Lists, n \in {Mining, Idle} :
          /\ Does(c, IF ts = <<>> THEN n ELSE [op[c] EXCEPT !.at = "check", !.todo = ts])
          /\ op[c].at = "model" /\ UNCHANGED <<memories, written, starts, forgets>>
    BY <1>6 DEF ExtractsFacts, ExtractsPlaybooks
  <2>2. CASE ts = <<>>
    BY <1>2, <1>3, <2>1, <2>2
  <2>3. CASE ts # <<>>
    <3>1. Good([op[c] EXCEPT !.at = "check", !.todo = ts], memories, written)
      BY <1>1, <2>1, <2>3, ListGood
    <3>2. QED
      BY <1>2, <2>1, <2>3, <3>1
  <2>4. QED
    BY <2>2, <2>3
<1>7. CASE Check(c)
  <2>1. op[c].at = "check" /\ UNCHANGED <<memories, written, starts, forgets>>
    BY <1>7 DEF Check
  <2>2. CASE ~ ContentExists(Head(op[c].todo))
    <3>1. Does(c, [op[c] EXCEPT !.at = "store", !.saw = IdsOf(memories)])
      <4>1. Does(c, [op[c] EXCEPT !.at = "store", !.saw = Ids])
        BY <1>7, <2>2 DEF Check
      <4>2. Ids = IdsOf(memories)
        BY DEF Ids, IdsOf
      <4>3. QED
        BY <4>1, <4>2
    <3>2. Head(op[c].todo) \notin TextsOf(memories)
      BY <2>2 DEF ContentExists, Stored, TextsOf
    <3>3. Good([op[c] EXCEPT !.at = "store", !.saw = IdsOf(memories)], memories, written)
      BY <1>1, <2>1, <3>2, NewGood
    <3>4. QED
      BY <1>2, <2>1, <3>1, <3>3
  <2>3. CASE ContentExists(Head(op[c].todo)) /\ op[c].kind = "awaken"
    <3>1. Does(c, Idle)
      BY <1>7, <2>3 DEF Check
    <3>2. QED
      BY <1>2, <1>3, <2>1, <3>1
  <2>4. CASE ContentExists(Head(op[c].todo)) /\ op[c].kind # "awaken"
    <3>1. Does(c, Onward(op[c]))
      BY <1>7, <2>4 DEF Check
    <3>2. Good(Onward(op[c]), memories, written)
      BY <1>1, <2>1, MayGoOn, OnwardGood
    <3>3. QED
      BY <1>2, <2>1, <3>1, <3>2
  <2>5. QED
    BY <2>2, <2>3, <2>4
<1>8. CASE Store(c)
  BY <1>8, StoreKeeps
<1>9. CASE StoreFails(c)
  <2>1. op[c].at = "store" /\ UNCHANGED <<memories, written, starts, forgets>>
    BY <1>9 DEF StoreFails
  <2>2. Good(Onward(op[c]), memories, written)
    BY <1>1, <2>1, MayGoOn, OnwardGood
  <2>3. Does(c, Onward(op[c])) \/ Does(c, Idle)
    BY <1>9 DEF StoreFails, Ends
  <2>4. QED
    BY <1>2, <1>3, <2>1, <2>2, <2>3
<1>10. ASSUME NEW p, p = Page(op[c])
       PROVE  p = PageAt(memories, Len(op[c].page)) /\ p \in Seq([id : Nat, text : Texts])
  <2>1. Len(op[c].page) \in Nat
    BY <1>1 DEF Good, MemoryWork
  <2>2. p = PageAt(memories, Len(op[c].page))
    BY <1>10 DEF Page, PageAt
  <2>3. QED
    BY <1>1, <2>1, <2>2, PageTyped
<1>11. CASE Scan(c)
  <2>1. PICK p : p = Page(op[c])
    OBVIOUS
  <2>2. PICK o : o = [Reads(op[c], p, LastPage(p), "merge") EXCEPT !.known = @ \cup TextsOf(p)]
    OBVIOUS
  <2>3. op[c].at = "scan" /\ Does(c, o) /\ UNCHANGED <<memories, written, starts, forgets>>
    BY <1>11, <2>1, <2>2 DEF Scan
  <2>6. p = PageAt(memories, Len(op[c].page)) /\ p \in Seq([id : Nat, text : Texts])
    BY <1>10, <2>1
  <2>4. Good(o, memories, written)
    BY <1>1, <2>2, <2>3, <2>6, ScanGood
  <2>5. QED
    BY <1>2, <2>3, <2>4
<1>12. CASE ScanFails(c)
  <2>1. /\ op[c].at = "scan" /\ Does(c, [op[c] EXCEPT !.at = "merge", !.moved = TRUE])
        /\ UNCHANGED <<memories, written, starts, forgets>>
    BY <1>12 DEF ScanFails
  <2>2. Good([op[c] EXCEPT !.at = "merge", !.moved = TRUE], memories, written)
    BY <1>1, <2>1, CutGood
  <2>3. QED
    BY <1>2, <2>1, <2>2
<1>13. CASE Merge(c)
  <2>1. PICK t : t = Head(op[c].todo)
    OBVIOUS
  <2>2. op[c].at = "merge" /\ UNCHANGED <<memories, written, starts, forgets>>
    BY <1>13 DEF Merge
  <2>3. CASE t \in op[c].known
    <3>1. Does(c, Onward([op[c] EXCEPT !.missed = @ \cup ({t} \ TextsOf(memories))]))
      BY <1>13, <2>1, <2>3 DEF Merge, Stored, TextsOf
    <3>2. Good(Onward([op[c] EXCEPT !.missed = @ \cup ({t} \ TextsOf(memories))]), memories, written)
      BY <1>1, <2>1, <2>2, <2>3, MergeGood
    <3>3. QED
      BY <1>2, <2>2, <3>1, <3>2
  <2>4. CASE t \notin op[c].known
    <3>1. Does(c, [op[c] EXCEPT !.at = "store"])
      BY <1>13, <2>1, <2>4 DEF Merge
    <3>2. Good([op[c] EXCEPT !.at = "store"], memories, written)
      BY <1>1, <2>1, <2>2, <2>4, MergeGood
    <3>3. QED
      BY <1>2, <2>2, <3>1, <3>2
  <2>5. QED
    BY <2>3, <2>4
<1>14. CASE ReadPage(c)
  <2>1. PICK p : p = Page(op[c])
    OBVIOUS
  <2>2. op[c].at = "page" /\ UNCHANGED <<memories, written, starts, forgets>>
    BY <1>14 DEF ReadPage
  <2>6. p = PageAt(memories, Len(op[c].page)) /\ p \in Seq([id : Nat, text : Texts])
    BY <1>10, <2>1
  <2>7. PICK o : o = Reads(op[c], p, LastPage(p) \/ Capped(op[c].page \o p), "over")
    OBVIOUS
  <2>3. Good(o, memories, written)
    BY <1>1, <2>2, <2>6, <2>7, ReadGood
  <2>4. Does(c, o) \/ Does(c, Idle)
    BY <1>14, <2>1, <2>7 DEF ReadPage
  <2>5. QED
    BY <1>2, <1>3, <2>2, <2>3, <2>4
<1>15. QED
  BY <1>4, <1>5, <1>6, <1>7, <1>8, <1>9, <1>11, <1>12, <1>13, <1>14 DEF Step

\* The first state has the invariant, whatever earlier processes have stored.
LEMMA TableInvInit == MemoryInit => TableInv
<1>1. SUFFICES ASSUME MemoryInit PROVE TableInv
  OBVIOUS
<1>2. PICK ts \in Lists : /\ memories = [i \in DOMAIN ts |-> [id |-> i, text |-> ts[i]]]
                          /\ written = Len(ts)
  BY <1>1 DEF MemoryInit
<1>3. PICK l \in Nat : l = Len(ts) /\ DOMAIN ts = 1..l /\ \A i \in 1..l : ts[i] \in Texts
  BY ListsAre
<1>4. memories = [i \in 1..l |-> [id |-> i, text |-> ts[i]]] /\ written = l
  BY <1>2, <1>3
<1>5. memories \in [1..l -> Memo(l)]
  BY <1>3, <1>4 DEF Memo
<1>6. memories \in Seq(Memo(l))
  BY <1>5
<1>7. Aged(memories)
  BY <1>4 DEF Aged
<1>8. Table(memories, written)
  BY <1>4, <1>6, <1>7 DEF Table
<1>9. op = [c \in Callers |-> Idle]
  BY <1>1 DEF MemoryInit
<1>10. \A c \in Callers : Good(op[c], memories, written)
  <2>1. Good(Idle, memories, written)
    BY <1>4, IdleGood
  <2>2. QED
    BY <1>9, <2>1
<1>11. op = [c \in Callers |-> op[c]]
  BY <1>9
<1>12. /\ backend \in {"postgres", "sqlite"}
       /\ starts \in 0..MaxStarts /\ forgets \in 0..MaxForgets
  BY <1>1 DEF MemoryInit
<1>13. QED
  BY <1>8, <1>10, <1>11, <1>12 DEF TableInv

\* Every step keeps it.
LEMMA TableInvStep == TableInv /\ [MemoryNext]_memoryVars => TableInv'
<1>1. SUFFICES ASSUME TableInv, [MemoryNext]_memoryVars PROVE TableInv'
  OBVIOUS
<1>2. ASSUME NEW c \in Callers, Request(c) PROVE TableInv'
  BY <1>1, <1>2, RequestKeeps
<1>3. ASSUME NEW c \in Callers, Step(c) PROVE TableInv'
  BY <1>1, <1>3, StepKeeps
<1>4. CASE Forget
  BY <1>1, <1>4, ForgetKeeps
<1>5. CASE Crash
  <2>1. op' = [c \in Callers |-> Idle] /\ UNCHANGED <<backend, memories, written, starts, forgets>>
    BY <1>5 DEF Crash
  <2>2. Good(Idle, memories, written)
    BY <1>1, IdleGood DEF TableInv, Table
  <2>3. \A c \in Callers : Good(op'[c], memories', written')
    BY <2>1, <2>2
  <2>4. op' = [c \in Callers |-> op'[c]]
    BY <2>1
  <2>5. Table(memories', written')
    BY <1>1, <2>1 DEF TableInv
  <2>6. QED
    BY <1>1, <2>1, <2>3, <2>4, <2>5 DEF TableInv
<1>6. CASE Search
  BY <1>1, <1>6 DEF Search, TableInv
<1>7. CASE UNCHANGED memoryVars
  BY <1>1, <1>7 DEF memoryVars, TableInv
<1>8. QED
  BY <1>1, <1>2, <1>3, <1>4, <1>5, <1>6, <1>7 DEF MemoryNext

\* The invariant is stronger than what the run checks,
LEMMA TableInvHolds == TableInv => MemoryInv
<1>1. SUFFICES ASSUME TableInv PROVE MemoryInv
  OBVIOUS
<1>2. Table(memories, written) /\ written \in Nat /\ memories \in Seq([id : 1..written, text : Texts])
  BY <1>1 DEF TableInv, Table, Memo
<1>3. \A c \in Callers : Good(op[c], memories, written) /\ op[c] \in MemoryWork(written)
  BY <1>1 DEF TableInv, Good
<1>4. \A c \in Callers :
        /\ op[c].kind \in {"none", "remember", "save", "seed", "awaken", "facts",
                           "mine", "import", "export"}
        /\ op[c].at \in {"idle", "pool", "model", "check", "store", "scan", "merge",
                         "page", "over"}
        /\ op[c].todo \in Lists /\ op[c].known \subseteq Texts
        /\ op[c].saw \subseteq 1..written /\ op[c].missed \subseteq Texts
        /\ op[c].moved \in BOOLEAN
  BY <1>3 DEF MemoryWork, Kinds, Places
<1>5. IsInjective([i \in DOMAIN memories |-> memories[i].id])
  <2>1. PICK l \in Nat : l = Len(memories) /\ DOMAIN memories = 1..l
    BY <1>2
  <2>2. \A i, j \in 1..l : i # j => memories[i].id # memories[j].id
    <3>1. \A i \in 1..l : memories[i].id \in Nat
      <4>1. PICK T : T = [id : 1..written, text : Texts]
        OBVIOUS
      <4>2. memories \in Seq(T)
        BY <1>2, <4>1
      <4>3. \A i \in 1..l : memories[i] \in T
        BY <2>1, <4>2
      <4>4. QED
        BY <1>2, <4>1, <4>3
    <3>2. \A i, j \in 1..l : i # j => i < j \/ j < i
      OBVIOUS
    <3>3. QED
      <4>1. \A i, j \in 1..l : i < j => memories[i].id < memories[j].id
        BY <1>2, <2>1 DEF Table, Aged
      <4>2. QED
        BY <3>1, <3>2, <4>1
  <2>3. QED
    BY <2>1, <2>2 DEF IsInjective
<1>6. MemoryTypeOK
  BY <1>1, <1>2, <1>4, <1>5 DEF MemoryTypeOK, TableInv
<1>7. NoSecondCopy
  BY <1>3 DEF NoSecondCopy, Good, Unseen
<1>8. KnownIsThere
  BY <1>3 DEF KnownIsThere, Good, Knows, Shaped
<1>9. QED
  BY <1>6, <1>7, <1>8 DEF MemoryInv

\* also of exports.
LEMMA TableInvExports == TableInv => ExportComplete
BY DEF TableInv, Good, Exports, ExportComplete, IdsOf

\* However callers overlap, for any number of them, of texts and of rows to a page:
\* nobody writes a text beside a row it had reason to know, and an import calls
\* nothing known that is not there, unless a deletion or an error cut its scan short.
THEOREM TableIsKept == MemorySpec => []MemoryInv
<1>1. QED
  BY TableInvInit, TableInvStep, TableInvHolds, PTL DEF MemorySpec

\* For any page size and any cap, an export that nothing was deleted under holds
\* every memory there was when it began, or as many rows as the cap, and then what
\* it leaves out of them is older than all it holds.
THEOREM ExportsAreComplete == MemorySpec => []ExportComplete
<1>1. QED
  BY TableInvInit, TableInvStep, TableInvExports, PTL DEF MemorySpec

-----------------------------------------------------------------------------
(* The order of an answer                                                   *)

\* A set of numbers has a least one: what induction over numbers comes down to.
LEMMA LeastNumber ==
  ASSUME NEW T, T \subseteq Nat, T # {}
  PROVE  \E n \in T : \A m \in T : n <= m
<1> DEFINE R == OpToRel(<, Nat)
<1>1. IsWellFoundedOn(R, Nat)
  BY NatLessThanWellFounded
<1>2. \A x, y \in Nat : y < x => <<y, x>> \in R
  BY DEF OpToRel
<1> HIDE DEF R
<1>3. PICK x \in T : \A y \in T : ~ (<<y, x>> \in R)
  BY <1>1, WFMin
<1>4. ASSUME NEW m \in T PROVE x <= m
  <2>1. m \in Nat /\ x \in Nat
    OBVIOUS
  <2>2. ~ (m < x)
    BY <1>2, <1>3, <2>1
  <2>3. QED
    BY <2>1, <2>2
<1>5. QED
  BY <1>4

\* Rows that no two of have the same id, and what scores texts.
Apart(S) ==
  /\ IsFiniteSet(S) /\ S \subseteq [id : Nat, text : Texts]
  /\ \A q, r \in S : q.id = r.id => q = r

Scores == [Texts -> Int]

\* Part of a table is one.
LEMMA TableParts ==
  ASSUME NEW S, Apart(S), NEW T \in SUBSET S
  PROVE  Apart(T)
<1>1. IsFiniteSet(T)
  BY FS_Subset DEF Apart
<1>2. QED
  BY <1>1 DEF Apart

\* Of two rows one comes before the other, and what is before that one is before both.
LEMMA AheadOrder ==
  ASSUME NEW S, Apart(S), NEW score \in Scores, NEW q \in S, NEW r \in S
  PROVE  /\ q = r \/ q \in Ahead(S, r, score) \/ r \in Ahead(S, q, score)
         /\ r \notin Ahead(S, r, score)
         /\ q \in Ahead(S, r, score) => Ahead(S, q, score) \subseteq Ahead(S, r, score)
<1>1. \A x \in S : x.id \in Nat /\ score[x.text] \in Int
  BY DEF Apart, Scores
<1>2. q.id = r.id => q = r
  BY DEF Apart
<1>3. q = r \/ q \in Ahead(S, r, score) \/ r \in Ahead(S, q, score)
  BY <1>1, <1>2 DEF Ahead
<1>4. r \notin Ahead(S, r, score)
  BY <1>1 DEF Ahead
<1>5. ASSUME q \in Ahead(S, r, score), NEW x \in Ahead(S, q, score) PROVE x \in Ahead(S, r, score)
  <2>1. x \in S /\ (score[x.text] > score[q.text] \/ (score[x.text] = score[q.text] /\ x.id < q.id))
    BY <1>5 DEF Ahead
  <2>2. score[q.text] > score[r.text] \/ (score[q.text] = score[r.text] /\ q.id < r.id)
    BY <1>5 DEF Ahead
  <2>3. score[x.text] > score[r.text] \/ (score[x.text] = score[r.text] /\ x.id < r.id)
    BY <1>1, <2>1, <2>2
  <2>4. QED
    BY <2>1, <2>3 DEF Ahead
<1>6. QED
  BY <1>3, <1>4, <1>5

\* How many rows come before one tells where it stands.
LEMMA PlaceOf ==
  ASSUME NEW S, Apart(S), NEW score \in Scores, NEW r \in S
  PROVE  /\ IsFiniteSet(Ahead(S, r, score)) /\ Cardinality(Ahead(S, r, score)) \in Nat
         /\ Cardinality(S) \in Nat /\ Cardinality(Ahead(S, r, score)) < Cardinality(S)
         /\ \A q \in S : q \in Ahead(S, r, score) =>
              Cardinality(Ahead(S, q, score)) < Cardinality(Ahead(S, r, score))
         /\ \A q \in S : Cardinality(Ahead(S, q, score)) = Cardinality(Ahead(S, r, score)) => q = r
<1>1. IsFiniteSet(S)
  BY DEF Apart
<1>2. \A q \in S : Ahead(S, q, score) \in SUBSET S
  BY DEF Ahead
<1>3. \A q \in S : IsFiniteSet(Ahead(S, q, score))
  BY <1>1, <1>2, FS_Subset
<1>4. \A q \in S : Cardinality(Ahead(S, q, score)) \in Nat
  BY <1>3, FS_CardinalityType
<1>5. Cardinality(S) \in Nat
  BY <1>1, FS_CardinalityType
<1>6. ASSUME NEW A, NEW B, IsFiniteSet(B), A \subseteq B, NEW b \in B, b \notin A
      PROVE  Cardinality(A) < Cardinality(B)
  <2>1. Cardinality(A) <= Cardinality(B) /\ Cardinality(A) # Cardinality(B) /\ IsFiniteSet(A)
    BY <1>6, FS_Subset
  <2>2. Cardinality(A) \in Nat /\ Cardinality(B) \in Nat
    BY <1>6, <2>1, FS_CardinalityType
  <2>3. QED
    BY <2>1, <2>2
<1>7. Cardinality(Ahead(S, r, score)) < Cardinality(S)
  <2>1. r \notin Ahead(S, r, score)
    BY AheadOrder
  <2>2. QED
    BY <1>1, <1>2, <1>6, <2>1
<1>8. ASSUME NEW x \in S, NEW q \in S, q \in Ahead(S, x, score)
      PROVE  Cardinality(Ahead(S, q, score)) < Cardinality(Ahead(S, x, score))
  <2>1. Ahead(S, q, score) \subseteq Ahead(S, x, score) /\ q \notin Ahead(S, q, score)
    BY <1>8, AheadOrder
  <2>2. QED
    BY <1>3, <1>6, <1>8, <2>1
<1>9. ASSUME NEW q \in S, Cardinality(Ahead(S, q, score)) = Cardinality(Ahead(S, r, score))
      PROVE  q = r
  <2>1. q = r \/ q \in Ahead(S, r, score) \/ r \in Ahead(S, q, score)
    BY AheadOrder
  <2>2. q \notin Ahead(S, r, score)
    BY <1>4, <1>8, <1>9
  <2>3. r \notin Ahead(S, q, score)
    BY <1>4, <1>8, <1>9
  <2>4. QED
    BY <2>1, <2>2, <2>3
<1>10. QED
  BY <1>3, <1>4, <1>5, <1>7, <1>8, <1>9

\* Every place up to the last is taken.
LEMMA EveryPlace ==
  ASSUME NEW S, Apart(S), NEW score \in Scores, NEW n \in 1..Cardinality(S)
  PROVE  \E r \in S : Cardinality(Ahead(S, r, score)) = n - 1
<1> DEFINE N == Cardinality(S)
           rank == [r \in S |-> Cardinality(Ahead(S, r, score))]
<1>1. IsFiniteSet(S)
  BY DEF Apart
<1>2. N \in Nat
  BY <1>1, FS_CardinalityType
<1>3. \A r \in S : Cardinality(Ahead(S, r, score)) \in 0..(N - 1)
  BY <1>2, PlaceOf
<1>4. \A q, r \in S : rank[q] = rank[r] => q = r
  BY PlaceOf
<1>5. rank \in [S -> 0..(N - 1)]
  BY <1>3
<1> HIDE DEF rank
<1>6. rank \in Injection(S, 0..(N - 1))
  BY <1>4, <1>5 DEF Injection, IsInjective
<1>7. IsFiniteSet(0..(N - 1)) /\ Cardinality(0..(N - 1)) = N
  <2>1. 0 \in Int /\ N - 1 \in Int
    BY <1>2
  <2>2. /\ IsFiniteSet(0..(N - 1))
        /\ Cardinality(0..(N - 1)) = IF 0 > N - 1 THEN 0 ELSE (N - 1) - 0 + 1
    BY <2>1, FS_Interval
  <2>3. QED
    BY <1>2, <2>2
<1>8. rank \in Surjection(S, 0..(N - 1))
  BY <1>6, <1>7, FS_Injection
<1>9. n - 1 \in 0..(N - 1)
  BY <1>2
<1>10. PICK r \in S : rank[r] = n - 1
  BY <1>8, <1>9 DEF Surjection
<1>11. QED
  BY <1>10 DEF rank

\* The order of a set is a sequence of it, with each row in its place.
LEMMA RankedPlaces ==
  ASSUME NEW S, Apart(S), NEW score \in Scores
  PROVE  /\ Cardinality(S) \in Nat /\ Ranked(S, score) \in Seq(S)
         /\ Len(Ranked(S, score)) = Cardinality(S)
         /\ \A n \in 1..Cardinality(S) :
              /\ Ranked(S, score)[n] \in S
              /\ Cardinality(Ahead(S, Ranked(S, score)[n], score)) = n - 1
<1>1. Cardinality(S) \in Nat
  BY FS_CardinalityType DEF Apart
<1>2. \A n \in 1..Cardinality(S) : \E r \in S : Cardinality(Ahead(S, r, score)) = n - 1
  BY EveryPlace
<1>3. ASSUME NEW n \in 1..Cardinality(S)
      PROVE  /\ Ranked(S, score)[n] \in S
             /\ Cardinality(Ahead(S, Ranked(S, score)[n], score)) = n - 1
  <2>1. Ranked(S, score)[n] = CHOOSE r \in S : Cardinality(Ahead(S, r, score)) = n - 1
    BY DEF Ranked
  <2>2. QED
    BY <1>2, <2>1
<1> DEFINE r == Ranked(S, score)
           N == Cardinality(S)
<1>4. DOMAIN r = 1..N /\ r = [n \in DOMAIN r |-> r[n]]
  BY DEF Ranked
<1> HIDE DEF r, N
<1>5. r \in [1..N -> S]
  BY <1>3, <1>4 DEF r, N
<1>6. r \in Seq(S) /\ Len(r) = N
  BY <1>1, <1>5 DEF N
<1>7. QED
  BY <1>1, <1>3, <1>6 DEF r, N

\* A beginning agrees with the whole as far as it goes.
LEMMA PrefixIs ==
  ASSUME NEW X, NEW s \in Seq(X), NEW t \in Seq(X)
  PROVE  IsPrefix(s, t) <=> Len(s) <= Len(t) /\ \A i \in 1..Len(s) : s[i] = t[i]
<1>1. Len(s) \in Nat /\ Len(t) \in Nat /\ DOMAIN s = 1..Len(s) /\ DOMAIN t = 1..Len(t)
  OBVIOUS
<1>2. SubSeq(s, 1, Len(s)) = [i \in 1..Len(s) |-> s[i]]
  OBVIOUS
<1>3. ASSUME Len(s) <= Len(t) PROVE SubSeq(t, 1, Len(s)) = [i \in 1..Len(s) |-> t[i]]
  BY <1>1, <1>3
<1>4. QED
  BY <1>1, <1>2, <1>3 DEF IsPrefix

\* What has with each row also those before it begins the order of the whole.
LEMMA RankedBegins ==
  ASSUME NEW S, Apart(S), NEW score \in Scores, NEW U \in SUBSET S,
         \A r \in U : Ahead(S, r, score) \subseteq U
  PROVE  IsPrefix(Ranked(U, score), Ranked(S, score))
<1> DEFINE u == Ranked(U, score)
           s == Ranked(S, score)
           N == Cardinality(U)
<1>1. Apart(U)
  BY TableParts
<1>2. N \in Nat /\ Cardinality(S) \in Nat /\ N <= Cardinality(S)
  BY <1>1, FS_Subset, FS_CardinalityType DEF Apart
<1>3. /\ u \in Seq(U) /\ Len(u) = N
      /\ \A n \in 1..N : u[n] \in U /\ Cardinality(Ahead(U, u[n], score)) = n - 1
  BY <1>1, RankedPlaces
<1>4. /\ s \in Seq(S) /\ Len(s) = Cardinality(S)
      /\ \A n \in 1..Cardinality(S) : s[n] \in S /\ Cardinality(Ahead(S, s[n], score)) = n - 1
  BY RankedPlaces
<1>5. \A r \in U : Ahead(U, r, score) = Ahead(S, r, score)
  BY DEF Ahead
<1> HIDE DEF u, s, N
<1>6. ASSUME NEW n \in 1..N PROVE u[n] = s[n]
  <2>1. n \in 1..Cardinality(S)
    BY <1>2
  <2>2. u[n] \in S /\ Cardinality(Ahead(S, u[n], score)) = n - 1
    BY <1>3, <1>5
  <2>3. s[n] \in S /\ Cardinality(Ahead(S, s[n], score)) = n - 1
    BY <1>4, <2>1
  <2>4. \A q, r \in S : Cardinality(Ahead(S, q, score)) = Cardinality(Ahead(S, r, score)) => q = r
    BY PlaceOf
  <2>5. QED
    BY <2>2, <2>3, <2>4
<1>7. u \in Seq(S)
  <2>1. \A n \in 1..N : u[n] \in S
    BY <1>3
  <2>2. QED
    BY <1>2, <1>3, <2>1
<1>8. IsPrefix(u, s)
  BY <1>2, <1>3, <1>4, <1>6, <1>7, PrefixIs
<1>9. QED
  BY <1>8 DEF u, s

\* The best have with each row also those before it.
LEMMA BestBegins ==
  ASSUME NEW S, Apart(S), NEW score \in Scores, NEW n \in Nat,
         NEW r \in Best(S, n, score), NEW q \in Ahead(S, r, score)
  PROVE  q \in Best(S, n, score)
<1>1. r \in S /\ q \in S /\ Cardinality(Ahead(S, r, score)) < n
  BY DEF Best, Ahead
<1>2. Cardinality(Ahead(S, q, score)) < Cardinality(Ahead(S, r, score))
  BY <1>1, PlaceOf
<1>3. Cardinality(Ahead(S, r, score)) \in Nat /\ Cardinality(Ahead(S, q, score)) \in Nat
  BY <1>1, PlaceOf
<1>4. Cardinality(Ahead(S, q, score)) < n
  BY <1>1, <1>2, <1>3
<1>5. QED
  BY <1>1, <1>4 DEF Best

\* The floor after the cut keeps a beginning of what the cut after the floor keeps.
LEMMA FloorAfterCut ==
  ASSUME NEW S, Apart(S), NEW score \in Scores, NEW sim, NEW n \in Nat
  PROVE  IsPrefix(Ranked(Related(Best(S, n, score), sim), score),
                  Ranked(Best(Related(S, sim), n, score), score))
<1> DEFINE U == Related(Best(S, n, score), sim)
           R == Related(S, sim)
           V == Best(R, n, score)
<1>1. U \subseteq S /\ R \subseteq S /\ V \subseteq R /\ U \subseteq R
  BY DEF Related, Best
<1>2. Apart(R) /\ Apart(V)
  BY <1>1, TableParts
<1>3. ASSUME NEW r \in U PROVE r \in V
  <2>1. r \in S /\ r \in R /\ Cardinality(Ahead(S, r, score)) < n
    BY <1>1 DEF Related, Best
  <2>2. Ahead(R, r, score) \subseteq Ahead(S, r, score)
    BY <1>1 DEF Ahead
  <2>3. IsFiniteSet(Ahead(S, r, score)) /\ Cardinality(Ahead(S, r, score)) \in Nat
    BY <2>1, PlaceOf
  <2>4. Cardinality(Ahead(R, r, score)) <= Cardinality(Ahead(S, r, score))
    BY <2>2, <2>3, FS_Subset
  <2>5. Cardinality(Ahead(R, r, score)) \in Nat
    BY <1>2, <2>1, PlaceOf
  <2>6. Cardinality(Ahead(R, r, score)) < n
    BY <2>1, <2>3, <2>4, <2>5
  <2>7. QED
    BY <2>1, <2>6 DEF Best
<1>4. ASSUME NEW r \in U, NEW q \in Ahead(V, r, score) PROVE q \in U
  <2>1. q \in V /\ q \in S /\ q \in R /\ q \in Ahead(S, r, score)
    BY <1>1 DEF Ahead
  <2>2. r \in Best(S, n, score)
    BY DEF Related
  <2>3. q \in Best(S, n, score)
    BY <2>1, <2>2, BestBegins
  <2>4. QED
    BY <2>1, <2>3 DEF Related
<1> HIDE DEF U, V
<1>5. U \in SUBSET V /\ \A r \in U : Ahead(V, r, score) \subseteq U
  BY <1>3, <1>4
<1>6. IsPrefix(Ranked(U, score), Ranked(V, score))
  BY <1>2, <1>5, RankedBegins
<1>7. QED
  BY <1>6 DEF U, V

\* A cut that is wide enough cuts nothing.
LEMMA BestOfAll ==
  ASSUME NEW S, Apart(S), NEW score \in Scores, NEW n \in Nat, Cardinality(S) <= n
  PROVE  Best(S, n, score) = S
<1>1. ASSUME NEW r \in S PROVE Cardinality(Ahead(S, r, score)) < n
  <2>1. /\ Cardinality(Ahead(S, r, score)) \in Nat /\ Cardinality(S) \in Nat
        /\ Cardinality(Ahead(S, r, score)) < Cardinality(S)
    BY PlaceOf
  <2>2. QED
    BY <2>1
<1>2. QED
  BY <1>1 DEF Best

\* A bounded set of numbers has a greatest one.
LEMMA GreatestNumber ==
  ASSUME NEW L \in Nat, NEW S \in SUBSET (0..L), S # {}
  PROVE  Max(S) \in S
<1> DEFINE T == {k \in 0..L : L - k \in S}
<1>1. T \subseteq Nat /\ T # {}
  <2>1. PICK y \in S : TRUE
    OBVIOUS
  <2>2. L - y \in 0..L /\ L - (L - y) = y
    OBVIOUS
  <2>3. L - y \in T
    BY <2>2
  <2>4. T \subseteq Nat
    OBVIOUS
  <2>5. QED
    BY <2>3, <2>4
<1>2. PICK k \in T : \A m \in T : k <= m
  <2> HIDE DEF T
  <2>1. QED
    BY <1>1, LeastNumber
<1>3. ASSUME NEW y \in S PROVE L - k >= y
  <2>1. L - y \in 0..L /\ L - (L - y) = y
    OBVIOUS
  <2>2. k <= L - y
    BY <1>2, <2>1
  <2>3. QED
    BY <2>2
<1>4. \E x \in S : \A y \in S : x >= y
  BY <1>3
<1>5. QED
  BY <1>4 DEF Max

\* What is packed is the beginning of what was found.
LEMMA PackBegins ==
  ASSUME NEW X, NEW got \in Seq(X), NEW size
  PROVE  Pack(got, size) \in Seq(X) /\ IsPrefix(Pack(got, size), got)
<1> DEFINE D == {0} \cup {n \in DOMAIN got : Taken(First(got, n), size) <= Room}
           L == Len(got)
           m == Max(D)
           k == IF m < L THEN m ELSE L
<1>1. L \in Nat /\ D \in SUBSET (0..L) /\ D # {}
  OBVIOUS
<1>2. m \in 0..L
  <2> HIDE DEF D, L
  <2>1. QED
    BY <1>1, GreatestNumber
<1> HIDE DEF m
<1>3. k \in 0..L
  BY <1>1, <1>2
<1>4. Pack(got, size) = SubSeq(got, 1, k)
  BY DEF Pack, First, m
<1> HIDE DEF k
<1>5. /\ SubSeq(got, 1, k) \in Seq(X) /\ Len(SubSeq(got, 1, k)) = k
      /\ \A i \in 1..k : SubSeq(got, 1, k)[i] = got[i]
  BY <1>1, <1>3
<1> DEFINE s == SubSeq(got, 1, k)
<1> HIDE DEF s
<1>6. s \in Seq(X) /\ Len(s) <= Len(got) /\ \A i \in 1..Len(s) : s[i] = got[i]
  BY <1>3, <1>5 DEF s
<1>7. IsPrefix(s, got)
  BY <1>6, PrefixIs
<1>8. QED
  BY <1>4, <1>6, <1>7 DEF s

\* A table's rows, of which there are at most as many as places.
LEMMA TableOfRows ==
  ASSUME MemoryTypeOK
  PROVE  /\ Apart(Rows) /\ Len(memories) \in Nat /\ Cardinality(Rows) <= Len(memories)
         /\ Cardinality(Rows) \in Nat
<1>1. /\ memories \in Seq([id : 1..written, text : Texts]) /\ written \in Nat
      /\ IsInjective([i \in DOMAIN memories |-> memories[i].id])
  BY DEF MemoryTypeOK
<1>2. /\ Len(memories) \in Nat /\ DOMAIN memories = 1..Len(memories)
      /\ \A i \in DOMAIN memories : memories[i] \in [id : 1..written, text : Texts]
  <2> DEFINE E == [id : 1..written, text : Texts]
  <2>1. memories \in Seq(E)
    BY <1>1
  <2> HIDE DEF E
  <2>2. /\ Len(memories) \in Nat /\ DOMAIN memories = 1..Len(memories)
        /\ \A i \in DOMAIN memories : memories[i] \in E
    BY <2>1
  <2>3. QED
    BY <2>2 DEF E
<1>3. \A i, j \in DOMAIN memories : memories[i].id = memories[j].id => i = j
  BY <1>1 DEF IsInjective
<1>4. Rows = {memories[i] : i \in DOMAIN memories}
  BY DEF Rows, Range
<1>5. memories \in Surjection(1..Len(memories), Rows)
  <2>1. memories \in [1..Len(memories) -> Rows]
    BY <1>1, <1>2, <1>4
  <2>2. \A r \in Rows : \E i \in 1..Len(memories) : memories[i] = r
    BY <1>2, <1>4
  <2>3. QED
    BY <2>1, <2>2 DEF Surjection
<1>6. IsFiniteSet(1..Len(memories)) /\ Cardinality(1..Len(memories)) = Len(memories)
  <2>1. 1 \in Int /\ Len(memories) \in Int
    BY <1>2
  <2>2. /\ IsFiniteSet(1..Len(memories))
        /\ Cardinality(1..Len(memories)) = IF 1 > Len(memories) THEN 0 ELSE Len(memories) - 1 + 1
    BY <2>1, FS_Interval
  <2>3. QED
    BY <1>2, <2>2
<1>7. IsFiniteSet(Rows) /\ Cardinality(Rows) <= Len(memories)
  BY <1>5, <1>6, FS_Surjection
<1>8. Rows \subseteq [id : Nat, text : Texts]
  <2>1. [id : 1..written, text : Texts] \subseteq [id : Nat, text : Texts]
    BY <1>1
  <2>2. QED
    BY <1>2, <1>4, <2>1
<1>9. \A q, r \in Rows : q.id = r.id => q = r
  BY <1>3, <1>4
<1>10. QED
  BY <1>2, <1>7, <1>8, <1>9, FS_CardinalityType DEF Apart

\* What is found begins the ranking of all that is related.
LEMMA Found ==
  ASSUME MemoryTypeOK, NEW sim \in Scores, NEW W \in Scores
  PROVE  LET want == Ranked(Best(Related(Rows, sim), K, W), W)
             lite == Ranked(Related(Best(Rows, K, W), sim), W)
             near == Ranked(Best(Related(Best(Rows, K * Fanout, sim), sim), K, W), W)
         IN  /\ lite \in Seq(Rows) /\ near \in Seq(Rows) /\ want \in Seq(Rows)
             /\ IsPrefix(lite, want)
             /\ Len(memories) <= K * Fanout => near = want
<1>1. Apart(Rows) /\ Len(memories) \in Nat /\ Cardinality(Rows) <= Len(memories) /\ Cardinality(Rows) \in Nat
  BY TableOfRows
<1>2. K \in Nat /\ K * Fanout \in Nat
  BY MemoryAssumption
<1>3. \A T \in SUBSET Rows : Ranked(T, W) \in Seq(Rows)
  <2>1. ASSUME NEW T \in SUBSET Rows PROVE Ranked(T, W) \in Seq(Rows)
    <3>1. Apart(T)
      BY <1>1, TableParts
    <3>2. Ranked(T, W) \in Seq(T)
      BY <3>1, RankedPlaces
    <3> DEFINE t == Ranked(T, W)
    <3> HIDE DEF t
    <3>3. t \in Seq(T)
      BY <3>2 DEF t
    <3>4. t \in Seq(Rows)
      BY <3>3
    <3>5. QED
      BY <3>4 DEF t
  <2>2. QED
    BY <2>1
<1>4. /\ Best(Related(Rows, sim), K, W) \in SUBSET Rows
      /\ Related(Best(Rows, K, W), sim) \in SUBSET Rows
      /\ Best(Related(Best(Rows, K * Fanout, sim), sim), K, W) \in SUBSET Rows
  BY DEF Best, Related
<1>5. IsPrefix(Ranked(Related(Best(Rows, K, W), sim), W), Ranked(Best(Related(Rows, sim), K, W), W))
  BY <1>1, <1>2, FloorAfterCut
<1>6. ASSUME Len(memories) <= K * Fanout PROVE Best(Rows, K * Fanout, sim) = Rows
  <2>1. Cardinality(Rows) <= K * Fanout
    BY <1>1, <1>2, <1>6
  <2>2. QED
    BY <1>1, <1>2, <2>1, BestOfAll
<1>7. QED
  BY <1>3, <1>4, <1>5, <1>6

\* A beginning's beginning is one.
LEMMA PrefixTrans ==
  ASSUME NEW X, NEW r \in Seq(X), NEW s \in Seq(X), NEW t \in Seq(X),
         IsPrefix(r, s), IsPrefix(s, t)
  PROVE  IsPrefix(r, t)
<1>1. /\ Len(r) <= Len(s) /\ \A i \in 1..Len(r) : r[i] = s[i]
      /\ Len(s) <= Len(t) /\ \A i \in 1..Len(s) : s[i] = t[i]
  BY PrefixIs
<1>2. Len(r) \in Nat /\ Len(s) \in Nat /\ Len(t) \in Nat
  OBVIOUS
<1>3. \A i \in 1..Len(r) : i \in 1..Len(s)
  BY <1>1, <1>2
<1>4. Len(r) <= Len(t) /\ \A i \in 1..Len(r) : r[i] = t[i]
  BY <1>1, <1>2, <1>3
<1>5. QED
  BY <1>4, PrefixIs

\* Any answer is made of the best.
LEMMA SearchRanks ==
  ASSUME MemoryTypeOK, Search
  PROVE  AnswerIsRanked'
<1>1. PICK sim \in [Texts -> Similarities], imp \in [Texts -> {1, 2}], size \in [Texts -> Sizes] :
        found' = [got  |-> IF backend = "sqlite" THEN SqliteSearch(sim, imp) ELSE PostgresSearch(sim, imp),
                  want |-> Ranking(sim, imp),
                  pack |-> Pack(IF backend = "sqlite" THEN SqliteSearch(sim, imp) ELSE PostgresSearch(sim, imp),
                                size)]
  BY DEF Search
<1>2. backend' = backend /\ memories' = memories /\ backend \in {"postgres", "sqlite"}
  BY DEF Search, MemoryTypeOK
<1> DEFINE W == Weight(sim, imp)
           want == Ranking(sim, imp)
           got == IF backend = "sqlite" THEN SqliteSearch(sim, imp) ELSE PostgresSearch(sim, imp)
<1>3. sim \in Scores /\ W \in Scores
  <2>1. \A t \in Texts : sim[t] \in Int /\ imp[t] \in Nat
    <3>1. Similarities \subseteq Int /\ {1, 2} \subseteq Nat
      BY MemoryAssumption
    <3>2. \A t \in Texts : sim[t] \in Similarities /\ imp[t] \in {1, 2}
      OBVIOUS
    <3>3. QED
      BY <3>1, <3>2
  <2>2. sim \in Scores
    BY <2>1 DEF Scores
  <2>3. \A t \in Texts : sim[t] * imp[t] \in Int
    BY <2>1
  <2>4. QED
    BY <2>2, <2>3 DEF Weight, Scores
<1>4. /\ SqliteSearch(sim, imp) = Ranked(Related(Best(Rows, K, W), sim), W)
      /\ PostgresSearch(sim, imp) = Ranked(Best(Related(Best(Rows, K * Fanout, sim), sim), K, W), W)
      /\ want = Ranked(Best(Related(Rows, sim), K, W), W)
  BY DEF SqliteSearch, PostgresSearch, Ranking
<1> HIDE DEF W
<1>5. /\ SqliteSearch(sim, imp) \in Seq(Rows) /\ PostgresSearch(sim, imp) \in Seq(Rows)
      /\ want \in Seq(Rows) /\ IsPrefix(SqliteSearch(sim, imp), want)
      /\ Len(memories) <= K * Fanout => PostgresSearch(sim, imp) = want
  BY <1>3, <1>4, Found
<1> HIDE DEF want
<1>6. IsPrefix(want, want)
  BY <1>5, PrefixIs
<1>7. got \in Seq(Rows) /\ Pack(got, size) \in Seq(Rows) /\ IsPrefix(Pack(got, size), got)
  <2>1. got \in Seq(Rows)
    BY <1>5
  <2> HIDE DEF got
  <2>2. QED
    BY <2>1, PackBegins
<1>8. ASSUME backend = "sqlite" \/ Len(memories) <= K * Fanout
      PROVE  /\ IsPrefix(got, want) /\ IsPrefix(Pack(got, size), want)
             /\ backend = "postgres" => got = want
  <2>1. IsPrefix(got, want)
    <3>1. CASE backend = "sqlite"
      BY <1>5, <3>1
    <3>2. CASE backend # "sqlite"
      BY <1>5, <1>6, <1>8, <3>2
    <3>3. QED
      BY <3>1, <3>2
  <2>2. backend = "postgres" => got = want
    BY <1>5, <1>8
  <2> HIDE DEF got
  <2>3. IsPrefix(Pack(got, size), want)
    BY <1>5, <1>7, <2>1, PrefixTrans
  <2>4. QED
    BY <2>1, <2>2, <2>3
<1>9. found'.got = got /\ found'.want = want /\ found'.pack = Pack(got, size)
  BY <1>1 DEF want
<1> HIDE DEF got
<1>10. QED
  BY <1>2, <1>8, <1>9 DEF AnswerIsRanked

\* Nothing begins with nothing.
LEMMA NothingBegins == IsPrefix(<<>>, <<>>)
BY DEF IsPrefix

\* Any other step takes the answer away.
LEMMA AnswerStep == MemoryTypeOK /\ AnswerIsRanked /\ [MemoryNext]_memoryVars => AnswerIsRanked'
<1> SUFFICES ASSUME MemoryTypeOK, AnswerIsRanked, [MemoryNext]_memoryVars PROVE AnswerIsRanked'
  OBVIOUS
<1>1. ASSUME found' = NoAnswer PROVE AnswerIsRanked'
  <2>1. found'.got = <<>> /\ found'.want = <<>> /\ found'.pack = <<>>
    BY <1>1 DEF NoAnswer
  <2>2. QED
    BY <2>1, NothingBegins DEF AnswerIsRanked
<1>2. CASE Search
  BY <1>2, SearchRanks
<1>3. CASE Forget \/ Crash
  BY <1>1, <1>3 DEF Forget, Crash
<1>4. ASSUME NEW c \in Callers, Request(c) PROVE found' = NoAnswer
  BY <1>4 DEF Request, Remember, Save, AddMemory, RememberBuild, Seed, Awaken, Consolidate, Import, Export,
              Start, Does
<1>5. ASSUME NEW c \in Callers, Step(c) PROVE found' = NoAnswer
  BY <1>5 DEF Step, NoPool, Pooled, ExtractsFacts, ExtractsPlaybooks, Check, Raises, Store, StoreFails,
              Scan, ScanFails, Merge, ReadPage, Answer, Ends, Does
<1>6. CASE UNCHANGED memoryVars
  BY <1>6 DEF memoryVars, AnswerIsRanked
<1>7. QED
  BY <1>1, <1>2, <1>3, <1>4, <1>5, <1>6 DEF MemoryNext

\* Whatever the table holds, an answer is made of the best related rows: that of SQLite
\* is the beginning of the ranking, that of Postgres the whole, as long as its
\* candidates are all rows, and what a model is given of it is the beginning too.
THEOREM AnswersAreRanked == MemorySpec => []AnswerIsRanked
<1>1. MemoryInit => AnswerIsRanked
  <2>1. SUFFICES ASSUME MemoryInit PROVE AnswerIsRanked
    OBVIOUS
  <2>2. found.got = <<>> /\ found.want = <<>> /\ found.pack = <<>>
    BY <2>1 DEF MemoryInit, NoAnswer
  <2>3. QED
    BY <2>2, NothingBegins DEF AnswerIsRanked
<1>2. MemorySpec => []MemoryTypeOK
  BY TableIsKept, PTL DEF MemoryInv
<1>3. QED
  BY <1>1, <1>2, AnswerStep, PTL DEF MemorySpec
=============================================================================
