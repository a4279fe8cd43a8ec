------------------------ MODULE ResolveCommandProofs ------------------------
(***************************************************************************)
(* What `joinless resolve` does with its files, for any paths, any files   *)
(* and any linkage: nothing is changed before everything has been read,    *)
(* and every row of both files is in the output.                           *)
(***************************************************************************)
EXTENDS ResolveCommand, TLAPS, FiniteSetTheorems

----------------------------------------------------------------------------
(* Positions in their order *)

(* No two members of a set have the same number of smaller ones.            *)
LEMMA RanksDiffer ==
  ASSUME NEW S, S \subseteq Nat, IsFiniteSet(S)
  PROVE  /\ \A p \in S : Rank(S, p) \in 0..(Cardinality(S) - 1)
         /\ \A p, q \in S : p < q => Rank(S, p) < Rank(S, q)
<1> DEFINE Below(p) == {q \in S : q < p}
<1>1. ASSUME NEW p
      PROVE  /\ IsFiniteSet(Below(p)) /\ Cardinality(Below(p)) \in Nat
             /\ Rank(S, p) = Cardinality(Below(p))
  BY FS_Subset, FS_CardinalityType DEF Rank
<1>2. ASSUME NEW p \in S
      PROVE  Rank(S, p) \in 0..(Cardinality(S) - 1)
  <2>1. Below(p) \subseteq S /\ p \in S /\ p \notin Below(p) /\ Below(p) # S
    OBVIOUS
  <2>2. Cardinality(S) \in Nat
    BY FS_CardinalityType
  <2>3. Cardinality(Below(p)) <= Cardinality(S) /\ Cardinality(Below(p)) # Cardinality(S)
    <3> HIDE DEF Below
    <3> QED
      BY <2>1, FS_Subset
  <2> HIDE DEF Below
  <2>4. Cardinality(Below(p)) \in 0..(Cardinality(S) - 1)
    BY <1>1, <2>2, <2>3
  <2> QED
    BY <1>1, <2>4
<1>3. ASSUME NEW p \in S, NEW q \in S, p < q
      PROVE  Rank(S, p) < Rank(S, q)
  <2>1. Below(p) \subseteq Below(q) /\ p \in Below(q) /\ p \notin Below(p)
    <3>1. \A x \in S : x \in Int
      OBVIOUS
    <3>2. \A x \in S : x < p => x < q
      BY <1>3, <3>1
    <3>3. ~(p < p)
      BY <3>1
    <3> QED
      BY <1>3, <3>2, <3>3
  <2>2. Below(p) # Below(q)
    BY <2>1
  <2>3. Cardinality(Below(p)) <= Cardinality(Below(q)) /\ Cardinality(Below(p)) # Cardinality(Below(q))
    <3> HIDE DEF Below
    <3> QED
      BY <1>1, <2>1, <2>2, FS_Subset
  <2> HIDE DEF Below
  <2>4. Cardinality(Below(p)) < Cardinality(Below(q))
    BY <1>1, <2>3
  <2> QED
    BY <1>1, <2>4
<1> QED
  BY <1>2, <1>3

(* Positions lists every member of a set, and nothing else.                 *)
LEMMA PositionsIs ==
  ASSUME NEW S, S \subseteq Nat, IsFiniteSet(S)
  PROVE  /\ Cardinality(S) \in Nat
         /\ DOMAIN Positions(S) = 1..Cardinality(S)
         /\ Positions(S) \in [1..Cardinality(S) -> S]
         /\ \A p \in S : \E n \in 1..Cardinality(S) : Positions(S)[n] = p
<1> DEFINE size == Cardinality(S)
           rank == [p \in S |-> Rank(S, p)]
<1>1. size \in Nat
  BY FS_CardinalityType
<1>2. \A p \in S : Rank(S, p) \in 0..(size - 1)
  BY RanksDiffer
<1>3. \A p, q \in S : Rank(S, p) = Rank(S, q) => p = q
  <2> SUFFICES ASSUME NEW p \in S, NEW q \in S, Rank(S, p) = Rank(S, q), p # q
               PROVE  FALSE
    OBVIOUS
  <2>1. p < q \/ q < p
    OBVIOUS
  <2>2. Rank(S, p) \in Int /\ Rank(S, q) \in Int
    BY <1>2
  <2>3. ~(Rank(S, p) < Rank(S, q)) /\ ~(Rank(S, q) < Rank(S, p))
    BY <2>2
  <2> QED
    BY <2>1, <2>3, RanksDiffer
<1> HIDE DEF size
<1>4. IsFiniteSet(0..(size - 1)) /\ Cardinality(0..(size - 1)) = size
  <2>1. 0 \in Int /\ size - 1 \in Int
    BY <1>1
  <2>2. /\ IsFiniteSet(0..(size - 1))
        /\ Cardinality(0..(size - 1)) = IF 0 > size - 1 THEN 0 ELSE (size - 1) - 0 + 1
    BY <2>1, FS_Interval
  <2> QED
    BY <1>1, <2>2
<1>5. rank \in Surjection(S, 0..(size - 1))
  <2>1. rank \in Injection(S, 0..(size - 1))
    BY <1>2, <1>3 DEF Injection, IsInjective
  <2> QED
    BY <1>4, <2>1, FS_Injection DEF size
<1>6. ASSUME NEW n \in 1..size PROVE Nth(S, n) \in S /\ Rank(S, Nth(S, n)) = n - 1
  <2>1. n - 1 \in 0..(size - 1)
    BY <1>1
  <2>2. PICK p \in S : Rank(S, p) = n - 1
    BY <1>5, <2>1 DEF Surjection
  <2> QED
    BY <2>2 DEF Nth
<1>7. Positions(S) = [n \in 1..size |-> Nth(S, n)]
  BY DEF Positions, size
<1>8. ASSUME NEW p \in S PROVE \E n \in 1..size : Positions(S)[n] = p
  <2>1. Rank(S, p) + 1 \in 1..size /\ (Rank(S, p) + 1) - 1 = Rank(S, p)
    BY <1>1, <1>2
  <2>2. Nth(S, Rank(S, p) + 1) = p
    BY <1>3, <1>6, <2>1
  <2> QED
    BY <1>7, <2>1, <2>2
<1> QED
  BY <1>1, <1>6, <1>7, <1>8 DEF size

----------------------------------------------------------------------------
(* The lines of the output *)

(* Two sequences one after the other.                                       *)
LEMMA TwoParts ==
  ASSUME NEW U, NEW s \in Seq(U), NEW t \in Seq(U)
  PROVE  /\ s \o t \in Seq(U) /\ Len(s \o t) = Len(s) + Len(t)
         /\ DOMAIN (s \o t) = 1..(Len(s) + Len(t))
         /\ \A i \in 1..Len(s) : (s \o t)[i] = s[i]
         /\ \A i \in 1..Len(t) : (s \o t)[Len(s) + i] = t[i]
OBVIOUS

\* lines are A, B and C one after the other.
AreParts(lines, A, B, C) ==
  /\ DOMAIN lines = 1..(Len(A) + Len(B) + Len(C))
  /\ \A i \in 1..Len(A) : lines[i] = A[i]
  /\ \A i \in 1..Len(B) : lines[Len(A) + i] = B[i]
  /\ \A i \in 1..Len(C) : lines[Len(A) + Len(B) + i] = C[i]
  /\ \A n \in DOMAIN lines :
       \/ n \in 1..Len(A)
       \/ \E i \in 1..Len(B) : n = Len(A) + i
       \/ \E i \in 1..Len(C) : n = Len(A) + Len(B) + i

(* Three sequences one after the other.                                     *)
LEMMA ThreeParts ==
  ASSUME NEW U, NEW A \in Seq(U), NEW B \in Seq(U), NEW C \in Seq(U)
  PROVE  AreParts(A \o B \o C, A, B, C)
<1> DEFINE a == Len(A)
           b == Len(B)
           c == Len(C)
           lines == (A \o B) \o C
<1>1. a \in Nat /\ b \in Nat /\ c \in Nat
  OBVIOUS
<1>3. /\ DOMAIN lines = 1..(a + b + c)
      /\ \A i \in 1..a : lines[i] = A[i]
      /\ \A i \in 1..b : lines[a + i] = B[i]
      /\ \A i \in 1..c : lines[a + b + i] = C[i]
  <2> DEFINE AB == A \o B
  <2>1. /\ AB \in Seq(U) /\ Len(AB) = a + b
        /\ \A i \in 1..a : AB[i] = A[i]
        /\ \A i \in 1..b : AB[a + i] = B[i]
    BY TwoParts
  <2>2. lines = AB \o C
    OBVIOUS
  <2> HIDE DEF AB
  <2>3. /\ DOMAIN lines = 1..(Len(AB) + Len(C))
        /\ \A i \in 1..Len(AB) : lines[i] = AB[i]
        /\ \A i \in 1..Len(C) : lines[Len(AB) + i] = C[i]
    <3> HIDE DEF a, b, c, lines
    <3> QED
      BY <2>1, <2>2, TwoParts
  <2>4. DOMAIN lines = 1..(a + b + c)
    BY <2>1, <2>3
  <2>5. \A i \in 1..(a + b) : lines[i] = AB[i]
    BY <2>1, <2>3
  <2>6. \A i \in 1..c : lines[a + b + i] = C[i]
    BY <2>1, <2>3
  <2>7. ASSUME NEW i \in 1..a PROVE lines[i] = A[i]
    <3>1. i \in 1..(a + b)
      BY <1>1
    <3> QED
      BY <2>1, <2>5, <3>1
  <2>8. ASSUME NEW i \in 1..b PROVE lines[a + i] = B[i]
    <3>1. a + i \in 1..(a + b)
      BY <1>1
    <3> QED
      BY <2>1, <2>5, <3>1
  <2> QED
    BY <2>4, <2>6, <2>7, <2>8
<1> HIDE DEF a, b, c, lines
<1>4. ASSUME NEW n \in 1..(a + b + c)
      PROVE  \/ n \in 1..a
             \/ \E i \in 1..b : n = a + i
             \/ \E i \in 1..c : n = a + b + i
  <2>1. CASE n > a /\ n <= a + b
    <3>1. n - a \in 1..b /\ n = a + (n - a)
      BY <1>1, <2>1
    <3> QED
      BY <3>1
  <2>2. CASE n > a + b
    <3>1. n - (a + b) \in 1..c /\ n = a + b + (n - (a + b))
      BY <1>1, <2>2
    <3> QED
      BY <3>1
  <2> QED
    BY <1>1, <2>1, <2>2
<1> QED
  BY <1>3, <1>4 DEF AreParts, a, b, c, lines

(* A set of positions and the others of as many rows.                       *)
LEMMA PositionsOfRows ==
  ASSUME NEW rows \in Nat, NEW D, D \subseteq 1..rows
  PROVE  /\ IsFiniteSet(D) /\ D \subseteq Nat
         /\ IsFiniteSet((1..rows) \ D) /\ (1..rows) \ D \subseteq Nat
         /\ Cardinality(D) + Cardinality((1..rows) \ D) = rows
<1> DEFINE S == 1..rows
           E == S \ D
<1>1. IsFiniteSet(S) /\ Cardinality(S) = rows /\ S \subseteq Nat
  BY FS_Interval
<1>2. D \subseteq S /\ E \subseteq S /\ D \cup E = S /\ D \cap E = {}
  OBVIOUS
<1> HIDE DEF S, E
<1>3. IsFiniteSet(D) /\ IsFiniteSet(E)
  BY <1>1, <1>2, FS_Subset
<1>4. Cardinality(D \cup E) = Cardinality(D) + Cardinality(E) - Cardinality(D \cap E)
  BY <1>3, FS_Union
<1>5. Cardinality(D) \in Nat /\ Cardinality(E) \in Nat /\ Cardinality({}) = 0
  BY <1>3, FS_CardinalityType, FS_EmptySet
<1>6. Cardinality(D) + Cardinality(E) = rows
  <2>1. Cardinality(D \cap E) = 0 /\ Cardinality(D \cup E) = rows
    BY <1>1, <1>2, <1>5
  <2> QED
    BY <1>4, <1>5, <2>1
<1> QED
  BY <1>1, <1>2, <1>3, <1>6 DEF S, E

\* What the lines of an output say of l left and r right rows.
Accounts(lines, l, r) ==
  LET Pairs == {n \in DOMAIN lines : lines[n].status = "matched"}
      Single(side) == {n \in DOMAIN lines \ Pairs : lines[n].side = side}
  IN  /\ Cardinality(Pairs) + Cardinality(Single("left")) = l
      /\ {lines[n].of[1] : n \in Pairs} \cup {lines[n].of : n \in Single("left")} = 1..l
      /\ {lines[n].of[2] : n \in Pairs} \cup {lines[n].of : n \in Single("right")} = 1..r

(* The lines account for every row: a left one is linked or left over, and  *)
(* so is a right one.                                                       *)
LEMMA LinesAccount ==
  ASSUME NEW l \in Nat, NEW r \in Nat, DOMAIN left = 1..l, DOMAIN right = 1..r,
         \A p \in DOMAIN link : p \in DOMAIN left /\ link[p] \in DOMAIN right
  PROVE  Accounts(ResolutionLines, l, r)
<1> DEFINE D == DOMAIN link
           I == {link[p] : p \in D}
           pairs == Positions(D)
           lefts == Positions((1..l) \ D)
           rights == Positions((1..r) \ I)
           a == Cardinality(D)
           b == Cardinality((1..l) \ D)
           c == Cardinality((1..r) \ I)
           A == [n \in 1..a |-> Matched(pairs[n])]
           B == [n \in 1..b |-> Unmatched("left", lefts[n])]
           C == [n \in 1..c |-> Unmatched("right", rights[n])]
           lines == A \o B \o C
<1>1. D \subseteq 1..l /\ I \subseteq 1..r
  OBVIOUS
<1> HIDE DEF D, I
<1>2. /\ a \in Nat /\ DOMAIN pairs = 1..a /\ pairs \in [1..a -> D]
      /\ \A p \in D : \E n \in 1..a : pairs[n] = p
  BY <1>1, PositionsOfRows, PositionsIs
<1>3. /\ b \in Nat /\ DOMAIN lefts = 1..b /\ lefts \in [1..b -> (1..l) \ D]
      /\ \A p \in (1..l) \ D : \E n \in 1..b : lefts[n] = p
  BY <1>1, PositionsOfRows, PositionsIs
<1>4. /\ c \in Nat /\ DOMAIN rights = 1..c /\ rights \in [1..c -> (1..r) \ I]
      /\ \A p \in (1..r) \ I : \E n \in 1..c : rights[n] = p
  BY <1>1, PositionsOfRows, PositionsIs
<1>5. a + b = l
  BY <1>1, PositionsOfRows
<1>6. ResolutionLines = lines
  BY <1>2, <1>3, <1>4 DEF ResolutionLines, D, I
<1> HIDE DEF a, b, c, pairs, lefts, rights
<1>7. /\ DOMAIN lines = 1..(a + b + c)
      /\ \A i \in 1..a : lines[i] = Matched(pairs[i])
      /\ \A i \in 1..b : lines[a + i] = Unmatched("left", lefts[i])
      /\ \A i \in 1..c : lines[a + b + i] = Unmatched("right", rights[i])
      /\ \A n \in DOMAIN lines :
           \/ n \in 1..a
           \/ \E i \in 1..b : n = a + i
           \/ \E i \in 1..c : n = a + b + i
  <2> DEFINE U == {A[n] : n \in 1..a} \cup {B[n] : n \in 1..b} \cup {C[n] : n \in 1..c}
  <2>1. A \in [1..a -> U] /\ B \in [1..b -> U] /\ C \in [1..c -> U]
    OBVIOUS
  <2>2. /\ \A i \in 1..a : A[i] = Matched(pairs[i])
        /\ \A i \in 1..b : B[i] = Unmatched("left", lefts[i])
        /\ \A i \in 1..c : C[i] = Unmatched("right", rights[i])
    OBVIOUS
  <2> HIDE DEF U, A, B, C
  <2>3. A \in Seq(U) /\ B \in Seq(U) /\ C \in Seq(U)
    BY <1>2, <1>3, <1>4, <2>1
  <2>4. Len(A) = a /\ Len(B) = b /\ Len(C) = c
    BY <1>2, <1>3, <1>4, <2>1
  <2>5. AreParts(lines, A, B, C)
    BY <2>3, ThreeParts
  <2> QED
    BY <2>2, <2>4, <2>5 DEF AreParts
<1> HIDE DEF lines, A, B, C
<1>8. /\ \A i \in 1..a : /\ lines[i].status = "matched"
                         /\ lines[i].of[1] = pairs[i] /\ lines[i].of[2] = link[pairs[i]]
      /\ \A i \in 1..b : /\ lines[a + i].status = "unmatched" /\ lines[a + i].side = "left"
                         /\ lines[a + i].of = lefts[i]
      /\ \A i \in 1..c : /\ lines[a + b + i].status = "unmatched"
                         /\ lines[a + b + i].side = "right"
                         /\ lines[a + b + i].of = rights[i]
  <2>1. ASSUME NEW p
        PROVE  /\ Matched(p).status = "matched"
               /\ Matched(p).of[1] = p /\ Matched(p).of[2] = link[p]
    BY DEF Matched
  <2>2. ASSUME NEW side, NEW p
        PROVE  /\ Unmatched(side, p).status = "unmatched"
               /\ Unmatched(side, p).side = side /\ Unmatched(side, p).of = p
    BY DEF Unmatched
  <2>3. ASSUME NEW i \in 1..a
        PROVE  /\ lines[i].status = "matched"
               /\ lines[i].of[1] = pairs[i] /\ lines[i].of[2] = link[pairs[i]]
    BY <1>7, <2>1
  <2>4. ASSUME NEW i \in 1..b
        PROVE  /\ lines[a + i].status = "unmatched" /\ lines[a + i].side = "left"
               /\ lines[a + i].of = lefts[i]
    BY <1>7, <2>2
  <2>5. ASSUME NEW i \in 1..c
        PROVE  /\ lines[a + b + i].status = "unmatched"
               /\ lines[a + b + i].side = "right" /\ lines[a + b + i].of = rights[i]
    BY <1>7, <2>2
  <2> QED
    BY <2>3, <2>4, <2>5
<1> DEFINE Pairs == {n \in DOMAIN lines : lines[n].status = "matched"}
           Single(side) == {n \in DOMAIN lines \ Pairs : lines[n].side = side}
<1>9. /\ 1..a \subseteq DOMAIN lines
      /\ \A i \in 1..b : a + i \in DOMAIN lines
      /\ \A i \in 1..c : a + b + i \in DOMAIN lines
  BY <1>2, <1>3, <1>4, <1>7
<1>10. Pairs = 1..a
  BY <1>7, <1>8, <1>9
<1>11. Single("left") = {a + i : i \in 1..b}
  BY <1>7, <1>8, <1>9, <1>10
<1>12. Single("right") = {a + b + i : i \in 1..c}
  BY <1>7, <1>8, <1>9, <1>10
<1>13. Cardinality(Pairs) + Cardinality(Single("left")) = l
  <2>1. {a + i : i \in 1..b} = (a + 1)..(a + b)
    <3>1. ASSUME NEW n \in (a + 1)..(a + b) PROVE n \in {a + i : i \in 1..b}
      <4>1. n - a \in 1..b /\ n = a + (n - a)
        BY <1>2, <1>3
      <4> QED
        BY <4>1
    <3>2. ASSUME NEW i \in 1..b PROVE a + i \in (a + 1)..(a + b)
      BY <1>2, <1>3
    <3> QED
      BY <3>1, <3>2
  <2>2. Cardinality(1..a) = a
    BY <1>2, FS_Interval
  <2>3. Cardinality((a + 1)..(a + b)) = b
    <3>1. a + 1 \in Int /\ a + b \in Int
      BY <1>2, <1>3
    <3>2. Cardinality((a + 1)..(a + b))
            = IF a + 1 > a + b THEN 0 ELSE (a + b) - (a + 1) + 1
      BY <3>1, FS_Interval
    <3> QED
      BY <1>2, <1>3, <3>2
  <2> QED
    BY <1>5, <1>10, <1>11, <2>1, <2>2, <2>3
<1> HIDE DEF Pairs, Single
<1>14. {lines[n].of[1] : n \in Pairs} = D
  BY <1>2, <1>8, <1>10
<1>15. {lines[n].of[2] : n \in Pairs} = I
  <2>1. {lines[n].of[2] : n \in Pairs} = {link[pairs[n]] : n \in 1..a}
    BY <1>8, <1>10
  <2>2. {link[pairs[n]] : n \in 1..a} = {link[p] : p \in D}
    BY <1>2
  <2> QED
    BY <2>1, <2>2 DEF I
<1>16. {lines[n].of : n \in Single("left")} = (1..l) \ D
  <2>1. {lines[n].of : n \in Single("left")} = {lines[a + i].of : i \in 1..b}
    BY <1>11
  <2>2. {lines[a + i].of : i \in 1..b} = {lefts[i] : i \in 1..b}
    BY <1>8
  <2> QED
    BY <1>3, <2>1, <2>2
<1>17. {lines[n].of : n \in Single("right")} = (1..r) \ I
  <2>1. {lines[n].of : n \in Single("right")} = {lines[a + b + i].of : i \in 1..c}
    BY <1>12
  <2>2. {lines[a + b + i].of : i \in 1..c} = {rights[i] : i \in 1..c}
    BY <1>8
  <2> QED
    BY <1>4, <2>1, <2>2
<1>18. D \cup ((1..l) \ D) = 1..l /\ I \cup ((1..r) \ I) = 1..r
  BY <1>1
<1>19. Accounts(lines, l, r)
  BY <1>13, <1>14, <1>15, <1>16, <1>17, <1>18 DEF Accounts, Pairs, Single
<1> QED
  BY <1>6, <1>19

(* The lines are a sequence.                                                *)
LEMMA LinesAreASequence ==
  ASSUME NEW l \in Nat, NEW r \in Nat, DOMAIN left = 1..l, DOMAIN right = 1..r,
         \A p \in DOMAIN link : p \in DOMAIN left /\ link[p] \in DOMAIN right
  PROVE  /\ ResolutionLines \in Seq({ResolutionLines[n] : n \in DOMAIN ResolutionLines})
         /\ Len(ResolutionLines) \in Nat
         /\ DOMAIN ResolutionLines = 1..Len(ResolutionLines)
<1> DEFINE D == DOMAIN link
           I == {link[p] : p \in D}
           pairs == Positions(D)
           lefts == Positions((1..l) \ D)
           rights == Positions((1..r) \ I)
           a == Cardinality(D)
           b == Cardinality((1..l) \ D)
           c == Cardinality((1..r) \ I)
           A == [n \in 1..a |-> Matched(pairs[n])]
           B == [n \in 1..b |-> Unmatched("left", lefts[n])]
           C == [n \in 1..c |-> Unmatched("right", rights[n])]
           U == {A[n] : n \in 1..a} \cup {B[n] : n \in 1..b} \cup {C[n] : n \in 1..c}
           lines == A \o B \o C
<1>1. D \subseteq 1..l /\ I \subseteq 1..r
  OBVIOUS
<1> HIDE DEF D, I
<1>2. /\ a \in Nat /\ DOMAIN pairs = 1..a
      /\ b \in Nat /\ DOMAIN lefts = 1..b
      /\ c \in Nat /\ DOMAIN rights = 1..c
  BY <1>1, PositionsOfRows, PositionsIs
<1>3. ResolutionLines = lines
  BY <1>2 DEF ResolutionLines, D, I
<1> HIDE DEF a, b, c, pairs, lefts, rights
<1>4. A \in [1..a -> U] /\ B \in [1..b -> U] /\ C \in [1..c -> U]
  OBVIOUS
<1> HIDE DEF U, A, B, C
<1>5. A \in Seq(U) /\ B \in Seq(U) /\ C \in Seq(U)
  BY <1>2, <1>4
<1>6. lines \in Seq(U)
  BY <1>5
<1> HIDE DEF lines
<1> QED
  BY <1>3, <1>6

----------------------------------------------------------------------------
(* What the command does step by step *)

RightTypes(records) ==
  \A n \in DOMAIN records :
    records[n].ordinal = n - 1 /\ records[n].content \in Contents

\* records are those of the file the side is read from, one for each row.
Read(side, records) ==
  LET rows == Cardinality(RowsOf(arguments[side]))
  IN  rows \in Nat /\ DOMAIN records = 1..rows

\* What the command was given, and what it has made of its files so far.
FilesInv ==
  /\ pc \in Places
  /\ before \in [Paths -> Inputs \cup {Missing}]
  /\ arguments \in [{"left", "right", "output"} -> Paths]
  /\ DOMAIN files = Paths
  /\ \A path \in Paths \ {arguments["output"]} : files[path] = before[path]
  /\ pc \notin {"write", "done", "broken off"} => files = before
  /\ pc \in {"scorer", "read left", "read right", "resolve", "open"} => written = <<>>
  /\ pc \in {"write", "done", "broken off"} => files[arguments["output"]] = written

\* What it has read, and what of it is linked.
RecordsInv ==
  /\ RightTypes(left) /\ RightTypes(right)
  /\ pc \in {"read right", "resolve", "open", "write", "done", "broken off"} =>
       Read("left", left)
  /\ pc \in {"resolve", "open", "write", "done", "broken off"} => Read("right", right)
  /\ pc \in {"scorer", "read left", "read right", "resolve"} => DOMAIN link = {}
  /\ \A p \in DOMAIN link : p \in DOMAIN left /\ link[p] \in DOMAIN right
  /\ pc = "done" => written = ResolutionLines

\* What it has written.
WrittenInv ==
  /\ written \in Seq({ResolutionLines[n] : n \in DOMAIN ResolutionLines})
  /\ DOMAIN written \subseteq DOMAIN ResolutionLines
  /\ \A n \in DOMAIN written : written[n] = ResolutionLines[n]

CommandInv ==
  /\ FilesInv /\ RecordsInv
  /\ pc \in {"open", "write", "done", "broken off"} => WrittenInv

(* A file whose lines are rows or blank gives a record for each row.        *)
LEMMA RecordsInIs ==
  ASSUME NEW path, files[path] \in Inputs \cup {Missing}, Readable(path)
  PROVE  /\ RightTypes(RecordsIn(path))
         /\ Cardinality(NotBlank(files[path])) \in Nat
         /\ DOMAIN RecordsIn(path) = 1..Cardinality(NotBlank(files[path]))
<1> DEFINE lines == files[path]
           S == NotBlank(lines)
<1>1. lines \in Seq(Line)
  BY InputsAssumption DEF Readable
<1>2. \A n \in DOMAIN lines : lines[n] \notin Broken
  BY DEF Readable
<1> HIDE DEF lines
<1>3. S \subseteq 1..Len(lines) /\ Len(lines) \in Nat
  BY <1>1 DEF NotBlank
<1>4. S \subseteq Nat /\ IsFiniteSet(S)
  <2>1. IsFiniteSet(1..Len(lines)) /\ 1..Len(lines) \subseteq Nat
    BY <1>3, FS_Interval
  <2> DEFINE T == 1..Len(lines)
  <2>2. S \subseteq T /\ IsFiniteSet(T) /\ T \subseteq Nat
    BY <1>3, <2>1
  <2> HIDE DEF S, T
  <2>3. IsFiniteSet(S)
    BY <2>2, FS_Subset
  <2> QED
    BY <2>2, <2>3
<1>5. ASSUME NEW p \in S PROVE lines[p] \in Contents
  <2>1. p \in DOMAIN lines /\ lines[p] # "blank"
    BY DEF NotBlank
  <2>2. lines[p] \in Line
    BY <1>1, <2>1
  <2>3. lines[p] \notin Broken
    BY <1>2, <2>1
  <2> QED
    BY <2>1, <2>2, <2>3 DEF Line
<1> HIDE DEF S
<1> DEFINE rows == Positions(S)
<1>6. /\ Cardinality(S) \in Nat /\ DOMAIN rows = 1..Cardinality(S)
      /\ \A n \in DOMAIN rows : rows[n] \in S
  BY <1>4, PositionsIs
<1>7. RecordsIn(path) = [n \in DOMAIN rows |->
        [source |-> path.stem, ordinal |-> n - 1, content |-> lines[rows[n]]]]
  BY DEF RecordsIn, S, lines
<1> HIDE DEF rows
<1>8. RightTypes(RecordsIn(path))
  BY <1>5, <1>6, <1>7 DEF RightTypes
<1> QED
  BY <1>6, <1>7, <1>8 DEF S, lines

(* The command begins with nothing read and nothing changed.                *)
LEMMA InitialCommand == Init => CommandInv
<1> SUFFICES ASSUME Init PROVE CommandInv
  OBVIOUS
<1>1. FilesInv
  BY DEF Init, FilesInv, Places
<1>2. RecordsInv
  BY DEF Init, RecordsInv, RightTypes
<1> QED
  BY <1>1, <1>2 DEF CommandInv, Init

(* Files change only after everything has been read.                        *)
LEMMA FilesStep ==
  ASSUME FilesInv, [Next]_vars
  PROVE  FilesInv'
<1> USE DEF FilesInv, Places, Goto
<1>1. CASE ChooseScorer
  BY <1>1 DEF ChooseScorer
<1>2. CASE ReadLeft
  BY <1>2 DEF ReadLeft
<1>3. CASE ReadRight
  BY <1>3 DEF ReadRight
<1>4. CASE FailToRead
  BY <1>4 DEF FailToRead
<1>5. CASE Resolve
  BY <1>5 DEF Resolve
<1>6. CASE OpenOutput
  <2>1. /\ pc = "open" /\ pc' = "write" /\ UNCHANGED <<before, arguments, written>>
        /\ files' = [files EXCEPT ![arguments["output"]] = <<>>]
    BY <1>6 DEF OpenOutput
  <2> QED
    BY <2>1
<1>7. CASE FailToOpen
  BY <1>7 DEF FailToOpen
<1>8. CASE WriteLine
  BY <1>8 DEF WriteLine
<1>9. CASE Finish
  BY <1>9 DEF Finish
<1>10. CASE Kill
  BY <1>10 DEF Kill
<1>11. CASE Ended \/ UNCHANGED vars
  BY <1>11 DEF Ended, vars
<1>12. CASE FailToResolve
  BY <1>12 DEF FailToResolve
<1>13. CASE FailToWrite
  BY <1>13 DEF FailToWrite
<1> QED
  BY <1>1, <1>2, <1>3, <1>4, <1>5, <1>6, <1>7, <1>8, <1>9, <1>10, <1>11, <1>12, <1>13
     DEF Next

(* What was read stays as it was read, and links lead from it to it.        *)
LEMMA RecordsStep ==
  ASSUME CommandInv, [Next]_vars
  PROVE  RecordsInv'
<1> USE DEF CommandInv, RecordsInv, Goto
<1>1. CASE ChooseScorer
  BY <1>1 DEF ChooseScorer, Read, RowsOf, RightTypes
<1>2. CASE ReadLeft
  <2>1. /\ pc = "read left" /\ pc' = "read right"
        /\ UNCHANGED <<before, arguments, right, link>>
        /\ left' = RecordsIn(arguments["left"]) /\ Readable(arguments["left"])
    BY <1>2 DEF ReadLeft
  <2>2. files = before /\ before[arguments["left"]] \in Inputs \cup {Missing}
    BY <2>1 DEF FilesInv
  <2>3. RightTypes(left') /\ Read("left", left)'
    BY <2>1, <2>2, RecordsInIs DEF Read, RowsOf
  <2> QED
    BY <2>1, <2>3 DEF RightTypes
<1>3. CASE ReadRight
  <2>1. /\ pc = "read right" /\ pc' = "resolve"
        /\ UNCHANGED <<before, arguments, left, link>>
        /\ right' = RecordsIn(arguments["right"]) /\ Readable(arguments["right"])
    BY <1>3 DEF ReadRight
  <2>2. files = before /\ before[arguments["right"]] \in Inputs \cup {Missing}
    BY <2>1 DEF FilesInv
  <2>3. RightTypes(right') /\ Read("right", right)'
    BY <2>1, <2>2, RecordsInIs DEF Read, RowsOf
  <2>4. Read("left", left)'
    BY <2>1 DEF Read, RowsOf
  <2> QED
    BY <2>1, <2>3, <2>4 DEF RightTypes
<1>4. CASE FailToRead
  BY <1>4 DEF FailToRead, RightTypes
<1>5. CASE Resolve
  <2>1. /\ pc = "resolve" /\ pc' = "open"
        /\ UNCHANGED <<before, arguments, left, right>>
    BY <1>5 DEF Resolve
  <2>2. PICK linked \in SUBSET DOMAIN left : link' \in [linked -> DOMAIN right]
    BY <1>5 DEF Resolve
  <2>3. \A p \in DOMAIN link' : p \in DOMAIN left /\ link'[p] \in DOMAIN right
    BY <2>2
  <2> QED
    BY <2>1, <2>3 DEF Read, RowsOf, RightTypes
<1>6. CASE OpenOutput
  BY <1>6 DEF OpenOutput, Read, RowsOf, RightTypes
<1>7. CASE FailToOpen
  BY <1>7 DEF FailToOpen, RightTypes
<1>8. CASE WriteLine
  BY <1>8 DEF WriteLine, Read, RowsOf, RightTypes
<1>9. CASE Finish
  <2>1. /\ pc = "write" /\ pc' = "done" /\ written = ResolutionLines
        /\ UNCHANGED <<before, arguments, left, right, link, written>>
    BY <1>9 DEF Finish
  <2>2. ResolutionLines' = ResolutionLines
    BY <2>1 DEF ResolutionLines, Matched, Unmatched
  <2> QED
    BY <2>1, <2>2 DEF Read, RowsOf, RightTypes
<1>10. CASE Kill
  BY <1>10 DEF Kill, Read, RowsOf, RightTypes
<1>11. CASE Ended \/ UNCHANGED vars
  <2>1. UNCHANGED vars
    BY <1>11 DEF Ended
  <2>2. ResolutionLines' = ResolutionLines
    BY <2>1 DEF vars, ResolutionLines, Matched, Unmatched
  <2> QED
    BY <2>1, <2>2 DEF vars, Read, RowsOf, RightTypes
<1>12. CASE FailToResolve
  BY <1>12 DEF FailToResolve, Read, RowsOf, RightTypes
<1>13. CASE FailToWrite
  BY <1>13 DEF FailToWrite, Read, RowsOf, RightTypes
<1> QED
  BY <1>1, <1>2, <1>3, <1>4, <1>5, <1>6, <1>7, <1>8, <1>9, <1>10, <1>11, <1>12, <1>13
     DEF Next

(* A beginning of a sequence followed by the next of its elements is one.   *)
LEMMA LongerBeginning ==
  ASSUME NEW U, NEW lines \in Seq(U), NEW w \in Seq(U), Len(w) < Len(lines),
         DOMAIN w \subseteq DOMAIN lines, \A n \in DOMAIN w : w[n] = lines[n]
  PROVE  LET longer == Append(w, lines[Len(w) + 1])
         IN  /\ longer \in Seq(U) /\ DOMAIN longer \subseteq DOMAIN lines
             /\ \A n \in DOMAIN longer : longer[n] = lines[n]
<1> DEFINE longer == Append(w, lines[Len(w) + 1])
<1>1. Len(w) \in Nat /\ Len(lines) \in Nat /\ DOMAIN lines = 1..Len(lines)
  OBVIOUS
<1>2. Len(w) + 1 \in DOMAIN lines
  BY <1>1
<1>3. lines[Len(w) + 1] \in U
  BY <1>2
<1>4. longer \in Seq(U) /\ Len(longer) = Len(w) + 1 /\ longer[Len(w) + 1] = lines[Len(w) + 1]
      /\ \A n \in 1..Len(w) : longer[n] = w[n]
  BY <1>3
<1>5. \A n \in 1..(Len(w) + 1) : n \in 1..Len(w) \/ n = Len(w) + 1
  BY <1>1
<1> HIDE DEF longer
<1>6. DOMAIN longer = 1..(Len(w) + 1) /\ DOMAIN w = 1..Len(w)
  BY <1>4
<1>7. /\ longer \in Seq(U) /\ DOMAIN longer \subseteq DOMAIN lines
      /\ \A n \in DOMAIN longer : longer[n] = lines[n]
  BY <1>1, <1>2, <1>4, <1>5, <1>6
<1> QED
  BY <1>7 DEF longer

(* The empty sequence is a beginning of any.                                *)
LEMMA EmptyBeginning == DOMAIN <<>> = {} /\ \A U : <<>> \in Seq(U)
OBVIOUS

(* What is written is a beginning of the lines, and each line follows on.   *)
LEMMA WrittenStep ==
  ASSUME CommandInv, [Next]_vars, pc' \in {"open", "write", "done", "broken off"}
  PROVE  WrittenInv'
<1> DEFINE lines == ResolutionLines
<1>1. CASE Resolve
  <2>1. pc = "resolve" /\ UNCHANGED written
    BY <1>1 DEF Resolve, Goto
  <2>2. written' = <<>>
    BY <2>1 DEF CommandInv, FilesInv
  <2> QED
    BY <2>2, EmptyBeginning DEF WrittenInv
<1>2. CASE WriteLine
  <2>1. /\ pc = "write" /\ Len(written) < Len(lines) /\ UNCHANGED <<left, right, link>>
        /\ written' = Append(written, lines[Len(written) + 1])
    BY <1>2 DEF WriteLine, Goto
  <2>2. lines' = lines
    BY <2>1 DEF ResolutionLines, Matched, Unmatched
  <2>3. lines \in Seq({lines[n] : n \in DOMAIN lines})
    <3> DEFINE l == Cardinality(RowsOf(arguments["left"]))
               r == Cardinality(RowsOf(arguments["right"]))
    <3>1. /\ l \in Nat /\ DOMAIN left = 1..l /\ r \in Nat /\ DOMAIN right = 1..r
          /\ \A p \in DOMAIN link : p \in DOMAIN left /\ link[p] \in DOMAIN right
      BY <2>1 DEF CommandInv, RecordsInv, Read
    <3> HIDE DEF l, r, lines
    <3> QED
      BY <3>1, LinesAreASequence DEF lines
  <2>4. /\ written \in Seq({lines[n] : n \in DOMAIN lines})
        /\ DOMAIN written \subseteq DOMAIN lines
        /\ \A n \in DOMAIN written : written[n] = lines[n]
    BY <2>1 DEF CommandInv, WrittenInv
  <2> HIDE DEF lines
  <2>5. /\ written' \in Seq({lines[n] : n \in DOMAIN lines})
        /\ DOMAIN written' \subseteq DOMAIN lines
        /\ \A n \in DOMAIN written' : written'[n] = lines[n]
    <3> DEFINE U == {lines[n] : n \in DOMAIN lines}
    <3>1. /\ written \in Seq(U) /\ lines \in Seq(U) /\ Len(written) < Len(lines)
          /\ DOMAIN written \subseteq DOMAIN lines
          /\ \A n \in DOMAIN written : written[n] = lines[n]
      BY <2>1, <2>3, <2>4
    <3> HIDE DEF U
    <3>2. LET longer == Append(written, lines[Len(written) + 1])
          IN  /\ longer \in Seq(U) /\ DOMAIN longer \subseteq DOMAIN lines
              /\ \A n \in DOMAIN longer : longer[n] = lines[n]
      BY <3>1, LongerBeginning, Zenon
    <3>3. /\ written' \in Seq(U) /\ DOMAIN written' \subseteq DOMAIN lines
          /\ \A n \in DOMAIN written' : written'[n] = lines[n]
      BY <2>1, <3>2, Zenon
    <3> QED
      BY <3>3 DEF U
  <2> QED
    BY <2>2, <2>5 DEF WrittenInv, lines
<1>3. CASE OpenOutput \/ FailToWrite \/ Finish \/ Kill \/ Ended \/ UNCHANGED vars
  <2>1. /\ UNCHANGED <<left, right, link, written>>
        /\ pc \in {"open", "write", "done", "broken off"}
    BY <1>3 DEF OpenOutput, FailToWrite, Finish, Kill, Ended, Goto, vars
  <2>2. ResolutionLines' = ResolutionLines
    BY <2>1 DEF ResolutionLines, Matched, Unmatched
  <2>3. WrittenInv
    BY <2>1 DEF CommandInv
  <2> QED
    BY <2>1, <2>2, <2>3 DEF WrittenInv
<1> QED
  BY <1>1, <1>2, <1>3 DEF Next, ChooseScorer, ReadLeft, ReadRight, FailToRead,
     FailToResolve, FailToOpen, Goto

(* All three together are inductive.                                        *)
LEMMA CommandStep == CommandInv /\ [Next]_vars => CommandInv'
<1> SUFFICES ASSUME CommandInv, [Next]_vars PROVE CommandInv'
  OBVIOUS
<1>1. FilesInv' /\ RecordsInv'
  BY FilesStep, RecordsStep DEF CommandInv
<1>2. pc' \in {"open", "write", "done", "broken off"} => WrittenInv'
  BY WrittenStep
<1> QED
  BY <1>1, <1>2 DEF CommandInv

(* The types: records carry the ordinals of their rows, and links lead from *)
(* a left record to a right one.                                            *)
THEOREM TypeCorrect == Spec => []CommandTypeOK
<1>1. CommandInv => CommandTypeOK
  <2> SUFFICES ASSUME CommandInv PROVE CommandTypeOK
    OBVIOUS
  <2>1. \A path \in Paths \ {arguments["output"]} : files[path] \in Inputs \cup {Missing}
    BY DEF CommandInv, FilesInv
  <2> QED
    BY <2>1 DEF CommandTypeOK, CommandInv, FilesInv, RecordsInv, RightTypes
<1> QED
  BY <1>1, InitialCommand, CommandStep, PTL DEF Spec

(* Nothing but the output changes: not before everything has been read and  *)
(* resolved, and then, however the command ends, to a beginning of the new  *)
(* output.                                                                  *)
THEOREM OnlyTheOutputIsAtRisk == Spec => []OnlyTheOutputChanges
<1>1. CommandInv => OnlyTheOutputChanges
  BY DEF CommandInv, FilesInv, WrittenInv, OnlyTheOutputChanges
<1> QED
  BY <1>1, InitialCommand, CommandStep, PTL DEF Spec

(* Every row of both files is in the output of a command that ended, also   *)
(* when the output has replaced one of them.                                *)
THEOREM OutputIsComplete == Spec => []OutputAccountsForBothFiles
<1>1. CommandInv => OutputAccountsForBothFiles
  <2> SUFFICES ASSUME CommandInv, pc = "done" PROVE OutputAccountsForBothFiles
    BY DEF OutputAccountsForBothFiles
  <2> DEFINE l == Cardinality(RowsOf(arguments["left"]))
             r == Cardinality(RowsOf(arguments["right"]))
  <2>1. /\ l \in Nat /\ DOMAIN left = 1..l /\ r \in Nat /\ DOMAIN right = 1..r
        /\ \A p \in DOMAIN link : p \in DOMAIN left /\ link[p] \in DOMAIN right
    BY DEF CommandInv, RecordsInv, Read
  <2>2. files[arguments["output"]] = ResolutionLines
    BY DEF CommandInv, FilesInv, RecordsInv
  <2>3. Accounts(ResolutionLines, l, r)
    <3> HIDE DEF l, r
    <3> QED
      BY <2>1, LinesAccount
  <2> QED
    BY <2>2, <2>3 DEF Accounts, OutputAccountsForBothFiles
<1> QED
  BY <1>1, InitialCommand, CommandStep, PTL DEF Spec
=============================================================================
