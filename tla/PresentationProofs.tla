------------------------- MODULE PresentationProofs -------------------------
(* Proofs about Presentation.  A step makes a notice of an event, and nothing *)
(* changes either before the event is finished; so the invariants only say    *)
(* which notice belongs to which event, and the work is in the operators that *)
(* make it: detectors and tables, which cases decide, and what the parsers    *)
(* read from lines, rows, alerts and sections, one after the other.           *)
(*                                                                            *)
(* A fold goes through intermediate results (Recursion, and the ...Steps      *)
(* below); what is true of the first and kept by each step is true of the     *)
(* last (Induction), for sequences of any length.                             *)
EXTENDS Presentation, FiniteSetTheorems, SequenceTheorems, WellFoundedInduction, TLAPS

-----------------------------------------------------------------------------
(* Numbers.  A set of numbers has a least one, and with it there is induction *)
(* over the numbers up to a bound.                                           *)

\* The least of a set of numbers that has one.
LEMMA MinIs ==
    ASSUME NEW S \in SUBSET Nat, NEW k \in S, \A i \in S : k <= i
    PROVE  Min(S) = k
<1>1. \A x \in S : (\A y \in S : x =< y) => x = k
    OBVIOUS
<1> QED BY <1>1 DEF Min

\* A set of numbers that is not empty has a least one.
LEMMA Least ==
    ASSUME NEW T \in SUBSET Nat, T # {}
    PROVE  \E x \in T : \A y \in T : x <= y
<1> DEFINE R == OpToRel(<, Nat)
<1>1. IsWellFoundedOn(R, Nat)
    BY NatLessThanWellFounded
<1>2. \A x, y \in Nat : y < x => <<y, x>> \in R
    BY DEF OpToRel
<1> HIDE DEF R
<1>3. PICK x \in T : \A y \in T : ~ (<<y, x>> \in R)
    BY <1>1, WFMin
<1>4. ASSUME NEW y \in T PROVE x <= y
    <2>1. ~(y < x)
        BY <1>2, <1>3
    <2> QED BY <2>1
<1> QED BY <1>3, <1>4

\* Induction up to a number, for what is true of the members of a set.
LEMMA Induction ==
    ASSUME NEW n \in Nat, NEW P, 0 \in P, \A k \in 1..n : k - 1 \in P => k \in P
    PROVE  0..n \subseteq P
<1> DEFINE T == {k \in 0..n : k \notin P}
<1>1. T \in SUBSET Nat
    OBVIOUS
<1>2. ASSUME T # {} PROVE FALSE
    <2>1. PICK k \in T : \A y \in T : k <= y
        BY <1>1, <1>2, Least
    <2>2. k \in 1..n
        OBVIOUS
    <2>3. k - 1 \in 0..n /\ ~(k <= k - 1)
        BY <2>2
    <2>4. k - 1 \in P
        BY <2>1, <2>3
    <2> QED BY <2>2, <2>4
<1> QED BY <1>2

\* The greatest of a set of numbers that has one.
LEMMA MaxIs ==
    ASSUME NEW S \in SUBSET Int, NEW k \in S, \A i \in S : i <= k
    PROVE  Max(S) = k
<1>1. \A x \in S : (\A y \in S : x >= y) => x = k
    OBVIOUS
<1> QED BY <1>1 DEF Max

\* The greatest of some of the first numbers is one of them.
LEMMA MaxIn ==
    ASSUME NEW n \in Nat, NEW S \in SUBSET (1..n), S # {}
    PROVE  Max(S) \in S
<1> DEFINE T == {n - i : i \in S}
<1>1. T \in SUBSET Nat /\ T # {}
    <2>1. \A i \in S : n - i \in Nat
        OBVIOUS
    <2>2. PICK i \in S : TRUE
        OBVIOUS
    <2>3. n - i \in T
        OBVIOUS
    <2> QED BY <2>1, <2>3
<1>2. PICK t \in T : \A u \in T : t <= u
    BY <1>1, Least
<1>3. PICK k \in S : t = n - k
    BY <1>2
<1>4. ASSUME NEW i \in S PROVE i <= k
    <2>1. n - i \in T
        OBVIOUS
    <2>2. n - k <= n - i
        BY <1>2, <1>3, <2>1
    <2> QED BY <2>2
<1> QED BY <1>4, MaxIs

\* The least of a set of numbers is one of them.
LEMMA MinIn ==
    ASSUME NEW S \in SUBSET Nat, S # {}
    PROVE  Min(S) \in S /\ \A i \in S : Min(S) <= i
BY Least, MinIs

-----------------------------------------------------------------------------
(* Sequences.  What a fold computes, one element after the other.            *)

\* The function g gives every set of positions the value of a fold over them.
Folds(g, n, base, step) ==
    \A s \in SUBSET (1..n) : g[s] = IF s = {} THEN base ELSE step[<<Max(s), g[s \ {Max(s)}]>>]

\* Such a function exists.
LEMMA FoldExists ==
    ASSUME NEW n \in Nat, NEW A, NEW base \in A, NEW step \in [(1..n) \X A -> A]
    PROVE  \E g \in [SUBSET (1..n) -> A] : Folds(g, n, base, step)
<1> DEFINE folds(k, g) == \A s \in SUBSET (1..k) :
               g[s] = IF s = {} THEN base ELSE step[<<Max(s), g[s \ {Max(s)}]>>]
           exists(k) == \E g \in [SUBSET (1..k) -> A] : folds(k, g)
           P == {k \in 0..n : exists(k)}
<1>1. 0 \in P
    <2> DEFINE g == [s \in SUBSET (1..0) |-> base]
    <2>1. SUBSET (1..0) = {{}}
        OBVIOUS
    <2>2. g \in [SUBSET (1..0) -> A] /\ folds(0, g)
        BY <2>1
    <2>3. \E f \in [SUBSET (1..0) -> A] : folds(0, f)
        <3> HIDE DEF folds, g
        <3> QED BY <2>2
    <2>4. exists(0)
        BY <2>3
    <2>5. 0 \in 0..n
        OBVIOUS
    <2> HIDE DEF exists
    <2> QED BY <2>4, <2>5
<1>2. ASSUME NEW k \in 1..n, k - 1 \in P PROVE k \in P
    <2>1. PICK g \in [SUBSET (1..(k-1)) -> A] : folds(k - 1, g)
        BY <1>2
    <2> DEFINE h == [s \in SUBSET (1..k) |-> IF k \in s THEN step[<<k, g[s \ {k}]>>] ELSE g[s]]
    <2>2. ASSUME NEW s \in SUBSET (1..k)
          PROVE  /\ h[s] \in A
                 /\ h[s] = IF s = {} THEN base ELSE step[<<Max(s), h[s \ {Max(s)}]>>]
        <3>1. CASE k \in s
            <4>0. s \in SUBSET Int /\ \A i \in s : i <= k
                OBVIOUS
            <4>1. Max(s) = k
                BY <3>1, <4>0, MaxIs
            <4>2. s \ {k} \in SUBSET (1..(k-1)) /\ s \ {k} \in SUBSET (1..k) /\ k \notin s \ {k}
                OBVIOUS
            <4>3. h[s \ {k}] = g[s \ {k}] /\ g[s \ {k}] \in A
                BY <4>2
            <4>4. h[s] = step[<<k, g[s \ {k}]>>]
                BY <3>1
            <4>5. step[<<k, g[s \ {k}]>>] \in A
                BY <4>3
            <4> QED BY <3>1, <4>1, <4>3, <4>4, <4>5
        <3>2. CASE k \notin s
            <4>1. s \in SUBSET (1..(k-1)) /\ h[s] = g[s] /\ g[s] \in A
                BY <3>2
            <4>2. CASE s = {}
                BY <2>1, <4>1, <4>2
            <4>3. CASE s # {}
                <5>1. s \ {Max(s)} \in SUBSET (1..(k-1)) /\ k \notin s \ {Max(s)}
                    BY <3>2, <4>1
                <5>2. h[s \ {Max(s)}] = g[s \ {Max(s)}]
                    BY <5>1
                <5>3. g[s] = step[<<Max(s), g[s \ {Max(s)}]>>]
                    BY <2>1, <4>1, <4>3
                <5> QED BY <4>1, <4>3, <5>2, <5>3
            <4> QED BY <4>2, <4>3
        <3> QED BY <3>1, <3>2
    <2>3. h \in [SUBSET (1..k) -> A]
        BY <2>2
    <2>4. folds(k, h)
        BY <2>2
    <2>5. \E f \in [SUBSET (1..k) -> A] : folds(k, f)
        <3> HIDE DEF folds, h
        <3> QED BY <2>3, <2>4
    <2>6. exists(k)
        BY <2>5
    <2> HIDE DEF exists
    <2> QED BY <2>6
<1>3. n \in P
    <2> HIDE DEF P
    <2> QED BY <1>1, <1>2, Induction
<1>4. PICK g \in [SUBSET (1..n) -> A] : folds(n, g)
    BY <1>3
<1> HIDE DEF P
<1> QED BY <1>4 DEF Folds

\* The first numbers, as sets.
LEMMA Initials ==
    ASSUME NEW n \in Nat, NEW i \in 1..n
    PROVE  1..i \in SUBSET (1..n) /\ 1..i # {} /\ Max(1..i) = i /\ (1..i) \ {i} = 1..(i-1)
<1>1. Max(1..i) = i
    <2>1. (1..i) \in SUBSET Int /\ i \in 1..i /\ \A j \in 1..i : j <= i
        OBVIOUS
    <2> QED BY <2>1, MaxIs
<1> QED BY <1>1

\* The function h goes from base through the positions in their order.
Recurses(h, n, base, step) ==
    h[0] = base /\ \A i \in 1..n : h[i] = step[<<i, h[i - 1]>>]

\* Such a function exists.
LEMMA Recursion ==
    ASSUME NEW n \in Nat, NEW A, NEW base \in A, NEW step \in [(1..n) \X A -> A]
    PROVE  \E h \in [0..n -> A] : Recurses(h, n, base, step)
<1>1. PICK g \in [SUBSET (1..n) -> A] : Folds(g, n, base, step)
    BY FoldExists, Zenon
<1> DEFINE h == [i \in 0..n |-> g[1..i]]
<1>2. h \in [0..n -> A]
    <2>1. \A i \in 0..n : 1..i \in SUBSET (1..n)
        OBVIOUS
    <2> QED BY <2>1
<1>3. h[0] = base
    <2>1. 1..0 = {} /\ {} \in SUBSET (1..n) /\ 0 \in 0..n
        OBVIOUS
    <2>2. g[{}] = base
        BY <1>1, <2>1 DEF Folds
    <2> QED BY <2>1, <2>2
<1>4. ASSUME NEW i \in 1..n PROVE h[i] = step[<<i, h[i - 1]>>]
    <2> DEFINE s == 1..i
    <2>1. s \in SUBSET (1..n) /\ s # {} /\ Max(s) = i /\ s \ {i} = 1..(i-1)
        BY Initials
    <2> HIDE DEF s
    <2>2. g[s] = step[<<i, g[1..(i-1)]>>]
        BY <1>1, <2>1 DEF Folds
    <2>3. h[i] = g[s] /\ h[i - 1] = g[1..(i-1)]
        BY DEF s
    <2> QED BY <2>2, <2>3
<1> HIDE DEF h
<1> QED BY <1>2, <1>3, <1>4 DEF Recurses

\* What has been kept after each element of a sequence.
Keeping(kept, seq, set) ==
    /\ kept[0] = <<>>
    /\ \A i \in 1..Len(seq) :
           kept[i] = IF seq[i] \in set THEN Append(kept[i - 1], seq[i]) ELSE kept[i - 1]
    /\ Keep(seq, set) = kept[Len(seq)]

LEMMA KeepSteps ==
    ASSUME NEW S, NEW seq \in Seq(S), NEW set
    PROVE  \E kept \in [0..Len(seq) -> Seq(S)] : Keeping(kept, seq, set)
<1>1. PICK n \in Nat : n = Len(seq) /\ seq \in [1..n -> S]
    BY LenProperties
<1> DEFINE next(kept, i) == IF seq[i] \in set THEN Append(kept[i - 1], seq[i]) ELSE kept[i - 1]
           fold(kept) == [i \in 0..n |-> IF i = 0 THEN <<>>
                                         ELSE IF seq[i] \in set THEN Append(kept[i - 1], seq[i])
                                         ELSE kept[i - 1]]
           step == [p \in (1..n) \X Seq(S) |->
                       IF seq[p[1]] \in set THEN Append(p[2], seq[p[1]]) ELSE p[2]]
           kept == CHOOSE kept : kept = fold(kept)
<1>2. \A s \in Seq(S), i \in 1..n : Append(s, seq[i]) \in Seq(S)
    BY <1>1, AppendProperties
<1>3. step \in [(1..n) \X Seq(S) -> Seq(S)]
    BY <1>2
<1>4. PICK h \in [0..n -> Seq(S)] : Recurses(h, n, <<>>, step)
    <2>1. <<>> \in Seq(S)
        OBVIOUS
    <2> HIDE DEF step
    <2> QED BY <1>3, <2>1, Recursion, Zenon
<1>5. \A i \in 1..n : i \in 0..n /\ i - 1 \in 0..n /\ i # 0
    OBVIOUS
<1>6. ASSUME NEW i \in 1..n PROVE h[i] = next(h, i)
    <2>1. h[i - 1] \in Seq(S)
        BY <1>5
    <2>2. h[i] = step[<<i, h[i - 1]>>]
        BY <1>4 DEF Recurses
    <2> QED BY <2>1, <2>2
<1>7. h = fold(h)
    <2>1. ASSUME NEW i \in 0..n PROVE h[i] = fold(h)[i]
        <3>1. CASE i = 0
            BY <1>4, <3>1 DEF Recurses
        <3>2. CASE i # 0
            <4>1. i \in 1..n
                BY <3>2
            <4> QED BY <1>6, <3>2, <4>1
        <3> QED BY <3>1, <3>2
    <2> QED BY <2>1
<1>8. kept = fold(kept)
    <2> HIDE DEF fold
    <2> QED BY <1>7
<1>9. Keep(seq, set) = kept[n]
    BY <1>1 DEF Keep
<1> HIDE DEF kept
<1>10. kept[0] = <<>>
    <2>1. 0 \in 0..n
        OBVIOUS
    <2> QED BY <1>8, <2>1
<1>11. ASSUME NEW i \in 1..n PROVE kept[i] = next(kept, i)
    BY <1>5, <1>8
<1>12. \A i \in 0..n : kept[i] \in Seq(S)
    <2> DEFINE P == {i \in 0..n : kept[i] \in Seq(S)}
    <2>1. 0 \in P
        <3>1. 0 \in 0..n /\ <<>> \in Seq(S)
            OBVIOUS
        <3> QED BY <1>10, <3>1
    <2>2. ASSUME NEW i \in 1..n, i - 1 \in P PROVE i \in P
        BY <1>2, <1>5, <1>11, <2>2
    <2> HIDE DEF P
    <2>3. 0..n \subseteq P
        BY <2>1, <2>2, Induction
    <2> QED BY <2>3 DEF P
<1>13. kept \in [0..n -> Seq(S)]
    <2>1. DOMAIN kept = 0..n /\ kept = [i \in DOMAIN kept |-> kept[i]]
        BY <1>8
    <2> QED BY <1>12, <2>1
<1>14. Keeping(kept, seq, set)
    BY <1>1, <1>9, <1>10, <1>11 DEF Keeping
<1> QED BY <1>1, <1>13, <1>14

\* The sequence r has the elements of the first n of seq that are in the set, and
\* at says at which place each of them was: in the order of seq, and all of them.
Picks(at, r, seq, n, set) ==
    /\ at \in [1..Len(r) -> 1..n]
    /\ \A j, k \in 1..Len(r) : j < k => at[j] < at[k]
    /\ \A j \in 1..Len(r) : r[j] = seq[at[j]] /\ seq[at[j]] \in set
    /\ \A i \in 1..n : seq[i] \in set => \E j \in 1..Len(r) : at[j] = i

LEMMA PicksNext ==
    ASSUME NEW S, NEW seq \in Seq(S), NEW set, NEW n \in 1..Len(seq), NEW r \in Seq(S),
           \E at : Picks(at, r, seq, n - 1, set)
    PROVE  \E at : Picks(at, IF seq[n] \in set THEN Append(r, seq[n]) ELSE r, seq, n, set)
<1>1. PICK at : Picks(at, r, seq, n - 1, set)
    OBVIOUS
<1>2. PICK l \in Nat : l = Len(r)
    BY LenProperties
<1>3. /\ at \in [1..l -> 1..(n - 1)]
      /\ \A j, k \in 1..l : j < k => at[j] < at[k]
      /\ \A j \in 1..l : r[j] = seq[at[j]] /\ seq[at[j]] \in set
      /\ \A i \in 1..(n - 1) : seq[i] \in set => \E j \in 1..l : at[j] = i
    BY <1>1, <1>2 DEF Picks
<1>4. n \in Nat /\ n >= 1
    BY LenProperties
<1>5. \A i \in 1..n : i \in 1..(n - 1) \/ i = n
    BY <1>4
<1>6. 1..(n - 1) \subseteq 1..n
    BY <1>4
<1>7. CASE seq[n] \in set
    <2> DEFINE new == [j \in 1..(l + 1) |-> IF j = l + 1 THEN n ELSE at[j]]
               more == Append(r, seq[n])
    <2>1. seq[n] \in S
        BY LenProperties
    <2>2. /\ Len(more) = l + 1
          /\ \A j \in 1..l : more[j] = r[j]
          /\ more[l + 1] = seq[n]
        BY <1>2, <2>1, AppendProperties
    <2> HIDE DEF more
    <2>3. \A j \in 1..(l + 1) : (j \in 1..l /\ j # l + 1) \/ j = l + 1
        OBVIOUS
    <2>4. \A j \in 1..l : new[j] = at[j] /\ at[j] \in 1..(n - 1)
        BY <1>3
    <2>5. new[l + 1] = n
        OBVIOUS
    <2>6. new \in [1..(l + 1) -> 1..n]
        BY <1>3, <1>4, <1>6, <2>3
    <2> HIDE DEF new
    <2>7. ASSUME NEW j \in 1..(l + 1), NEW k \in 1..(l + 1), j < k PROVE new[j] < new[k]
        <3>1. j \in 1..l
            BY <2>7
        <3>2. CASE k = l + 1
            BY <1>4, <2>4, <2>5, <3>1, <3>2
        <3>3. CASE k # l + 1
            <4>1. k \in 1..l
                BY <3>3
            <4> QED BY <1>3, <2>4, <2>7, <3>1, <4>1
        <3> QED BY <3>2, <3>3
    <2>8. ASSUME NEW j \in 1..(l + 1) PROVE more[j] = seq[new[j]] /\ seq[new[j]] \in set
        BY <1>3, <1>7, <2>2, <2>3, <2>4, <2>5
    <2>9. ASSUME NEW i \in 1..n, seq[i] \in set PROVE \E j \in 1..(l + 1) : new[j] = i
        <3>1. CASE i = n
            <4>1. l + 1 \in 1..(l + 1)
                OBVIOUS
            <4> QED BY <2>5, <3>1, <4>1
        <3>2. CASE i # n
            <4>1. PICK j \in 1..l : at[j] = i
                BY <1>3, <1>5, <2>9, <3>2
            <4>2. j \in 1..(l + 1)
                OBVIOUS
            <4> QED BY <2>4, <4>1, <4>2
        <3> QED BY <3>1, <3>2
    <2>10. Picks(new, more, seq, n, set)
        BY <2>2, <2>6, <2>7, <2>8, <2>9 DEF Picks
    <2> QED BY <1>7, <2>10 DEF more
<1>8. CASE seq[n] \notin set
    <2>1. at \in [1..l -> 1..n]
        BY <1>3, <1>6
    <2>2. Picks(at, r, seq, n, set)
        BY <1>2, <1>3, <1>5, <1>8, <2>1 DEF Picks
    <2> QED BY <1>8, <2>2
<1> QED BY <1>7, <1>8

\* Keep keeps the elements that are in the set, all of them and in their order.
LEMMA KeepPicks ==
    ASSUME NEW S, NEW seq \in Seq(S), NEW set
    PROVE  /\ Keep(seq, set) \in Seq(S)
           /\ \E at : Picks(at, Keep(seq, set), seq, Len(seq), set)
<1>1. PICK kept \in [0..Len(seq) -> Seq(S)] : Keeping(kept, seq, set)
    BY KeepSteps
<1>2. PICK n \in Nat : n = Len(seq)
    BY LenProperties
<1> DEFINE P == {i \in 0..n : \E at : Picks(at, kept[i], seq, i, set)}
<1>3. 0 \in P
    <2> DEFINE at == [j \in 1..0 |-> 1]
    <2>1. Len(<<>>) = 0 /\ 1..0 = {} /\ 0 \in 0..n
        OBVIOUS
    <2>2. Picks(at, <<>>, seq, 0, set)
        BY <2>1 DEF Picks
    <2>3. \E f : Picks(f, kept[0], seq, 0, set)
        BY <1>1, <2>2 DEF Keeping
    <2> QED BY <2>1, <2>3
<1>4. ASSUME NEW i \in 1..n, i - 1 \in P PROVE i \in P
    <2>1. kept[i - 1] \in Seq(S) /\ i \in 0..n
        BY <1>2
    <2>2. \E at : Picks(at, kept[i - 1], seq, i - 1, set)
        BY <1>4
    <2>3. \E at : Picks(at, kept[i], seq, i, set)
        <3>1. PICK r \in Seq(S) : r = kept[i - 1]
            BY <2>1
        <3>2. i \in 1..Len(seq) /\ \E at : Picks(at, r, seq, i - 1, set)
            BY <1>2, <2>2, <3>1
        <3>3. \E at : Picks(at, IF seq[i] \in set THEN Append(r, seq[i]) ELSE r, seq, i, set)
            BY <3>2, PicksNext
        <3>4. kept[i] = IF seq[i] \in set THEN Append(r, seq[i]) ELSE r
            BY <1>1, <1>2, <3>1 DEF Keeping
        <3> QED BY <3>3, <3>4
    <2> QED BY <2>1, <2>3
<1>5. n \in P
    <2> HIDE DEF P
    <2>1. 0..n \subseteq P
        BY <1>3, <1>4, Induction
    <2> QED BY <2>1
<1> QED BY <1>1, <1>2, <1>5 DEF Keeping

\* What is kept is what is in the set.
LEMMA KeepSet ==
    ASSUME NEW S, NEW seq \in Seq(S), NEW set
    PROVE  /\ Keep(seq, set) \in Seq(S)
           /\ ToSet(Keep(seq, set)) = ToSet(seq) \cap set
           /\ Keep(seq, set) = <<>> <=> ToSet(seq) \cap set = {}
<1> DEFINE r == Keep(seq, set)
<1>1. r \in Seq(S)
    BY KeepPicks
<1>2. PICK at : Picks(at, r, seq, Len(seq), set)
    BY KeepPicks
<1>3. /\ DOMAIN r = 1..Len(r) /\ DOMAIN seq = 1..Len(seq)
      /\ Len(r) \in Nat
    BY <1>1, LenProperties
<1> HIDE DEF r
<1>4. \A x : x \in ToSet(r) <=> x \in ToSet(seq) \cap set
    <2>1. ASSUME NEW j \in DOMAIN r PROVE r[j] \in ToSet(seq) /\ r[j] \in set
        <3>1. at[j] \in DOMAIN seq /\ r[j] = seq[at[j]] /\ seq[at[j]] \in set
            BY <1>2, <1>3 DEF Picks
        <3> QED BY <3>1 DEF ToSet
    <2>2. ASSUME NEW i \in DOMAIN seq, seq[i] \in set PROVE seq[i] \in ToSet(r)
        <3>1. PICK j \in DOMAIN r : at[j] = i
            BY <1>2, <1>3, <2>2 DEF Picks
        <3>2. r[j] = seq[i]
            BY <1>2, <1>3, <3>1 DEF Picks
        <3> QED BY <3>2 DEF ToSet
    <2> QED BY <2>1, <2>2 DEF ToSet
<1>5. r = <<>> <=> ToSet(r) = {}
    <2>1. r = <<>> => ToSet(r) = {}
        BY DEF ToSet
    <2>2. ASSUME r # <<>> PROVE ToSet(r) # {}
        <3>1. 1 \in DOMAIN r
            BY <1>1, <1>3, <2>2, EmptySeq
        <3> QED BY <3>1 DEF ToSet
    <2> QED BY <2>1, <2>2
<1> QED BY <1>1, <1>4, <1>5 DEF r

\* What holds before a step and after it holds all the way.
LEMMA TypedSteps ==
    ASSUME NEW n \in Nat, NEW A, NEW h, h[0] \in A,
           \A i \in 1..n : h[i - 1] \in A => h[i] \in A
    PROVE  \A i \in 0..n : h[i] \in A
<1> DEFINE P == {i \in 0..n : h[i] \in A}
<1>1. 0 \in P
    OBVIOUS
<1>2. ASSUME NEW i \in 1..n, i - 1 \in P PROVE i \in P
    BY <1>2
<1> HIDE DEF P
<1>3. 0..n \subseteq P
    BY <1>1, <1>2, Induction
<1> QED BY <1>3 DEF P

\* The elements of a sequence.
LEMMA ToSetIs ==
    ASSUME NEW S, NEW seq \in Seq(S)
    PROVE  /\ ToSet(seq) \in SUBSET S
           /\ \A i \in 1..Len(seq) : seq[i] \in ToSet(seq)
           /\ \A x \in ToSet(seq) : \E i \in 1..Len(seq) : x = seq[i]
BY LenProperties DEF ToSet

LEMMA Elements ==
    ASSUME NEW S, NEW seq \in Seq(S), NEW n \in Nat, n = Len(seq)
    PROVE  \A x : x \in ToSet(seq) <=> \E i \in 1..n : x = seq[i]
BY LenProperties DEF ToSet

\* The elements of two sequences, one after the other.
LEMMA ConcatIs ==
    ASSUME NEW S, NEW s \in Seq(S), NEW t \in Seq(S)
    PROVE  s \o t \in Seq(S) /\ ToSet(s \o t) = ToSet(s) \union ToSet(t)
<1>1. PICK m \in Nat, n \in Nat : m = Len(s) /\ n = Len(t)
    BY LenProperties
<1>2. PICK r \in Seq(S) : r = s \o t
    BY ConcatProperties
<1>3. Len(r) = m + n
    BY <1>1, <1>2, ConcatProperties
<1>4. \A i \in 1..(m + n) : r[i] = IF i <= m THEN s[i] ELSE t[i - m]
    BY <1>1, <1>2, ConcatProperties
<1>5. ASSUME NEW x \in ToSet(r) PROVE x \in ToSet(s) \union ToSet(t)
    <2>1. PICK i \in 1..(m + n) : x = r[i]
        BY <1>3, ToSetIs
    <2>2. CASE i <= m
        <3>1. i \in 1..m /\ x = s[i]
            BY <1>4, <2>1, <2>2
        <3> QED BY <1>1, <3>1, ToSetIs
    <2>3. CASE ~(i <= m)
        <3>1. i - m \in 1..n /\ x = t[i - m]
            BY <1>4, <2>1, <2>3
        <3> QED BY <1>1, <3>1, ToSetIs
    <2> QED BY <2>2, <2>3
<1>6. ASSUME NEW x \in ToSet(s) PROVE x \in ToSet(r)
    <2>1. PICK i \in 1..m : x = s[i]
        BY <1>1, ToSetIs
    <2>2. i \in 1..(m + n) /\ r[i] = s[i]
        BY <1>4
    <2> QED BY <1>3, <2>1, <2>2, ToSetIs
<1>7. ASSUME NEW x \in ToSet(t) PROVE x \in ToSet(r)
    <2>1. PICK i \in 1..n : x = t[i]
        BY <1>1, ToSetIs
    <2>2. i + m \in 1..(m + n) /\ r[i + m] = t[i]
        <3>1. i + m \in 1..(m + n) /\ ~(i + m <= m) /\ (i + m) - m = i
            OBVIOUS
        <3> QED BY <1>4, <3>1
    <2> QED BY <1>3, <2>1, <2>2, ToSetIs
<1>8. \A x : x \in ToSet(r) <=> x \in ToSet(s) \union ToSet(t)
    BY <1>5, <1>6, <1>7
<1> QED BY <1>2, <1>8

\* Sequences joined, one after the other.
Joins(h, n, seqs) ==
    /\ h[0] = <<>>
    /\ \A i \in 1..n : h[i] = h[i - 1] \o seqs[i]
    /\ FlattenSeq(seqs) = h[n]

LEMMA FlattenSteps ==
    ASSUME NEW S, NEW n \in Nat, NEW seqs \in [1..n -> Seq(S)]
    PROVE  \E h \in [0..n -> Seq(S)] : Joins(h, n, seqs)
<1>1. Len(seqs) = n /\ seqs \in Seq(Seq(S))
    <2>1. seqs \in Seq(Seq(S))
        OBVIOUS
    <2>2. DOMAIN seqs = 1..Len(seqs) /\ Len(seqs) \in Nat
        BY <2>1, LenProperties
    <2>3. 1..n = 1..Len(seqs)
        BY <2>2
    <2> QED BY <2>1, <2>2, <2>3
<1>2. CASE n = 0
    <2>1. FlattenSeq(seqs) = seqs
        BY <1>1, <1>2 DEF FlattenSeq
    <2>2. seqs = <<>>
        BY <1>1, <1>2, EmptySeq
    <2> DEFINE h == [i \in 0..n |-> <<>>]
    <2>3. h \in [0..n -> Seq(S)] /\ h[0] = <<>> /\ h[n] = <<>>
        OBVIOUS
    <2>4. \A i \in 1..n : FALSE
        BY <1>2
    <2> HIDE DEF h
    <2>5. Joins(h, n, seqs)
        BY <2>1, <2>2, <2>3, <2>4 DEF Joins
    <2> QED BY <2>3, <2>5
<1>3. CASE n # 0
    <2> DEFINE step == [p \in (1..n) \X Seq(S) |-> p[2] \o seqs[p[1]]]
               fold(f) == [i \in 1..n |-> IF i = 1 THEN seqs[i] ELSE f[i - 1] \o seqs[i]]
               flatten == CHOOSE f : f = fold(f)
               h == [i \in 0..n |-> IF i = 0 THEN <<>> ELSE flatten[i]]
    <2>1. \A s \in Seq(S), i \in 1..n : s \o seqs[i] \in Seq(S)
        BY ConcatProperties
    <2>2. PICK g \in [0..n -> Seq(S)] : Recurses(g, n, <<>>, step)
        <3>1. step \in [(1..n) \X Seq(S) -> Seq(S)]
            BY <2>1
        <3>2. <<>> \in Seq(S)
            OBVIOUS
        <3> HIDE DEF step
        <3> QED BY <3>1, <3>2, Recursion, Zenon
    <2>3. g[0] = <<>>
        BY <2>2 DEF Recurses
    <2>4. ASSUME NEW i \in 1..n PROVE i - 1 \in 0..n /\ g[i] = g[i - 1] \o seqs[i]
        <3>1. i - 1 \in 0..n
            OBVIOUS
        <3>2. g[i - 1] \in Seq(S)
            BY <3>1
        <3>3. g[i] = step[<<i, g[i - 1]>>]
            BY <2>2 DEF Recurses
        <3> QED BY <3>1, <3>2, <3>3
    <2> HIDE DEF step
    <2> DEFINE f == [i \in 1..n |-> g[i]]
    <2>5. f = fold(f)
        <3>1. ASSUME NEW i \in 1..n PROVE f[i] = fold(f)[i]
            <4>1. CASE i = 1
                <5>1. seqs[i] \in Seq(S) /\ g[i] = g[i - 1] \o seqs[i]
                    BY <2>4
                <5>2. g[i - 1] = <<>>
                    BY <2>3, <4>1
                <5>3. g[i] = seqs[i]
                    BY <5>1, <5>2, ConcatEmptySeq
                <5> QED BY <4>1, <5>3
            <4>2. CASE i # 1
                <5>1. i - 1 \in 1..n /\ f[i - 1] = g[i - 1]
                    BY <4>2
                <5> QED BY <2>4, <4>2, <5>1
            <4> QED BY <4>1, <4>2
        <3> QED BY <3>1
    <2>6. flatten = fold(flatten)
        <3> HIDE DEF fold, f
        <3> QED BY <2>5
    <2>7. FlattenSeq(seqs) = flatten[n]
        BY <1>1, <1>3 DEF FlattenSeq
    <2> HIDE DEF flatten
    <2>8. h[0] = <<>> /\ h[n] = flatten[n]
        BY <1>3
    <2>9. ASSUME NEW i \in 1..n PROVE h[i] = h[i - 1] \o seqs[i]
        <3>1. CASE i = 1
            <4>1. h[1] = seqs[1] /\ seqs[1] \in Seq(S)
                BY <2>6, <3>1
            <4> QED BY <2>8, <3>1, <4>1, ConcatEmptySeq
        <3>2. CASE i # 1
            <4>1. h[i] = flatten[i] /\ h[i - 1] = flatten[i - 1]
                BY <3>2
            <4> QED BY <2>6, <3>2, <4>1
        <3> QED BY <3>1, <3>2
    <2> HIDE DEF h
    <2>10. \A i \in 0..n : h[i] \in Seq(S)
        <3>1. h[0] \in Seq(S)
            BY <2>8
        <3>2. \A i \in 1..n : h[i - 1] \in Seq(S) => h[i] \in Seq(S)
            BY <2>1, <2>9
        <3> QED BY <3>1, <3>2, TypedSteps
    <2>11. h \in [0..n -> Seq(S)]
        BY <2>10 DEF h
    <2>12. Joins(h, n, seqs)
        BY <2>7, <2>8, <2>9 DEF Joins
    <2> QED BY <2>11, <2>12
<1> QED BY <1>2, <1>3

\* The elements of sequences that are joined.
LEMMA FlattenIs ==
    ASSUME NEW S, NEW n \in Nat, NEW seqs \in [1..n -> Seq(S)]
    PROVE  /\ FlattenSeq(seqs) \in Seq(S)
           /\ \A x : x \in ToSet(FlattenSeq(seqs)) <=> \E k \in 1..n : x \in ToSet(seqs[k])
<1>1. PICK h \in [0..n -> Seq(S)] : Joins(h, n, seqs)
    BY FlattenSteps
<1> DEFINE joined(i) == \A x : x \in ToSet(h[i]) <=> \E k \in 1..i : x \in ToSet(seqs[k])
           P == {i \in 0..n : joined(i)}
<1>2. joined(0)
    BY <1>1 DEF Joins, ToSet
<1>3. ASSUME NEW i \in 1..n, joined(i - 1) PROVE joined(i)
    <2>1. PICK s \in Seq(S), t \in Seq(S) : s = h[i - 1] /\ t = seqs[i]
        <3>1. i - 1 \in 0..n
            OBVIOUS
        <3> QED BY <3>1
    <2>2. ToSet(h[i]) = ToSet(h[i - 1]) \union ToSet(seqs[i])
        <3>1. h[i] = s \o t
            BY <1>1, <2>1 DEF Joins
        <3> QED BY <2>1, <3>1, ConcatIs
    <2>3. \A k : k \in 1..i <=> k \in 1..(i - 1) \/ k = i
        OBVIOUS
    <2> QED BY <1>3, <2>2, <2>3
<1>4. joined(n)
    <2>1. 0 \in P
        <3>1. 0 \in 0..n
            OBVIOUS
        <3> HIDE DEF joined
        <3> QED BY <1>2, <3>1
    <2>2. ASSUME NEW i \in 1..n, i - 1 \in P PROVE i \in P
        <3>1. i \in 0..n
            OBVIOUS
        <3> HIDE DEF joined
        <3> QED BY <1>3, <2>2, <3>1
    <2>3. n \in P
        <3> HIDE DEF P
        <3>1. 0..n \subseteq P
            BY <2>1, <2>2, Induction
        <3> QED BY <3>1
    <2> HIDE DEF joined
    <2> QED BY <2>3
<1>5. FlattenSeq(seqs) = h[n] /\ h[n] \in Seq(S)
    BY <1>1 DEF Joins
<1> QED BY <1>4, <1>5

-----------------------------------------------------------------------------
(* The detectors.                                                            *)

\* More text holds no fewer of the marks that are counted.
LEMMA MoreMarks ==
    ASSUME NEW small, NEW large, small \subseteq large, NEW list, IsFiniteSet(list)
    PROVE  /\ Has(small, list) => Has(large, list)
           /\ Count(small, list) \in Nat /\ Count(large, list) \in Nat
           /\ Count(small, list) <= Count(large, list)
<1>1. IsFiniteSet(large \intersect list)
    BY FS_Subset
<1>2. small \intersect list \subseteq large \intersect list
    OBVIOUS
<1>3. IsFiniteSet(small \intersect list)
    BY <1>1, <1>2, FS_Subset
<1>4. Cardinality(small \intersect list) <= Cardinality(large \intersect list)
    BY <1>1, <1>2, FS_Subset
<1>5. /\ Cardinality(small \intersect list) \in Nat
      /\ Cardinality(large \intersect list) \in Nat
    BY <1>1, <1>3, FS_CardinalityType
<1> QED BY <1>2, <1>4, <1>5 DEF Has, Count

LEMMA ListsFinite ==
    /\ IsFiniteSet(QnapFields)
    /\ IsFiniteSet(GrafanaFields)
<1>1. \A a, b, c, d : IsFiniteSet({a, b, c, d})
    <2> TAKE a, b, c, d
    <2>1. IsFiniteSet({}) /\ IsFiniteSet({} \cup {a})
        BY FS_EmptySet, FS_AddElement
    <2>2. IsFiniteSet(({} \cup {a}) \cup {b})
        BY <2>1, FS_AddElement
    <2>3. IsFiniteSet((({} \cup {a}) \cup {b}) \cup {c})
        BY <2>2, FS_AddElement
    <2>4. IsFiniteSet(((({} \cup {a}) \cup {b}) \cup {c}) \cup {d})
        BY <2>3, FS_AddElement
    <2>5. {a, b, c, d} = ((({} \cup {a}) \cup {b}) \cup {c}) \cup {d}
        OBVIOUS
    <2> QED BY <2>4, <2>5
<1>2. {"grafana folder", "labels", "values"}
          = {"grafana folder", "labels", "values", "values"}
    OBVIOUS
<1> QED BY <1>1, <1>2 DEF QnapFields, GrafanaFields

\* What is left of a mail without what it quotes.
LEMMA QuotelessFields ==
    ASSUME NEW mail \in Mails
    PROVE  /\ Quoteless(mail).from = mail.from
           /\ Quoteless(mail).subject = mail.subject
           /\ VisibleBody(Quoteless(mail)) = VisibleBody(mail)
           /\ WholeBody(Quoteless(mail)) \subseteq WholeBody(mail)
<1>1. DOMAIN mail = {"from", "subject", "body", "quoted"}
    BY PresentationAssumption
<1>2. /\ Quoteless(mail).from = mail.from
      /\ Quoteless(mail).subject = mail.subject
      /\ Quoteless(mail).body = mail.body
      /\ Quoteless(mail).quoted = {}
    BY <1>1 DEF Quoteless
<1> QED BY <1>2 DEF VisibleBody, WholeBody

\* A detector that wants a mail without its quoted text wants the whole mail.
LEMMA QnapMonotone ==
    ASSUME NEW mail \in Mails, IsQnap(Quoteless(mail))
    PROVE  IsQnap(mail)
<1> DEFINE less == Quoteless(mail)
           body == WholeBody(mail)
           part == WholeBody(less)
<1>1. less.from = mail.from /\ less.subject = mail.subject /\ part \subseteq body
    BY QuotelessFields
<1>2. /\ Count(part, QnapFields) \in Nat /\ Count(body, QnapFields) \in Nat
      /\ Count(part, QnapFields) <= Count(body, QnapFields)
    BY <1>1, MoreMarks, ListsFinite
<1>3. \A list : Has(part, list) => Has(body, list)
    BY <1>1 DEF Has
<1>4. Has(less.subject \union part, QnapProduct) => Has(mail.subject \union body, QnapProduct)
    BY <1>1 DEF Has
<1>5. IsQnap(less)
    OBVIOUS
<1> HIDE DEF less, body, part
<1> QED BY <1>1, <1>2, <1>3, <1>4, <1>5 DEF IsQnap, body, part

LEMMA GrafanaMonotone ==
    ASSUME NEW mail \in Mails, IsGrafana(Quoteless(mail))
    PROVE  IsGrafana(mail)
<1> DEFINE less == Quoteless(mail)
           body == WholeBody(mail)
           part == WholeBody(less)
<1>1. less.from = mail.from /\ less.subject = mail.subject /\ part \subseteq body
    BY QuotelessFields
<1>2. /\ Count(part, GrafanaFields) \in Nat /\ Count(body, GrafanaFields) \in Nat
      /\ Count(part, GrafanaFields) <= Count(body, GrafanaFields)
    BY <1>1, MoreMarks, ListsFinite
<1>3. \A list : Has(part, list) => Has(body, list)
    BY <1>1 DEF Has
<1>4. "grafana folder" \in part => "grafana folder" \in body
    BY <1>1
<1>5. /\ Count(part, GrafanaFields) >= 1 => Count(body, GrafanaFields) >= 1
      /\ Count(part, GrafanaFields) >= 2 => Count(body, GrafanaFields) >= 2
      /\ Count(part, GrafanaFields) >= 3 => Count(body, GrafanaFields) >= 3
    BY <1>2
<1>6. IsGrafana(less)
    OBVIOUS
<1> HIDE DEF less, body, part
<1> QED BY <1>1, <1>3, <1>4, <1>5, <1>6, Zenon DEF IsGrafana, body, part

LEMMA HardwareMonotone ==
    ASSUME NEW mail \in Mails, IsHardware(Quoteless(mail))
    PROVE  IsHardware(mail)
<1>1. /\ Quoteless(mail).from = mail.from
      /\ Quoteless(mail).subject \union WholeBody(Quoteless(mail))
             \subseteq mail.subject \union WholeBody(mail)
    BY QuotelessFields
<1> QED BY <1>1 DEF IsHardware, Has

\* The detectors that are asked before TrueNAS's, and that one.
Before == {"xo", "zabbix", "proxmox", "qnap", "grafana", "synology", "hardware"}

LEMMA DetectorNames ==
    /\ DOMAIN Detectors = 1..9
    /\ \A i \in 1..7 : Detectors[i] \in Before
    /\ Detectors[8] = "truenas"
    /\ \A i \in 1..9 : Detectors[i] = "truenas" => i = 8
BY DEF Detectors, Before

LEMMA EarlierMonotone ==
    ASSUME NEW mail \in Mails, NEW d \in Before, Detects(d, Quoteless(mail))
    PROVE  Detects(d, mail)
<1> USE QuotelessFields
<1>1. CASE d = "xo"
    BY <1>1 DEF Detects
<1>2. CASE d = "zabbix"
    BY <1>2 DEF Detects
<1>3. CASE d = "proxmox"
    BY <1>3 DEF Detects, IsProxmox
<1>4. CASE d = "qnap"
    BY <1>4, QnapMonotone DEF Detects
<1>5. CASE d = "grafana"
    BY <1>5, GrafanaMonotone DEF Detects
<1>6. CASE d = "synology"
    BY <1>6 DEF Detects, IsSynology
<1>7. CASE d = "hardware"
    BY <1>7, HardwareMonotone DEF Detects
<1> QED BY <1>1, <1>2, <1>3, <1>4, <1>5, <1>6, <1>7 DEF Before

\* TrueNAS's detector reads nothing that is quoted.
LEMMA TrueNASReadsTheVisible ==
    ASSUME NEW mail \in Mails
    PROVE  Detects("truenas", Quoteless(mail)) <=> Detects("truenas", mail)
BY QuotelessFields DEF Detects, IsTrueNAS, IsTrueNASIn

\* A mail is TrueNAS's when its detector is the first that says yes.
Takers(mail) == {i \in DOMAIN Detectors : Detects(Detectors[i], mail)}

LEMMA FirstDetector ==
    ASSUME NEW mail
    PROVE  Recognise(mail) = "truenas" <=>
               8 \in Takers(mail) /\ \A i \in 1..7 : i \notin Takers(mail)
<1> DEFINE S == Takers(mail)
<1>1. S \subseteq 1..9
    BY DetectorNames DEF Takers
<1>2. CASE S = {}
    BY <1>2 DEF Recognise, Takers
<1>3. CASE S # {}
    <2>1. Recognise(mail) = Detectors[Min(S)]
        BY <1>3 DEF Recognise, Takers
    <2>2. PICK k \in S : \A i \in S : k <= i
        <3> HIDE DEF S
        <3>1. ASSUME \A k \in S : \E i \in S : ~(k <= i) PROVE FALSE
            <4>1. \A k \in 1..9 : (\A j \in 1..9 : j < k => j \notin S) => k \notin S
                BY <1>1, <3>1
            <4>2. 1 \notin S /\ 2 \notin S /\ 3 \notin S
                BY <4>1
            <4>3. 4 \notin S /\ 5 \notin S /\ 6 \notin S
                BY <4>1, <4>2
            <4>4. 7 \notin S /\ 8 \notin S /\ 9 \notin S
                BY <4>1, <4>2, <4>3
            <4>5. \A k \in 1..9 : k \notin S
                BY <4>2, <4>3, <4>4
            <4> QED BY <1>1, <1>3, <4>5
        <3> QED BY <3>1
    <2>3. Min(S) = k /\ k \in 1..9
        BY <1>1, <2>2, MinIs
    <2>4. Recognise(mail) = "truenas" <=> k = 8
        BY <2>1, <2>3, DetectorNames
    <2> HIDE DEF S
    <2>5. k = 8 <=> 8 \in S /\ \A i \in 1..7 : i \notin S
        BY <1>1, <2>2, <2>3
    <2> QED BY <2>4, <2>5 DEF S
<1> QED BY <1>2, <1>3

\* A mail that is TrueNAS's is so without what it quotes.
LEMMA QuotelessToo ==
    ASSUME NEW mail \in Mails, Recognise(mail) = "truenas"
    PROVE  Recognise(Quoteless(mail)) = "truenas"
<1>1. 8 \in Takers(mail) /\ \A i \in 1..7 : i \notin Takers(mail)
    BY FirstDetector
<1>2. 8 \in Takers(Quoteless(mail))
    BY <1>1, DetectorNames, TrueNASReadsTheVisible DEF Takers
<1>3. ASSUME NEW i \in 1..7, i \in Takers(Quoteless(mail)) PROVE FALSE
    <2>1. Detectors[i] \in Before /\ i \in DOMAIN Detectors
        BY DetectorNames
    <2>2. Detects(Detectors[i], Quoteless(mail))
        BY <1>3 DEF Takers
    <2>3. Detects(Detectors[i], mail)
        BY <2>1, <2>2, EarlierMonotone
    <2> QED BY <1>1, <2>1, <2>3 DEF Takers
<1> QED BY <1>2, <1>3, FirstDetector

\* No detector wants a mail that has none but the words any sender may use.
LEMMA WeakIsGeneric ==
    ASSUME NEW mail, mail.from = "other",
           mail.subject \union WholeBody(mail) \subseteq WeakMarks
    PROVE  Recognise(mail) = "generic"
<1> DEFINE strong == QnapBrand \union QnapProduct \union GrafanaBrand \union GrafanaUrl
                         \union TrueNASHeader \union HardwareBrand \union DriveBrand
                         \union {"truenas", "proxmox", "synology"}
<1>1. \A m \in strong : m \notin WeakMarks
    BY DEF WeakMarks, QnapBrand, QnapProduct, QnapWeak, QnapFields, GrafanaBrand, GrafanaWeak,
           GrafanaFields, GrafanaUrl, TrueNASHeader, TrueNASSection, TrueNASTest,
           HardwareBrand, HardwareEvent, DriveBrand, DriveEvent
<1>2. \A m \in strong : m \notin mail.subject /\ m \notin WholeBody(mail)
    BY <1>1
<1> HIDE DEF strong
<1>3. \A list : list \subseteq strong =>
          ~Has(mail.subject, list) /\ ~Has(WholeBody(mail), list)
    BY <1>2 DEF Has
<1>4. /\ QnapBrand \subseteq strong /\ QnapProduct \subseteq strong
      /\ GrafanaBrand \subseteq strong /\ GrafanaUrl \subseteq strong
      /\ TrueNASHeader \subseteq strong /\ HardwareBrand \subseteq strong
      /\ DriveBrand \subseteq strong /\ "grafana folder" \in strong
      /\ "proxmox" \in strong /\ "synology" \in strong
    BY DEF strong, GrafanaBrand
<1>5. VisibleBody(mail) \subseteq WholeBody(mail)
    BY DEF VisibleBody, WholeBody
<1>6. ~IsProxmox(mail) /\ ~IsSynology(mail)
    BY <1>2, <1>4 DEF IsProxmox, IsSynology
<1>7. ~IsQnap(mail)
    <2>1. ~Has(mail.subject \union WholeBody(mail), QnapProduct)
        BY <1>3, <1>4 DEF Has
    <2> QED BY <1>3, <1>4, <2>1, Zenon DEF IsQnap
<1>8. ~IsGrafana(mail)
    BY <1>2, <1>3, <1>4, Zenon DEF IsGrafana
<1>9. ~IsHardware(mail)
    BY <1>3, <1>4 DEF IsHardware, Has
<1>10. ~IsTrueNAS(mail)
    <2>1. ~Has(VisibleBody(mail), TrueNASHeader)
        BY <1>3, <1>4, <1>5 DEF Has
    <2> QED BY <2>1 DEF IsTrueNAS, IsTrueNASIn
<1>11. ~IsUniFiDrive(mail)
    BY DEF IsUniFiDrive
<1>12. ASSUME NEW i \in DOMAIN Detectors PROVE ~Detects(Detectors[i], mail)
    <2>1. Detectors[i] \in Before \union {"truenas", "unifi_drive"}
        BY DEF Detectors, Before
    <2>2. ASSUME NEW d \in Before \union {"truenas", "unifi_drive"} PROVE ~Detects(d, mail)
        BY <1>6, <1>7, <1>8, <1>9, <1>10, <1>11 DEF Detects, Before
    <2> QED BY <2>1, <2>2
<1> QED BY <1>12 DEF Recognise

-----------------------------------------------------------------------------
(* The cards.                                                                *)

\* A list of three is asked in its order.
LEMMA FirstOfThree ==
    ASSUME NEW a, NEW b, NEW c, NEW A, NEW B, NEW C, NEW words
    PROVE  FirstOf(<< <<a, A>>, <<b, B>>, <<c, C>> >>, words) =
               IF Has(words, A) THEN a
               ELSE IF Has(words, B) THEN b
               ELSE IF Has(words, C) THEN c
               ELSE "information"
<1> DEFINE list == << <<a, A>>, <<b, B>>, <<c, C>> >>
           hits == {i \in DOMAIN list : Has(words, list[i][2])}
<1>1. /\ DOMAIN list = {1, 2, 3}
      /\ list[1][1] = a /\ list[2][1] = b /\ list[3][1] = c
      /\ list[1][2] = A /\ list[2][2] = B /\ list[3][2] = C
    OBVIOUS
<1>2. /\ hits \in SUBSET {1, 2, 3}
      /\ 1 \in hits <=> Has(words, A)
      /\ 2 \in hits <=> Has(words, B)
      /\ 3 \in hits <=> Has(words, C)
    BY <1>1
<1>3. FirstOf(list, words) = IF hits = {} THEN "information" ELSE list[Min(hits)][1]
    BY DEF FirstOf
<1> HIDE DEF list, hits
<1>4. ASSUME NEW k \in hits, \A i \in hits : k <= i PROVE FirstOf(list, words) = list[k][1]
    <2>1. hits \in SUBSET Nat
        BY <1>2
    <2> QED BY <1>3, <1>4, <2>1, MinIs
<1>5. CASE Has(words, A)
    <2>1. 1 \in hits /\ \A i \in hits : 1 <= i
        BY <1>2, <1>5
    <2>2. FirstOf(list, words) = list[1][1]
        BY <1>4, <2>1
    <2> QED BY <1>1, <1>5, <2>2 DEF list
<1>6. CASE ~Has(words, A) /\ Has(words, B)
    <2>1. 2 \in hits /\ \A i \in hits : 2 <= i
        BY <1>2, <1>6
    <2>2. FirstOf(list, words) = list[2][1]
        BY <1>4, <2>1
    <2> QED BY <1>1, <1>6, <2>2 DEF list
<1>7. CASE ~Has(words, A) /\ ~Has(words, B) /\ Has(words, C)
    <2>1. 3 \in hits /\ \A i \in hits : 3 <= i
        BY <1>2, <1>7
    <2>2. FirstOf(list, words) = list[3][1]
        BY <1>4, <2>1
    <2> QED BY <1>1, <1>7, <2>2 DEF list
<1>8. CASE ~Has(words, A) /\ ~Has(words, B) /\ ~Has(words, C)
    <2>1. hits = {}
        BY <1>2, <1>8
    <2> QED BY <1>3, <1>8, <2>1 DEF list
<1> QED BY <1>5, <1>6, <1>7, <1>8

\* The two formatters ask the same questions in the same order.
LEMMA CardsAgree ==
    ASSUME NEW n
    PROVE  DiscordCard(n) = TeamsCard(n)
<1> DEFINE status == n.status
           severity == Severity(n)
<1>1. \A word, list : Has({word}, list) <=> word \in list
    BY DEF Has
<1>2. DiscordStatus(status, severity) =
          IF status \in Good THEN "resolved"
          ELSE IF status \in Bad THEN "critical"
          ELSE IF status \in Uneasy THEN "warning"
          ELSE "information"
    BY <1>1, FirstOfThree DEF DiscordStatus
<1>3. FirstOf(<< <<"critical", Bad>>, <<"warning", Uneasy>>, <<"resolved", Good>> >>, {severity}) =
          IF severity \in Bad THEN "critical"
          ELSE IF severity \in Uneasy THEN "warning"
          ELSE IF severity \in Good THEN "resolved"
          ELSE "information"
    BY <1>1, FirstOfThree
<1>4. Good \cap Bad = {} /\ Good \cap Uneasy = {} /\ Bad \cap Uneasy = {}
    BY DEF Good, Bad, Uneasy
<1>5. DiscordFamily(status, severity) = TeamsFamily(status, severity)
    BY <1>2, <1>3, <1>4 DEF DiscordFamily, TeamsFamily
<1> QED BY <1>5 DEF DiscordCard, TeamsCard

\* What went well is green, whatever its severity is.
LEMMA SuccessIsResolved ==
    ASSUME NEW n, n.status = "success"
    PROVE  {DiscordCard(n), TeamsCard(n)} = {"resolved"}
<1>1. TeamsCard(n) = "resolved"
    BY DEF TeamsCard, TeamsFamily, Good, Bad, Uneasy
<1> QED BY <1>1, CardsAgree

-----------------------------------------------------------------------------
(* The digests of TrueNAS.                                                   *)

\* An alert is merged into those before it: no condition is lost.
LEMMA MergeKeeps ==
    ASSUME NEW unique \in Seq(Alerts), NEW alert \in Alerts
    PROVE  LET merged == Merge(unique, alert)
           IN  /\ merged \in Seq(Alerts)
               /\ \A i \in DOMAIN unique :
                      i \in DOMAIN merged /\ Condition(merged[i]) = Condition(unique[i])
               /\ \E i \in DOMAIN merged : Condition(merged[i]) = Condition(alert)
<1> DEFINE same == {i \in DOMAIN unique : Condition(unique[i]) = Condition(alert)}
           merged == Merge(unique, alert)
<1>1. Len(unique) \in Nat /\ DOMAIN unique = 1..Len(unique)
    BY LenProperties
<1>2. CASE same = {}
    <2>1. merged = Append(unique, alert)
        BY <1>2 DEF Merge
    <2>2. /\ merged \in Seq(Alerts)
          /\ DOMAIN merged = 1..(Len(unique) + 1)
          /\ \A i \in 1..Len(unique) : merged[i] = unique[i]
          /\ merged[Len(unique) + 1] = alert
        BY <2>1, AppendProperties, LenProperties
    <2> HIDE DEF merged
    <2>3. Len(unique) + 1 \in DOMAIN merged
        BY <1>1, <2>2
    <2>4. \A i \in DOMAIN unique : i \in DOMAIN merged
        BY <1>1, <2>2
    <2> QED BY <1>1, <2>2, <2>3, <2>4 DEF merged
<1>3. CASE same # {}
    <2> DEFINE i == Min(same)
    <2>1. i \in same
        <3>1. same \in SUBSET Nat
            BY <1>1
        <3> QED BY <1>3, <3>1, MinIn
    <2>2. merged = IF alert.type = "new" /\ unique[i].type = "current"
                   THEN [unique EXCEPT ![i] = alert] ELSE unique
        BY <1>3 DEF Merge
    <2> HIDE DEF i
    <2>3. i \in DOMAIN unique /\ Condition(unique[i]) = Condition(alert)
        BY <2>1
    <2> HIDE DEF merged, same
    <2>4. CASE merged = unique
        BY <2>3, <2>4 DEF merged
    <2>5. CASE merged = [unique EXCEPT ![i] = alert]
        <3>1. /\ merged \in Seq(Alerts)
              /\ DOMAIN merged = DOMAIN unique
              /\ \A j \in DOMAIN unique : merged[j] = IF j = i THEN alert ELSE unique[j]
            BY <1>1, <2>3, <2>5, ExceptSeq
        <3> QED BY <2>3, <3>1 DEF merged
    <2> QED BY <2>2, <2>4, <2>5
<1> QED BY <1>2, <1>3

\* The alerts that are kept, one alert after the other.
LEMMA DeduplicatedSteps ==
    ASSUME NEW n \in Nat, NEW alerts \in [1..n -> Alerts]
    PROVE  \E kept : /\ kept[0] = <<>>
                     /\ \A i \in 1..n : kept[i] = Merge(kept[i - 1], alerts[i])
                     /\ Deduplicated(alerts) = kept[n]
<1> DEFINE A == Seq(Alerts)
           step == [p \in (1..n) \X A |-> Merge(p[2], alerts[p[1]])]
           fold(iter) == [s \in SUBSET DOMAIN alerts |->
               IF s = {} THEN <<>>
               ELSE LET x == Max(s) IN Merge(iter[s \ {x}], alerts[x])]
           iter == CHOOSE iter : iter = fold(iter)
           kept == [i \in 0..n |-> iter[1..i]]
<1>1. Deduplicated(alerts) = iter[DOMAIN alerts]
    BY DEF Deduplicated, FoldLeft, MapThenFoldSet
<1>2. PICK g \in [SUBSET (1..n) -> A] : Folds(g, n, <<>>, step)
    <2>1. step \in [(1..n) \X A -> A]
        BY MergeKeeps
    <2>2. <<>> \in A
        OBVIOUS
    <2> HIDE DEF step, A
    <2>3. n \in Nat
        OBVIOUS
    <2> QED BY <2>1, <2>2, <2>3, FoldExists, Zenon
<1>3. g = fold(g)
    <2>1. ASSUME NEW s \in SUBSET (1..n), s # {}
          PROVE  step[<<Max(s), g[s \ {Max(s)}]>>] = Merge(g[s \ {Max(s)}], alerts[Max(s)])
        <3>1. Max(s) \in s
            BY <2>1, MaxIn
        <3>2. Max(s) \in 1..n /\ g[s \ {Max(s)}] \in A
            BY <3>1
        <3> QED BY <3>2
    <2> HIDE DEF step
    <2> QED BY <1>2, <2>1 DEF Folds
<1>4. iter = fold(iter)
    <2> HIDE DEF fold
    <2> QED BY <1>3
<1> HIDE DEF iter
<1>5. iter[{}] = <<>>
    BY <1>4
<1>6. ASSUME NEW i \in 1..n PROVE iter[1..i] = Merge(iter[1..(i-1)], alerts[i])
    <2> DEFINE s == 1..i
    <2>1. s \in SUBSET DOMAIN alerts /\ s # {} /\ Max(s) = i /\ s \ {i} = 1..(i-1)
        BY Initials
    <2> HIDE DEF s
    <2>2. iter[s] = Merge(iter[s \ {Max(s)}], alerts[Max(s)])
        BY <1>4, <2>1
    <2> QED BY <2>1, <2>2 DEF s
<1>7. kept[0] = <<>> /\ kept[n] = iter[1..n]
    <2>1. 1..0 = {}
        OBVIOUS
    <2> QED BY <1>5, <2>1
<1>8. ASSUME NEW i \in 1..n PROVE kept[i] = Merge(kept[i-1], alerts[i])
    BY <1>6
<1> HIDE DEF kept
<1> QED BY <1>1, <1>7, <1>8

\* Each alert of a digest has one of the same condition among those that are kept.
LEMMA DeduplicatedCovers ==
    ASSUME NEW n \in Nat, NEW alerts \in [1..n -> Alerts]
    PROVE  LET kept == Deduplicated(alerts)
           IN  /\ kept \in Seq(Alerts)
               /\ \A i \in 1..n :
                      \E k \in DOMAIN kept : Condition(kept[k]) = Condition(alerts[i])
<1>1. PICK kept : /\ kept[0] = <<>>
                  /\ \A i \in 1..n : kept[i] = Merge(kept[i - 1], alerts[i])
                  /\ Deduplicated(alerts) = kept[n]
    BY DeduplicatedSteps
<1> DEFINE covers(j) ==
               /\ kept[j] \in Seq(Alerts)
               /\ \A i \in 1..j :
                      \E k \in DOMAIN kept[j] : Condition(kept[j][k]) = Condition(alerts[i])
           P == {j \in 0..n : covers(j)}
<1>2. covers(0)
    BY <1>1
<1>3. ASSUME NEW j \in 1..n, covers(j - 1) PROVE covers(j)
    <2> DEFINE merged == kept[j]
               unique == kept[j - 1]
    <2>1. merged = Merge(unique, alerts[j]) /\ unique \in Seq(Alerts) /\ alerts[j] \in Alerts
        BY <1>1, <1>3
    <2>0. \A i \in 1..(j-1) :
              \E k \in DOMAIN unique : Condition(unique[k]) = Condition(alerts[i])
        BY <1>3
    <2> HIDE DEF merged, unique
    <2>2. /\ merged \in Seq(Alerts)
          /\ \A k \in DOMAIN unique :
                 k \in DOMAIN merged /\ Condition(merged[k]) = Condition(unique[k])
          /\ \E k \in DOMAIN merged : Condition(merged[k]) = Condition(alerts[j])
        BY <2>1, MergeKeeps
    <2>3. ASSUME NEW i \in 1..j
          PROVE  \E k \in DOMAIN merged : Condition(merged[k]) = Condition(alerts[i])
        <3>1. CASE i = j
            BY <2>2, <3>1
        <3>2. CASE i # j
            <4>1. i \in 1..(j-1)
                BY <3>2
            <4>2. PICK k \in DOMAIN unique : Condition(unique[k]) = Condition(alerts[i])
                BY <2>0, <4>1
            <4> QED BY <2>2, <4>2
        <3> QED BY <3>1, <3>2
    <2> QED BY <2>2, <2>3 DEF merged
<1>4. n \in P
    <2>1. 0 \in P
        <3>1. 0 \in 0..n
            OBVIOUS
        <3> HIDE DEF covers
        <3> QED BY <1>2, <3>1
    <2>2. ASSUME NEW j \in 1..n, j - 1 \in P PROVE j \in P
        <3>1. j \in 0..n
            OBVIOUS
        <3> HIDE DEF covers
        <3> QED BY <1>3, <2>2, <3>1
    <2> HIDE DEF P
    <2>3. 0..n \subseteq P
        BY <2>1, <2>2, Induction
    <2> QED BY <2>3
<1>5. covers(n)
    <2> HIDE DEF covers
    <2> QED BY <1>4
<1> QED BY <1>1, <1>5

\* How much an alert weighs in the choice of the primary one.
RankOf(alert) == Rank[AlertState(alert).status]

\* An active alert weighs more than one that is over, a critical one most.
LEMMA AlertRanks ==
    ASSUME NEW alert \in Alerts
    PROVE  /\ RankOf(alert) \in 1..4
           /\ alert.type \in {"new", "current"} => RankOf(alert) >= 3
           /\ alert.type \in {"new", "current"} /\ alert.message = "pool failed"
                => RankOf(alert) = 4
           /\ RankOf(alert) = 4 => AlertState(alert) = Notice("failure", "critical")
           /\ RankOf(alert) = 3 => AlertState(alert) = Notice("warning", "warning")
<1>1. alert.type \in AlertTypes
    BY DEF Alerts
<1>2. CASE alert.type = "cleared"
    BY <1>2 DEF RankOf, Rank, AlertState, Notice
<1>3. CASE alert.type = "test"
    BY <1>3 DEF RankOf, Rank, AlertState, Notice
<1>4. CASE alert.type \notin {"cleared", "test"} /\ alert.message = "pool failed"
    <2>1. AlertState(alert) = Notice("failure", "critical")
        BY <1>4 DEF AlertState
    <2>2. RankOf(alert) = 4
        BY <2>1 DEF RankOf, Rank, Notice
    <2>3. RankOf(alert) \in 1..4 /\ RankOf(alert) >= 3 /\ RankOf(alert) # 3
        BY <2>2
    <2> QED BY <2>1, <2>2, <2>3, Zenon
<1>5. CASE alert.type \notin {"cleared", "test"} /\ alert.message # "pool failed"
    <2>1. AlertState(alert) = Notice("warning", "warning")
        BY <1>5 DEF AlertState
    <2>2. RankOf(alert) = 3
        BY <2>1 DEF RankOf, Rank, Notice
    <2>3. RankOf(alert) \in 1..4 /\ RankOf(alert) >= 3 /\ RankOf(alert) # 4
        BY <2>2
    <2> QED BY <1>5, <2>1, <2>2, <2>3, Zenon
<1> QED BY <1>1, <1>2, <1>3, <1>4, <1>5 DEF AlertTypes

\* The primary alert is one of the list, and none weighs more.
LEMMA PrimaryIsWorst ==
    ASSUME NEW alerts \in Seq(Alerts), alerts # <<>>
    PROVE  /\ Primary(alerts) \in Alerts
           /\ \A i \in DOMAIN alerts : RankOf(alerts[i]) <= RankOf(Primary(alerts))
<1> DEFINE worst == {i \in DOMAIN alerts :
                        \A j \in DOMAIN alerts : RankOf(alerts[j]) <= RankOf(alerts[i])}
           T == {4 - RankOf(alerts[i]) : i \in DOMAIN alerts}
<1>1. /\ Len(alerts) \in Nat \ {0} /\ DOMAIN alerts = 1..Len(alerts)
      /\ \A i \in DOMAIN alerts : alerts[i] \in Alerts
    BY EmptySeq, LenProperties
<1>2. \A i \in DOMAIN alerts : RankOf(alerts[i]) \in 1..4
    BY <1>1, AlertRanks
<1>3. worst # {}
    <2>1. T \in SUBSET Nat /\ T # {}
        <3>1. \A i \in DOMAIN alerts : 4 - RankOf(alerts[i]) \in Nat
            BY <1>2
        <3>2. 1 \in DOMAIN alerts
            BY <1>1
        <3>3. 4 - RankOf(alerts[1]) \in T
            BY <3>2
        <3> QED BY <3>1, <3>3
    <2>2. PICK t \in T : \A u \in T : t <= u
        BY <2>1, Least
    <2>3. PICK i \in DOMAIN alerts : t = 4 - RankOf(alerts[i])
        BY <2>2
    <2>4. ASSUME NEW j \in DOMAIN alerts PROVE RankOf(alerts[j]) <= RankOf(alerts[i])
        <3>1. 4 - RankOf(alerts[j]) \in T
            OBVIOUS
        <3>2. 4 - RankOf(alerts[i]) <= 4 - RankOf(alerts[j])
            BY <2>2, <2>3, <3>1
        <3> QED BY <1>2, <3>2
    <2> QED BY <2>4
<1>4. Primary(alerts) = alerts[Min(worst)]
    BY DEF Primary, RankOf
<1>5. Min(worst) \in worst
    <2>1. worst \in SUBSET Nat
        BY <1>1
    <2> HIDE DEF worst
    <2> QED BY <1>3, <2>1, MinIn
<1> QED BY <1>1, <1>4, <1>5

\* The parts that are read of a digest, the alerts they come to, and among these each that
\* a part lists which is no test.
LEMMA ReadPartsAre ==
    ASSUME NEW digest \in Digests
    PROVE  ReadParts(digest) \in Seq(DigestParts)
<1>1. PICK parts : parts = digest.parts
    OBVIOUS
<1>2. parts \in Seq(DigestParts)
    BY <1>1, DigestsAssumption
<1>3. \A set : Keep(parts, set) \in Seq(DigestParts)
    <2> HIDE DEF DigestParts
    <2> QED BY <1>2, KeepSet
<1>4. \A type : PartsOf(digest, type) = Keep(parts, {p \in ToSet(parts) : p.type = type /\ ~p.attached})
    BY <1>1 DEF PartsOf
<1>5. \A type : PartsOf(digest, type) \in Seq(DigestParts)
    BY <1>3, <1>4
<1> QED BY <1>5 DEF ReadParts

LEMMA PartAlerts ==
    ASSUME NEW part \in DigestParts
    PROVE  /\ AlertsOf(part) \in Seq(Alerts)
           /\ ~part.test => AlertsOf(part) = part.listed
           /\ part.listed \in Seq(Sectioned)
<1>1. part.listed \in Seq(Sectioned)
    BY DEF DigestParts
<1>2. Sectioned \subseteq Alerts
    BY DEF Sectioned, Alerts, AlertTypes
<1>3. part.listed \in Seq(Alerts)
    <2> HIDE DEF Sectioned, Alerts
    <2>1. PICK n \in Nat : n = Len(part.listed) /\ part.listed \in [1..n -> Sectioned]
        BY <1>1, LenProperties
    <2>2. part.listed \in [1..n -> Alerts]
        BY <1>2, <2>1
    <2> QED BY <2>2
<1>4. TestAlert \in Alerts
    BY DEF TestAlert, Alerts, AlertTypes
<1>5. <<TestAlert>> \in Seq(Alerts)
    BY <1>4
<1> QED BY <1>1, <1>3, <1>5 DEF AlertsOf

LEMMA DigestListed ==
    ASSUME NEW digest \in Digests
    PROVE  /\ AlertsIn(digest) \in Seq(Alerts)
           /\ \A alert \in Listed(digest) :
                  alert \in Sectioned /\ alert \in ToSet(AlertsIn(digest))
<1> DEFINE parts == ReadParts(digest)
<1>1. parts \in Seq(DigestParts)
    BY ReadPartsAre
<1>2. AlertsIn(digest) = FlattenSeq([i \in DOMAIN parts |-> AlertsOf(parts[i])])
    BY DEF AlertsIn
<1>3. Listed(digest) = UNION {ToSet(p.listed) : p \in {q \in ToSet(parts) : ~q.test}}
    BY DEF Listed
<1> HIDE DEF parts
<1>4. PICK n \in Nat : n = Len(parts) /\ DOMAIN parts = 1..n
                       /\ \A i \in 1..n : parts[i] \in DigestParts
    BY <1>1, LenProperties
<1> DEFINE seqs == [i \in 1..n |-> AlertsOf(parts[i])]
<1>5. seqs \in [1..n -> Seq(Alerts)]
    BY <1>4, PartAlerts
<1>6. AlertsIn(digest) = FlattenSeq(seqs)
    BY <1>2, <1>4
<1>7. \A i \in 1..n : seqs[i] = AlertsOf(parts[i])
    OBVIOUS
<1> HIDE DEF seqs
<1>8. /\ AlertsIn(digest) \in Seq(Alerts)
      /\ \A x : x \in ToSet(AlertsIn(digest)) <=> \E k \in 1..n : x \in ToSet(seqs[k])
    BY <1>5, <1>6, FlattenIs
<1>9. ASSUME NEW alert \in Listed(digest)
      PROVE  alert \in Sectioned /\ alert \in ToSet(AlertsIn(digest))
    <2>1. PICK p \in ToSet(parts) : ~p.test /\ alert \in ToSet(p.listed)
        BY <1>3, <1>9
    <2>2. PICK i \in 1..n : p = parts[i]
        BY <1>4, <2>1 DEF ToSet
    <2>3. p \in DigestParts
        BY <1>4, <2>2
    <2>4. p.listed \in Seq(Sectioned) /\ seqs[i] = p.listed
        BY <1>7, <2>1, <2>2, <2>3, PartAlerts
    <2>5. alert \in ToSet(seqs[i])
        BY <2>1, <2>4
    <2>6. alert \in Sectioned
        BY <2>1, <2>4, ToSetIs
    <2> QED BY <1>8, <2>5, <2>6
<1> QED BY <1>8, <1>9

\* ... and one of the same condition is kept.
LEMMA ListedKept ==
    ASSUME NEW digest \in Digests, NEW alert \in Listed(digest)
    PROVE  LET kept == Deduplicated(AlertsIn(digest))
           IN  /\ kept \in Seq(Alerts)
               /\ \E k \in DOMAIN kept :
                      /\ kept[k] \in Alerts
                      /\ Condition(kept[k]) = Condition(alert)
               /\ alert \in Sectioned
<1>1. PICK alerts \in Seq(Alerts) : alerts = AlertsIn(digest)
    BY DigestListed
<1>2. alert \in Sectioned /\ alert \in ToSet(alerts)
    BY <1>1, DigestListed
<1>3. PICK n \in Nat : n = Len(alerts) /\ alerts \in [1..n -> Alerts]
    BY LenProperties
<1>4. PICK i \in 1..n : alert = alerts[i]
    BY <1>2, <1>3, ToSetIs
<1> DEFINE kept == Deduplicated(alerts)
<1>5. kept \in Seq(Alerts) /\ \E k \in DOMAIN kept : Condition(kept[k]) = Condition(alert)
    BY <1>3, <1>4, DeduplicatedCovers
<1> HIDE DEF kept
<1>6. \A k \in DOMAIN kept : kept[k] \in Alerts
    BY <1>5, LenProperties
<1>7. kept = Deduplicated(AlertsIn(digest))
    BY <1>1 DEF kept
<1> QED BY <1>2, <1>5, <1>6, <1>7

\* What a digest with an active alert is shown as.
LEMMA DigestShown ==
    ASSUME NEW digest \in Digests, notice = TrueNASDigest(digest),
           NEW alert \in Active(Listed(digest))
    PROVE  /\ Cards \subseteq {"warning", "critical"}
           /\ alert.message = "pool failed" => Cards = {"critical"}
<1> DEFINE kept == Deduplicated(AlertsIn(digest))
           first == Primary(kept)
<1>1. alert \in Listed(digest) /\ alert.type \in {"new", "current"}
    BY DEF Active
<1>2. kept \in Seq(Alerts) /\ alert \in Sectioned
    BY <1>1, ListedKept
<1>3. PICK k \in DOMAIN kept : kept[k] \in Alerts /\ Condition(kept[k]) = Condition(alert)
    BY <1>1, ListedKept
<1>4. notice = IF kept # <<>> THEN AlertState(first)
               ELSE IF digest.line # ""
                    THEN AlertState([type |-> "unknown", message |-> digest.line])
               ELSE Notice("information", "information")
    BY DEF TrueNASDigest
<1> HIDE DEF kept
<1>5. kept # <<>>
    BY <1>3
<1>6. kept[k].type \in {"new", "current"} /\ kept[k].message = alert.message
    BY <1>1, <1>2, <1>3 DEF Condition, Alerts, AlertTypes, Sectioned
<1>7. first \in Alerts /\ RankOf(kept[k]) <= RankOf(first)
    BY <1>2, <1>3, <1>5, PrimaryIsWorst
<1> HIDE DEF first
<1>8. /\ RankOf(first) \in {3, 4}
      /\ alert.message = "pool failed" => RankOf(first) = 4
    <2>1. /\ RankOf(kept[k]) \in 1..4 /\ RankOf(first) \in 1..4 /\ RankOf(kept[k]) >= 3
          /\ alert.message = "pool failed" => RankOf(kept[k]) = 4
        BY <1>3, <1>6, <1>7, AlertRanks
    <2>2. /\ RankOf(first) \in {3, 4}
          /\ RankOf(kept[k]) = 4 => RankOf(first) = 4
        <3>1. \A q, r \in 1..4 : q <= r /\ q >= 3 => r \in {3, 4} /\ (q = 4 => r = 4)
            OBVIOUS
        <3> QED BY <1>7, <2>1, <3>1, Zenon
    <2> QED BY <2>1, <2>2, Zenon
<1>9. /\ RankOf(first) = 4 => Cards = {"critical"}
      /\ RankOf(first) = 3 => Cards = {"warning"}
    <2>1. Cards = {TeamsCard(notice)}
        BY CardsAgree DEF Cards
    <2>2. TeamsCard(Notice("failure", "critical")) = "critical"
        BY DEF TeamsCard, TeamsFamily, Notice, Good, Bad, Uneasy
    <2>3. TeamsCard(Notice("warning", "warning")) = "warning"
        BY DEF TeamsCard, TeamsFamily, Notice, Good, Bad, Uneasy
    <2>4. notice = AlertState(first)
        BY <1>4, <1>5
    <2> QED BY <1>7, <2>1, <2>2, <2>3, <2>4, AlertRanks
<1> QED BY <1>8, <1>9

\* A digest is shown as its worst active alert.
LEMMA ActiveShown ==
    ASSUME source = "truenas" => event \in Digests /\ notice = TrueNASDigest(event)
    PROVE  ActiveAlertShown
<1> SUFFICES ASSUME source = "truenas", event \in Digests, notice = TrueNASDigest(event)
             PROVE  ActiveAlertShown
    BY DEF ActiveAlertShown
<1>1. ASSUME NEW alert \in Listed(event)
      PROVE  \E other \in ToSet(Deduplicated(AlertsIn(event))) :
                /\ other.message = alert.message
                /\ other.type = "cleared" <=> alert.type = "cleared"
    <2> DEFINE kept == Deduplicated(AlertsIn(event))
    <2>1. PICK k \in DOMAIN kept : kept[k] \in Alerts /\ Condition(kept[k]) = Condition(alert)
        BY ListedKept
    <2>2. alert \in Sectioned
        BY ListedKept
    <2> HIDE DEF kept
    <2>3. /\ kept[k].message = alert.message
          /\ kept[k].type = "cleared" <=> alert.type = "cleared"
        BY <2>1, <2>2 DEF Condition, Alerts, AlertTypes, Sectioned
    <2>4. kept[k] \in ToSet(kept)
        BY <2>1 DEF ToSet
    <2> QED BY <2>3, <2>4 DEF kept
<1>2. Active(Listed(event)) # {} => Cards \subseteq {"warning", "critical"}
    BY DigestShown
<1>3. (\E alert \in Active(Listed(event)) : alert.message = "pool failed") => Cards = {"critical"}
    BY DigestShown
<1> QED BY <1>1, <1>2, <1>3 DEF ActiveAlertShown

-----------------------------------------------------------------------------
(* Fields, and how lines change them.                                        *)

Fields == UNION {[labels -> Sayings] : labels \in SUBSET Labels}

LEMMA FieldsAre ==
    \A f : f \in Fields <=> /\ f = [l \in DOMAIN f |-> f[l]]
                            /\ DOMAIN f \in SUBSET Labels
                            /\ \A l \in DOMAIN f : f[l] \in Sayings
<1> TAKE f
<1>1. ASSUME f \in Fields
      PROVE  /\ f = [l \in DOMAIN f |-> f[l]] /\ DOMAIN f \in SUBSET Labels
             /\ \A l \in DOMAIN f : f[l] \in Sayings
    <2>1. PICK labels \in SUBSET Labels : f \in [labels -> Sayings]
        BY <1>1 DEF Fields
    <2> QED BY <2>1
<1>2. ASSUME /\ f = [l \in DOMAIN f |-> f[l]] /\ DOMAIN f \in SUBSET Labels
             /\ \A l \in DOMAIN f : f[l] \in Sayings
      PROVE  f \in Fields
    <2>1. f \in [DOMAIN f -> Sayings]
        BY <1>2
    <2> QED BY <1>2, <2>1 DEF Fields
<1> QED BY <1>1, <1>2

LEMMA NoFieldsIs ==
    /\ NoFields \in Fields
    /\ DOMAIN NoFields = {}
    /\ \A l : Value(NoFields, l) = {}
<1>1. DOMAIN NoFields = {} /\ NoFields = [l \in DOMAIN NoFields |-> NoFields[l]]
    BY DEF NoFields
<1> QED BY <1>1, FieldsAre DEF Value

LEMMA ValueType ==
    ASSUME NEW f \in Fields, NEW l
    PROVE  Value(f, l) \in Sayings /\ (Value(f, l) # {} => l \in DOMAIN f)
<1>1. {} \in Sayings
    BY DEF Sayings
<1> QED BY <1>1, FieldsAre DEF Value

\* What With, MergeFields and Store do to the value of a label.
LEMMA WithType ==
    ASSUME NEW f \in Fields, NEW label \in Labels, NEW value \in Sayings
    PROVE  /\ With(f, label, value) \in Fields
           /\ DOMAIN With(f, label, value) = DOMAIN f \union {label}
<1>1. PICK w : w = With(f, label, value)
    OBVIOUS
<1>2. /\ DOMAIN w = DOMAIN f \union {label}
      /\ w = [l \in DOMAIN w |-> w[l]]
      /\ \A l \in DOMAIN w : w[l] = IF l = label THEN value ELSE f[l]
    BY <1>1 DEF With
<1>3. DOMAIN f \in SUBSET Labels /\ \A l \in DOMAIN f : f[l] \in Sayings
    BY FieldsAre
<1>4. \A l \in DOMAIN w : w[l] \in Sayings
    BY <1>2, <1>3
<1>5. DOMAIN w \in SUBSET Labels
    BY <1>2, <1>3
<1> QED BY <1>1, <1>2, <1>4, <1>5, FieldsAre

LEMMA WithValue ==
    ASSUME NEW f \in Fields, NEW label \in Labels, NEW value \in Sayings
    PROVE  \A l : Value(With(f, label, value), l) = IF l = label THEN value ELSE Value(f, l)
<1>1. PICK w : w = With(f, label, value)
    OBVIOUS
<1>2. /\ DOMAIN w = DOMAIN f \union {label}
      /\ \A l \in DOMAIN w : w[l] = IF l = label THEN value ELSE f[l]
    BY <1>1 DEF With
<1>3. \A l : Value(w, l) = IF l = label THEN value ELSE Value(f, l)
    BY <1>2 DEF Value
<1> QED BY <1>1, <1>3

LEMMA MergeFieldsIs ==
    ASSUME NEW f \in Fields, NEW g \in Fields
    PROVE  /\ MergeFields(f, g) \in Fields
           /\ \A l : Value(MergeFields(f, g), l) =
                         IF Value(f, l) # {} THEN Value(f, l) ELSE Value(g, l)
<1> DEFINE m == MergeFields(f, g)
<1>1. /\ DOMAIN m = DOMAIN f \union DOMAIN g
      /\ m = [l \in DOMAIN m |-> m[l]]
      /\ \A l \in DOMAIN m : m[l] = IF Value(f, l) # {} THEN f[l] ELSE Value(g, l)
    BY DEF MergeFields
<1> HIDE DEF m
<1>2. /\ DOMAIN f \in SUBSET Labels /\ DOMAIN g \in SUBSET Labels
      /\ \A l \in DOMAIN f : f[l] \in Sayings
    BY FieldsAre
<1>3. \A l : Value(g, l) \in Sayings /\ (Value(f, l) # {} => l \in DOMAIN f)
    BY ValueType
<1>4. m \in Fields
    <2>1. \A l \in DOMAIN m : m[l] \in Sayings
        BY <1>1, <1>2, <1>3
    <2>2. DOMAIN m \in SUBSET Labels
        BY <1>1, <1>2
    <2> QED BY <1>1, <2>1, <2>2, FieldsAre
<1>5. \A l : Value(m, l) = IF Value(f, l) # {} THEN Value(f, l) ELSE Value(g, l)
    BY <1>1, <1>3 DEF Value
<1> QED BY <1>4, <1>5 DEF m

\* The first value stays: a label is stored once.
LEMMA StoreIs ==
    ASSUME NEW f \in Fields, NEW label \in Labels, NEW value \in Sayings
    PROVE  /\ Store(f, label, value) \in Fields
           /\ \A l : Value(Store(f, label, value), l) =
                         IF l = label /\ Value(f, l) = {} THEN value ELSE Value(f, l)
<1>1. PICK w : w = With(f, label, value)
    OBVIOUS
<1>2. /\ w \in Fields
      /\ \A l : Value(w, l) = IF l = label THEN value ELSE Value(f, l)
    <2>1. w \in Fields
        BY <1>1, WithType
    <2>2. \A l : Value(w, l) = IF l = label THEN value ELSE Value(f, l)
        BY <1>1, WithValue
    <2> QED BY <2>1, <2>2
<1>3. Store(f, label, value) = IF value # {} /\ Value(f, label) = {} THEN w ELSE f
    BY <1>1 DEF Store
<1>4. CASE value # {} /\ Value(f, label) = {}
    BY <1>2, <1>3, <1>4
<1>5. CASE value = {} \/ Value(f, label) # {}
    <2>1. Store(f, label, value) = f
        BY <1>3, <1>5
    <2>2. \A l : l = label /\ Value(f, l) = {} => value = {}
        BY <1>5
    <2> QED BY <2>1, <2>2
<1> QED BY <1>4, <1>5

\* The state of reading plain text.
States == [fields : Fields, current : Labels]

LEMMA StateIs ==
    ASSUME NEW f \in Fields, NEW c \in Labels
    PROVE  [fields |-> f, current |-> c] \in States
BY DEF States

LEMMA StateKeeps ==
    ASSUME NEW state \in States
    PROVE  state.fields \in Fields /\ state.current \in Labels
BY DEF States

LEMMA StateExcept ==
    ASSUME NEW state \in States
    PROVE  /\ \A f : [state EXCEPT !.fields = f] = [fields |-> f, current |-> state.current]
           /\ \A c : [state EXCEPT !.current = c] = [fields |-> state.fields, current |-> c]
BY DEF States

LEMMA LineIs ==
    ASSUME NEW line \in Lines
    PROVE  line.label \in Labels /\ line.value \in Sayings
BY DEF Lines

\* What a line of text adds goes to the label it continues.
LEMMA ContinuedIs ==
    ASSUME NEW state \in States, NEW line \in Lines
    PROVE  /\ Continued(state, line) \in States
           /\ Continued(state, line).current = state.current
           /\ \A l : Value(Continued(state, line).fields, l) =
                  IF l = state.current
                  THEN Value(state.fields, l) \union line.value
                           \union IF line.label = "" THEN {} ELSE Idle
                  ELSE Value(state.fields, l)
<1>1. PICK more : more = IF line.label = "" THEN {} ELSE Idle
    OBVIOUS
<1>2. PICK value : value = Value(state.fields, state.current) \union line.value \union more
    OBVIOUS
<1>3. PICK w : w = With(state.fields, state.current, value)
    OBVIOUS
<1>4. state.fields \in Fields /\ state.current \in Labels /\ line.value \in Sayings
    BY StateKeeps, LineIs
<1>5. value \in Sayings
    <2>1. more \in Sayings
        <3>1. {} \in Sayings /\ Idle \in Sayings
            BY LettersAssumption DEF Sayings
        <3> QED BY <1>1, <3>1
    <2>2. Value(state.fields, state.current) \in Sayings
        BY <1>4, ValueType
    <2> QED BY <1>2, <1>4, <2>1, <2>2 DEF Sayings
<1>6. /\ w \in Fields
      /\ \A l : Value(w, l) = IF l = state.current THEN value ELSE Value(state.fields, l)
    <2>1. w \in Fields
        BY <1>3, <1>4, <1>5, WithType
    <2>2. \A l : Value(w, l) = IF l = state.current THEN value ELSE Value(state.fields, l)
        BY <1>3, <1>4, <1>5, WithValue
    <2> QED BY <2>1, <2>2
<1>7. Continued(state, line) = [state EXCEPT !.fields = w]
    BY <1>1, <1>2, <1>3 DEF Continued
<1>8. Continued(state, line) = [fields |-> w, current |-> state.current]
    BY <1>7, StateExcept, Zenon
<1>9. Continued(state, line) \in States
    BY <1>4, <1>6, <1>8, StateIs
<1>10. Continued(state, line).fields = w /\ Continued(state, line).current = state.current
    BY <1>8
<1>11. \A l : l = state.current =>
           value = Value(state.fields, l) \union line.value \union more
    BY <1>2
<1> QED BY <1>1, <1>6, <1>9, <1>10, <1>11

LEMMA ContinuedElsewhere ==
    ASSUME NEW state \in States, NEW line \in Lines, NEW l, l # state.current
    PROVE  Value(Continued(state, line).fields, l) = Value(state.fields, l)
BY ContinuedIs

LEMMA StartIs == Start \in States /\ Start.fields = NoFields /\ Start.current = ""
<1>1. PICK n : n = NoFields
    OBVIOUS
<1>2. Start = [fields |-> n, current |-> ""]
    BY <1>1 DEF Start
<1>3. n \in Fields
    BY <1>1, NoFieldsIs
<1>4. "" \in Labels
    BY LettersAssumption
<1> QED BY <1>1, <1>2, <1>3, <1>4, StateIs, Zenon

LEMMA QnapLineType ==
    ASSUME NEW state \in States, NEW line \in Lines
    PROVE  QnapLine(state, line) \in States
<1>1. With(state.fields, line.label, line.value) \in Fields
    BY StateKeeps, LineIs, WithType
<1>2. [fields |-> With(state.fields, line.label, line.value), current |-> line.label] \in States
    BY <1>1, LineIs, StateIs
<1>3. [state EXCEPT !.current = ""] \in States
    <2>1. "" \in Labels /\ state.fields \in Fields
        BY StateKeeps, LettersAssumption
    <2>2. [fields |-> state.fields, current |-> ""] \in States
        BY <2>1, StateIs, Zenon
    <2> QED BY <2>2, StateExcept, Zenon
<1>4. Continued(state, line) \in States
    BY ContinuedIs
<1> QED BY <1>2, <1>3, <1>4 DEF QnapLine

LEMMA GrafanaLineType ==
    ASSUME NEW state \in States, NEW line \in Lines
    PROVE  GrafanaLine(state, line) \in States
<1>1. With(state.fields, line.label, line.value) \in Fields
    BY StateKeeps, LineIs, WithType
<1>2. [fields |-> With(state.fields, line.label, line.value), current |-> line.label] \in States
    BY <1>1, LineIs, StateIs
<1>3. [state EXCEPT !.current = ""] \in States
    <2>1. "" \in Labels /\ state.fields \in Fields
        BY StateKeeps, LettersAssumption
    <2>2. [fields |-> state.fields, current |-> ""] \in States
        BY <2>1, StateIs, Zenon
    <2> QED BY <2>2, StateExcept, Zenon
<1>4. Continued(state, line) \in States
    BY ContinuedIs
<1> QED BY <1>2, <1>3, <1>4 DEF GrafanaLine

-----------------------------------------------------------------------------
(* What the parsers compute, one line, entry or part after the other.        *)

\* What Zabbix finds, one label after the other.
ZabbixTakes(h, n, lines, mail) ==
    /\ h[0] = NoFields
    /\ \A i \in 1..n : h[i] = With(h[i - 1], lines[i].label, lines[i].value)
    /\ ZabbixSource(mail) = h[n]

LEMMA ZabbixSteps ==
    ASSUME NEW n \in Nat, NEW lines \in [1..n -> Lines], NEW mail,
           lines = BoldLines(mail)
    PROVE  \E h \in [0..n -> Fields] : ZabbixTakes(h, n, lines, mail)
<1> DEFINE step == [p \in (1..n) \X Fields |-> With(p[2], lines[p[1]].label, lines[p[1]].value)]
           fold(iter) == [s \in SUBSET DOMAIN lines |->
               IF s = {} THEN NoFields
               ELSE LET x == Max(s) IN With(iter[s \ {x}], lines[x].label, lines[x].value)]
           iter == CHOOSE iter : iter = fold(iter)
           h == [i \in 0..n |-> iter[1..i]]
<1>1. ZabbixSource(mail) = iter[DOMAIN lines]
    BY DEF ZabbixSource, FoldLeft, MapThenFoldSet
<1>2. \A a \in Fields, i \in 1..n : With(a, lines[i].label, lines[i].value) \in Fields
    BY LineIs, WithType
<1>3. NoFields \in Fields
    BY NoFieldsIs
<1>4. PICK g \in [SUBSET (1..n) -> Fields] : Folds(g, n, NoFields, step)
    <2>1. step \in [(1..n) \X Fields -> Fields]
        BY <1>2
    <2> HIDE DEF step
    <2> QED BY <1>3, <2>1, FoldExists, Zenon
<1>5. g = fold(g)
    <2>1. ASSUME NEW s \in SUBSET (1..n), s # {}
          PROVE  step[<<Max(s), g[s \ {Max(s)}]>>] = With(g[s \ {Max(s)}], lines[Max(s)].label, lines[Max(s)].value)
        <3>1. Max(s) \in s
            BY <2>1, MaxIn
        <3>2. Max(s) \in 1..n /\ g[s \ {Max(s)}] \in Fields
            BY <3>1
        <3> QED BY <3>2
    <2> HIDE DEF step
    <2> QED BY <1>4, <2>1 DEF Folds
<1>6. iter = fold(iter)
    <2> HIDE DEF fold
    <2> QED BY <1>5
<1> HIDE DEF iter
<1>7. iter[{}] = NoFields
    BY <1>6
<1>8. ASSUME NEW i \in 1..n PROVE iter[1..i] = With(iter[1..(i-1)], lines[i].label, lines[i].value)
    <2> DEFINE s == 1..i
    <2>1. s \in SUBSET DOMAIN lines /\ s # {} /\ Max(s) = i /\ s \ {i} = 1..(i-1)
        BY Initials
    <2> HIDE DEF s
    <2>2. iter[s] = With(iter[s \ {Max(s)}], lines[Max(s)].label, lines[Max(s)].value)
        BY <1>6, <2>1
    <2> QED BY <2>1, <2>2 DEF s
<1>9. h[0] = NoFields /\ h[n] = iter[1..n]
    <2>1. 1..0 = {}
        OBVIOUS
    <2> QED BY <1>7, <2>1
<1>10. ASSUME NEW i \in 1..n PROVE h[i] = With(h[i - 1], lines[i].label, lines[i].value)
    BY <1>8
<1>13. h \in [0..n -> Fields] <=> \A i \in 0..n : h[i] \in Fields
    OBVIOUS
<1> HIDE DEF h
<1>11. \A i \in 0..n : h[i] \in Fields
    <2>1. \A i \in 1..n : h[i - 1] \in Fields => h[i] \in Fields
        BY <1>2, <1>10
    <2>2. h[0] \in Fields
        BY <1>3, <1>9
    <2> QED BY <2>1, <2>2, TypedSteps
<1>12. DOMAIN lines = 1..n
    OBVIOUS
<1>14. ZabbixTakes(h, n, lines, mail)
    BY <1>1, <1>9, <1>10, <1>12 DEF ZabbixTakes
<1> QED BY <1>11, <1>13, <1>14

\* What QNAP makes of plain text, one line after the other.
QnapReads(h, n, lines) ==
    /\ h[0] = Start
    /\ \A i \in 1..n : h[i] = QnapLine(h[i - 1], lines[i])
    /\ PlainFields("qnap", lines) = h[n].fields

LEMMA QnapSteps ==
    ASSUME NEW n \in Nat, NEW lines \in [1..n -> Lines]
    PROVE  \E h \in [0..n -> States] : QnapReads(h, n, lines)
<1> DEFINE step == [p \in (1..n) \X States |-> QnapLine(p[2], lines[p[1]])]
           fold(iter) == [s \in SUBSET DOMAIN lines |->
               IF s = {} THEN Start
               ELSE LET x == Max(s) IN QnapLine(iter[s \ {x}], lines[x])]
           iter == CHOOSE iter : iter = fold(iter)
           h == [i \in 0..n |-> iter[1..i]]
<1>1. PlainFields("qnap", lines) = iter[DOMAIN lines].fields
    BY DEF PlainFields, FoldLeft, MapThenFoldSet
<1>2. \A a \in States, i \in 1..n : QnapLine(a, lines[i]) \in States
    BY QnapLineType
<1>3. Start \in States
    BY StartIs
<1>4. PICK g \in [SUBSET (1..n) -> States] : Folds(g, n, Start, step)
    <2>1. step \in [(1..n) \X States -> States]
        BY <1>2
    <2> HIDE DEF step
    <2> QED BY <1>3, <2>1, FoldExists, Zenon
<1>5. g = fold(g)
    <2>1. ASSUME NEW s \in SUBSET (1..n), s # {}
          PROVE  step[<<Max(s), g[s \ {Max(s)}]>>] = QnapLine(g[s \ {Max(s)}], lines[Max(s)])
        <3>1. Max(s) \in s
            BY <2>1, MaxIn
        <3>2. Max(s) \in 1..n /\ g[s \ {Max(s)}] \in States
            BY <3>1
        <3> QED BY <3>2
    <2> HIDE DEF step
    <2> QED BY <1>4, <2>1 DEF Folds
<1>6. iter = fold(iter)
    <2> HIDE DEF fold
    <2> QED BY <1>5
<1> HIDE DEF iter
<1>7. iter[{}] = Start
    BY <1>6
<1>8. ASSUME NEW i \in 1..n PROVE iter[1..i] = QnapLine(iter[1..(i-1)], lines[i])
    <2> DEFINE s == 1..i
    <2>1. s \in SUBSET DOMAIN lines /\ s # {} /\ Max(s) = i /\ s \ {i} = 1..(i-1)
        BY Initials
    <2> HIDE DEF s
    <2>2. iter[s] = QnapLine(iter[s \ {Max(s)}], lines[Max(s)])
        BY <1>6, <2>1
    <2> QED BY <2>1, <2>2 DEF s
<1>9. h[0] = Start /\ h[n] = iter[1..n]
    <2>1. 1..0 = {}
        OBVIOUS
    <2> QED BY <1>7, <2>1
<1>10. ASSUME NEW i \in 1..n PROVE h[i] = QnapLine(h[i - 1], lines[i])
    BY <1>8
<1>13. h \in [0..n -> States] <=> \A i \in 0..n : h[i] \in States
    OBVIOUS
<1> HIDE DEF h
<1>11. \A i \in 0..n : h[i] \in States
    <2>1. \A i \in 1..n : h[i - 1] \in States => h[i] \in States
        BY <1>2, <1>10
    <2>2. h[0] \in States
        BY <1>3, <1>9
    <2> QED BY <2>1, <2>2, TypedSteps
<1>12. DOMAIN lines = 1..n
    OBVIOUS
<1>14. QnapReads(h, n, lines)
    BY <1>1, <1>9, <1>10, <1>12 DEF QnapReads
<1> QED BY <1>11, <1>13, <1>14

\* What Grafana makes of plain text, one line after the other.
GrafanaReads(h, n, lines) ==
    /\ h[0] = Start
    /\ \A i \in 1..n : h[i] = GrafanaLine(h[i - 1], lines[i])
    /\ PlainFields("grafana", lines) = h[n].fields

LEMMA GrafanaSteps ==
    ASSUME NEW n \in Nat, NEW lines \in [1..n -> Lines]
    PROVE  \E h \in [0..n -> States] : GrafanaReads(h, n, lines)
<1> DEFINE step == [p \in (1..n) \X States |-> GrafanaLine(p[2], lines[p[1]])]
           fold(iter) == [s \in SUBSET DOMAIN lines |->
               IF s = {} THEN Start
               ELSE LET x == Max(s) IN GrafanaLine(iter[s \ {x}], lines[x])]
           iter == CHOOSE iter : iter = fold(iter)
           h == [i \in 0..n |-> iter[1..i]]
<1>1. PlainFields("grafana", lines) = iter[DOMAIN lines].fields
    BY DEF PlainFields, FoldLeft, MapThenFoldSet
<1>2. \A a \in States, i \in 1..n : GrafanaLine(a, lines[i]) \in States
    BY GrafanaLineType
<1>3. Start \in States
    BY StartIs
<1>4. PICK g \in [SUBSET (1..n) -> States] : Folds(g, n, Start, step)
    <2>1. step \in [(1..n) \X States -> States]
        BY <1>2
    <2> HIDE DEF step
    <2> QED BY <1>3, <2>1, FoldExists, Zenon
<1>5. g = fold(g)
    <2>1. ASSUME NEW s \in SUBSET (1..n), s # {}
          PROVE  step[<<Max(s), g[s \ {Max(s)}]>>] = GrafanaLine(g[s \ {Max(s)}], lines[Max(s)])
        <3>1. Max(s) \in s
            BY <2>1, MaxIn
        <3>2. Max(s) \in 1..n /\ g[s \ {Max(s)}] \in States
            BY <3>1
        <3> QED BY <3>2
    <2> HIDE DEF step
    <2> QED BY <1>4, <2>1 DEF Folds
<1>6. iter = fold(iter)
    <2> HIDE DEF fold
    <2> QED BY <1>5
<1> HIDE DEF iter
<1>7. iter[{}] = Start
    BY <1>6
<1>8. ASSUME NEW i \in 1..n PROVE iter[1..i] = GrafanaLine(iter[1..(i-1)], lines[i])
    <2> DEFINE s == 1..i
    <2>1. s \in SUBSET DOMAIN lines /\ s # {} /\ Max(s) = i /\ s \ {i} = 1..(i-1)
        BY Initials
    <2> HIDE DEF s
    <2>2. iter[s] = GrafanaLine(iter[s \ {Max(s)}], lines[Max(s)])
        BY <1>6, <2>1
    <2> QED BY <2>1, <2>2 DEF s
<1>9. h[0] = Start /\ h[n] = iter[1..n]
    <2>1. 1..0 = {}
        OBVIOUS
    <2> QED BY <1>7, <2>1
<1>10. ASSUME NEW i \in 1..n PROVE h[i] = GrafanaLine(h[i - 1], lines[i])
    BY <1>8
<1>13. h \in [0..n -> States] <=> \A i \in 0..n : h[i] \in States
    OBVIOUS
<1> HIDE DEF h
<1>11. \A i \in 0..n : h[i] \in States
    <2>1. \A i \in 1..n : h[i - 1] \in States => h[i] \in States
        BY <1>2, <1>10
    <2>2. h[0] \in States
        BY <1>3, <1>9
    <2> QED BY <2>1, <2>2, TypedSteps
<1>12. DOMAIN lines = 1..n
    OBVIOUS
<1>14. GrafanaReads(h, n, lines)
    BY <1>1, <1>9, <1>10, <1>12 DEF GrafanaReads
<1> QED BY <1>11, <1>13, <1>14

\* What is stored of the entries of HTML, one entry after the other.
Stores(h, n, lines, parser, html) ==
    /\ h[0] = NoFields
    /\ \A i \in 1..n : h[i] = Store(h[i - 1], lines[i].label, lines[i].value)
    /\ HtmlFields(parser, html) = h[n]

LEMMA HtmlSteps ==
    ASSUME NEW n \in Nat, NEW lines \in [1..n -> Lines], NEW parser, NEW html,
           lines = Labelled(parser, html)
    PROVE  \E h \in [0..n -> Fields] : Stores(h, n, lines, parser, html)
<1> DEFINE step == [p \in (1..n) \X Fields |-> Store(p[2], lines[p[1]].label, lines[p[1]].value)]
           fold(iter) == [s \in SUBSET DOMAIN lines |->
               IF s = {} THEN NoFields
               ELSE LET x == Max(s) IN Store(iter[s \ {x}], lines[x].label, lines[x].value)]
           iter == CHOOSE iter : iter = fold(iter)
           h == [i \in 0..n |-> iter[1..i]]
<1>1. HtmlFields(parser, html) = iter[DOMAIN lines]
    BY DEF HtmlFields, FoldLeft, MapThenFoldSet
<1>2. \A a \in Fields, i \in 1..n : Store(a, lines[i].label, lines[i].value) \in Fields
    BY LineIs, StoreIs
<1>3. NoFields \in Fields
    BY NoFieldsIs
<1>4. PICK g \in [SUBSET (1..n) -> Fields] : Folds(g, n, NoFields, step)
    <2>1. step \in [(1..n) \X Fields -> Fields]
        BY <1>2
    <2> HIDE DEF step
    <2> QED BY <1>3, <2>1, FoldExists, Zenon
<1>5. g = fold(g)
    <2>1. ASSUME NEW s \in SUBSET (1..n), s # {}
          PROVE  step[<<Max(s), g[s \ {Max(s)}]>>] = Store(g[s \ {Max(s)}], lines[Max(s)].label, lines[Max(s)].value)
        <3>1. Max(s) \in s
            BY <2>1, MaxIn
        <3>2. Max(s) \in 1..n /\ g[s \ {Max(s)}] \in Fields
            BY <3>1
        <3> QED BY <3>2
    <2> HIDE DEF step
    <2> QED BY <1>4, <2>1 DEF Folds
<1>6. iter = fold(iter)
    <2> HIDE DEF fold
    <2> QED BY <1>5
<1> HIDE DEF iter
<1>7. iter[{}] = NoFields
    BY <1>6
<1>8. ASSUME NEW i \in 1..n PROVE iter[1..i] = Store(iter[1..(i-1)], lines[i].label, lines[i].value)
    <2> DEFINE s == 1..i
    <2>1. s \in SUBSET DOMAIN lines /\ s # {} /\ Max(s) = i /\ s \ {i} = 1..(i-1)
        BY Initials
    <2> HIDE DEF s
    <2>2. iter[s] = Store(iter[s \ {Max(s)}], lines[Max(s)].label, lines[Max(s)].value)
        BY <1>6, <2>1
    <2> QED BY <2>1, <2>2 DEF s
<1>9. h[0] = NoFields /\ h[n] = iter[1..n]
    <2>1. 1..0 = {}
        OBVIOUS
    <2> QED BY <1>7, <2>1
<1>10. ASSUME NEW i \in 1..n PROVE h[i] = Store(h[i - 1], lines[i].label, lines[i].value)
    BY <1>8
<1>13. h \in [0..n -> Fields] <=> \A i \in 0..n : h[i] \in Fields
    OBVIOUS
<1> HIDE DEF h
<1>11. \A i \in 0..n : h[i] \in Fields
    <2>1. \A i \in 1..n : h[i - 1] \in Fields => h[i] \in Fields
        BY <1>2, <1>10
    <2>2. h[0] \in Fields
        BY <1>3, <1>9
    <2> QED BY <2>1, <2>2, TypedSteps
<1>12. DOMAIN lines = 1..n
    OBVIOUS
<1>14. Stores(h, n, lines, parser, html)
    BY <1>1, <1>9, <1>10, <1>12 DEF Stores
<1> QED BY <1>11, <1>13, <1>14

\* The fields of the parts of a mail, one part after the other.
Merges(h, n, items, parser, mail) ==
    /\ h[0] = NoFields
    /\ \A i \in 1..n : h[i] = MergeFields(h[i - 1], items[i])
    /\ SourceFields(parser, mail) = h[n]

LEMMA SourceSteps ==
    ASSUME NEW n \in Nat, NEW items \in [1..n -> Fields], NEW parser, NEW mail,
           items = PartFields(parser, mail)
    PROVE  \E h \in [0..n -> Fields] : Merges(h, n, items, parser, mail)
<1> DEFINE step == [p \in (1..n) \X Fields |-> MergeFields(p[2], items[p[1]])]
           fold(iter) == [s \in SUBSET DOMAIN items |->
               IF s = {} THEN NoFields
               ELSE LET x == Max(s) IN MergeFields(iter[s \ {x}], items[x])]
           iter == CHOOSE iter : iter = fold(iter)
           h == [i \in 0..n |-> iter[1..i]]
<1>1. SourceFields(parser, mail) = iter[DOMAIN items]
    BY DEF SourceFields, FoldLeft, MapThenFoldSet
<1>2. \A a \in Fields, i \in 1..n : MergeFields(a, items[i]) \in Fields
    BY MergeFieldsIs
<1>3. NoFields \in Fields
    BY NoFieldsIs
<1>4. PICK g \in [SUBSET (1..n) -> Fields] : Folds(g, n, NoFields, step)
    <2>1. step \in [(1..n) \X Fields -> Fields]
        BY <1>2
    <2> HIDE DEF step
    <2> QED BY <1>3, <2>1, FoldExists, Zenon
<1>5. g = fold(g)
    <2>1. ASSUME NEW s \in SUBSET (1..n), s # {}
          PROVE  step[<<Max(s), g[s \ {Max(s)}]>>] = MergeFields(g[s \ {Max(s)}], items[Max(s)])
        <3>1. Max(s) \in s
            BY <2>1, MaxIn
        <3>2. Max(s) \in 1..n /\ g[s \ {Max(s)}] \in Fields
            BY <3>1
        <3> QED BY <3>2
    <2> HIDE DEF step
    <2> QED BY <1>4, <2>1 DEF Folds
<1>6. iter = fold(iter)
    <2> HIDE DEF fold
    <2> QED BY <1>5
<1> HIDE DEF iter
<1>7. iter[{}] = NoFields
    BY <1>6
<1>8. ASSUME NEW i \in 1..n PROVE iter[1..i] = MergeFields(iter[1..(i-1)], items[i])
    <2> DEFINE s == 1..i
    <2>1. s \in SUBSET DOMAIN items /\ s # {} /\ Max(s) = i /\ s \ {i} = 1..(i-1)
        BY Initials
    <2> HIDE DEF s
    <2>2. iter[s] = MergeFields(iter[s \ {Max(s)}], items[Max(s)])
        BY <1>6, <2>1
    <2> QED BY <2>1, <2>2 DEF s
<1>9. h[0] = NoFields /\ h[n] = iter[1..n]
    <2>1. 1..0 = {}
        OBVIOUS
    <2> QED BY <1>7, <2>1
<1>10. ASSUME NEW i \in 1..n PROVE h[i] = MergeFields(h[i - 1], items[i])
    BY <1>8
<1>13. h \in [0..n -> Fields] <=> \A i \in 0..n : h[i] \in Fields
    OBVIOUS
<1> HIDE DEF h
<1>11. \A i \in 0..n : h[i] \in Fields
    <2>1. \A i \in 1..n : h[i - 1] \in Fields => h[i] \in Fields
        BY <1>2, <1>10
    <2>2. h[0] \in Fields
        BY <1>3, <1>9
    <2> QED BY <2>1, <2>2, TypedSteps
<1>12. DOMAIN items = 1..n
    OBVIOUS
<1>14. Merges(h, n, items, parser, mail)
    BY <1>1, <1>9, <1>10, <1>12 DEF Merges
<1> QED BY <1>11, <1>13, <1>14

-----------------------------------------------------------------------------
(* Zabbix: a label in bold type is found.                                    *)

\* The parts of a type.
LEMMA PartsAre ==
    ASSUME NEW mail \in Letters, NEW type
    PROVE  /\ PartsOf(mail, type) \in Seq(MailParts)
           /\ ToSet(PartsOf(mail, type)) =
                  {p \in ToSet(mail.parts) : p.type = type /\ ~p.attached}
<1> DEFINE chosen == {p \in ToSet(mail.parts) : p.type = type /\ ~p.attached}
<1>1. PICK parts : parts = mail.parts
    OBVIOUS
<1>2. parts \in Seq(MailParts)
    BY <1>1, LettersAssumption
<1>3. PartsOf(mail, type) = Keep(parts, chosen)
    BY <1>1 DEF PartsOf
<1>4. chosen \subseteq ToSet(parts)
    BY <1>1
<1> HIDE DEF chosen
<1>5. Keep(parts, chosen) \in Seq(MailParts) /\ ToSet(Keep(parts, chosen)) = ToSet(parts) \cap chosen
    BY <1>2, KeepSet
<1>6. ToSet(parts) \cap chosen = chosen
    BY <1>4
<1> QED BY <1>3, <1>5, <1>6 DEF chosen

LEMMA PartIs ==
    ASSUME NEW part \in MailParts
    PROVE  part.lines \in Seq(Lines)
BY DEF MailParts

\* Zabbix reads the first HTML part of a mail that has one.
LEMMA ZabbixReads ==
    ASSUME NEW mail \in Letters, PartsOf(mail, "html") # <<>>
    PROVE  /\ ZabbixContent(mail) = PartsOf(mail, "html")[1].lines
           /\ ZabbixContent(mail) \in Seq(Lines)
<1>1. PICK html \in Seq(MailParts) : html = PartsOf(mail, "html") /\ html # <<>>
    BY PartsAre
<1>2. PICK plain \in Seq(MailParts) : plain = PartsOf(mail, "plain")
    BY PartsAre
<1>3. PICK found : found = html \o plain
    OBVIOUS
<1>4. found # <<>> /\ found[1] = html[1] /\ html[1] \in MailParts
    <2>1. /\ Len(html) \in Nat /\ Len(html) # 0 /\ Len(plain) \in Nat
          /\ \A i \in 1..Len(html) : html[i] \in MailParts
        BY <1>1, EmptySeq, LenProperties
    <2>2. 1 \in 1..Len(html)
        BY <2>1
    <2>3. /\ Len(found) = Len(html) + Len(plain)
          /\ \A i \in 1..Len(html) : found[i] = html[i]
        <3>1. \A i \in 1..Len(html) : i \in 1..(Len(html) + Len(plain)) /\ i <= Len(html)
            BY <2>1
        <3> QED BY <1>3, <3>1, ConcatProperties
    <2>4. Len(found) # 0
        BY <2>1, <2>3
    <2> QED BY <2>1, <2>2, <2>3, <2>4
<1>5. ZabbixContent(mail) = IF found # <<>> THEN found[1].lines ELSE FlattenSeq(Raw(mail))
    BY <1>1, <1>2, <1>3 DEF ZabbixContent
<1> QED BY <1>1, <1>4, <1>5, PartIs

\* It keeps the label of each line it has chosen.
LEMMA ZabbixKeeps ==
    ASSUME NEW n \in Nat, NEW lines \in [1..n -> Lines], NEW mail, lines = BoldLines(mail),
           NEW k \in 1..n
    PROVE  lines[k].label \in DOMAIN ZabbixSource(mail)
<1>1. PICK h \in [0..n -> Fields] : ZabbixTakes(h, n, lines, mail)
    BY ZabbixSteps
<1>2. ASSUME NEW i \in 1..n PROVE DOMAIN h[i] = DOMAIN h[i - 1] \union {lines[i].label}
    <2>1. h[i - 1] \in Fields /\ lines[i] \in Lines
        BY <1>1
    <2>2. lines[i].label \in Labels /\ lines[i].value \in Sayings
        BY <2>1, LineIs
    <2>3. PICK f \in Fields, label \in Labels, value \in Sayings :
              f = h[i - 1] /\ label = lines[i].label /\ value = lines[i].value
        BY <2>1, <2>2
    <2>4. h[i] = With(f, label, value)
        BY <1>1, <2>3 DEF ZabbixTakes
    <2>5. DOMAIN With(f, label, value) = DOMAIN f \union {label}
        BY WithType
    <2> QED BY <2>3, <2>4, <2>5
<1> DEFINE P == {i \in 0..n : i >= k => lines[k].label \in DOMAIN h[i]}
<1>3. 0 \in P
    OBVIOUS
<1>4. ASSUME NEW i \in 1..n, i - 1 \in P PROVE i \in P
    <2>1. DOMAIN h[i] = DOMAIN h[i - 1] \union {lines[i].label}
        BY <1>2
    <2>2. CASE i = k
        BY <2>1, <2>2
    <2>3. CASE i # k
        BY <1>4, <2>1, <2>3
    <2> QED BY <2>2, <2>3
<1>5. n \in P
    <2> HIDE DEF P
    <2>1. 0..n \subseteq P
        BY <1>3, <1>4, Induction
    <2> QED BY <2>1
<1> QED BY <1>1, <1>5 DEF ZabbixTakes

\* Zabbix finds each label in bold type of the first HTML part.
LEMMA ZabbixFinds ==
    ASSUME NEW mail \in Letters, PartsOf(mail, "html") # <<>>,
           NEW line \in ToSet(PartsOf(mail, "html")[1].lines),
           line.form = "bold", line.label # ""
    PROVE  line.label \in DOMAIN ZabbixSource(mail)
<1>1. PICK content \in Seq(Lines) : content = ZabbixContent(mail) /\ line \in ToSet(content)
    BY ZabbixReads
<1>2. PICK chosen : chosen = {x \in ToSet(content) : x.form = "bold" /\ x.label # ""}
    OBVIOUS
<1>3. line \in ToSet(content) \cap chosen
    BY <1>1, <1>2
<1>4. BoldLines(mail) = Keep(content, chosen)
    BY <1>1, <1>2 DEF BoldLines
<1>5. PICK lines \in Seq(Lines) : lines = BoldLines(mail) /\ line \in ToSet(lines)
    BY <1>3, <1>4, KeepSet
<1>6. PICK n \in Nat : n = Len(lines) /\ lines \in [1..n -> Lines]
    BY LenProperties
<1>7. PICK k \in 1..n : lines[k] = line
    BY <1>5, <1>6, ToSetIs
<1> QED BY <1>5, <1>6, <1>7, ZabbixKeeps

\* A mail of Zabbix whose HTML says in bold type that the problem is over.
LEMMA ZabbixRecovers ==
    ASSUME event \in Letters, notice = ZabbixMail(event), PartsOf(event, "html") # <<>>,
           NEW line \in ToSet(PartsOf(event, "html")[1].lines),
           line.form = "bold", line.label = "problem has been resolved"
    PROVE  Cards = {"resolved"}
<1>1. "problem has been resolved" \in DOMAIN ZabbixSource(event)
    BY ZabbixFinds
<1>2. notice.status = "success"
    BY <1>1 DEF ZabbixMail, Notice
<1> QED BY <1>2, SuccessIsResolved DEF Cards

-----------------------------------------------------------------------------
(* Proxmox: a guest that failed is found in the text.                        *)

\* A line of text is a line.
LEMMA TextLine ==
    ASSUME NEW label \in Labels, NEW value \in Sayings
    PROVE  /\ Line(label, value) \in Lines
           /\ Line(label, value).form = "line"
           /\ Line(label, value).label = label
           /\ Line(label, value).value = value
<1>1. PICK colon \in BOOLEAN : colon = (label # "")
    OBVIOUS
<1>2. Line(label, value) = [form |-> "line", label |-> label, value |-> value, colon |-> colon]
    BY <1>1 DEF Line
<1> QED BY <1>2 DEF Lines, Forms

\* The lines of a text that say something.
LEMMA VisibleIs ==
    ASSUME NEW lines \in Seq(Lines)
    PROVE  /\ Visible(lines) \in Seq(Lines)
           /\ \A x : x \in ToSet(Visible(lines)) <=> x \in ToSet(lines) /\ ~Blank(x)
           /\ Visible(lines) = <<>> <=> \A x \in ToSet(lines) : Blank(x)
<1>1. PICK seen : seen = {line \in ToSet(lines) : ~Blank(line)}
    OBVIOUS
<1>2. Visible(lines) = Keep(lines, seen)
    BY <1>1 DEF Visible
<1>3. /\ Keep(lines, seen) \in Seq(Lines)
      /\ ToSet(Keep(lines, seen)) = ToSet(lines) \cap seen
      /\ Keep(lines, seen) = <<>> <=> ToSet(lines) \cap seen = {}
    BY KeepSet
<1>4. \A x : x \in ToSet(lines) \cap seen <=> x \in ToSet(lines) /\ ~Blank(x)
    BY <1>1
<1> QED BY <1>2, <1>3, <1>4

\* The parts of a type that a parser reads.
LEMMA ReadableIs ==
    ASSUME NEW mail \in Letters, NEW type
    PROVE  /\ Readable(mail, type) \in Seq(Seq(Lines))
           /\ \A x : x \in ToSet(Readable(mail, type)) <=>
                  \E p \in ToSet(PartsOf(mail, type)) : Visible(p.lines) # <<>> /\ x = p.lines
<1>1. PICK all \in Seq(MailParts) : all = PartsOf(mail, type)
    BY PartsAre
<1>2. PICK seen : seen = {p \in ToSet(all) : Visible(p.lines) # <<>>}
    OBVIOUS
<1>3. PICK parts \in Seq(MailParts) : parts = Keep(all, seen) /\ ToSet(parts) = ToSet(all) \cap seen
    BY KeepSet
<1>4. PICK n \in Nat : n = Len(parts) /\ parts \in [1..n -> MailParts]
    BY LenProperties
<1>5. Readable(mail, type) = [i \in DOMAIN parts |-> parts[i].lines]
    BY <1>1, <1>2, <1>3 DEF Readable
<1>6. PICK r : r = [i \in 1..n |-> parts[i].lines]
    OBVIOUS
<1>7. Readable(mail, type) = r
    BY <1>4, <1>5, <1>6
<1>8. \A i \in 1..n : parts[i].lines \in Seq(Lines)
    BY <1>4, PartIs
<1>9. r \in [1..n -> Seq(Lines)] /\ \A i \in 1..n : r[i] = parts[i].lines
    BY <1>6, <1>8
<1>10. r \in Seq(Seq(Lines)) /\ DOMAIN r = 1..n
    BY <1>9
<1>11. \A x : x \in ToSet(r) <=> \E i \in 1..n : x = parts[i].lines
    BY <1>9, <1>10 DEF ToSet
<1>12. \A p : p \in ToSet(parts) <=> \E i \in 1..n : p = parts[i]
    BY <1>4 DEF ToSet
<1>13. \A p : p \in ToSet(parts) <=> p \in ToSet(all) /\ Visible(p.lines) # <<>>
    BY <1>2, <1>3
<1>14. \A x : x \in ToSet(r) <=> \E p \in ToSet(parts) : x = p.lines
    BY <1>11, <1>12
<1> QED BY <1>1, <1>7, <1>10, <1>13, <1>14

\* A line in plain text that says something is in the text that is read.
LEMMA BodyHolds ==
    ASSUME NEW mail \in Letters, NEW p \in ToSet(PartsOf(mail, "plain")),
           NEW line \in ToSet(p.lines), ~Blank(line)
    PROVE  Body(Usable(mail)) \in Seq(Lines) /\ line \in ToSet(Body(Usable(mail)))
<1>1. PICK plain \in Seq(Seq(Lines)) : plain = Readable(mail, "plain")
    BY ReadableIs
<1>2. PICK lines \in Seq(Lines) : lines = p.lines
    BY PartsAre, PartIs, ToSetIs
<1>3. Visible(lines) # <<>>
    BY <1>2, VisibleIs
<1>4. lines \in ToSet(plain)
    BY <1>1, <1>2, <1>3, ReadableIs
<1>5. PICK n \in Nat : n = Len(plain) /\ plain \in [1..n -> Seq(Lines)]
    BY LenProperties
<1>6. PICK k \in 1..n : lines = plain[k]
    BY <1>4, <1>5, ToSetIs
<1>7. plain # <<>>
    BY <1>5, <1>6, EmptySeq
<1>8. PICK all \in Seq(Lines) : all = FlattenSeq(plain) /\ line \in ToSet(all)
    BY <1>2, <1>5, <1>6, FlattenIs
<1>9. Body(Usable(mail)) = Visible(all)
    BY <1>1, <1>7, <1>8 DEF Body, Usable
<1> QED BY <1>8, <1>9, VisibleIs

LEMMA FailureIsCritical ==
    ASSUME notice.status = "failure"
    PROVE  Cards = {"critical"}
<1>1. "failure" \in Bad /\ "failure" \notin Good /\ "failure" \notin Uneasy
    BY DEF Good, Bad, Uneasy
<1>2. \A severity : TeamsFamily("failure", severity) = "critical"
    BY <1>1 DEF TeamsFamily
<1>3. TeamsCard(notice) = "critical"
    BY <1>2 DEF TeamsCard
<1> QED BY <1>3, CardsAgree DEF Cards

\* A guest that failed makes a mail of Proxmox a failure.
LEMMA GuestShown ==
    ASSUME event \in Letters, notice = ProxmoxMail(event),
           NEW line \in UNION {ToSet(p.lines) : p \in ToSet(PartsOf(event, "plain"))},
           line.form = "guest", line.value = {"failed"}
    PROVE  Cards = {"critical"}
<1>1. PICK p \in ToSet(PartsOf(event, "plain")) : line \in ToSet(p.lines)
    OBVIOUS
<1>2. ~Blank(line)
    BY DEF Blank
<1>3. PICK lines \in Seq(Lines) : lines = Body(Usable(event)) /\ line \in ToSet(lines)
    BY <1>1, <1>2, BodyHolds
<1>4. PICK rows : rows = {x \in ToSet(lines) : x.form = "guest"}
    OBVIOUS
<1>5. Guests(event) = Keep(lines, rows)
    BY <1>3, <1>4 DEF Guests
<1>6. PICK guests \in Seq(Lines) : guests = Guests(event) /\ ToSet(guests) = ToSet(lines) \cap rows
    BY <1>5, KeepSet
<1>7. line \in ToSet(guests)
    BY <1>3, <1>4, <1>6
<1>8. PICK i \in DOMAIN guests : guests[i] = line
    BY <1>7 DEF ToSet
<1>9. guests[i].value \cap {"ok", "success"} = {}
    BY <1>8
<1>10. notice.status = "failure"
    BY <1>6, <1>9 DEF ProxmoxMail, Notice
<1> QED BY <1>10, FailureIsCritical

-----------------------------------------------------------------------------
(* QNAP and Grafana: what a part states in one way is what is read of it.    *)

\* Under some labels a phrase is found and nothing else; it is found under one.
Agrees(fields, labels, phrase) == \A l \in labels : Value(fields, l) \in {{}, {phrase}}
Tells(fields, labels, phrase) == \E l \in labels : Value(fields, l) = {phrase}

\* The first alias that has a value has this one.
LEMMA FieldIs ==
    ASSUME NEW fields \in Fields, NEW T, NEW aliases \in Seq(T), NEW phrase,
           Agrees(fields, ToSet(aliases), phrase), Tells(fields, ToSet(aliases), phrase)
    PROVE  Field(fields, aliases) = {phrase}
<1>1. PICK full : full = {a \in DOMAIN fields : fields[a] # {}}
    OBVIOUS
<1>2. PICK found \in Seq(T) : /\ found = Keep(aliases, full)
                              /\ ToSet(found) = ToSet(aliases) \cap full
                              /\ found = <<>> <=> ToSet(aliases) \cap full = {}
    BY KeepSet
<1>3. Field(fields, aliases) = IF found = <<>> THEN {} ELSE fields[found[1]]
    BY <1>1, <1>2 DEF Field
<1>4. \A l : l \in full <=> Value(fields, l) # {}
    BY <1>1 DEF Value
<1>5. \A l \in full : fields[l] = Value(fields, l)
    BY <1>1 DEF Value
<1>6. found # <<>>
    BY <1>2, <1>4 DEF Tells
<1>7. found[1] \in ToSet(found)
    <2>1. 1 \in 1..Len(found)
        BY <1>6, EmptySeq
    <2> QED BY <2>1, ToSetIs
<1>8. found[1] \in ToSet(aliases) /\ found[1] \in full
    BY <1>2, <1>7
<1>9. fields[found[1]] = {phrase}
    BY <1>4, <1>5, <1>8 DEF Agrees
<1> QED BY <1>3, <1>6, <1>9

\* What the parts of a mail say in one way, its fields say.
LEMMA SourceTells ==
    ASSUME NEW n \in Nat, NEW items \in [1..n -> Fields], NEW parser, NEW mail,
           items = PartFields(parser, mail), NEW labels, NEW phrase,
           \A i \in 1..n : Agrees(items[i], labels, phrase),
           NEW k \in 1..n, Tells(items[k], labels, phrase)
    PROVE  /\ SourceFields(parser, mail) \in Fields
           /\ Agrees(SourceFields(parser, mail), labels, phrase)
           /\ Tells(SourceFields(parser, mail), labels, phrase)
<1>1. PICK h \in [0..n -> Fields] : Merges(h, n, items, parser, mail)
    BY SourceSteps
<1> DEFINE P == {i \in 0..n : /\ Agrees(h[i], labels, phrase)
                              /\ i >= k => Tells(h[i], labels, phrase)}
<1>2. 0 \in P
    <2>1. Agrees(h[0], labels, phrase)
        BY <1>1, NoFieldsIs DEF Agrees, Merges
    <2> QED BY <2>1
<1>3. ASSUME NEW i \in 1..n, i - 1 \in P PROVE i \in P
    <2>1. PICK f \in Fields, g \in Fields : f = h[i - 1] /\ g = items[i]
        BY <1>1, <1>3
    <2>2. h[i] = MergeFields(f, g)
        BY <1>1, <2>1 DEF Merges
    <2>3. \A l : Value(h[i], l) = IF Value(f, l) # {} THEN Value(f, l) ELSE Value(g, l)
        BY <2>2, MergeFieldsIs
    <2>4. Agrees(f, labels, phrase) /\ Agrees(g, labels, phrase)
        BY <1>3, <2>1
    <2>5. Agrees(h[i], labels, phrase)
        BY <2>3, <2>4 DEF Agrees
    <2>6. Tells(f, labels, phrase) \/ Tells(g, labels, phrase) => Tells(h[i], labels, phrase)
        BY <2>3, <2>4 DEF Agrees, Tells
    <2>7. i = k => Tells(g, labels, phrase)
        BY <2>1
    <2>8. i >= k => i = k \/ i - 1 >= k
        OBVIOUS
    <2>9. i - 1 >= k => Tells(f, labels, phrase)
        BY <1>3, <2>1
    <2> QED BY <2>5, <2>6, <2>7, <2>8, <2>9
<1>4. n \in P
    <2> HIDE DEF P
    <2>1. 0..n \subseteq P
        BY <1>2, <1>3, Induction
    <2> QED BY <2>1
<1> QED BY <1>1, <1>4 DEF Merges

\* The entries of HTML that count.
LEMMA LabelledIs ==
    ASSUME NEW html \in Seq(Lines), NEW parser
    PROVE  /\ Labelled(parser, html) \in Seq(Lines)
           /\ \A x : x \in ToSet(Labelled(parser, html)) <=>
                  /\ x \in ToSet(html) /\ x.form \in {"row", "term", "bold"}
                  /\ IsLabel(parser, x.label)
<1> DEFINE of(form) == {line \in ToSet(html) : line.form = form}
<1>1. PICK r \in Seq(Lines) : r = Keep(html, of("row")) /\ ToSet(r) = ToSet(html) \cap of("row")
    BY KeepSet
<1>2. PICK t \in Seq(Lines) : t = Keep(html, of("term")) /\ ToSet(t) = ToSet(html) \cap of("term")
    BY KeepSet
<1>3. PICK b \in Seq(Lines) : b = Keep(html, of("bold")) /\ ToSet(b) = ToSet(html) \cap of("bold")
    BY KeepSet
<1>4. Entries(html) = r \o t \o b
    BY <1>1, <1>2, <1>3 DEF Entries
<1>5. \A x : x \in ToSet(r) \/ x \in ToSet(t) \/ x \in ToSet(b) <=>
           x \in ToSet(html) /\ x.form \in {"row", "term", "bold"}
    BY <1>1, <1>2, <1>3
<1> HIDE DEF of
<1>6. PICK rt \in Seq(Lines) : rt = r \o t /\ ToSet(rt) = ToSet(r) \union ToSet(t)
    <2>1. r \o t \in Seq(Lines) /\ ToSet(r \o t) = ToSet(r) \union ToSet(t)
        BY ConcatIs
    <2> QED BY <2>1
<1>7. PICK all \in Seq(Lines) : all = rt \o b /\ ToSet(all) = ToSet(rt) \union ToSet(b)
    <2>1. rt \o b \in Seq(Lines) /\ ToSet(rt \o b) = ToSet(rt) \union ToSet(b)
        BY ConcatIs
    <2> QED BY <2>1
<1>8. Entries(html) = all
    BY <1>4, <1>6, <1>7
<1>9. PICK set : set = {line \in ToSet(html) : IsLabel(parser, line.label)}
    OBVIOUS
<1>10. Labelled(parser, html) = Keep(all, set)
    BY <1>8, <1>9 DEF Labelled
<1>11. Keep(all, set) \in Seq(Lines) /\ ToSet(Keep(all, set)) = ToSet(all) \cap set
    BY KeepSet
<1>12. \A x : x \in ToSet(all) \cap set <=>
           /\ x \in ToSet(html) /\ x.form \in {"row", "term", "bold"}
           /\ IsLabel(parser, x.label)
    BY <1>5, <1>6, <1>7, <1>9
<1> QED BY <1>10, <1>11, <1>12

\* Entries that say something in one way.
LEMMA StoredTells ==
    ASSUME NEW n \in Nat, NEW lines \in [1..n -> Lines], NEW parser, NEW html,
           lines = Labelled(parser, html), NEW labels, NEW phrase,
           \A i \in 1..n : lines[i].label \in labels => lines[i].value = {phrase}
    PROVE  /\ HtmlFields(parser, html) \in Fields
           /\ Agrees(HtmlFields(parser, html), labels, phrase)
           /\ \A i \in 1..n : lines[i].label \in labels
                                => Tells(HtmlFields(parser, html), labels, phrase)
<1>1. PICK h \in [0..n -> Fields] : Stores(h, n, lines, parser, html)
    BY HtmlSteps
<1> DEFINE told(i) == /\ Agrees(h[i], labels, phrase)
                      /\ (\E k \in 1..i : lines[k].label \in labels) => Tells(h[i], labels, phrase)
           P == {i \in 0..n : told(i)}
<1>2. told(0)
    <2>1. Agrees(h[0], labels, phrase)
        BY <1>1, NoFieldsIs DEF Agrees, Stores
    <2> QED BY <2>1
<1>3. ASSUME NEW i \in 1..n, told(i - 1) PROVE told(i)
    <2>1. PICK f \in Fields, label \in Labels, value \in Sayings :
              f = h[i - 1] /\ label = lines[i].label /\ value = lines[i].value
        BY <1>1, LineIs
    <2>2. h[i] = Store(f, label, value)
        BY <1>1, <2>1 DEF Stores
    <2>3. \A l : Value(h[i], l) = IF l = label /\ Value(f, l) = {} THEN value ELSE Value(f, l)
        BY <2>2, StoreIs
    <2>4. Agrees(f, labels, phrase) /\ (label \in labels => value = {phrase})
        BY <1>3, <2>1
    <2>5. Agrees(h[i], labels, phrase)
        BY <2>3, <2>4 DEF Agrees
    <2>6. Tells(f, labels, phrase) \/ label \in labels => Tells(h[i], labels, phrase)
        BY <2>3, <2>4 DEF Agrees, Tells
    <2>7. \A k \in 1..i : k \in 1..(i - 1) \/ k = i
        OBVIOUS
    <2> QED BY <1>3, <2>1, <2>5, <2>6, <2>7
<1>4. told(n)
    <2>1. 0 \in P
        <3>1. 0 \in 0..n
            OBVIOUS
        <3> HIDE DEF told
        <3> QED BY <1>2, <3>1
    <2>2. ASSUME NEW i \in 1..n, i - 1 \in P PROVE i \in P
        <3>1. i \in 0..n
            OBVIOUS
        <3> HIDE DEF told
        <3> QED BY <1>3, <2>2, <3>1
    <2>3. n \in P
        <3> HIDE DEF P
        <3>1. 0..n \subseteq P
            BY <2>1, <2>2, Induction
        <3> QED BY <3>1
    <2> HIDE DEF told
    <2> QED BY <2>3
<1> QED BY <1>1, <1>4 DEF Stores

\* The same of the lines of a part.
LEMMA HtmlTells ==
    ASSUME NEW html \in Seq(Lines), NEW parser, NEW labels, NEW phrase,
           \A x \in ToSet(html) : x.label \in labels => x.value = {phrase}
    PROVE  /\ HtmlFields(parser, html) \in Fields
           /\ Agrees(HtmlFields(parser, html), labels, phrase)
           /\ \A x \in ToSet(html) :
                  x.form \in {"row", "term", "bold"} /\ IsLabel(parser, x.label)
                      /\ x.label \in labels
                  => Tells(HtmlFields(parser, html), labels, phrase)
<1>1. PICK lines \in Seq(Lines) :
          /\ lines = Labelled(parser, html)
          /\ \A x : x \in ToSet(lines) <=>
                 /\ x \in ToSet(html) /\ x.form \in {"row", "term", "bold"}
                 /\ IsLabel(parser, x.label)
    BY LabelledIs
<1>2. PICK n \in Nat : n = Len(lines) /\ lines \in [1..n -> Lines]
    BY LenProperties
<1>3. \A i \in 1..n : lines[i] \in ToSet(lines)
    BY <1>2, ToSetIs
<1>4. \A i \in 1..n : lines[i].label \in labels => lines[i].value = {phrase}
    BY <1>1, <1>3
<1>5. /\ HtmlFields(parser, html) \in Fields
      /\ Agrees(HtmlFields(parser, html), labels, phrase)
      /\ \A i \in 1..n : lines[i].label \in labels
                           => Tells(HtmlFields(parser, html), labels, phrase)
    BY <1>1, <1>2, <1>4, StoredTells
<1>6. \A x \in ToSet(lines) : \E i \in 1..n : x = lines[i]
    BY <1>2, ToSetIs
<1> QED BY <1>1, <1>5, <1>6

\* The lines of a sequence with some labels say a phrase, or they say nothing and
\* the next line, one without a label, says it.
Stating(s, labels, phrase) ==
    \A i \in 1..Len(s) : s[i].label \in labels =>
        \/ s[i].value = {phrase}
        \/ /\ s[i].value = {} /\ i + 1 \in 1..Len(s)
           /\ s[i + 1].label = "" /\ s[i + 1].value = {phrase}

LEMMA ConcatStating ==
    ASSUME NEW s \in Seq(Lines), NEW t \in Seq(Lines), NEW labels, NEW phrase,
           Stating(s, labels, phrase), Stating(t, labels, phrase)
    PROVE  Stating(s \o t, labels, phrase)
<1>1. PICK m \in Nat, n \in Nat : m = Len(s) /\ n = Len(t)
    BY LenProperties
<1>2. PICK r \in Seq(Lines) : r = s \o t
    BY ConcatProperties
<1>3. Len(r) = m + n
    BY <1>1, <1>2, ConcatProperties
<1>4. \A i \in 1..(m + n) : r[i] = IF i <= m THEN s[i] ELSE t[i - m]
    BY <1>1, <1>2, ConcatProperties
<1>5. ASSUME NEW i \in 1..(m + n), r[i].label \in labels
      PROVE  \/ r[i].value = {phrase}
             \/ /\ r[i].value = {} /\ i + 1 \in 1..(m + n)
                /\ r[i + 1].label = "" /\ r[i + 1].value = {phrase}
    <2>1. CASE i <= m
        <3>1. i \in 1..m /\ r[i] = s[i]
            <4>1. i \in 1..m
                BY <2>1
            <4>2. r[i] = IF i <= m THEN s[i] ELSE t[i - m]
                BY <1>4
            <4> QED BY <2>1, <4>1, <4>2
        <3>2. \/ s[i].value = {phrase}
              \/ /\ s[i].value = {} /\ i + 1 \in 1..m
                 /\ s[i + 1].label = "" /\ s[i + 1].value = {phrase}
            BY <1>1, <1>5, <3>1 DEF Stating
        <3>3. i + 1 \in 1..m => i + 1 \in 1..(m + n) /\ i + 1 <= m
            OBVIOUS
        <3>4. i + 1 \in 1..m => r[i + 1] = s[i + 1]
            BY <1>4, <3>3
        <3> QED BY <3>1, <3>2, <3>3, <3>4
    <2>2. CASE ~(i <= m)
        <3>1. PICK k \in 1..n : k = i - m
            BY <2>2
        <3>2. r[i] = t[k]
            BY <1>4, <2>2, <3>1
        <3>3. \/ t[k].value = {phrase}
              \/ /\ t[k].value = {} /\ k + 1 \in 1..n
                 /\ t[k + 1].label = "" /\ t[k + 1].value = {phrase}
            BY <1>1, <1>5, <3>2 DEF Stating
        <3>4. k + 1 \in 1..n => i + 1 \in 1..(m + n) /\ ~(i + 1 <= m) /\ (i + 1) - m = k + 1
            BY <3>1
        <3>5. k + 1 \in 1..n => r[i + 1] = t[k + 1]
            BY <1>4, <3>4
        <3> QED BY <3>2, <3>3, <3>4, <3>5
    <2> QED BY <2>1, <2>2
<1>6. Stating(r, labels, phrase)
    BY <1>3, <1>5 DEF Stating
<1> QED BY <1>2, <1>6

LEMMA FlattenStating ==
    ASSUME NEW n \in Nat, NEW seqs \in [1..n -> Seq(Lines)], NEW labels, NEW phrase,
           \A i \in 1..n : Stating(seqs[i], labels, phrase)
    PROVE  Stating(FlattenSeq(seqs), labels, phrase)
<1>1. PICK h \in [0..n -> Seq(Lines)] : Joins(h, n, seqs)
    BY FlattenSteps
<1> DEFINE P == {i \in 0..n : Stating(h[i], labels, phrase)}
<1>2. 0 \in P
    <2>1. h[0] = <<>> /\ Len(<<>>) = 0
        BY <1>1, EmptySeq DEF Joins
    <2>2. Stating(h[0], labels, phrase)
        <3>1. PICK e : e = h[0] /\ Len(e) = 0
            BY <2>1
        <3>2. 1..Len(e) = {}
            BY <3>1
        <3> QED BY <3>1, <3>2 DEF Stating
    <2> QED BY <2>2
<1>3. ASSUME NEW i \in 1..n, i - 1 \in P PROVE i \in P
    <2>1. PICK s \in Seq(Lines), t \in Seq(Lines) : s = h[i - 1] /\ t = seqs[i]
        <3>1. i - 1 \in 0..n
            OBVIOUS
        <3> QED BY <3>1
    <2>2. h[i] = s \o t
        BY <1>1, <2>1 DEF Joins
    <2>3. Stating(s, labels, phrase) /\ Stating(t, labels, phrase)
        BY <1>3, <2>1
    <2>4. Stating(h[i], labels, phrase)
        BY <2>2, <2>3, ConcatStating
    <2> QED BY <2>4
<1>4. n \in P
    <2> HIDE DEF P
    <2>1. 0..n \subseteq P
        BY <1>2, <1>3, Induction
    <2> QED BY <2>1
<1> QED BY <1>1, <1>4 DEF Joins

\* Where numbers increase there is none between two that follow each other.
LEMMA NoneBetween ==
    ASSUME NEW l \in Nat, NEW n \in Nat, NEW at \in [1..l -> 1..n],
           \A a, b \in 1..l : a < b => at[a] < at[b],
           NEW j \in 1..l, NEW k \in 1..l, at[k] = at[j] + 1
    PROVE  k = j + 1
<1>1. at[j] \in Nat /\ at[k] \in Nat
    OBVIOUS
<1>2. ~(k < j)
    <2>1. k < j => at[k] < at[j]
        OBVIOUS
    <2> QED BY <1>1, <2>1
<1>3. k # j
    BY <1>1
<1>4. ~(j + 1 < k)
    <2>1. ASSUME j + 1 < k PROVE FALSE
        <3>1. PICK m \in 1..l : m = j + 1
            BY <2>1
        <3>2. at[m] \in Nat
            OBVIOUS
        <3>3. j < m /\ m < k
            BY <2>1, <3>1
        <3>4. at[j] < at[m] /\ at[m] < at[k]
            BY <3>3
        <3> QED BY <1>1, <3>2, <3>4
    <2> QED BY <2>1
<1> QED BY <1>2, <1>3, <1>4

\* Lines that say nothing may be left out.
LEMMA VisibleStating ==
    ASSUME NEW s \in Seq(Lines), NEW labels, NEW phrase, "" \notin labels,
           Stating(s, labels, phrase)
    PROVE  Stating(Visible(s), labels, phrase)
<1>1. PICK seen : seen = {line \in ToSet(s) : ~Blank(line)}
    OBVIOUS
<1>2. PICK r \in Seq(Lines) : r = Keep(s, seen)
    BY KeepPicks
<1>3. Visible(s) = r
    BY <1>1, <1>2 DEF Visible
<1>4. PICK n \in Nat, l \in Nat : n = Len(s) /\ l = Len(r)
    BY LenProperties
<1>5. PICK at : Picks(at, r, s, n, seen)
    BY <1>2, <1>4, KeepPicks
<1>6. /\ at \in [1..l -> 1..n]
      /\ \A j, k \in 1..l : j < k => at[j] < at[k]
      /\ \A j \in 1..l : r[j] = s[at[j]]
      /\ \A i \in 1..n : s[i] \in seen => \E j \in 1..l : at[j] = i
    BY <1>4, <1>5 DEF Picks
<1>7. ASSUME NEW j \in 1..l, r[j].label \in labels
      PROVE  \/ r[j].value = {phrase}
             \/ /\ r[j].value = {} /\ j + 1 \in 1..l
                /\ r[j + 1].label = "" /\ r[j + 1].value = {phrase}
    <2>1. PICK i \in 1..n : i = at[j]
        BY <1>6
    <2>2. r[j] = s[i]
        BY <1>6, <2>1
    <2>3. \/ s[i].value = {phrase}
          \/ /\ s[i].value = {} /\ i + 1 \in 1..n
             /\ s[i + 1].label = "" /\ s[i + 1].value = {phrase}
        BY <1>4, <1>7, <2>2 DEF Stating
    <2>4. ASSUME i + 1 \in 1..n, s[i + 1].label = "", s[i + 1].value = {phrase}
          PROVE  j + 1 \in 1..l /\ r[j + 1] = s[i + 1]
        <3>1. s[i + 1] \in seen
            <4>1. s[i + 1] \in ToSet(s)
                BY <1>4, <2>4, ToSetIs
            <4>2. ~Blank(s[i + 1])
                BY <2>4 DEF Blank
            <4> QED BY <1>1, <4>1, <4>2
        <3>2. PICK k \in 1..l : at[k] = i + 1
            BY <1>6, <2>4, <3>1
        <3>3. at[k] = at[j] + 1
            BY <2>1, <3>2
        <3>4. k = j + 1
            <4>1. /\ at \in [1..l -> 1..n]
                  /\ \A a, b \in 1..l : a < b => at[a] < at[b]
                BY <1>6
            <4> QED BY <3>3, <4>1, NoneBetween
        <3>5. r[k] = s[i + 1]
            BY <1>6, <3>2
        <3> QED BY <3>4, <3>5
    <2> QED BY <2>2, <2>3, <2>4
<1>8. Stating(r, labels, phrase)
    BY <1>4, <1>7 DEF Stating
<1> QED BY <1>3, <1>8

\* One label has a value of its own, the others those of before.
Puts(w, f, label, value) == \A l : Value(w, l) = IF l = label THEN value ELSE Value(f, l)

LEMMA WithPuts ==
    ASSUME NEW f \in Fields, NEW label \in Labels, NEW value \in Sayings
    PROVE  Puts(With(f, label, value), f, label, value)
BY WithValue DEF Puts

\* How far a text has been read: the labels seen say the phrase, but for those, one
\* at most, that wait for it to come with the next line.
Told(state, labels, phrase, seen, wait) ==
    /\ \A l \in labels : \/ Value(state.fields, l) = {phrase}
                         \/ Value(state.fields, l) = {} /\ (l \in wait \/ l \notin seen)
    /\ state.current \in labels /\ state.current \notin wait
           => Value(state.fields, state.current) = {phrase}
    /\ wait \subseteq labels \cap {state.current}
    /\ \A l \in wait : Value(state.fields, l) = {}

Waiting(line, labels) == IF line.label \in labels /\ line.value = {} THEN {line.label} ELSE {}

LEMMA QnapStep ==
    ASSUME NEW state \in States, NEW line \in Lines, NEW labels, NEW phrase, NEW seen, NEW wait,
           Told(state, labels, phrase, seen, wait),
           \A l \in labels : QnapLabel(l), labels \cap QnapContinuable = {},
           line.label \in labels => line.value \in {{}, {phrase}},
           wait # {} => line.label = "" /\ line.value = {phrase}
    PROVE  Told(QnapLine(state, line), labels, phrase, seen \union {line.label},
                Waiting(line, labels))
<1>1. PICK f \in Fields, c \in Labels : f = state.fields /\ c = state.current
    BY StateKeeps
<1>2. PICK label \in Labels, value \in Sayings : label = line.label /\ value = line.value
    BY LineIs
<1>3. PICK new : new = QnapLine(state, line)
    OBVIOUS
<1>4. /\ \A l \in labels : \/ Value(f, l) = {phrase}
                           \/ Value(f, l) = {} /\ (l \in wait \/ l \notin seen)
      /\ c \in labels /\ c \notin wait => Value(f, c) = {phrase}
      /\ wait \subseteq labels \cap {c}
      /\ \A l \in wait : Value(f, l) = {}
    BY <1>1 DEF Told
<1>5. "" \notin labels /\ LinkLabel \notin labels
    BY DEF QnapLabel
<1>6. CASE Blank(line)
    <2>1. label = "" /\ value = {} /\ label \notin labels
        BY <1>2, <1>5, <1>6 DEF Blank
    <2>2. wait = {} /\ Waiting(line, labels) = {}
        BY <1>2, <2>1 DEF Waiting
    <2>3. new = [fields |-> f, current |-> ""]
        <3>1. QnapLine(state, line) = [state EXCEPT !.current = ""]
            BY <1>6 DEF QnapLine
        <3> QED BY <1>1, <1>3, <3>1, StateExcept, Zenon
    <2>4. new.fields = f /\ new.current = ""
        BY <2>3
    <2>5. Told(new, labels, phrase, seen \union {label}, {})
        BY <1>4, <1>5, <2>1, <2>2, <2>4 DEF Told
    <2> QED BY <1>2, <1>3, <2>2, <2>5
<1>7. CASE ~Blank(line) /\ QnapLabel(label)
    <2>1. label # ""
        BY <1>7 DEF QnapLabel
    <2>2. wait = {}
        BY <1>2, <2>1
    <2>3. PICK w : w = With(f, label, value) /\ Puts(w, f, label, value)
        BY WithPuts
    <2>4. new.fields = w /\ new.current = label
        <3>1. new = [fields |-> w, current |-> label]
            BY <1>1, <1>2, <1>3, <1>7, <2>3 DEF QnapLine
        <3> QED BY <3>1
    <2>5. \A l : Value(new.fields, l) = IF l = label THEN value ELSE Value(f, l)
        BY <2>3, <2>4 DEF Puts
    <2>6. PICK next : next = Waiting(line, labels)
        OBVIOUS
    <2>7. /\ next \subseteq labels \cap {label}
          /\ label \in labels /\ value = {} => label \in next
          /\ label \in next => value = {}
        BY <1>2, <2>6 DEF Waiting
    <2>8. label \in labels => value \in {{}, {phrase}}
        BY <1>2
    <2>9. Told(new, labels, phrase, seen \union {label}, next)
        <3>1. \A l \in labels : \/ Value(new.fields, l) = {phrase}
                                \/ /\ Value(new.fields, l) = {}
                                   /\ l \in next \/ l \notin seen \union {label}
            BY <1>4, <2>2, <2>5, <2>7, <2>8
        <3>2. label \in labels /\ label \notin next => Value(new.fields, label) = {phrase}
            BY <2>5, <2>7, <2>8
        <3>3. \A l \in next : Value(new.fields, l) = {}
            BY <2>5, <2>7
        <3> QED BY <2>4, <2>7, <3>1, <3>2, <3>3 DEF Told
    <2> QED BY <1>2, <1>3, <2>6, <2>9
<1>8. CASE ~Blank(line) /\ ~QnapLabel(label)
    <2>1. label \notin labels
        BY <1>8
    <2>2. Waiting(line, labels) = {}
        BY <1>2, <2>1 DEF Waiting
    <2>3. new = IF c # "" /\ (Value(f, c) = {} \/ c \in QnapContinuable)
                THEN Continued(state, line) ELSE state
        BY <1>1, <1>2, <1>3, <1>8 DEF QnapLine
    <2>4. CASE c # "" /\ (Value(f, c) = {} \/ c \in QnapContinuable)
        <3>1. new = Continued(state, line)
            BY <2>3, <2>4
        <3>2. PICK more : more = IF label = "" THEN {} ELSE Idle
            OBVIOUS
        <3>3. /\ new.current = c
              /\ \A l : Value(new.fields, l) =
                            IF l = c THEN Value(f, l) \union value \union more ELSE Value(f, l)
            <4>1. Continued(state, line).current = state.current
                BY ContinuedIs
            <4>2. \A l : Value(Continued(state, line).fields, l) =
                      IF l = state.current
                      THEN Value(state.fields, l) \union line.value
                               \union IF line.label = "" THEN {} ELSE Idle
                      ELSE Value(state.fields, l)
                BY ContinuedIs
            <4>3. \A l : Value(new.fields, l) =
                      IF l = c
                      THEN Value(f, l) \union value \union IF label = "" THEN {} ELSE Idle
                      ELSE Value(f, l)
                BY <1>1, <1>2, <3>1, <4>2, Zenon
            <4> QED BY <1>1, <3>1, <3>2, <4>1, <4>3
        <3>4. c \in labels => Value(new.fields, c) = {phrase}
            <4>1. SUFFICES ASSUME c \in labels PROVE Value(new.fields, c) = {phrase}
                OBVIOUS
            <4>2. Value(f, c) = {}
                BY <2>4, <4>1
            <4>3. c \in wait
                BY <1>4, <4>1, <4>2
            <4>4. label = "" /\ value = {phrase}
                BY <1>2, <4>3
            <4>5. more = {}
                BY <3>2, <4>4
            <4> QED BY <3>3, <4>2, <4>4, <4>5
        <3>5. \A l \in labels : l # c => l \notin wait /\ Value(new.fields, l) = Value(f, l)
            BY <1>4, <3>3
        <3>6. \A l \in labels : \/ Value(new.fields, l) = {phrase}
                                \/ Value(new.fields, l) = {} /\ l \notin seen \union {label}
            BY <1>4, <2>1, <3>4, <3>5
        <3>7. Told(new, labels, phrase, seen \union {label}, {})
            BY <3>3, <3>4, <3>6 DEF Told
        <3> QED BY <1>2, <1>3, <2>2, <3>7
    <2>5. CASE ~(c # "" /\ (Value(f, c) = {} \/ c \in QnapContinuable))
        <3>1. new = state
            BY <2>3, <2>5
        <3>2. wait = {}
            <4>1. \A l \in wait : l = c /\ c \in labels /\ Value(f, c) = {}
                BY <1>4
            <4>2. \A l \in wait : FALSE
                BY <1>5, <2>5, <4>1
            <4> QED BY <4>2
        <3>3. \A l \in labels : \/ Value(f, l) = {phrase}
                                \/ Value(f, l) = {} /\ l \notin seen \union {label}
            BY <1>4, <2>1, <3>2
        <3>4. Told(new, labels, phrase, seen \union {label}, {})
            BY <1>1, <1>4, <3>1, <3>2, <3>3 DEF Told
        <3> QED BY <1>2, <1>3, <2>2, <3>4
    <2> QED BY <2>4, <2>5
<1> QED BY <1>6, <1>7, <1>8

\* What the lines that were read say under some labels.
LEMMA QnapTells ==
    ASSUME NEW n \in Nat, NEW lines \in [1..n -> Lines], NEW labels, NEW phrase,
           \A l \in labels : QnapLabel(l), labels \cap QnapContinuable = {},
           lines \in Seq(Lines), n = Len(lines), Stating(lines, labels, phrase)
    PROVE  /\ PlainFields("qnap", lines) \in Fields
           /\ Agrees(PlainFields("qnap", lines), labels, phrase)
           /\ \A i \in 1..n : lines[i].label \in labels
                                => Tells(PlainFields("qnap", lines), labels, phrase)
<1>1. PICK h \in [0..n -> States] : QnapReads(h, n, lines)
    BY QnapSteps
<1> DEFINE seen(j) == {lines[k].label : k \in 1..j}
           wait(j) == IF j = 0 THEN {} ELSE Waiting(lines[j], labels)
           told(j) == Told(h[j], labels, phrase, seen(j), wait(j))
           P == {j \in 0..n : told(j)}
<1>2. \A i \in 1..n : lines[i].label \in labels =>
          \/ lines[i].value = {phrase}
          \/ /\ lines[i].value = {} /\ i + 1 \in 1..n
             /\ lines[i + 1].label = "" /\ lines[i + 1].value = {phrase}
    BY DEF Stating
<1>3. told(0)
    <2>1. PICK s : s = h[0]
        OBVIOUS
    <2>2. s.fields = NoFields /\ s.current = ""
        BY <1>1, <2>1, StartIs DEF QnapReads
    <2>3. \A l \in labels : Value(s.fields, l) = {} /\ l \notin seen(0)
        <3>1. seen(0) = {}
            OBVIOUS
        <3>2. \A l : Value(s.fields, l) = {}
            BY <2>2, NoFieldsIs
        <3> HIDE DEF seen
        <3> QED BY <3>1, <3>2
    <2>4. s.current \notin labels
        BY <2>2 DEF QnapLabel
    <2>5. wait(0) = {}
        OBVIOUS
    <2> HIDE DEF seen, wait
    <2> QED BY <2>1, <2>3, <2>4, <2>5 DEF Told
<1>4. ASSUME NEW i \in 1..n, told(i - 1) PROVE told(i)
    <2>1. PICK s \in States, line \in Lines : s = h[i - 1] /\ line = lines[i]
        BY <1>1
    <2>2. PICK old, w : old = seen(i - 1) /\ w = wait(i - 1)
        OBVIOUS
    <2>3. line.label \in labels => line.value \in {{}, {phrase}}
        BY <1>2, <2>1
    <2>4. w # {} => line.label = "" /\ line.value = {phrase}
        <3>1. SUFFICES ASSUME w # {} PROVE line.label = "" /\ line.value = {phrase}
            OBVIOUS
        <3>2. PICK j \in 1..n : j = i - 1
            BY <2>2, <3>1
        <3>3. lines[j].label \in labels /\ lines[j].value = {}
            BY <2>2, <3>1, <3>2 DEF Waiting
        <3>4. lines[j + 1].label = "" /\ lines[j + 1].value = {phrase}
            BY <1>2, <3>3
        <3>5. j + 1 = i
            BY <3>2
        <3> QED BY <2>1, <3>4, <3>5
    <2>5. Told(QnapLine(s, line), labels, phrase, old \union {line.label}, Waiting(line, labels))
        BY <1>4, <2>1, <2>2, <2>3, <2>4, QnapStep
    <2>6. h[i] = QnapLine(s, line)
        BY <1>1, <2>1 DEF QnapReads
    <2>7. seen(i) = old \union {line.label}
        <3>1. \A k : k \in 1..i <=> k \in 1..(i - 1) \/ k = i
            OBVIOUS
        <3> QED BY <2>1, <2>2, <3>1
    <2>8. wait(i) = Waiting(line, labels)
        BY <2>1
    <2> HIDE DEF seen, wait
    <2> QED BY <2>5, <2>6, <2>7, <2>8
<1>5. told(n)
    <2>1. 0 \in P
        <3>1. 0 \in 0..n
            OBVIOUS
        <3> HIDE DEF told
        <3> QED BY <1>3, <3>1
    <2>2. ASSUME NEW i \in 1..n, i - 1 \in P PROVE i \in P
        <3>1. i \in 0..n
            OBVIOUS
        <3> HIDE DEF told
        <3> QED BY <1>4, <2>2, <3>1
    <2>3. n \in P
        <3> HIDE DEF P
        <3>1. 0..n \subseteq P
            BY <2>1, <2>2, Induction
        <3> QED BY <3>1
    <2> HIDE DEF told
    <2> QED BY <2>3
<1>6. wait(n) = {}
    <2>1. n \in 1..n => ~(lines[n].label \in labels /\ lines[n].value = {})
        <3>1. {} # {phrase} /\ n + 1 \notin 1..n
            OBVIOUS
        <3> QED BY <1>2, <3>1
    <2>2. n # 0 => n \in 1..n
        OBVIOUS
    <2> QED BY <2>1, <2>2 DEF Waiting
<1>7. PICK s \in States : s = h[n]
    BY <1>1
<1>8. PICK f \in Fields : f = s.fields /\ f = PlainFields("qnap", lines)
    BY <1>1, <1>7, StateKeeps DEF QnapReads
<1>9. \A l \in labels : Value(f, l) = {phrase} \/ (Value(f, l) = {} /\ l \notin seen(n))
    <2> HIDE DEF seen, wait
    <2> QED BY <1>5, <1>6, <1>7, <1>8 DEF Told
<1>10. Agrees(f, labels, phrase)
    BY <1>9 DEF Agrees
<1>11. \A i \in 1..n : lines[i].label \in labels => Tells(f, labels, phrase)
    BY <1>9 DEF Tells
<1> QED BY <1>8, <1>10, <1>11

\* Grafana passes over a label without a value.
Heard(fields, labels, phrase, seen) ==
    \A l \in labels : Value(fields, l) = {phrase} \/ (Value(fields, l) = {} /\ l \notin seen)

GrafanaContinuable == {"description", "details", "message", "summary"}

LEMMA GrafanaStep ==
    ASSUME NEW state \in States, NEW line \in Lines, NEW labels, NEW phrase, NEW seen,
           Heard(state.fields, labels, phrase, seen),
           \A l \in labels : GrafanaLabel(l), labels \cap GrafanaContinuable = {},
           line.label \in labels => line.value \in {{}, {phrase}}
    PROVE  Heard(GrafanaLine(state, line).fields, labels, phrase,
                 seen \union IF line.value = {} THEN {} ELSE {line.label})
<1>1. PICK f \in Fields, c \in Labels : f = state.fields /\ c = state.current
    BY StateKeeps
<1>2. PICK label \in Labels, value \in Sayings : label = line.label /\ value = line.value
    BY LineIs
<1>3. PICK new : new = GrafanaLine(state, line).fields
    OBVIOUS
<1>4. \A l \in labels : Value(f, l) = {phrase} \/ (Value(f, l) = {} /\ l \notin seen)
    BY <1>1 DEF Heard
<1>5. PICK heard : heard = seen \union IF value = {} THEN {} ELSE {label}
    OBVIOUS
<1>6. Heard(new, labels, phrase, heard)
    <2>1. CASE Blank(line)
        <3>1. value = {}
            BY <1>2, <2>1 DEF Blank
        <3>2. new = f
            <4>1. GrafanaLine(state, line) = [state EXCEPT !.current = ""]
                BY <2>1 DEF GrafanaLine
            <4>2. PICK r : r = GrafanaLine(state, line)
                OBVIOUS
            <4>3. r = [fields |-> f, current |-> ""]
                BY <1>1, <4>1, <4>2, StateExcept, Zenon
            <4>4. r.fields = f
                BY <4>3
            <4> QED BY <1>3, <4>2, <4>4
        <3>3. heard = seen
            BY <1>5, <3>1
        <3> QED BY <1>4, <3>2, <3>3 DEF Heard
    <2>2. CASE ~Blank(line) /\ GrafanaLabel(label) /\ value = {}
        <3>1. GrafanaLine(state, line) = state
            BY <1>2, <2>2 DEF GrafanaLine
        <3>2. heard = seen
            BY <1>5, <2>2
        <3> QED BY <1>1, <1>3, <1>4, <3>1, <3>2 DEF Heard
    <2>3. CASE ~Blank(line) /\ GrafanaLabel(label) /\ value # {}
        <3>1. PICK w : w = With(f, label, value) /\ Puts(w, f, label, value)
            BY WithPuts
        <3>2. GrafanaLine(state, line) = [fields |-> w, current |-> label]
            BY <1>1, <1>2, <2>3, <3>1 DEF GrafanaLine
        <3>3. new = w
            BY <1>3, <3>2
        <3>4. \A l : Value(new, l) = IF l = label THEN value ELSE Value(f, l)
            BY <3>1, <3>3 DEF Puts
        <3>5. label \in labels => value = {phrase}
            BY <1>2, <2>3
        <3>6. heard = seen \union {label}
            BY <1>5, <2>3
        <3>7. ASSUME NEW l \in labels
              PROVE  Value(new, l) = {phrase} \/ (Value(new, l) = {} /\ l \notin heard)
            <4>1. CASE l = label
                <5>1. Value(new, l) = value
                    BY <3>4, <4>1
                <5>2. value = {phrase}
                    BY <3>5, <4>1
                <5> QED BY <5>1, <5>2
            <4>2. CASE l # label
                BY <1>4, <3>4, <3>6, <4>2
            <4> QED BY <4>1, <4>2
        <3> QED BY <3>7 DEF Heard
    <2>4. CASE ~Blank(line) /\ ~GrafanaLabel(label)
        <3>1. label \notin labels
            BY <2>4
        <3>2. GrafanaLine(state, line) = IF c \in GrafanaContinuable
                                         THEN Continued(state, line) ELSE state
            BY <1>1, <1>2, <2>4 DEF GrafanaLine, GrafanaContinuable
        <3>3. \A l \in labels : Value(new, l) = Value(f, l)
            <4>1. CASE c \in GrafanaContinuable
                <5>1. new = Continued(state, line).fields /\ c \notin labels
                    BY <1>3, <3>2, <4>1
                <5>2. ASSUME NEW l \in labels PROVE Value(new, l) = Value(f, l)
                    <6>1. l # state.current
                        BY <1>1, <5>1
                    <6>2. Value(Continued(state, line).fields, l) = Value(state.fields, l)
                        BY <6>1, ContinuedElsewhere
                    <6> QED BY <1>1, <5>1, <6>2
                <5> QED BY <5>2
            <4>2. CASE c \notin GrafanaContinuable
                BY <1>1, <1>3, <3>2, <4>2
            <4> QED BY <4>1, <4>2
        <3>4. \A l \in labels : l \in heard => l \in seen
            BY <1>5, <3>1
        <3> QED BY <1>4, <3>3, <3>4 DEF Heard
    <2> QED BY <2>1, <2>2, <2>3, <2>4
<1> QED BY <1>2, <1>3, <1>5, <1>6

LEMMA GrafanaTells ==
    ASSUME NEW n \in Nat, NEW lines \in [1..n -> Lines], NEW labels, NEW phrase,
           \A l \in labels : GrafanaLabel(l), labels \cap GrafanaContinuable = {},
           \A i \in 1..n : lines[i].label \in labels => lines[i].value \in {{}, {phrase}}
    PROVE  /\ PlainFields("grafana", lines) \in Fields
           /\ Agrees(PlainFields("grafana", lines), labels, phrase)
           /\ \A i \in 1..n : lines[i].label \in labels /\ lines[i].value = {phrase}
                                => Tells(PlainFields("grafana", lines), labels, phrase)
<1>1. PICK h \in [0..n -> States] : GrafanaReads(h, n, lines)
    BY GrafanaSteps
<1> DEFINE seen(j) == {lines[k].label : k \in {i \in 1..j : lines[i].value # {}}}
           told(j) == Heard(h[j].fields, labels, phrase, seen(j))
           P == {j \in 0..n : told(j)}
<1>3. told(0)
    <2>1. PICK f : f = h[0].fields
        OBVIOUS
    <2>2. f = NoFields
        BY <1>1, <2>1, StartIs DEF GrafanaReads
    <2>3. \A l \in labels : Value(f, l) = {} /\ l \notin seen(0)
        BY <2>2, NoFieldsIs
    <2> HIDE DEF seen
    <2> QED BY <2>1, <2>3 DEF Heard
<1>4. ASSUME NEW i \in 1..n, told(i - 1) PROVE told(i)
    <2>1. PICK s \in States, line \in Lines : s = h[i - 1] /\ line = lines[i]
        BY <1>1
    <2>2. PICK old : old = seen(i - 1)
        OBVIOUS
    <2>3. line.label \in labels => line.value \in {{}, {phrase}}
        BY <2>1
    <2>4. Heard(GrafanaLine(s, line).fields, labels, phrase,
                old \union IF line.value = {} THEN {} ELSE {line.label})
        BY <1>4, <2>1, <2>2, <2>3, GrafanaStep
    <2>5. h[i] = GrafanaLine(s, line)
        BY <1>1, <2>1 DEF GrafanaReads
    <2>6. seen(i) = old \union IF line.value = {} THEN {} ELSE {line.label}
        <3>1. \A k : k \in 1..i <=> k \in 1..(i - 1) \/ k = i
            OBVIOUS
        <3> QED BY <2>1, <2>2, <3>1
    <2> HIDE DEF seen
    <2> QED BY <2>4, <2>5, <2>6
<1>5. told(n)
    <2>1. 0 \in P
        <3>1. 0 \in 0..n
            OBVIOUS
        <3> HIDE DEF told
        <3> QED BY <1>3, <3>1
    <2>2. ASSUME NEW i \in 1..n, i - 1 \in P PROVE i \in P
        <3>1. i \in 0..n
            OBVIOUS
        <3> HIDE DEF told
        <3> QED BY <1>4, <2>2, <3>1
    <2>3. n \in P
        <3> HIDE DEF P
        <3>1. 0..n \subseteq P
            BY <2>1, <2>2, Induction
        <3> QED BY <3>1
    <2> HIDE DEF told
    <2> QED BY <2>3
<1>7. PICK s \in States : s = h[n]
    BY <1>1
<1>8. PICK f \in Fields : f = s.fields /\ f = PlainFields("grafana", lines)
    BY <1>1, <1>7, StateKeeps DEF GrafanaReads
<1>9. \A l \in labels : Value(f, l) = {phrase} \/ (Value(f, l) = {} /\ l \notin seen(n))
    <2> HIDE DEF seen
    <2> QED BY <1>5, <1>7, <1>8 DEF Heard
<1>10. Agrees(f, labels, phrase)
    BY <1>9 DEF Agrees
<1>11. \A i \in 1..n : lines[i].label \in labels /\ lines[i].value = {phrase}
                         => Tells(f, labels, phrase)
    BY <1>9 DEF Tells
<1> QED BY <1>8, <1>10, <1>11

\* Labels that a parser reads and that no line of text continues.
Plainly(parser, labels) ==
    /\ parser \in {"qnap", "grafana"}
    /\ \A l \in labels : IsLabel(parser, l) /\ l # ""
    /\ labels \cap (QnapContinuable \union GrafanaContinuable) = {}

LEMMA PlainTells ==
    ASSUME NEW lines \in Seq(Lines), NEW parser, NEW labels, NEW phrase,
           Plainly(parser, labels), Stating(lines, labels, phrase)
    PROVE  /\ PlainFields(parser, lines) \in Fields
           /\ Agrees(PlainFields(parser, lines), labels, phrase)
           /\ \A x \in ToSet(lines) : x.label \in labels /\ x.value = {phrase}
                                        => Tells(PlainFields(parser, lines), labels, phrase)
<1>1. PICK n \in Nat : n = Len(lines) /\ lines \in [1..n -> Lines]
    BY LenProperties
<1>2. \A x \in ToSet(lines) : \E i \in 1..n : x = lines[i]
    BY <1>1, ToSetIs
<1>3. CASE parser = "qnap"
    <2>1. \A l \in labels : QnapLabel(l)
        BY <1>3 DEF Plainly, IsLabel
    <2>2. labels \cap QnapContinuable = {}
        BY DEF Plainly
    <2>3. /\ PlainFields("qnap", lines) \in Fields
          /\ Agrees(PlainFields("qnap", lines), labels, phrase)
          /\ \A i \in 1..n : lines[i].label \in labels
                               => Tells(PlainFields("qnap", lines), labels, phrase)
        BY <1>1, <2>1, <2>2, QnapTells
    <2> QED BY <1>2, <1>3, <2>3
<1>4. CASE parser = "grafana"
    <2>1. \A l \in labels : GrafanaLabel(l)
        BY <1>4 DEF Plainly, IsLabel
    <2>2. labels \cap GrafanaContinuable = {}
        BY DEF Plainly
    <2>3. \A i \in 1..n : lines[i].label \in labels => lines[i].value \in {{}, {phrase}}
        BY <1>1 DEF Stating
    <2>4. /\ PlainFields("grafana", lines) \in Fields
          /\ Agrees(PlainFields("grafana", lines), labels, phrase)
          /\ \A i \in 1..n : lines[i].label \in labels /\ lines[i].value = {phrase}
                               => Tells(PlainFields("grafana", lines), labels, phrase)
        BY <1>1, <2>1, <2>2, <2>3, GrafanaTells
    <2> QED BY <1>2, <1>4, <2>4
<1> QED BY <1>3, <1>4 DEF Plainly

\* Sequences of one line and of two.
LEMMA OneLine ==
    ASSUME NEW S, NEW a \in S, NEW r, r = <<a>>
    PROVE  r \in Seq(S) /\ ToSet(r) = {a} /\ \A i \in 1..Len(r) : r[i] = a
BY DEF ToSet

IsPair(r, a, b) ==
    \A i \in 1..Len(r) : \/ r[i] = a /\ i + 1 \in 1..Len(r) /\ r[i + 1] = b
                         \/ r[i] = b

LEMMA TwoLines ==
    ASSUME NEW S, NEW a \in S, NEW b \in S
    PROVE  <<a, b>> \in Seq(S) /\ IsPair(<<a, b>>, a, b)
<1> PICK r : r = <<a, b>>
    OBVIOUS
<1>1. r \in Seq(S) /\ Len(r) = 2 /\ r[1] = a /\ r[2] = b
    OBVIOUS
<1>2. ASSUME NEW i \in 1..2
      PROVE  \/ r[i] = a /\ i + 1 \in 1..2 /\ r[i + 1] = b
             \/ r[i] = b
    <2>1. i = 1 \/ i = 2
        OBVIOUS
    <2> QED BY <1>1, <2>1
<1>3. IsPair(r, a, b)
    BY <1>1, <1>2 DEF IsPair
<1> QED BY <1>1, <1>3

\* What an entry of HTML becomes as text.
LEMMA RenderedIs ==
    ASSUME NEW line \in Lines, NEW labels, NEW phrase, "" \notin labels,
           line.label \in labels => line.value = {phrase}
    PROVE  /\ Rendered(line) \in Seq(Lines)
           /\ Stating(Rendered(line), labels, phrase)
           /\ line.form = "line" => line \in ToSet(Rendered(line))
<1>1. PICK label \in Labels, value \in Sayings : label = line.label /\ value = line.value
    BY LineIs
<1>2. CASE line.form = "line"
    <2>1. Rendered(line) = <<line>>
        BY <1>2 DEF Rendered
    <2>2. PICK r : r = <<line>>
        OBVIOUS
    <2>3. r \in Seq(Lines) /\ ToSet(r) = {line} /\ \A i \in 1..Len(r) : r[i] = line
        BY <2>2, OneLine
    <2>4. Stating(r, labels, phrase)
        BY <2>3 DEF Stating
    <2> QED BY <2>1, <2>2, <2>3, <2>4
<1>3. CASE line.form # "line"
    <2>1. PICK a : a = IF line.colon THEN Line(label, {}) ELSE Text(Idle)
        OBVIOUS
    <2>2. PICK b : b = Text(value)
        OBVIOUS
    <2>3. {} \in Sayings /\ Idle \in Sayings /\ "" \in Labels
        BY LettersAssumption DEF Sayings
    <2>4. /\ Line(label, {}) \in Lines
          /\ Line(label, {}).label = label /\ Line(label, {}).value = {}
        BY <2>3, TextLine
    <2>5. /\ Text(Idle) \in Lines /\ Text(Idle).label = ""
        BY <2>3, TextLine DEF Text
    <2>6. a \in Lines /\ a.label \in {label, ""} /\ (a.label = label => a.value = {} \/ label = "")
        BY <2>1, <2>4, <2>5
    <2>7. b \in Lines /\ b.label = "" /\ b.value = value
        BY <2>2, <2>3, TextLine DEF Text
    <2>8. Rendered(line) = <<a, b>>
        BY <1>1, <1>3, <2>1, <2>2 DEF Rendered
    <2>9. PICK r : r = <<a, b>>
        OBVIOUS
    <2>13. a \in Lines /\ b \in Lines
        BY <2>6, <2>7
    <2>10. r \in Seq(Lines) /\ IsPair(r, a, b)
        BY <2>9, <2>13, TwoLines
    <2>11. a.label \in labels => a.value = {} /\ b.value = {phrase}
        BY <1>1, <2>6, <2>7
    <2>12. Stating(r, labels, phrase)
        BY <2>7, <2>10, <2>11 DEF Stating, IsPair
    <2> QED BY <1>3, <2>8, <2>9, <2>10, <2>12
<1> QED BY <1>2, <1>3

LEMMA PlainTextIs ==
    ASSUME NEW html \in Seq(Lines), NEW labels, NEW phrase, "" \notin labels,
           \A x \in ToSet(html) : x.label \in labels => x.value = {phrase}
    PROVE  /\ PlainText(html) \in Seq(Lines)
           /\ Stating(PlainText(html), labels, phrase)
           /\ \A x \in ToSet(html) : x.form = "line" /\ x.label \in labels
                                       => x \in ToSet(PlainText(html))
<1>1. PICK n \in Nat : n = Len(html) /\ html \in [1..n -> Lines]
    BY LenProperties
<1>2. \A i \in 1..n : html[i] \in Lines /\ html[i] \in ToSet(html)
    BY <1>1, ToSetIs
<1>3. \A i \in 1..n : /\ Rendered(html[i]) \in Seq(Lines)
                      /\ Stating(Rendered(html[i]), labels, phrase)
                      /\ html[i].form = "line" => html[i] \in ToSet(Rendered(html[i]))
    BY <1>2, RenderedIs
<1>4. PICK seqs : seqs = [i \in 1..n |-> Rendered(html[i])]
    OBVIOUS
<1>5. seqs \in [1..n -> Seq(Lines)] /\ \A i \in 1..n : seqs[i] = Rendered(html[i])
    BY <1>3, <1>4
<1>6. \A i \in 1..n : Stating(seqs[i], labels, phrase)
    BY <1>3, <1>5
<1>7. PICK all \in Seq(Lines) : /\ all = FlattenSeq(seqs)
                                /\ \A x : x \in ToSet(all) <=> \E k \in 1..n : x \in ToSet(seqs[k])
    BY <1>5, FlattenIs
<1>8. Stating(all, labels, phrase)
    BY <1>5, <1>6, <1>7, FlattenStating
<1>9. PlainText(html) = Visible(all)
    BY <1>1, <1>4, <1>7 DEF PlainText
<1>10. \A x : x \in ToSet(html) <=> \E i \in 1..n : x = html[i]
    BY <1>1, Elements
<1>11. ASSUME NEW x \in ToSet(html), x.form = "line", x.label \in labels
       PROVE  x \in ToSet(Visible(all))
    <2>3. PICK i \in 1..n : x = html[i]
        BY <1>10, <1>11
    <2>4. x \in ToSet(seqs[i])
        BY <1>3, <1>5, <1>11, <2>3
    <2>1. x \in ToSet(all)
        BY <1>7, <2>4
    <2>2. ~Blank(x)
        BY <1>11 DEF Blank
    <2> QED BY <2>1, <2>2, VisibleIs
<1>12. Visible(all) \in Seq(Lines) /\ Stating(Visible(all), labels, phrase)
    BY <1>8, VisibleIs, VisibleStating
<1> QED BY <1>9, <1>11, <1>12

\* What a mail states in the parts that are read.
Readables(mail) == ToSet(Readable(mail, "plain")) \union ToSet(Readable(mail, "html"))

LEMMA LinesAre ==
    ASSUME NEW mail \in Letters
    PROVE  \A x : x \in LinesOf(mail) <=>
               \/ \E p \in ToSet(PartsOf(mail, "plain")) : x \in ToSet(p.lines)
               \/ \E p \in ToSet(PartsOf(mail, "html")) : x \in ToSet(p.lines)
<1>1. PICK plain \in Seq(MailParts), html \in Seq(MailParts) :
          plain = PartsOf(mail, "plain") /\ html = PartsOf(mail, "html")
    BY PartsAre
<1>2. /\ plain \o html \in Seq(MailParts)
      /\ ToSet(plain \o html) = ToSet(plain) \union ToSet(html)
    BY ConcatIs
<1> QED BY <1>1, <1>2 DEF LinesOf

LEMMA ReadablesAre ==
    ASSUME NEW mail \in Letters
    PROVE  \A x : x \in Readables(mail) <=>
               \/ \E p \in ToSet(PartsOf(mail, "plain")) : Visible(p.lines) # <<>> /\ x = p.lines
               \/ \E p \in ToSet(PartsOf(mail, "html")) : Visible(p.lines) # <<>> /\ x = p.lines
<1>1. \A x : x \in ToSet(Readable(mail, "plain")) <=>
          \E p \in ToSet(PartsOf(mail, "plain")) : Visible(p.lines) # <<>> /\ x = p.lines
    BY ReadableIs
<1>2. \A x : x \in ToSet(Readable(mail, "html")) <=>
          \E p \in ToSet(PartsOf(mail, "html")) : Visible(p.lines) # <<>> /\ x = p.lines
    BY ReadableIs
<1> QED BY <1>1, <1>2 DEF Readables

LEMMA StatedIsRead ==
    ASSUME NEW mail \in Letters, NEW aliases, NEW phrase, OnlyStates(mail, aliases, phrase),
           "" \notin ToSet(aliases)
    PROVE  /\ \A lines \in Readables(mail) :
                  \A x \in ToSet(lines) : x.label \in ToSet(aliases) => x.value = {phrase}
           /\ \E lines \in Readables(mail) :
                  \E x \in ToSet(lines) : x.label \in ToSet(aliases)
<1>1. PICK plain, html : plain = ToSet(PartsOf(mail, "plain")) /\ html = ToSet(PartsOf(mail, "html"))
    OBVIOUS
<1>2. \A p \in plain \union html : p \in MailParts
    BY <1>1, PartsAre, ToSetIs
<1>3. \A x : x \in LinesOf(mail) <=> \E p \in plain \union html : x \in ToSet(p.lines)
    BY <1>1, LinesAre
<1>4. \A x : x \in Readables(mail) <=>
          \E p \in plain \union html : Visible(p.lines) # <<>> /\ x = p.lines
    <2>1. \A x : x \in Readables(mail) <=>
              \/ \E p \in plain : Visible(p.lines) # <<>> /\ x = p.lines
              \/ \E p \in html : Visible(p.lines) # <<>> /\ x = p.lines
        BY <1>1, ReadablesAre
    <2> QED BY <2>1, Zenon
<1>7. \A x \in LinesOf(mail) : x.label \in ToSet(aliases) => x.value = {phrase}
    BY DEF OnlyStates
<1>8. PICK x \in LinesOf(mail) : x.label \in ToSet(aliases)
    BY DEF OnlyStates
<1>9. PICK p \in plain \union html : x \in ToSet(p.lines)
    BY <1>3, <1>8
<1>10. p.lines \in Seq(Lines)
    BY <1>2, PartIs
<1>11. Visible(p.lines) # <<>>
    <2>1. ~Blank(x)
        BY <1>8 DEF Blank
    <2> QED BY <1>9, <1>10, <2>1, VisibleIs
<1>12. p.lines \in Readables(mail)
    BY <1>4, <1>11
<1>13. \A lines \in Readables(mail) : \A y \in ToSet(lines) : y \in LinesOf(mail)
    BY <1>3, <1>4
<1> QED BY <1>7, <1>8, <1>9, <1>12, <1>13

-----------------------------------------------------------------------------
(* The parts of a mail together, and the tables its phrases are looked up in.*)

\* A parser that finds something to read reads that.
LEMMA PartsUsable ==
    ASSUME NEW mail \in Letters, NEW lines \in Readables(mail)
    PROVE  Parts(mail) = Usable(mail)
<1>1. PICK plain \in Seq(Seq(Lines)), html \in Seq(Seq(Lines)) :
          plain = Readable(mail, "plain") /\ html = Readable(mail, "html")
    BY ReadableIs
<1>2. lines \in ToSet(plain) \union ToSet(html)
    BY <1>1 DEF Readables
<1>3. \A s : s = <<>> => ToSet(s) = {}
    BY DEF ToSet
<1>4. plain # <<>> \/ html # <<>>
    BY <1>2, <1>3
<1>5. PICK u : u = Usable(mail)
    OBVIOUS
<1>6. u = [plain |-> plain, html |-> html]
    BY <1>1, <1>5 DEF Usable
<1>7. u.plain = plain /\ u.html = html
    BY <1>6
<1>8. Parts(mail) = u
    BY <1>4, <1>5, <1>7 DEF Parts
<1> QED BY <1>5, <1>8

\* The fields of each part of a mail are there.
Itemised(items, parser, k, html, m, plain) ==
    \A f : f \in ToSet(items) <=>
        \/ \E i \in 1..k : f = HtmlFields(parser, html[i])
        \/ \E i \in 1..m : f = PlainFields(parser, plain[i])
        \/ \E i \in 1..k : f = PlainFields(parser, PlainText(html[i]))

LEMMA PartFieldsAre ==
    ASSUME NEW parser, NEW mail, NEW m \in Nat, NEW k \in Nat,
           NEW plain \in [1..m -> Seq(Lines)], NEW html \in [1..k -> Seq(Lines)],
           Parts(mail) = [plain |-> plain, html |-> html],
           \A i \in 1..k : HtmlFields(parser, html[i]) \in Fields,
           \A i \in 1..m : PlainFields(parser, plain[i]) \in Fields,
           \A i \in 1..k : PlainFields(parser, PlainText(html[i])) \in Fields
    PROVE  /\ PartFields(parser, mail) \in Seq(Fields)
           /\ Itemised(PartFields(parser, mail), parser, k, html, m, plain)
<1>1. DOMAIN html = 1..k /\ DOMAIN plain = 1..m
    OBVIOUS
<1>2. Parts(mail).plain = plain /\ Parts(mail).html = html
    OBVIOUS
<1>3. PICK a, b, c : /\ a = [i \in 1..k |-> HtmlFields(parser, html[i])]
                     /\ b = [i \in 1..m |-> PlainFields(parser, plain[i])]
                     /\ c = [i \in 1..k |-> PlainFields(parser, PlainText(html[i]))]
    OBVIOUS
<1>4. PartFields(parser, mail) = a \o b \o c
    BY <1>1, <1>2, <1>3 DEF PartFields
<1>5. /\ a \in Seq(Fields)
      /\ \A f : f \in ToSet(a) <=> \E i \in 1..k : f = HtmlFields(parser, html[i])
    <2>1. a \in Seq(Fields) /\ DOMAIN a = 1..k
        BY <1>3
    <2>2. \A i \in 1..k : a[i] = HtmlFields(parser, html[i])
        BY <1>3
    <2> QED BY <2>1, <2>2 DEF ToSet
<1>6. /\ b \in Seq(Fields)
      /\ \A f : f \in ToSet(b) <=> \E i \in 1..m : f = PlainFields(parser, plain[i])
    <2>1. b \in Seq(Fields) /\ DOMAIN b = 1..m
        BY <1>3
    <2>2. \A i \in 1..m : b[i] = PlainFields(parser, plain[i])
        BY <1>3
    <2> QED BY <2>1, <2>2 DEF ToSet
<1>7. /\ c \in Seq(Fields)
      /\ \A f : f \in ToSet(c) <=> \E i \in 1..k : f = PlainFields(parser, PlainText(html[i]))
    <2>1. c \in Seq(Fields) /\ DOMAIN c = 1..k
        BY <1>3
    <2>2. \A i \in 1..k : c[i] = PlainFields(parser, PlainText(html[i]))
        BY <1>3
    <2> QED BY <2>1, <2>2 DEF ToSet
<1>8. PICK ab \in Seq(Fields) : ab = a \o b /\ ToSet(ab) = ToSet(a) \union ToSet(b)
    <2>1. a \o b \in Seq(Fields) /\ ToSet(a \o b) = ToSet(a) \union ToSet(b)
        BY <1>5, <1>6, ConcatIs
    <2> QED BY <2>1
<1>9. PICK abc \in Seq(Fields) : abc = ab \o c /\ ToSet(abc) = ToSet(ab) \union ToSet(c)
    <2>1. ab \o c \in Seq(Fields) /\ ToSet(ab \o c) = ToSet(ab) \union ToSet(c)
        BY <1>7, ConcatIs
    <2> QED BY <2>1
<1>10. PartFields(parser, mail) = abc
    BY <1>4, <1>8, <1>9
<1>11. \A f : f \in ToSet(abc) <=> f \in ToSet(a) \/ f \in ToSet(b) \/ f \in ToSet(c)
    BY <1>8, <1>9
<1>12. Itemised(abc, parser, k, html, m, plain)
    BY <1>5, <1>6, <1>7, <1>11 DEF Itemised
<1> QED BY <1>10, <1>12

\* The lines of a readable HTML part are no rows of guests.
LEMMA HtmlForms ==
    ASSUME NEW mail \in Letters, NEW lines \in ToSet(Readable(mail, "html")),
           NEW x \in ToSet(lines)
    PROVE  x.form \in {"line", "row", "term", "bold"}
<1>1. PICK p \in ToSet(PartsOf(mail, "html")) : lines = p.lines
    BY ReadableIs
<1>2. p \in ToSet(mail.parts) /\ p.type = "html" /\ p \in MailParts
    <2>1. p \in {q \in ToSet(mail.parts) : q.type = "html" /\ ~q.attached}
        BY PartsAre
    <2>2. p \in MailParts
        BY PartsAre, ToSetIs
    <2> QED BY <2>1, <2>2
<1>3. x.form # "guest"
    BY <1>1, <1>2, LettersAssumption
<1>4. x \in Lines
    BY <1>1, <1>2, PartIs, ToSetIs
<1>5. x.form \in Forms
    BY <1>4 DEF Lines
<1> QED BY <1>3, <1>5 DEF Forms

\* What a mail states in one way its fields say.
LEMMA MailTells ==
    ASSUME NEW mail \in Letters, NEW parser, NEW aliases, NEW labels, NEW phrase,
           labels = ToSet(aliases), Plainly(parser, labels),
           OnlyStates(mail, aliases, phrase)
    PROVE  /\ SourceFields(parser, mail) \in Fields
           /\ Agrees(SourceFields(parser, mail), labels, phrase)
           /\ Tells(SourceFields(parser, mail), labels, phrase)
<1>1. PICK plain \in Seq(Seq(Lines)), html \in Seq(Seq(Lines)) :
          plain = Readable(mail, "plain") /\ html = Readable(mail, "html")
    BY ReadableIs
<1>2. PICK m \in Nat, k \in Nat : /\ m = Len(plain) /\ plain \in [1..m -> Seq(Lines)]
                                  /\ k = Len(html) /\ html \in [1..k -> Seq(Lines)]
    BY LenProperties
<1>3. /\ \A x : x \in ToSet(plain) <=> \E i \in 1..m : x = plain[i]
      /\ \A x : x \in ToSet(html) <=> \E i \in 1..k : x = html[i]
    BY <1>2, Elements
<1>4. "" \notin labels
    BY DEF Plainly
<1>5. /\ \A s \in Readables(mail) : \A x \in ToSet(s) : x.label \in labels => x.value = {phrase}
      /\ \E s \in Readables(mail) : \E x \in ToSet(s) : x.label \in labels
    <2>1. "" \notin ToSet(aliases)
        BY <1>4
    <2>2. /\ \A s \in Readables(mail) :
                 \A x \in ToSet(s) : x.label \in ToSet(aliases) => x.value = {phrase}
          /\ \E s \in Readables(mail) : \E x \in ToSet(s) : x.label \in ToSet(aliases)
        BY <2>1, StatedIsRead
    <2> QED BY <2>2
<1>6. Readables(mail) = ToSet(plain) \union ToSet(html)
    BY <1>1 DEF Readables
<1>7. Parts(mail) = [plain |-> plain, html |-> html]
    BY <1>1, <1>5, PartsUsable DEF Usable
<1>8. ASSUME NEW i \in 1..m
      PROVE  /\ PlainFields(parser, plain[i]) \in Fields
             /\ Agrees(PlainFields(parser, plain[i]), labels, phrase)
             /\ \A x \in ToSet(plain[i]) : x.label \in labels
                    => Tells(PlainFields(parser, plain[i]), labels, phrase)
    <2>1. PICK s \in Seq(Lines) : s = plain[i]
        BY <1>2
    <2>2. \A x \in ToSet(s) : x.label \in labels => x.value = {phrase}
        BY <1>3, <1>5, <1>6, <2>1
    <2>3. Stating(s, labels, phrase)
        BY <2>2, ToSetIs DEF Stating
    <2>4. /\ PlainFields(parser, s) \in Fields
          /\ Agrees(PlainFields(parser, s), labels, phrase)
          /\ \A x \in ToSet(s) : x.label \in labels /\ x.value = {phrase}
                                   => Tells(PlainFields(parser, s), labels, phrase)
        BY <2>3, PlainTells
    <2> QED BY <2>1, <2>2, <2>4
<1>9. ASSUME NEW i \in 1..k
      PROVE  /\ HtmlFields(parser, html[i]) \in Fields
             /\ Agrees(HtmlFields(parser, html[i]), labels, phrase)
             /\ PlainFields(parser, PlainText(html[i])) \in Fields
             /\ Agrees(PlainFields(parser, PlainText(html[i])), labels, phrase)
             /\ \A x \in ToSet(html[i]) : x.label \in labels
                    => \/ Tells(HtmlFields(parser, html[i]), labels, phrase)
                       \/ Tells(PlainFields(parser, PlainText(html[i])), labels, phrase)
    <2>1. PICK s \in Seq(Lines) : s = html[i] /\ s \in ToSet(html)
        BY <1>2, <1>3
    <2>2. \A x \in ToSet(s) : x.label \in labels => x.value = {phrase}
        BY <1>5, <1>6, <2>1
    <2>3. /\ HtmlFields(parser, s) \in Fields
          /\ Agrees(HtmlFields(parser, s), labels, phrase)
          /\ \A x \in ToSet(s) :
                  x.form \in {"row", "term", "bold"} /\ IsLabel(parser, x.label)
                      /\ x.label \in labels
                  => Tells(HtmlFields(parser, s), labels, phrase)
        BY <2>2, HtmlTells
    <2>4. PICK t \in Seq(Lines) : /\ t = PlainText(s) /\ Stating(t, labels, phrase)
                                  /\ \A x \in ToSet(s) : x.form = "line" /\ x.label \in labels
                                                           => x \in ToSet(t)
        BY <1>4, <2>2, PlainTextIs
    <2>5. /\ PlainFields(parser, t) \in Fields
          /\ Agrees(PlainFields(parser, t), labels, phrase)
          /\ \A x \in ToSet(t) : x.label \in labels /\ x.value = {phrase}
                                   => Tells(PlainFields(parser, t), labels, phrase)
        BY <2>4, PlainTells
    <2>6. \A x \in ToSet(s) : x.form = "line" \/ x.form \in {"row", "term", "bold"}
        BY <1>1, <2>1, HtmlForms
    <2>7. \A x \in ToSet(s) : x.label \in labels => IsLabel(parser, x.label)
        BY DEF Plainly
    <2>8. ASSUME NEW x \in ToSet(s), x.label \in labels
          PROVE  \/ Tells(HtmlFields(parser, s), labels, phrase)
                 \/ Tells(PlainFields(parser, t), labels, phrase)
        <3>1. CASE x.form = "line"
            BY <2>2, <2>4, <2>5, <2>8, <3>1
        <3>2. CASE x.form \in {"row", "term", "bold"}
            BY <2>3, <2>7, <2>8, <3>2
        <3> QED BY <2>6, <3>1, <3>2
    <2> QED BY <2>1, <2>3, <2>4, <2>5, <2>8
<1>10. PICK items \in Seq(Fields) :
          items = PartFields(parser, mail) /\ Itemised(items, parser, k, html, m, plain)
    <2>1. \A i \in 1..k : HtmlFields(parser, html[i]) \in Fields
        BY <1>9
    <2>2. \A i \in 1..m : PlainFields(parser, plain[i]) \in Fields
        BY <1>8
    <2>3. \A i \in 1..k : PlainFields(parser, PlainText(html[i])) \in Fields
        BY <1>9
    <2>4. /\ PartFields(parser, mail) \in Seq(Fields)
          /\ Itemised(PartFields(parser, mail), parser, k, html, m, plain)
        BY <1>2, <1>7, <2>1, <2>2, <2>3, PartFieldsAre
    <2> QED BY <2>4
<1>11. \A f \in ToSet(items) : Agrees(f, labels, phrase)
    BY <1>8, <1>9, <1>10 DEF Itemised
<1>12. \E f \in ToSet(items) : Tells(f, labels, phrase)
    <2>1. PICK s \in Readables(mail) : \E x \in ToSet(s) : x.label \in labels
        BY <1>5
    <2>2. CASE s \in ToSet(plain)
        BY <1>3, <1>8, <1>10, <2>1, <2>2 DEF Itemised
    <2>3. CASE s \in ToSet(html)
        BY <1>3, <1>9, <1>10, <2>1, <2>3 DEF Itemised
    <2> QED BY <1>6, <2>2, <2>3
<1>13. PICK n \in Nat : n = Len(items) /\ items \in [1..n -> Fields]
    BY LenProperties
<1>14. \A f : f \in ToSet(items) <=> \E i \in 1..n : f = items[i]
    BY <1>13, Elements
<1>15. \A i \in 1..n : Agrees(items[i], labels, phrase)
    BY <1>11, <1>14
<1>16. PICK i \in 1..n : Tells(items[i], labels, phrase)
    BY <1>12, <1>14
<1> QED BY <1>10, <1>13, <1>15, <1>16, SourceTells

\* A table whose lists have no word in common gives each of its words one status.
LEMMA ExactlyIs ==
    ASSUME NEW table, DOMAIN table \in SUBSET Nat, NEW i \in DOMAIN table, NEW word \in table[i][2],
           \A j \in DOMAIN table : word \in table[j][2] => j = i
    PROVE  Exactly(table, word) = table[i][1]
<1>1. PICK hits : hits = {j \in DOMAIN table : word \in table[j][2]}
    OBVIOUS
<1>2. hits = {i}
    BY <1>1
<1>3. Min(hits) = i
    <2>1. hits \in SUBSET Nat /\ i \in hits /\ \A j \in hits : i <= j
        BY <1>2
    <2> QED BY <2>1, MinIs
<1>4. hits # {}
    BY <1>2
<1> QED BY <1>1, <1>3, <1>4 DEF Exactly

\* Four lists without a word in common.
LEMMA FourApart ==
    ASSUME NEW a, NEW b, NEW c, NEW d, NEW A, NEW B, NEW C, NEW D, NEW table,
           table = << <<a, A>>, <<b, B>>, <<c, C>>, <<d, D>> >>,
           A \cap B = {}, A \cap C = {}, A \cap D = {}, B \cap C = {}, B \cap D = {}, C \cap D = {},
           NEW i \in DOMAIN table, NEW word \in table[i][2]
    PROVE  Exactly(table, word) = table[i][1] /\ table[i][1] \in {a, b, c, d}
<1>1. /\ DOMAIN table = 1..4
      /\ table[1][1] = a /\ table[2][1] = b /\ table[3][1] = c /\ table[4][1] = d
      /\ table[1][2] = A /\ table[2][2] = B /\ table[3][2] = C /\ table[4][2] = D
    OBVIOUS
<1>2. \A j \in 1..4 : j = 1 \/ j = 2 \/ j = 3 \/ j = 4
    OBVIOUS
<1>3. i \in 1..4
    BY <1>1
<1>4. \A j \in 1..4 : word \in table[j][2] => j = i
    BY <1>1, <1>2, <1>3
<1>5. Exactly(table, word) = table[i][1]
    <2>1. DOMAIN table \in SUBSET Nat
        BY <1>1
    <2>2. \A j \in DOMAIN table : word \in table[j][2] => j = i
        BY <1>1, <1>4
    <2> QED BY <2>1, <2>2, ExactlyIs
<1>6. table[i][1] \in {a, b, c, d}
    BY <1>1, <1>2, <1>3
<1> QED BY <1>5, <1>6

LEMMA QnapTableIs ==
    \A i \in DOMAIN QnapTable : \A word \in QnapTable[i][2] :
        Exactly(QnapTable, word) = QnapTable[i][1] /\ QnapTable[i][1] # ""
<1> DEFINE A == {"critical", "error", "failed", "unsuccessful"}
           B == {"warning", "degraded"}
           C == {"ok", "resolved", "restored", "successful"}
           D == {"info"}
<1>1. /\ A \cap B = {} /\ A \cap C = {} /\ A \cap D = {}
      /\ B \cap C = {} /\ B \cap D = {} /\ C \cap D = {}
    OBVIOUS
<1>2. PICK table : table = QnapTable
    OBVIOUS
<1>3. table = << <<"failure", A>>, <<"warning", B>>, <<"success", C>>, <<"information", D>> >>
    BY <1>2 DEF QnapTable
<1> HIDE DEF A, B, C, D
<1>4. ASSUME NEW i \in DOMAIN table, NEW word \in table[i][2]
      PROVE  /\ Exactly(table, word) = table[i][1]
             /\ table[i][1] \in {"failure", "warning", "success", "information"}
    BY <1>1, <1>3, FourApart
<1> QED BY <1>2, <1>4

LEMMA GrafanaTableIs ==
    \A i \in DOMAIN GrafanaTable : \A word \in GrafanaTable[i][2] :
        Exactly(GrafanaTable, word) = GrafanaTable[i][1] /\ GrafanaTable[i][1] # ""
<1> DEFINE A == {"firing", "critical", "error", "failed", "unsuccessful", "not resolved"}
           B == {"no data", "pending", "warning"}
           C == {"resolved", "restored", "successful", "normal"}
           D == {"info", "test"}
<1>1. /\ A \cap B = {} /\ A \cap C = {} /\ A \cap D = {}
      /\ B \cap C = {} /\ B \cap D = {} /\ C \cap D = {}
    OBVIOUS
<1>2. PICK table : table = GrafanaTable
    OBVIOUS
<1>3. table = << <<"failure", A>>, <<"warning", B>>, <<"success", C>>, <<"information", D>> >>
    BY <1>2 DEF GrafanaTable
<1> HIDE DEF A, B, C, D
<1>4. ASSUME NEW i \in DOMAIN table, NEW word \in table[i][2]
      PROVE  /\ Exactly(table, word) = table[i][1]
             /\ table[i][1] \in {"failure", "warning", "success", "information"}
    BY <1>1, <1>3, FourApart
<1> QED BY <1>2, <1>4

\* A phrase by itself is looked up as it is.
LEMMA WordingIs ==
    ASSUME NEW phrase
    PROVE  Wording({phrase}) = phrase
<1>1. Cardinality({phrase}) = 1 /\ {phrase} # {}
    BY FS_Singleton
<1>2. (CHOOSE p \in {phrase} : TRUE) = phrase
    OBVIOUS
<1> QED BY <1>1, <1>2 DEF Wording

LEMMA ThreeAliases ==
    ASSUME NEW a, NEW b, NEW c, NEW aliases, aliases = <<a, b, c>>
    PROVE  aliases \in Seq({a, b, c}) /\ ToSet(aliases) = {a, b, c}
<1>1. aliases \in Seq({a, b, c})
    OBVIOUS
<1>2. DOMAIN aliases = {1, 2, 3} /\ aliases[1] = a /\ aliases[2] = b /\ aliases[3] = c
    OBVIOUS
<1> QED BY <1>1, <1>2 DEF ToSet

\* The severity a mail of QNAP states, and the state one of Grafana does.
LEMMA QnapSeverity ==
    ASSUME NEW mail \in Letters, NEW phrase, OnlyStates(mail, QnapAliases.severity, phrase)
    PROVE  Field(QnapSource(mail), QnapAliases.severity) = {phrase}
<1>1. PICK a, b, c : a = "severity" /\ b = "level" /\ c = "priority"
    OBVIOUS
<1>11. PICK aliases \in Seq({a, b, c}) : aliases = QnapAliases.severity /\ ToSet(aliases) = {a, b, c}
    <2>1. PICK aliases : aliases = <<a, b, c>>
        OBVIOUS
    <2>2. aliases \in Seq({a, b, c}) /\ ToSet(aliases) = {a, b, c}
        BY <2>1, ThreeAliases
    <2>3. QnapAliases.severity = aliases
        BY <1>1, <2>1 DEF QnapAliases
    <2> QED BY <2>2, <2>3
<1>2. PICK labels : labels = ToSet(aliases)
    OBVIOUS
<1>3. Plainly("qnap", labels) /\ DateLabel \notin labels
    BY <1>1, <1>2, <1>11 DEF Plainly, IsLabel, QnapLabel, LinkLabel, QnapContinuable, GrafanaContinuable,
                      DateLabel
<1>4. PICK fields \in Fields : /\ fields = SourceFields("qnap", mail)
                               /\ Agrees(fields, labels, phrase)
                               /\ Tells(fields, labels, phrase)
    BY <1>2, <1>3, <1>11, MailTells
<1>5. PICK found : found = [l \in DOMAIN fields \ {DateLabel} |-> fields[l]]
    OBVIOUS
<1>6. QnapSource(mail) = found
    BY <1>4, <1>5 DEF QnapSource, Dateless
<1>7. found \in Fields
    <2>1. DOMAIN fields \in SUBSET Labels /\ \A l \in DOMAIN fields : fields[l] \in Sayings
        BY FieldsAre
    <2>2. /\ DOMAIN found \in SUBSET Labels
          /\ found = [l \in DOMAIN found |-> found[l]]
          /\ \A l \in DOMAIN found : found[l] \in Sayings
        BY <1>5, <2>1
    <2> QED BY <2>2, FieldsAre
<1>8. \A l \in labels : Value(found, l) = Value(fields, l)
    <2>1. \A l : l # DateLabel => Value(found, l) = Value(fields, l)
        BY <1>5 DEF Value
    <2> QED BY <1>3, <2>1
<1>9. Agrees(found, labels, phrase) /\ Tells(found, labels, phrase)
    BY <1>4, <1>8 DEF Agrees, Tells
<1>10. Field(found, aliases) = {phrase}
    BY <1>2, <1>7, <1>9, FieldIs
<1> QED BY <1>6, <1>10, <1>11

LEMMA GrafanaState ==
    ASSUME NEW mail \in Letters, NEW phrase, OnlyStates(mail, GrafanaAliases.state, phrase)
    PROVE  Field(GrafanaSource(mail), GrafanaAliases.state) = {phrase}
<1>1. PICK a, b, c : a = "alert state" /\ b = "state" /\ c = "status"
    OBVIOUS
<1>11. PICK aliases \in Seq({a, b, c}) : aliases = GrafanaAliases.state /\ ToSet(aliases) = {a, b, c}
    <2>1. PICK aliases : aliases = <<a, b, c>>
        OBVIOUS
    <2>2. aliases \in Seq({a, b, c}) /\ ToSet(aliases) = {a, b, c}
        BY <2>1, ThreeAliases
    <2>3. GrafanaAliases.state = aliases
        BY <1>1, <2>1 DEF GrafanaAliases
    <2> QED BY <2>2, <2>3
<1>2. PICK labels : labels = ToSet(aliases)
    OBVIOUS
<1>3. Plainly("grafana", labels)
    BY <1>1, <1>2, <1>11 DEF Plainly, IsLabel, GrafanaLabel, DateLabel, QnapContinuable, GrafanaContinuable
<1>4. PICK fields \in Fields : /\ fields = SourceFields("grafana", mail)
                               /\ Agrees(fields, labels, phrase)
                               /\ Tells(fields, labels, phrase)
    BY <1>2, <1>3, <1>11, MailTells
<1>5. Field(fields, aliases) = {phrase}
    BY <1>2, <1>4, FieldIs
<1> QED BY <1>4, <1>5, <1>11 DEF GrafanaSource

\* It decides what becomes of the mail.
LEMMA QnapDecides ==
    ASSUME NEW mail \in Letters, NEW i \in DOMAIN QnapTable, NEW phrase \in QnapTable[i][2],
           OnlyStates(mail, QnapAliases.severity, phrase)
    PROVE  QnapMail(mail) = Notice(QnapTable[i][1], phrase)
<1>1. PICK severity : severity = Field(QnapSource(mail), QnapAliases.severity) /\ severity = {phrase}
    BY QnapSeverity
<1>2. Wording(severity) = phrase /\ severity # {}
    BY <1>1, WordingIs
<1>3. \A words : QnapStatus(phrase, words) = QnapTable[i][1]
    BY QnapTableIs DEF QnapStatus
<1> QED BY <1>1, <1>2, <1>3, Zenon DEF QnapMail, QnapNotice

LEMMA GrafanaDecides ==
    ASSUME NEW mail \in Letters, NEW i \in DOMAIN GrafanaTable, NEW phrase \in GrafanaTable[i][2],
           OnlyStates(mail, GrafanaAliases.state, phrase)
    PROVE  GrafanaMail(mail).status = GrafanaTable[i][1]
<1>1. PICK state : state = Field(GrafanaSource(mail), GrafanaAliases.state) /\ state = {phrase}
    BY GrafanaState
<1>2. Wording(state) = phrase /\ state # {}
    BY <1>1, WordingIs
<1>3. \A severity, words : GrafanaStatus(phrase, severity, words) = GrafanaTable[i][1]
    BY GrafanaTableIs DEF GrafanaStatus
<1>4. \E severity : GrafanaMail(mail) = Notice(GrafanaTable[i][1], severity)
    BY <1>1, <1>2, <1>3, Zenon DEF GrafanaMail, GrafanaNotice
<1>5. \A status, severity : Notice(status, severity).status = status
    BY DEF Notice
<1> QED BY <1>4, <1>5

-----------------------------------------------------------------------------
(* The numbers of the report of a backup, section after section.              *)

\* A function with another value at one place.
LEMMA UpdateIs ==
    ASSUME NEW S, NEW T, NEW f \in [S -> T], NEW x \in S, NEW v \in T, NEW g, g = [f EXCEPT ![x] = v]
    PROVE  g \in [S -> T] /\ \A y \in S : g[y] = IF y = x THEN v ELSE f[y]
OBVIOUS

\* The numbers, names and errors while a report is read.
Tallies(N, E) ==
    [count : [Outcomes -> Nat], total : Nat, names : [Outcomes -> Seq(N)], errors : Seq(E)]

LEMMA TallyKeeps ==
    ASSUME NEW N, NEW E, NEW state \in Tallies(N, E)
    PROVE  /\ state.count \in [Outcomes -> Nat] /\ state.total \in Nat
           /\ state.names \in [Outcomes -> Seq(N)] /\ state.errors \in Seq(E)
BY DEF Tallies

\* One number changes.
Numbered(state, type, v) == [state EXCEPT !.count[type] = v]

OnlyNumber(r, state, type, v) ==
    /\ r.names = state.names /\ r.total = state.total
    /\ \A o \in Outcomes : r.count[o] = IF o = type THEN v ELSE state.count[o]

LEMMA TallyCounts ==
    ASSUME NEW N, NEW E, NEW state \in Tallies(N, E), NEW type \in Outcomes, NEW v \in Nat
    PROVE  /\ Numbered(state, type, v) \in Tallies(N, E)
           /\ OnlyNumber(Numbered(state, type, v), state, type, v)
<1> DEFINE r == Numbered(state, type, v)
<1>1. r.names = state.names /\ r.total = state.total /\ r.count = [state.count EXCEPT ![type] = v]
    BY DEF Tallies, Numbered
<1>2. PICK n \in [Outcomes -> Nat] : n = state.count
    BY TallyKeeps
<1>3. PICK m : m = [n EXCEPT ![type] = v]
    OBVIOUS
<1>7. m \in [Outcomes -> Nat] /\ \A o \in Outcomes : m[o] = IF o = type THEN v ELSE n[o]
    BY <1>3, UpdateIs
<1>4. PICK s : s = [state EXCEPT !.count = m]
    OBVIOUS
<1>5. s \in Tallies(N, E)
    BY <1>4, <1>7 DEF Tallies
<1>6. r = s
    BY <1>2, <1>3, <1>4 DEF Tallies, Numbered
<1> HIDE DEF r
<1>8. OnlyNumber(r, state, type, v)
    BY <1>1, <1>2, <1>3, <1>7 DEF OnlyNumber
<1> QED BY <1>5, <1>6, <1>8 DEF r

\* A value that is new is added.
AddsNew(more, values, value) ==
    value # "" /\ value \notin ToSet(values) =>
        Len(more) = Len(values) + 1 /\ ToSet(more) = ToSet(values) \union {value}

LEMMA AppendUniqueIs ==
    ASSUME NEW S, NEW values \in Seq(S), NEW value \in S
    PROVE  /\ AppendUnique(values, value) \in Seq(S)
           /\ AddsNew(AppendUnique(values, value), values, value)
<1>1. PICK r \in Seq(S) : r = Append(values, value)
    BY AppendProperties
<1>2. AppendUnique(values, value) \in {values, r}
    BY <1>1 DEF AppendUnique
<1>3. ASSUME value # "", value \notin ToSet(values)
      PROVE  /\ AppendUnique(values, value) = r
             /\ Len(r) = Len(values) + 1
             /\ ToSet(r) = ToSet(values) \union {value}
    <2>1. AppendUnique(values, value) = r
        BY <1>1, <1>3 DEF AppendUnique
    <2>2. PICK n \in Nat : n = Len(values)
        BY LenProperties
    <2>3. Len(r) = n + 1 /\ r[n + 1] = value /\ \A i \in 1..n : r[i] = values[i]
        BY <1>1, <2>2
    <2>4. \A x : x \in ToSet(values) <=> \E i \in 1..n : x = values[i]
        BY <2>2, Elements
    <2>5. \A x : x \in ToSet(r) <=> \E i \in 1..(n + 1) : x = r[i]
        BY <2>3, Elements
    <2>6. \A i : i \in 1..(n + 1) <=> i \in 1..n \/ i = n + 1
        BY <2>2
    <2>7. \A x : x \in ToSet(r) <=> x \in ToSet(values) \/ x = value
        BY <2>3, <2>4, <2>5, <2>6
    <2>8. ToSet(r) = ToSet(values) \union {value}
        BY <2>7
    <2> QED BY <2>1, <2>2, <2>3, <2>8
<1> QED BY <1>1, <1>2, <1>3 DEF AddsNew

\* What one guest adds.
LEMMA AddGuestIs ==
    ASSUME NEW N, NEW E, NEW state \in Tallies(N, E), NEW guest, guest.name \in N,
           guest.error \in E, NEW type \in Outcomes
    PROVE  /\ AddGuest(state, guest, type) \in Tallies(N, E)
           /\ AddGuest(state, guest, type).count = state.count
           /\ AddGuest(state, guest, type).total = state.total
           /\ \A o \in Outcomes : AddGuest(state, guest, type).names[o] =
                  IF o = type THEN AppendUnique(state.names[type], guest.name)
                  ELSE state.names[o]
<1>1. PICK c \in [Outcomes -> Nat], t \in Nat, n \in [Outcomes -> Seq(N)], e \in Seq(E) :
          c = state.count /\ t = state.total /\ n = state.names /\ e = state.errors
    BY TallyKeeps
<1>2. PICK v \in Seq(N) : v = AppendUnique(n[type], guest.name)
    <2>1. n[type] \in Seq(N)
        OBVIOUS
    <2> QED BY <2>1, AppendUniqueIs
<1>3. PICK w \in Seq(E) : w = IF type = "success" THEN e ELSE AppendUnique(e, guest.error)
    BY AppendUniqueIs
<1>4. PICK new : new = AddGuest(state, guest, type)
    OBVIOUS
<1>5. new = [state EXCEPT !.names[type] = v, !.errors = w]
    BY <1>1, <1>2, <1>3, <1>4 DEF AddGuest
<1>6. new.count = state.count /\ new.total = state.total /\ new.names = [state.names EXCEPT ![type] = v]
    BY <1>5 DEF Tallies
<1>7. PICK m : m = [n EXCEPT ![type] = v]
    OBVIOUS
<1>8. m \in [Outcomes -> Seq(N)] /\ \A o \in Outcomes : m[o] = IF o = type THEN v ELSE n[o]
    BY <1>7, UpdateIs
<1>9. PICK s : s = [state EXCEPT !.names = m, !.errors = w]
    OBVIOUS
<1>10. s \in Tallies(N, E)
    BY <1>8, <1>9 DEF Tallies
<1>11. new = s
    BY <1>1, <1>5, <1>7, <1>9 DEF Tallies
<1> QED BY <1>1, <1>2, <1>4, <1>6, <1>7, <1>8, <1>10, <1>11

\* The guests of a section, one after the other.
ListsGuests(h, n, guests, state, type) ==
    /\ h[0] = state
    /\ \A i \in 1..n : h[i] = AddGuest(h[i - 1], guests[i], type)
    /\ AddGuests(state, guests, type) = h[n]

LEMMA GuestsSteps ==
    ASSUME NEW n \in Nat, NEW N, NEW E, NEW G, \A g \in G : g.name \in N /\ g.error \in E,
           NEW guests \in [1..n -> G], NEW type \in Outcomes, NEW state \in Tallies(N, E)
    PROVE  \E h \in [0..n -> Tallies(N, E)] : ListsGuests(h, n, guests, state, type)
<1> DEFINE step == [p \in (1..n) \X Tallies(N, E) |-> AddGuest(p[2], guests[p[1]], type)]
           fold(iter) == [s \in SUBSET DOMAIN guests |->
               IF s = {} THEN state
               ELSE LET x == Max(s) IN AddGuest(iter[s \ {x}], guests[x], type)]
           iter == CHOOSE iter : iter = fold(iter)
           h == [i \in 0..n |-> iter[1..i]]
<1>1. AddGuests(state, guests, type) = iter[DOMAIN guests]
    BY DEF AddGuests, FoldLeft, MapThenFoldSet
<1>2. \A a \in Tallies(N, E), i \in 1..n : AddGuest(a, guests[i], type) \in Tallies(N, E)
    BY AddGuestIs
<1>3. state \in Tallies(N, E)
    OBVIOUS
<1>4. PICK g \in [SUBSET (1..n) -> Tallies(N, E)] : Folds(g, n, state, step)
    <2>1. step \in [(1..n) \X Tallies(N, E) -> Tallies(N, E)]
        BY <1>2
    <2> HIDE DEF step
    <2> QED BY <1>3, <2>1, FoldExists, Zenon
<1>5. g = fold(g)
    <2>1. ASSUME NEW s \in SUBSET (1..n), s # {}
          PROVE  step[<<Max(s), g[s \ {Max(s)}]>>] = AddGuest(g[s \ {Max(s)}], guests[Max(s)], type)
        <3>1. Max(s) \in s
            BY <2>1, MaxIn
        <3>2. Max(s) \in 1..n /\ g[s \ {Max(s)}] \in Tallies(N, E)
            BY <3>1
        <3> QED BY <3>2
    <2> HIDE DEF step
    <2> QED BY <1>4, <2>1 DEF Folds
<1>6. iter = fold(iter)
    <2> HIDE DEF fold
    <2> QED BY <1>5
<1> HIDE DEF iter
<1>7. iter[{}] = state
    BY <1>6
<1>8. ASSUME NEW i \in 1..n PROVE iter[1..i] = AddGuest(iter[1..(i-1)], guests[i], type)
    <2> DEFINE s == 1..i
    <2>1. s \in SUBSET DOMAIN guests /\ s # {} /\ Max(s) = i /\ s \ {i} = 1..(i-1)
        BY Initials
    <2> HIDE DEF s
    <2>2. iter[s] = AddGuest(iter[s \ {Max(s)}], guests[Max(s)], type)
        BY <1>6, <2>1
    <2> QED BY <2>1, <2>2 DEF s
<1>9. h[0] = state /\ h[n] = iter[1..n]
    <2>1. 1..0 = {}
        OBVIOUS
    <2> QED BY <1>7, <2>1
<1>10. ASSUME NEW i \in 1..n PROVE h[i] = AddGuest(h[i - 1], guests[i], type)
    BY <1>8
<1>13. h \in [0..n -> Tallies(N, E)] <=> \A i \in 0..n : h[i] \in Tallies(N, E)
    OBVIOUS
<1> HIDE DEF h
<1>11. \A i \in 0..n : h[i] \in Tallies(N, E)
    <2>1. \A i \in 1..n : h[i - 1] \in Tallies(N, E) => h[i] \in Tallies(N, E)
        BY <1>2, <1>10
    <2>2. h[0] \in Tallies(N, E)
        BY <1>3, <1>9
    <2> QED BY <2>1, <2>2, TypedSteps
<1>12. DOMAIN guests = 1..n
    OBVIOUS
<1>14. ListsGuests(h, n, guests, state, type)
    BY <1>1, <1>9, <1>10, <1>12 DEF ListsGuests
<1> QED BY <1>11, <1>13, <1>14

\* The sections of a report, one after the other.
ReadsSections(h, n, sections, start) ==
    /\ h[0] = start
    /\ \A i \in 1..n : h[i] = AddSection(h[i - 1], sections[i])
    /\ FoldLeft(AddSection, start, sections) = h[n]

LEMMA SectionsSteps ==
    ASSUME NEW n \in Nat, NEW N, NEW E, NEW S,
           \A a \in Tallies(N, E), s \in S : AddSection(a, s) \in Tallies(N, E),
           NEW sections \in [1..n -> S], NEW start \in Tallies(N, E)
    PROVE  \E h \in [0..n -> Tallies(N, E)] : ReadsSections(h, n, sections, start)
<1> DEFINE step == [p \in (1..n) \X Tallies(N, E) |-> AddSection(p[2], sections[p[1]])]
           fold(iter) == [s \in SUBSET DOMAIN sections |->
               IF s = {} THEN start
               ELSE LET x == Max(s) IN AddSection(iter[s \ {x}], sections[x])]
           iter == CHOOSE iter : iter = fold(iter)
           h == [i \in 0..n |-> iter[1..i]]
<1>1. FoldLeft(AddSection, start, sections) = iter[DOMAIN sections]
    BY DEF FoldLeft, MapThenFoldSet
<1>2. \A a \in Tallies(N, E), i \in 1..n : AddSection(a, sections[i]) \in Tallies(N, E)
    OBVIOUS
<1>3. start \in Tallies(N, E)
    OBVIOUS
<1>4. PICK g \in [SUBSET (1..n) -> Tallies(N, E)] : Folds(g, n, start, step)
    <2>1. step \in [(1..n) \X Tallies(N, E) -> Tallies(N, E)]
        BY <1>2
    <2> HIDE DEF step
    <2> QED BY <1>3, <2>1, FoldExists, Zenon
<1>5. g = fold(g)
    <2>1. ASSUME NEW s \in SUBSET (1..n), s # {}
          PROVE  step[<<Max(s), g[s \ {Max(s)}]>>] = AddSection(g[s \ {Max(s)}], sections[Max(s)])
        <3>1. Max(s) \in s
            BY <2>1, MaxIn
        <3>2. Max(s) \in 1..n /\ g[s \ {Max(s)}] \in Tallies(N, E)
            BY <3>1
        <3> QED BY <3>2
    <2> HIDE DEF step
    <2> QED BY <1>4, <2>1 DEF Folds
<1>6. iter = fold(iter)
    <2> HIDE DEF fold
    <2> QED BY <1>5
<1> HIDE DEF iter
<1>7. iter[{}] = start
    BY <1>6
<1>8. ASSUME NEW i \in 1..n PROVE iter[1..i] = AddSection(iter[1..(i-1)], sections[i])
    <2> DEFINE s == 1..i
    <2>1. s \in SUBSET DOMAIN sections /\ s # {} /\ Max(s) = i /\ s \ {i} = 1..(i-1)
        BY Initials
    <2> HIDE DEF s
    <2>2. iter[s] = AddSection(iter[s \ {Max(s)}], sections[Max(s)])
        BY <1>6, <2>1
    <2> QED BY <2>1, <2>2 DEF s
<1>9. h[0] = start /\ h[n] = iter[1..n]
    <2>1. 1..0 = {}
        OBVIOUS
    <2> QED BY <1>7, <2>1
<1>10. ASSUME NEW i \in 1..n PROVE h[i] = AddSection(h[i - 1], sections[i])
    BY <1>8
<1>13. h \in [0..n -> Tallies(N, E)] <=> \A i \in 0..n : h[i] \in Tallies(N, E)
    OBVIOUS
<1> HIDE DEF h
<1>11. \A i \in 0..n : h[i] \in Tallies(N, E)
    <2>1. \A i \in 1..n : h[i - 1] \in Tallies(N, E) => h[i] \in Tallies(N, E)
        BY <1>2, <1>10
    <2>2. h[0] \in Tallies(N, E)
        BY <1>3, <1>9
    <2> QED BY <2>1, <2>2, TypedSteps
<1>12. DOMAIN sections = 1..n
    OBVIOUS
<1>14. ReadsSections(h, n, sections, start)
    BY <1>1, <1>9, <1>10, <1>12 DEF ReadsSections
<1> QED BY <1>11, <1>13, <1>14

\* What the guests of a section add: names, to the list of their outcome.
LEMMA AddGuestsIs ==
    ASSUME NEW N, NEW E, NEW G, \A g \in G : g.name \in N /\ g.error \in E,
           NEW guests \in Seq(G), NEW type \in Outcomes, NEW state \in Tallies(N, E)
    PROVE  /\ AddGuests(state, guests, type) \in Tallies(N, E)
           /\ AddGuests(state, guests, type).count = state.count
           /\ AddGuests(state, guests, type).total = state.total
           /\ \A o \in Outcomes : o # type =>
                  AddGuests(state, guests, type).names[o] = state.names[o]
<1>1. PICK n \in Nat : n = Len(guests) /\ guests \in [1..n -> G]
    BY LenProperties
<1>2. PICK h \in [0..n -> Tallies(N, E)] : ListsGuests(h, n, guests, state, type)
    BY <1>1, GuestsSteps, Zenon
<1>3. /\ h[0] = state /\ AddGuests(state, guests, type) = h[n]
      /\ \A i \in 1..n : h[i] = AddGuest(h[i - 1], guests[i], type)
    BY <1>2 DEF ListsGuests
<1> DEFINE same(a) == /\ a.count = state.count /\ a.total = state.total
                      /\ \A o \in Outcomes : o # type => a.names[o] = state.names[o]
           P == {i \in 0..n : same(h[i])}
<1>4. 0 \in P
    <2>1. 0 \in 0..n
        OBVIOUS
    <2> QED BY <1>3, <2>1
<1>5. ASSUME NEW i \in 1..n, i - 1 \in P PROVE i \in P
    <2>1. PICK a \in Tallies(N, E), g \in G : a = h[i - 1] /\ g = guests[i]
        BY <1>1, <1>2, <1>5
    <2>2. same(a)
        BY <1>5, <2>1
    <2>3. PICK b : b = AddGuest(a, g, type)
        OBVIOUS
    <2>4. /\ b.count = a.count /\ b.total = a.total
          /\ \A o \in Outcomes : o # type => b.names[o] = a.names[o]
        BY <2>3, AddGuestIs
    <2>5. same(b) /\ b = h[i] /\ i \in 0..n
        BY <1>3, <2>1, <2>2, <2>3, <2>4
    <2> QED BY <2>5
<1> HIDE DEF P
<1>6. 0..n \subseteq P
    BY <1>4, <1>5, Induction
<1>7. n \in 0..n
    OBVIOUS
<1>8. same(h[n]) /\ h[n] \in Tallies(N, E)
    BY <1>2, <1>6, <1>7 DEF P
<1> QED BY <1>3, <1>8

\* Guests of different names, none of them empty.
Distinct(guests) ==
    /\ \A i \in 1..Len(guests) : guests[i].name # ""
    /\ \A i, j \in 1..Len(guests) : guests[i].name = guests[j].name => i = j

\* As many names are listed as there are such guests.
LEMMA NamesListed ==
    ASSUME NEW N, NEW E, NEW G, \A g \in G : g.name \in N /\ g.error \in E,
           NEW guests \in Seq(G), NEW type \in Outcomes, NEW state \in Tallies(N, E),
           state.names[type] = <<>>, Distinct(guests)
    PROVE  Len(AddGuests(state, guests, type).names[type]) = Len(guests)
<1>1. PICK n \in Nat : n = Len(guests) /\ guests \in [1..n -> G]
    BY LenProperties
<1>2. PICK h \in [0..n -> Tallies(N, E)] : ListsGuests(h, n, guests, state, type)
    BY <1>1, GuestsSteps, Zenon
<1>3. /\ h[0] = state /\ AddGuests(state, guests, type) = h[n]
      /\ \A i \in 1..n : h[i] = AddGuest(h[i - 1], guests[i], type)
    BY <1>2 DEF ListsGuests
<1> DEFINE seen(i) == {guests[k].name : k \in 1..i}
           lists(a, i) == Len(a.names[type]) = i /\ ToSet(a.names[type]) = seen(i)
           P == {i \in 0..n : lists(h[i], i)}
<1>4. 0 \in P
    <2>1. 0 \in 0..n /\ 1..0 = {}
        OBVIOUS
    <2>2. ToSet(<<>>) = {} /\ Len(<<>>) = 0
        BY DEF ToSet
    <2>3. seen(0) = {}
        BY <2>1
    <2> QED BY <1>3, <2>1, <2>2, <2>3
<1>5. ASSUME NEW i \in 1..n, i - 1 \in P PROVE i \in P
    <2>1. PICK a \in Tallies(N, E), g \in G : a = h[i - 1] /\ g = guests[i]
        BY <1>1, <1>2, <1>5
    <2>2. lists(a, i - 1)
        BY <1>5, <2>1
    <2>3. PICK v \in Seq(N) : v = a.names[type]
        BY TallyKeeps
    <2>4. PICK b : b = AddGuest(a, g, type)
        OBVIOUS
    <2>5. b.names[type] = AppendUnique(v, g.name)
        BY <2>3, <2>4, AddGuestIs
    <2>6. g.name \in N /\ g.name # ""
        BY <1>1, <2>1 DEF Distinct
    <2>7. g.name \notin seen(i - 1)
        <3>1. ASSUME NEW k \in 1..(i - 1), guests[k].name = g.name PROVE FALSE
            <4>1. k \in 1..n /\ k # i
                OBVIOUS
            <4> QED BY <1>1, <2>1, <3>1, <4>1 DEF Distinct
        <3> QED BY <3>1
    <2>13. PICK x \in N : x = g.name /\ x # "" /\ x \notin ToSet(v)
        BY <2>2, <2>3, <2>6, <2>7
    <2>14. AppendUnique(v, x) \in Seq(N) /\ AddsNew(AppendUnique(v, x), v, x)
        BY AppendUniqueIs
    <2>15. PICK w : w = AppendUnique(v, x)
        OBVIOUS
    <2>8. Len(w) = Len(v) + 1 /\ ToSet(w) = ToSet(v) \union {x}
        BY <2>13, <2>14, <2>15 DEF AddsNew
    <2>9. seen(i) = seen(i - 1) \union {g.name}
        <3>1. \A k : k \in 1..i <=> k \in 1..(i - 1) \/ k = i
            OBVIOUS
        <3> QED BY <2>1, <3>1
    <2>10. Len(v) = i - 1 /\ ToSet(v) = seen(i - 1)
        BY <2>2, <2>3
    <2> HIDE DEF seen
    <2>16. b.names[type] = w
        BY <2>5, <2>13, <2>15
    <2>17. Len(w) = i
        BY <2>8, <2>10
    <2>18. ToSet(w) = seen(i)
        BY <2>8, <2>9, <2>10, <2>13
    <2>11. Len(b.names[type]) = i /\ ToSet(b.names[type]) = seen(i)
        BY <2>16, <2>17, <2>18
    <2>12. lists(b, i) /\ b = h[i] /\ i \in 0..n
        BY <1>3, <2>1, <2>4, <2>11
    <2> QED BY <2>12
<1> HIDE DEF P
<1>6. 0..n \subseteq P
    BY <1>4, <1>5, Induction
<1>7. n \in P
    BY <1>6
<1> QED BY <1>1, <1>3, <1>7 DEF P

\* Guests whose names and errors are of such a kind.
Known(G, N, E) == \A g \in G : g.name \in N /\ g.error \in E

\* A section of a report, with its number or without.
IsSection(section, G, counted) ==
    /\ section.type \in Outcomes /\ section.guests \in Seq(G)
    /\ section.count = IF counted THEN <<Len(section.guests)>> ELSE <<>>

\* What a section adds.
LEMMA AddSectionIs ==
    ASSUME NEW N, NEW E, NEW G, Known(G, N, E),
           NEW state \in Tallies(N, E), NEW section, NEW counted \in BOOLEAN,
           IsSection(section, G, counted)
    PROVE  /\ AddSection(state, section) \in Tallies(N, E)
           /\ AddSection(state, section).total = state.total
           /\ \A o \in Outcomes : o # section.type =>
                  AddSection(state, section).names[o] = state.names[o]
           /\ \A o \in Outcomes : AddSection(state, section).count[o] =
                  IF o = section.type /\ counted THEN Len(section.guests) ELSE state.count[o]
           /\ state.names[section.type] = <<>> /\ Distinct(section.guests) =>
                  Len(AddSection(state, section).names[section.type]) = Len(section.guests)
<1>1. PICK type \in Outcomes, guests \in Seq(G), n \in Nat :
          type = section.type /\ guests = section.guests /\ n = Len(guests)
    BY LenProperties DEF IsSection
<1>2. PICK listed : listed = AddGuests(state, guests, type)
    OBVIOUS
<1>3. /\ listed \in Tallies(N, E) /\ listed.count = state.count /\ listed.total = state.total
      /\ \A o \in Outcomes : o # type => listed.names[o] = state.names[o]
    BY <1>2, AddGuestsIs DEF Known
<1>4. state.names[type] = <<>> /\ Distinct(guests) => Len(listed.names[type]) = n
    BY <1>1, <1>2, NamesListed DEF Known
<1>5. CASE counted
    <2>1. section.count = <<n>> /\ <<n>> # <<>> /\ <<n>>[1] = n
        BY <1>1, <1>5 DEF IsSection
    <2>2. PICK r : r = AddSection(state, section)
        OBVIOUS
    <2>3. r = Numbered(listed, type, n)
        BY <1>1, <1>2, <2>1, <2>2 DEF AddSection, Numbered
    <2>7. listed \in Tallies(N, E)
        BY <1>3
    <2>4. r \in Tallies(N, E) /\ OnlyNumber(r, listed, type, n)
        BY <2>3, <2>7, TallyCounts
    <2>8. /\ r.names = listed.names /\ r.total = listed.total
          /\ \A o \in Outcomes : r.count[o] = IF o = type THEN n ELSE listed.count[o]
        BY <2>4 DEF OnlyNumber
    <2> QED BY <1>1, <1>3, <1>4, <1>5, <2>2, <2>4, <2>8
<1>6. CASE ~counted
    <2>1. AddSection(state, section) = listed
        BY <1>1, <1>2, <1>6 DEF AddSection, IsSection
    <2> QED BY <1>1, <1>3, <1>4, <1>6, <2>1
<1> QED BY <1>5, <1>6

\* As many elements are kept as there are places where they stand.
LEMMA KeepCount ==
    ASSUME NEW S, NEW seq \in Seq(S), NEW set
    PROVE  Len(Keep(seq, set)) = Cardinality({i \in DOMAIN seq : seq[i] \in set})
<1>1. PICK r \in Seq(S) : r = Keep(seq, set)
    BY KeepPicks
<1>2. PICK at : Picks(at, r, seq, Len(seq), set)
    BY <1>1, KeepPicks
<1>3. PICK n \in Nat, m \in Nat : n = Len(seq) /\ m = Len(r) /\ DOMAIN seq = 1..n
    BY LenProperties
<1> DEFINE places == {i \in DOMAIN seq : seq[i] \in set}
<1>4. /\ at \in [1..m -> 1..n]
      /\ \A j, k \in 1..m : j < k => at[j] < at[k]
      /\ \A j \in 1..m : seq[at[j]] \in set
      /\ \A i \in 1..n : seq[i] \in set => \E j \in 1..m : at[j] = i
    BY <1>2, <1>3 DEF Picks
<1>5. at \in [1..m -> places]
    BY <1>3, <1>4
<1>6. ASSUME NEW j \in 1..m, NEW k \in 1..m, at[j] = at[k] PROVE j = k
    <2>1. at[j] \in Nat
        BY <1>4
    <2>2. ~(at[j] < at[k]) /\ ~(at[k] < at[j])
        BY <1>6, <2>1
    <2> QED BY <1>4, <2>2
<1>7. \A i \in places : \E j \in 1..m : at[j] = i
    BY <1>3, <1>4
<1>8. at \in Bijection(1..m, places)
    BY <1>5, <1>6, <1>7 DEF Bijection, Injection, Surjection, IsInjective
<1>9. Cardinality(places) = m
    <2> HIDE DEF places
    <2>1. ExistsBijection(1..m, places)
        BY <1>8 DEF ExistsBijection
    <2> QED BY <2>1, FS_CountingElements
<1> QED BY <1>1, <1>3, <1>9

\* The guests of an outcome, and their places in a run.
GuestsOf(run, outcome) == Keep(run, {g \in ToSet(run) : g.outcome = outcome})
Places(run, outcome) == {i \in DOMAIN run : run[i].outcome = outcome}

LEMMA GuestsOfIs ==
    ASSUME NEW G, NEW run \in Seq(G), NEW outcome
    PROVE  /\ GuestsOf(run, outcome) \in Seq(G)
           /\ Len(GuestsOf(run, outcome)) \in Nat
           /\ Len(GuestsOf(run, outcome)) = Cardinality(Places(run, outcome))
           /\ GuestsOf(run, outcome) = <<>> <=> Places(run, outcome) = {}
<1> DEFINE set == {g \in ToSet(run) : g.outcome = outcome}
<1>1. \A i \in DOMAIN run : run[i] \in ToSet(run)
    BY DEF ToSet
<1>2. {i \in DOMAIN run : run[i] \in set} = Places(run, outcome)
    BY <1>1 DEF Places
<1>3. ToSet(run) \cap set = {} <=> Places(run, outcome) = {}
    BY <1>1 DEF Places, ToSet
<1> HIDE DEF set
<1>4. Keep(run, set) \in Seq(G) /\ (Keep(run, set) = <<>> <=> ToSet(run) \cap set = {})
    BY KeepSet
<1>5. Len(Keep(run, set)) = Cardinality({i \in DOMAIN run : run[i] \in set})
    BY KeepCount
<1>6. GuestsOf(run, outcome) = Keep(run, set)
    BY DEF GuestsOf, set
<1> QED BY <1>2, <1>3, <1>4, <1>5, <1>6, LenProperties

\* Guests of different names stay so when those of an outcome are taken.
LEMMA GuestsDistinct ==
    ASSUME NEW G, NEW run \in Seq(G), NEW outcome, Distinct(run)
    PROVE  Distinct(GuestsOf(run, outcome))
<1> DEFINE set == {g \in ToSet(run) : g.outcome = outcome}
<1>1. PICK r \in Seq(G) : r = GuestsOf(run, outcome)
    BY GuestsOfIs
<1>2. PICK at : Picks(at, r, run, Len(run), set)
    <2> HIDE DEF set
    <2>1. r = Keep(run, set)
        BY <1>1 DEF GuestsOf, set
    <2> QED BY <2>1, KeepPicks
<1>3. PICK n \in Nat, m \in Nat : n = Len(run) /\ m = Len(r)
    BY LenProperties
<1>4. /\ at \in [1..m -> 1..n]
      /\ \A j, k \in 1..m : j < k => at[j] < at[k]
      /\ \A j \in 1..m : r[j] = run[at[j]]
    BY <1>2, <1>3 DEF Picks
<1>5. ASSUME NEW j \in 1..m PROVE r[j].name # ""
    <2>1. PICK a \in 1..n : a = at[j]
        BY <1>4
    <2>2. run[a].name # ""
        BY <1>3 DEF Distinct
    <2> QED BY <1>4, <2>1, <2>2
<1>6. ASSUME NEW j \in 1..m, NEW k \in 1..m, r[j].name = r[k].name PROVE j = k
    <2>1. PICK a \in 1..n, b \in 1..n : a = at[j] /\ b = at[k]
        BY <1>4
    <2>2. run[a].name = run[b].name
        BY <1>4, <1>6, <2>1
    <2>3. a = b
        BY <1>3, <2>2 DEF Distinct
    <2>4. ~(at[j] < at[k]) /\ ~(at[k] < at[j])
        BY <2>1, <2>3
    <2> QED BY <1>4, <2>4
<1> QED BY <1>1, <1>3, <1>5, <1>6 DEF Distinct

\* Sets without a common element add up.
LEMMA DisjointCount ==
    ASSUME NEW S, NEW T, IsFiniteSet(S), IsFiniteSet(T), S \cap T = {}
    PROVE  IsFiniteSet(S \union T) /\ Cardinality(S \union T) = Cardinality(S) + Cardinality(T)
<1>1. /\ IsFiniteSet(S \union T)
      /\ Cardinality(S \union T) = Cardinality(S) + Cardinality(T) - Cardinality(S \cap T)
    BY FS_Union
<1>2. Cardinality(S \cap T) = 0
    BY FS_EmptySet
<1>3. Cardinality(S) \in Nat /\ Cardinality(T) \in Nat
    BY FS_CardinalityType
<1> QED BY <1>1, <1>2, <1>3

\* Every guest has one outcome.
LEMMA OutcomesAddUp ==
    ASSUME NEW G, NEW run \in Seq(G), \A g \in ToSet(run) : g.outcome \in Outcomes
    PROVE  Cardinality(Places(run, "failure")) + Cardinality(Places(run, "success"))
               + Cardinality(Places(run, "skipped")) = Len(run)
<1>1. PICK n \in Nat : n = Len(run) /\ DOMAIN run = 1..n
    BY LenProperties
<1> DEFINE f == Places(run, "failure")
           s == Places(run, "success")
           k == Places(run, "skipped")
<1>2. \A i \in 1..n : run[i].outcome \in {"failure", "skipped", "success"}
    BY <1>1 DEF ToSet, Outcomes
<1>3. /\ f \union s \union k = 1..n /\ f \cap s = {} /\ (f \union s) \cap k = {}
      /\ f \subseteq 1..n /\ s \subseteq 1..n /\ k \subseteq 1..n
    BY <1>1, <1>2 DEF Places
<1> HIDE DEF f, s, k
<1>4. IsFiniteSet(1..n) /\ Cardinality(1..n) = n
    BY FS_Interval
<1>5. IsFiniteSet(f) /\ IsFiniteSet(s) /\ IsFiniteSet(k)
    BY <1>3, <1>4, FS_Subset
<1>6. IsFiniteSet(f \union s) /\ Cardinality(f \union s) = Cardinality(f) + Cardinality(s)
    BY <1>3, <1>5, DisjointCount
<1>7. Cardinality(f \union s \union k) = Cardinality(f \union s) + Cardinality(k)
    BY <1>3, <1>5, <1>6, DisjointCount
<1>8. Cardinality(f) + Cardinality(s) + Cardinality(k) = n
    BY <1>3, <1>4, <1>6, <1>7
<1> QED BY <1>1, <1>8 DEF f, s, k

\* A sequence without repetitions.
Different(seq) == \A i, j \in 1..Len(seq) : seq[i] = seq[j] => i = j

LEMMA OutcomesCount == Cardinality(Outcomes) = 3
<1> DEFINE at == [i \in 1..3 |-> CASE i = 1 -> "failure" [] i = 2 -> "skipped" [] OTHER -> "success"]
<1>1. at \in [1..3 -> Outcomes]
    BY DEF Outcomes
<1>2. \A i, j \in 1..3 : at[i] = at[j] => i = j
    OBVIOUS
<1>3. \A o \in Outcomes : \E i \in 1..3 : at[i] = o
    <2>1. 1 \in 1..3 /\ 2 \in 1..3 /\ 3 \in 1..3
        OBVIOUS
    <2>2. at[1] = "failure" /\ at[2] = "skipped" /\ at[3] = "success"
        BY <2>1
    <2> QED BY <2>1, <2>2 DEF Outcomes
<1>4. at \in Bijection(1..3, Outcomes)
    <2> HIDE DEF at
    <2> QED BY <1>1, <1>2, <1>3 DEF Bijection, Injection, Surjection, IsInjective
<1> QED BY <1>4, FS_CountingElements DEF ExistsBijection

\* The order of the sections has each outcome once.
LEMMA OrderIs ==
    ASSUME NEW order \in SetToSeqs(Outcomes)
    PROVE  order \in Seq(Outcomes) /\ Different(order) /\ ToSet(order) = Outcomes
<1>1. order \in [1..3 -> Outcomes] /\ \A i, j \in 1..3 : order[i] = order[j] => i = j
    BY OutcomesCount DEF SetToSeqs, IsInjective
<1>2. order \in Seq(Outcomes) /\ Len(order) = 3
    <2>1. PICK n \in Nat : n = 3
        OBVIOUS
    <2>2. order \in [1..n -> Outcomes]
        BY <1>1, <2>1
    <2>3. order \in Seq(Outcomes)
        BY <2>2, SeqDef
    <2>4. n = Len(order)
        BY <2>2, <2>3, LenProperties
    <2> QED BY <2>1, <2>3, <2>4
<1>3. PICK a \in Outcomes, b \in Outcomes, c \in Outcomes :
          /\ a = order[1] /\ b = order[2] /\ c = order[3]
          /\ a # b /\ a # c /\ b # c
    BY <1>1
<1>4. \A o \in Outcomes : o = a \/ o = b \/ o = c
    BY <1>3 DEF Outcomes
<1>5. \A o \in Outcomes : \E i \in 1..3 : o = order[i]
    BY <1>3, <1>4
<1>6. \A o : o \in ToSet(order) <=> \E i \in 1..3 : o = order[i]
    <2>1. PICK n \in Nat : n = 3 /\ n = Len(order)
        BY <1>2
    <2>2. \A o : o \in ToSet(order) <=> \E i \in 1..n : o = order[i]
        BY <1>2, <2>1, Elements
    <2> QED BY <2>1, <2>2
<1>7. ToSet(order) = Outcomes
    BY <1>1, <1>5, <1>6
<1> QED BY <1>1, <1>2, <1>7 DEF Different

\* What is kept of a sequence without repetitions has none.
LEMMA KeepDifferent ==
    ASSUME NEW S, NEW seq \in Seq(S), Different(seq), NEW set
    PROVE  Different(Keep(seq, set))
<1>1. PICK r \in Seq(S) : r = Keep(seq, set)
    BY KeepPicks
<1>2. PICK at : Picks(at, r, seq, Len(seq), set)
    BY <1>1, KeepPicks
<1>3. PICK n \in Nat, m \in Nat : n = Len(seq) /\ m = Len(r)
    BY LenProperties
<1>4. /\ at \in [1..m -> 1..n]
      /\ \A j, k \in 1..m : j < k => at[j] < at[k]
      /\ \A j \in 1..m : r[j] = seq[at[j]]
    BY <1>2, <1>3 DEF Picks
<1>5. ASSUME NEW j \in 1..m, NEW k \in 1..m, r[j] = r[k] PROVE j = k
    <2>1. PICK a \in 1..n, b \in 1..n : a = at[j] /\ b = at[k]
        BY <1>4
    <2>2. seq[a] = seq[b]
        BY <1>4, <1>5, <2>1
    <2>3. a = b
        BY <1>3, <2>2 DEF Different
    <2>4. ~(at[j] < at[k]) /\ ~(at[k] < at[j])
        BY <2>1, <2>3
    <2> QED BY <1>4, <2>4
<1> QED BY <1>1, <1>3, <1>5 DEF Different

\* The numbers and names of an outcome whose section was read, and of one that
\* has no section or whose section comes later.
ReadOf(a, start, of, counted, o) ==
    /\ a.count[o] = IF counted THEN Len(of[o]) ELSE start.count[o]
    /\ Distinct(of[o]) => Len(a.names[o]) = Len(of[o])

UnreadOf(a, start, o) == a.count[o] = start.count[o] /\ a.names[o] = <<>>

ReadTo(a, start, of, counted, there, i) ==
    /\ a.total = start.total
    /\ \A o \in Outcomes : IF \E k \in 1..i : there[k] = o
                           THEN ReadOf(a, start, of, counted, o)
                           ELSE UnreadOf(a, start, o)

\* One section more.
LEMMA ReadNext ==
    ASSUME NEW N, NEW E, NEW G, Known(G, N, E), NEW counted \in BOOLEAN,
           NEW there \in Seq(Outcomes), Different(there), NEW i \in 1..Len(there),
           NEW of \in [Outcomes -> Seq(G)], NEW section, IsSection(section, G, counted),
           section.type = there[i], section.guests = of[there[i]],
           NEW start \in Tallies(N, E), NEW a \in Tallies(N, E),
           ReadTo(a, start, of, counted, there, i - 1)
    PROVE  ReadTo(AddSection(a, section), start, of, counted, there, i)
<1>1. PICK m \in Nat : m = Len(there)
    BY LenProperties
<1>2. PICK t \in Outcomes : t = there[i]
    BY <1>1
<1>3. PICK b : b = AddSection(a, section)
    OBVIOUS
<1>4. /\ b.total = a.total
      /\ \A o \in Outcomes : o # t => b.names[o] = a.names[o]
      /\ \A o \in Outcomes : b.count[o] = IF o = t /\ counted THEN Len(of[t]) ELSE a.count[o]
      /\ a.names[t] = <<>> /\ Distinct(of[t]) => Len(b.names[t]) = Len(of[t])
    BY <1>2, <1>3, AddSectionIs
<1>5. \A k \in 1..i : k \in 1..(i - 1) \/ k = i
    BY <1>1
<1>6. 1..(i - 1) \subseteq 1..i /\ i \in 1..i
    BY <1>1
<1>7. UnreadOf(a, start, t)
    <2>1. ASSUME NEW k \in 1..(i - 1), there[k] = t PROVE FALSE
        <3>1. k \in 1..m /\ k # i
            BY <1>1
        <3> QED BY <1>1, <1>2, <2>1, <3>1 DEF Different
    <2> QED BY <2>1 DEF ReadTo
<1>8. ReadOf(b, start, of, counted, t)
    BY <1>4, <1>7 DEF ReadOf, UnreadOf
<1>9. ASSUME NEW o \in Outcomes, o # t
      PROVE  IF \E k \in 1..i : there[k] = o
             THEN ReadOf(b, start, of, counted, o)
             ELSE UnreadOf(b, start, o)
    <2>1. (\E k \in 1..i : there[k] = o) <=> \E k \in 1..(i - 1) : there[k] = o
        BY <1>2, <1>5, <1>6, <1>9
    <2>2. b.count[o] = a.count[o] /\ b.names[o] = a.names[o]
        BY <1>4, <1>9
    <2>3. ReadOf(a, start, of, counted, o) => ReadOf(b, start, of, counted, o)
        BY <2>2 DEF ReadOf
    <2>4. UnreadOf(a, start, o) => UnreadOf(b, start, o)
        BY <2>2 DEF UnreadOf
    <2>5. IF \E k \in 1..(i - 1) : there[k] = o
          THEN ReadOf(a, start, of, counted, o) ELSE UnreadOf(a, start, o)
        BY DEF ReadTo
    <2> QED BY <2>1, <2>3, <2>4, <2>5
<1>10. b.total = start.total
    BY <1>4 DEF ReadTo
<1>11. \E k \in 1..i : there[k] = t
    BY <1>2, <1>6
<1>12. ReadTo(b, start, of, counted, there, i)
    BY <1>8, <1>9, <1>10, <1>11 DEF ReadTo
<1> QED BY <1>3, <1>12

\* The sections of a report: one for each of these outcomes, with its guests.
SectionsOf(sections, there, of, G, counted) ==
    /\ DOMAIN sections = 1..Len(there) /\ sections = [i \in DOMAIN sections |-> sections[i]]
    /\ \A i \in 1..Len(there) : /\ IsSection(sections[i], G, counted)
                                /\ sections[i].type = there[i]
                                /\ sections[i].guests = of[there[i]]

NothingListed(start) == \A o \in Outcomes : start.names[o] = <<>>

LEMMA SectionsRead ==
    ASSUME NEW N, NEW E, NEW G, Known(G, N, E), NEW counted \in BOOLEAN,
           NEW there \in Seq(Outcomes), Different(there), NEW of \in [Outcomes -> Seq(G)],
           NEW sections, SectionsOf(sections, there, of, G, counted),
           NEW start \in Tallies(N, E), NothingListed(start)
    PROVE  /\ FoldLeft(AddSection, start, sections) \in Tallies(N, E)
           /\ ReadTo(FoldLeft(AddSection, start, sections), start, of, counted, there, Len(there))
<1>1. PICK m \in Nat : m = Len(there)
    BY LenProperties
<1> DEFINE S == {sections[i] : i \in 1..m}
<1>2. sections \in [1..m -> S]
    BY <1>1 DEF SectionsOf
<1>3. ASSUME NEW s \in S PROVE IsSection(s, G, counted)
    BY <1>1 DEF SectionsOf
<1> HIDE DEF S
<1>4. \A a \in Tallies(N, E), s \in S : AddSection(a, s) \in Tallies(N, E)
    <2> SUFFICES ASSUME NEW a \in Tallies(N, E), NEW s \in S
                 PROVE  AddSection(a, s) \in Tallies(N, E)
        OBVIOUS
    <2>1. IsSection(s, G, counted)
        BY <1>3
    <2> QED BY <2>1, AddSectionIs
<1>5. PICK h \in [0..m -> Tallies(N, E)] : ReadsSections(h, m, sections, start)
    BY <1>2, <1>4, SectionsSteps, Zenon
<1>6. /\ h[0] = start /\ FoldLeft(AddSection, start, sections) = h[m]
      /\ \A i \in 1..m : h[i] = AddSection(h[i - 1], sections[i])
    BY <1>5 DEF ReadsSections
<1> DEFINE P == {i \in 0..m : ReadTo(h[i], start, of, counted, there, i)}
<1>7. 0 \in P
    <2>1. 0 \in 0..m /\ 1..0 = {}
        OBVIOUS
    <2>2. \A o \in Outcomes : UnreadOf(start, start, o)
        BY DEF UnreadOf, NothingListed
    <2>3. ReadTo(start, start, of, counted, there, 0)
        BY <2>1, <2>2 DEF ReadTo
    <2> QED BY <1>6, <2>1, <2>3
<1>8. ASSUME NEW i \in 1..m, i - 1 \in P PROVE i \in P
    <2>1. PICK a \in Tallies(N, E) : a = h[i - 1]
        BY <1>5
    <2>2. PICK s : s = sections[i]
        OBVIOUS
    <2>3. i \in 1..Len(there) /\ IsSection(s, G, counted) /\ s.type = there[i] /\ s.guests = of[there[i]]
        BY <1>1, <2>2 DEF SectionsOf
    <2>4. ReadTo(a, start, of, counted, there, i - 1)
        BY <1>8, <2>1
    <2>5. ReadTo(AddSection(a, s), start, of, counted, there, i)
        BY <2>3, <2>4, ReadNext
    <2>6. i \in 0..m /\ h[i] = AddSection(a, s)
        BY <1>6, <2>1, <2>2
    <2> QED BY <2>5, <2>6
<1> HIDE DEF P
<1>9. 0..m \subseteq P
    BY <1>7, <1>8, Induction
<1>10. m \in 0..m
    OBVIOUS
<1>11. ReadTo(h[m], start, of, counted, there, m) /\ h[m] \in Tallies(N, E)
    BY <1>5, <1>9, <1>10 DEF P
<1> QED BY <1>1, <1>6, <1>11

\* What fixing does to the numbers.
LEMMA FixIs ==
    ASSUME NEW N, NEW E, NEW state \in Tallies(N, E)
    PROVE  /\ \A o \in Outcomes : FixMissingCounts(state).count[o] =
                  IF state.count[o] = 0 THEN Len(state.names[o]) ELSE state.count[o]
           /\ FixMissingCounts(state).total =
                  IF state.total = 0
                  THEN FixMissingCounts(state).count["failure"]
                       + FixMissingCounts(state).count["success"]
                       + FixMissingCounts(state).count["skipped"]
                  ELSE state.total
<1> DEFINE fixed == [o \in Outcomes |-> IF state.count[o] = 0
                                        THEN Len(state.names[o]) ELSE state.count[o]]
<1>1. PICK r : r = FixMissingCounts(state)
    OBVIOUS
<1>2. /\ r.count = fixed
      /\ r.total = IF state.total = 0
                   THEN fixed["failure"] + fixed["success"] + fixed["skipped"]
                   ELSE state.total
    BY <1>1 DEF Tallies, FixMissingCounts
<1>3. \A o \in Outcomes : fixed[o] = IF state.count[o] = 0
                                     THEN Len(state.names[o]) ELSE state.count[o]
    OBVIOUS
<1> HIDE DEF fixed
<1> QED BY <1>1, <1>2, <1>3

\* What a report is made of.
ByOutcome(run) == [o \in Outcomes |-> GuestsOf(run, o)]

Heading(report, summarised, s, n) == report.successes = IF summarised THEN <<s, n>> ELSE <<>>

Complete(report, of, G, counted) ==
    \E there \in Seq(Outcomes) :
        /\ Different(there)
        /\ \A o \in Outcomes : o \in ToSet(there) <=> of[o] # <<>>
        /\ SectionsOf(report.sections, there, of, G, counted)

LEMMA ReportIs ==
    ASSUME NEW G, NEW run \in Seq(G), NEW order \in SetToSeqs(Outcomes),
           NEW summarised \in BOOLEAN, NEW counted \in BOOLEAN,
           NEW of, of = ByOutcome(run),
           NEW report, report = Report(run, order, summarised, counted)
    PROVE  /\ of \in [Outcomes -> Seq(G)]
           /\ Heading(report, summarised, Len(of["success"]), Len(run))
           /\ Complete(report, of, G, counted)
<1>11. of = [o \in Outcomes |-> GuestsOf(run, o)]
    BY DEF ByOutcome
<1>1. of \in [Outcomes -> Seq(G)]
    BY <1>11, GuestsOfIs
<1> DEFINE given == {o \in Outcomes : GuestsOf(run, o) # <<>>}
<1>2. PICK there \in Seq(Outcomes) : there = Keep(order, given)
    BY OrderIs, KeepSet
<1>3. Different(there)
    BY <1>2, OrderIs, KeepDifferent
<1>4. \A o \in Outcomes : o \in ToSet(there) <=> of[o] # <<>>
    <2>1. ToSet(there) = Outcomes \cap given
        BY <1>2, OrderIs, KeepSet
    <2> QED BY <1>11, <2>1
<1>5. "success" \in Outcomes
    BY DEF Outcomes
<1>6. /\ report.successes = IF summarised THEN <<Len(GuestsOf(run, "success")), Len(run)>> ELSE <<>>
      /\ report.sections =
            [i \in DOMAIN there |->
                [type |-> there[i],
                 count |-> IF counted THEN <<Len(GuestsOf(run, there[i]))>> ELSE <<>>,
                 guests |-> GuestsOf(run, there[i])]]
    BY <1>2 DEF Report, GuestsOf
<1>7. DOMAIN there = 1..Len(there) /\ \A i \in 1..Len(there) : there[i] \in Outcomes
    BY LenProperties
<1>8. /\ DOMAIN report.sections = 1..Len(there)
      /\ report.sections = [i \in DOMAIN report.sections |-> report.sections[i]]
    BY <1>6, <1>7
<1>9. ASSUME NEW i \in 1..Len(there)
      PROVE  /\ IsSection(report.sections[i], G, counted)
             /\ report.sections[i].type = there[i]
             /\ report.sections[i].guests = of[there[i]]
    <2>1. PICK s : s = report.sections[i]
        OBVIOUS
    <2>2. s = [type |-> there[i],
               count |-> IF counted THEN <<Len(GuestsOf(run, there[i]))>> ELSE <<>>,
               guests |-> GuestsOf(run, there[i])]
        BY <1>6, <1>7, <2>1
    <2>4. of[there[i]] = GuestsOf(run, there[i])
        BY <1>7, <1>11
    <2>3. there[i] \in Outcomes /\ GuestsOf(run, there[i]) \in Seq(G)
        BY <1>7, GuestsOfIs
    <2> QED BY <2>1, <2>2, <2>3, <2>4 DEF IsSection
<1>10. SectionsOf(report.sections, there, of, G, counted)
    BY <1>8, <1>9 DEF SectionsOf
<1>12. Complete(report, of, G, counted)
    BY <1>3, <1>4, <1>10 DEF Complete
<1>13. of["success"] = GuestsOf(run, "success")
    BY <1>5, <1>11
<1>14. Heading(report, summarised, Len(of["success"]), Len(run))
    BY <1>6, <1>13 DEF Heading
<1> QED BY <1>1, <1>12, <1>14

\* Before any section nothing is listed.
Fresh(c, t) ==
    [count |-> c, total |-> t, names |-> [o \in Outcomes |-> <<>>], errors |-> <<>>]

LEMMA NothingYet ==
    ASSUME NEW N, NEW E, NEW c \in [Outcomes -> Nat], NEW t \in Nat, NEW u,
           u = Fresh(c, t)
    PROVE  u \in Tallies(N, E) /\ u.count = c /\ u.total = t /\ NothingListed(u)
<1>1. <<>> \in Seq(N) /\ <<>> \in Seq(E)
    OBVIOUS
<1>2. PICK names : names = [o \in Outcomes |-> <<>>]
    OBVIOUS
<1>3. names \in [Outcomes -> Seq(N)] /\ \A o \in Outcomes : names[o] = <<>>
    BY <1>1, <1>2
<1>4. PICK errors \in Seq(E) : errors = <<>>
    BY <1>1
<1>5. u = [count |-> c, total |-> t, names |-> names, errors |-> errors]
    BY <1>2, <1>4 DEF Fresh
<1>6. u \in Tallies(N, E) /\ u.count = c /\ u.total = t /\ u.names = names
    BY <1>3, <1>5 DEF Tallies
<1> QED BY <1>3, <1>6 DEF NothingListed

\* The numbers of three outcomes.
Says(c, f, s, k) ==
    c \in [Outcomes -> Nat] /\ c["failure"] = f /\ c["success"] = s /\ c["skipped"] = k

LEMMA NumbersAre ==
    ASSUME NEW f \in Nat, NEW s \in Nat, NEW k \in Nat
    PROVE  Says(Numbers(f, s, k), f, s, k)
BY DEF Numbers, Outcomes, Says

\* What the summary says: no number, or those of a run without skipped guests.
StartsAt(u, summarised, f, s, k) ==
    /\ u.total = IF summarised THEN f + s + k ELSE 0
    /\ u.count["failure"] = IF summarised THEN f + k ELSE 0
    /\ u.count["success"] = IF summarised THEN s ELSE 0
    /\ u.count["skipped"] = 0

Sums(n, f, s, k) == n = f + s + k

LEMMA SummaryIs ==
    ASSUME NEW f \in Nat, NEW s \in Nat, NEW k \in Nat, NEW n \in Nat, Sums(n, f, s, k),
           NEW summarised \in BOOLEAN, NEW report, Heading(report, summarised, s, n)
    PROVE  \E c \in [Outcomes -> Nat], t \in Nat :
               /\ Summary(report).count = c /\ Summary(report).total = t
               /\ t = IF summarised THEN n ELSE 0
               /\ c["failure"] = IF summarised THEN f + k ELSE 0
               /\ c["success"] = IF summarised THEN s ELSE 0
               /\ c["skipped"] = 0
<1>6. PICK z \in Nat : z = 0
    OBVIOUS
<1>1. PICK c0 \in [Outcomes -> Nat] :
          /\ c0 = Numbers(z, z, z)
          /\ c0["failure"] = z /\ c0["success"] = z /\ c0["skipped"] = z
    <2>1. Says(Numbers(z, z, z), z, z, z)
        BY NumbersAre
    <2> QED BY <2>1 DEF Says
<1>2. PICK d \in Nat : d = f + k
    OBVIOUS
<1>3. PICK c1 \in [Outcomes -> Nat] :
          /\ c1 = Numbers(d, s, z)
          /\ c1["failure"] = d /\ c1["success"] = s /\ c1["skipped"] = z
    <2>1. Says(Numbers(d, s, z), d, s, z)
        BY NumbersAre
    <2> QED BY <2>1 DEF Says
<1>4. CASE summarised
    <2>1. <<s, n>> # <<>> /\ <<s, n>>[1] = s /\ <<s, n>>[2] = n
        OBVIOUS
    <2>2. ~(n < s) /\ n - s = d
        BY <1>2 DEF Sums
    <2>3. report.successes = <<s, n>>
        BY <1>4 DEF Heading
    <2>4. Summary(report) = [count |-> Numbers(IF n < s THEN 0 ELSE n - s, s, 0), total |-> n]
        BY <2>1, <2>3 DEF Summary
    <2>5. Summary(report) = [count |-> c1, total |-> n]
        BY <1>3, <1>6, <2>2, <2>4
    <2> QED BY <1>2, <1>3, <1>4, <1>6, <2>5
<1>5. CASE ~summarised
    <2>1. report.successes = <<>>
        BY <1>5 DEF Heading
    <2>2. Summary(report) = [count |-> c0, total |-> 0]
        BY <1>1, <1>6, <2>1 DEF Summary
    <2> QED BY <1>1, <1>5, <1>6, <2>2
<1> QED BY <1>4, <1>5

LEMMA UnreadIs ==
    ASSUME NEW N, NEW E, NEW f \in Nat, NEW s \in Nat, NEW k \in Nat, NEW n \in Nat,
           Sums(n, f, s, k), NEW summarised \in BOOLEAN, NEW report,
           Heading(report, summarised, s, n)
    PROVE  /\ Unread(report) \in Tallies(N, E) /\ NothingListed(Unread(report))
           /\ StartsAt(Unread(report), summarised, f, s, k)
<1>1. PICK c \in [Outcomes -> Nat], t \in Nat :
               /\ Summary(report).count = c /\ Summary(report).total = t
               /\ t = IF summarised THEN n ELSE 0
               /\ c["failure"] = IF summarised THEN f + k ELSE 0
               /\ c["success"] = IF summarised THEN s ELSE 0
               /\ c["skipped"] = 0
    BY SummaryIs
<1>2. PICK u : u = Unread(report)
    OBVIOUS
<1>3. u = Fresh(c, t)
    BY <1>1, <1>2 DEF Unread, Fresh
<1>4. u \in Tallies(N, E) /\ u.count = c /\ u.total = t /\ NothingListed(u)
    BY <1>3, NothingYet
<1>5. StartsAt(u, summarised, f, s, k)
    BY <1>1, <1>4 DEF StartsAt, Sums
<1> QED BY <1>2, <1>4, <1>5

\* The number of an outcome after fixing.
Progress(a, start, of, counted, o, c) ==
    IF c # 0 THEN ReadOf(a, start, of, counted, o) ELSE UnreadOf(a, start, o)

Fixed(a, o) == IF a.count[o] = 0 THEN Len(a.names[o]) ELSE a.count[o]

LEMMA NumberFixed ==
    ASSUME NEW a, NEW start, NEW of, NEW counted \in BOOLEAN, NEW o, NEW c \in Nat,
           c = Len(of[o]), Progress(a, start, of, counted, o, c),
           c = 0 => start.count[o] = 0, ~counted => Distinct(of[o]) /\ start.count[o] \in {0, c}
    PROVE  Fixed(a, o) = c
<1>1. CASE c = 0
    <2>1. a.count[o] = 0 /\ a.names[o] = <<>> /\ Len(<<>>) = 0
        BY <1>1 DEF UnreadOf, Progress
    <2> QED BY <1>1, <2>1 DEF Fixed
<1>2. CASE c # 0 /\ counted
    <2>1. a.count[o] = c
        BY <1>2 DEF ReadOf, Progress
    <2> QED BY <1>2, <2>1 DEF Fixed
<1>3. CASE c # 0 /\ ~counted
    <2>1. a.count[o] \in {0, c} /\ Len(a.names[o]) = c
        BY <1>3 DEF ReadOf, Progress
    <2> QED BY <2>1 DEF Fixed
<1> QED BY <1>1, <1>2, <1>3

\* The numbers of a run are given.
Given(run, summarised, counted) ==
    /\ counted \/ Distinct(run)
    /\ summarised /\ Places(run, "skipped") # {} => counted /\ Places(run, "failure") # {}

Right(read, run) ==
    /\ \A o \in Outcomes : read.count[o] = Cardinality(Places(run, o))
    /\ read.total = Len(run)

\* The numbers of a report are those of its run, where they are given.
LEMMA CountsRight ==
    ASSUME NEW run \in Runs, NEW order \in SetToSeqs(Outcomes), NEW summarised \in BOOLEAN,
           NEW counted \in BOOLEAN, Given(run, summarised, counted),
           NEW read, read = Counts(Report(run, order, summarised, counted))
    PROVE  Right(read, run)
<1>1. PICK G : G = ToSet(run) /\ run \in Seq(G)
    BY RunsAssumption
<1> DEFINE N == {g.name : g \in G}
           E == {g.error : g \in G}
<1>2. Known(G, N, E)
    BY DEF Known
<1> HIDE DEF N, E
<1>3. PICK of : of = ByOutcome(run)
    OBVIOUS
<1>4. PICK report : report = Report(run, order, summarised, counted)
    OBVIOUS
<1>5. /\ of \in [Outcomes -> Seq(G)]
      /\ Heading(report, summarised, Len(of["success"]), Len(run))
      /\ Complete(report, of, G, counted)
    BY <1>1, <1>3, <1>4, ReportIs
<1>6. PICK there \in Seq(Outcomes) :
          /\ Different(there)
          /\ \A o \in Outcomes : o \in ToSet(there) <=> of[o] # <<>>
          /\ SectionsOf(report.sections, there, of, G, counted)
    BY <1>5 DEF Complete
<1>7. ASSUME NEW o \in Outcomes
      PROVE  /\ Len(of[o]) \in Nat /\ Len(of[o]) = Cardinality(Places(run, o))
             /\ of[o] = <<>> <=> Len(of[o]) = 0
             /\ Len(of[o]) = 0 <=> Places(run, o) = {}
    <2>1. of[o] = GuestsOf(run, o)
        BY <1>3 DEF ByOutcome
    <2>2. PICK r \in Seq(G) : r = of[o]
        BY <1>5
    <2>3. r = <<>> <=> Len(r) = 0
        BY EmptySeq
    <2> QED BY <1>1, <2>1, <2>2, <2>3, GuestsOfIs
<1>8. PICK f \in Nat, s \in Nat, k \in Nat, n \in Nat :
          /\ f = Len(of["failure"]) /\ s = Len(of["success"]) /\ k = Len(of["skipped"])
          /\ n = Len(run)
    <2>1. "failure" \in Outcomes /\ "success" \in Outcomes /\ "skipped" \in Outcomes
        BY DEF Outcomes
    <2>2. Len(run) \in Nat
        BY <1>1, LenProperties
    <2> QED BY <1>7, <2>1, <2>2
<1>9. n = f + s + k
    <2>1. "failure" \in Outcomes /\ "success" \in Outcomes /\ "skipped" \in Outcomes
        BY DEF Outcomes
    <2>2. \A g \in ToSet(run) : g.outcome \in Outcomes
        BY RunsAssumption
    <2>3. Cardinality(Places(run, "failure")) + Cardinality(Places(run, "success"))
              + Cardinality(Places(run, "skipped")) = Len(run)
        BY <1>1, <2>2, OutcomesAddUp
    <2> QED BY <1>7, <1>8, <2>1, <2>3
<1>10. PICK start : start = Unread(report)
    OBVIOUS
<1>11. /\ start \in Tallies(N, E) /\ NothingListed(start)
       /\ StartsAt(start, summarised, f, s, k)
    <2>1. Heading(report, summarised, s, n)
        BY <1>5, <1>8
    <2>2. Sums(n, f, s, k)
        BY <1>9 DEF Sums
    <2> QED BY <1>10, <2>1, <2>2, UnreadIs
<1>12. PICK a : a = FoldLeft(AddSection, start, report.sections)
    OBVIOUS
<1>13. a \in Tallies(N, E) /\ ReadTo(a, start, of, counted, there, Len(there))
    BY <1>2, <1>5, <1>6, <1>11, <1>12, SectionsRead
<1>14. a.total = start.total
    BY <1>13 DEF ReadTo
<1>15. ASSUME NEW o \in Outcomes
       PROVE  Progress(a, start, of, counted, o, Len(of[o]))
    <2>1. PICK m \in Nat : m = Len(there)
        BY <1>6, LenProperties
    <2>2. (\E i \in 1..m : there[i] = o) <=> Len(of[o]) # 0
        BY <1>6, <1>7, <2>1, Elements
    <2> QED BY <1>13, <2>1, <2>2 DEF ReadTo, Progress
<1>16. read = FixMissingCounts(a)
    BY <1>4, <1>10, <1>12 DEF Counts
<1>17. summarised /\ k # 0 => counted /\ f # 0
    <2>1. "failure" \in Outcomes /\ "skipped" \in Outcomes
        BY DEF Outcomes
    <2> QED BY <1>7, <1>8, <2>1 DEF Given
<1>18. ASSUME NEW o \in Outcomes PROVE read.count[o] = Len(of[o])
    <2>1. PICK c \in Nat : c = Len(of[o])
        BY <1>7
    <2>2. o = "failure" \/ o = "success" \/ o = "skipped"
        BY DEF Outcomes
    <2>3. /\ c = 0 => start.count[o] = 0
          /\ ~counted => start.count[o] \in {0, c}
        <3>1. CASE o = "failure"
            <4>1. c = f /\ start.count[o] = IF summarised THEN f + k ELSE 0
                BY <1>8, <1>11, <2>1, <3>1 DEF StartsAt
            <4> QED BY <1>17, <4>1
        <3>2. CASE o = "success"
            <4>1. c = s /\ start.count[o] = IF summarised THEN s ELSE 0
                BY <1>8, <1>11, <2>1, <3>2 DEF StartsAt
            <4> QED BY <4>1
        <3>3. CASE o = "skipped"
            <4>1. start.count[o] = 0
                BY <1>11, <3>3 DEF StartsAt
            <4> QED BY <4>1
        <3> QED BY <2>2, <3>1, <3>2, <3>3
    <2>4. ~counted => Distinct(of[o])
        BY <1>1, <1>3, GuestsDistinct DEF Given, ByOutcome
    <2>5. Progress(a, start, of, counted, o, c)
        BY <1>15, <2>1
    <2>6. Fixed(a, o) = c
        BY <2>1, <2>3, <2>4, <2>5, NumberFixed
    <2>7. read.count[o] = Fixed(a, o)
        BY <1>13, <1>16, FixIs DEF Fixed
    <2> QED BY <2>1, <2>6, <2>7
<1>19. read.total = IF a.total = 0
                    THEN read.count["failure"] + read.count["success"] + read.count["skipped"]
                    ELSE a.total
    BY <1>13, <1>16, FixIs
<1>20. read.total = n
    <2>1. "failure" \in Outcomes /\ "success" \in Outcomes /\ "skipped" \in Outcomes
        BY DEF Outcomes
    <2>2. read.count["failure"] = f /\ read.count["success"] = s /\ read.count["skipped"] = k
        BY <1>8, <1>18, <2>1
    <2>3. start.total = IF summarised THEN f + s + k ELSE 0
        BY <1>11 DEF StartsAt
    <2> QED BY <1>9, <1>14, <1>19, <2>2, <2>3
<1> QED BY <1>7, <1>8, <1>18, <1>20 DEF Right

-----------------------------------------------------------------------------
(* The invariant: the notice is that of the event.                           *)

NoticeGiven ==
    /\ source = "mail" => event \in Mails /\ notice = Recognise(event)
    /\ RecoveryStated => notice.status = "success"
    /\ source = "truenas" => event \in Digests /\ notice = TrueNASDigest(event)

LEMMA NoticeInit == Init => NoticeGiven
BY DEF Init, NoticeGiven, RecoveryStated

LEMMA NoticeNext == NoticeGiven /\ [Next]_vars => NoticeGiven'
<1> SUFFICES ASSUME NoticeGiven, [Next]_vars PROVE NoticeGiven'
    OBVIOUS
<1> DEFINE Others == {"proxmox", "unifi_network", "qnap", "grafana", "zabbix", "proxmox_mail",
                      "synology_mail", "hardware", "unifi_drive", "unifi_drive_alarm", "xo", ""}
<1>1. ASSUME source' \in Others PROVE NoticeGiven'
    BY <1>1 DEF NoticeGiven, RecoveryStated
<1>2. ASSUME ReceiveProxmox \/ ReceiveNetwork \/ ReceiveXO
             \/ ReceiveQnap \/ ReceiveGrafana \/ ReceiveZabbix \/ ReceiveProxmoxMail
             \/ ReceiveSynologyMail \/ ReceiveHardware \/ ReceiveDrive
             \/ ReceiveDriveAlarm \/ Finish
      PROVE  NoticeGiven'
    <2>1. source' \in Others
        BY <1>2 DEF Take, ReceiveProxmox, ReceiveNetwork, ReceiveXO,
           ReceiveQnap, ReceiveGrafana, ReceiveZabbix, ReceiveProxmoxMail,
           ReceiveSynologyMail, ReceiveHardware, ReceiveDrive, ReceiveDriveAlarm, Finish
    <2> QED BY <1>1, <2>1
<1>3. CASE ReceiveSynology
    <2>1. PICK e \in Events(VendorSeverities, VendorStates) :
              Take("synology", e, SynologyWebhook(e))
        BY <1>3 DEF ReceiveSynology
    <2>2. e.state \in VendorStates
        BY DEF Events
    <2>3. StatesRecovery(e) => SynologyWebhook(e).status = "success"
        BY <2>2 DEF StatesRecovery, VendorStates, Recovered, Cleared, SynologyWebhook, Notice
    <2> QED BY <2>1, <2>3 DEF Take, NoticeGiven, RecoveryStated, StatesRecovery
<1>4. CASE ReceivePortainer
    <2>1. PICK e \in Events({"", "info", "warning", "critical"}, {"firing", "resolved"}) :
              Take("portainer", e, PortainerAlert(e))
        BY <1>4 DEF ReceivePortainer
    <2>2. e.state \in {"firing", "resolved"}
        BY DEF Events
    <2>3. StatesRecovery(e) => PortainerAlert(e).status = "success"
        BY <2>2 DEF StatesRecovery, Recovered, Cleared, PortainerAlert, PortainerStatus, Notice
    <2> QED BY <2>1, <2>3 DEF Take, NoticeGiven, RecoveryStated, StatesRecovery
<1>5. CASE ReceiveEvent
    <2>1. PICK e \in Events(EventSeverities, EventStates), name \in {"event_api", "home_assistant"} :
              Take(name, e, SubmittedEvent(e))
        BY <1>5 DEF ReceiveEvent
    <2>2. e.state \in EventStates
        BY DEF Events
    <2>3. StatesRecovery(e) => SubmittedEvent(e).status = "success"
        BY <2>2 DEF StatesRecovery, EventStates, Recovered, Cleared, SubmittedEvent, EventStatus,
                    Notice
    <2> QED BY <2>1, <2>3 DEF Take, NoticeGiven, RecoveryStated, StatesRecovery
<1>6. CASE ReceiveRedfish
    <2>1. PICK e \in Events({"", "critical", "warning", "ok", "informational"}, {""}) :
              Take("redfish", e, RedfishEvent(e))
        BY <1>6 DEF ReceiveRedfish
    <2>2. Has(e.text, Recovered) => Has(e.text, Recovered \union {"cleared"})
        BY DEF Has
    <2>3. Has(e.text, Recovered) => RedfishStatus(e.severity, e.text) = "success"
        BY <2>2 DEF RedfishStatus
    <2>4. RedfishEvent(e).status = RedfishStatus(e.severity, e.text)
        BY DEF RedfishEvent, Notice
    <2> QED BY <2>1, <2>3, <2>4 DEF Take, NoticeGiven, RecoveryStated
<1>7. CASE Dispatch
    BY <1>7 DEF Dispatch, Take, NoticeGiven, RecoveryStated
<1>8. CASE ReceiveTrueNAS
    <2>1. PICK digest \in Digests : Take("truenas", digest, TrueNASDigest(digest))
        BY <1>8 DEF ReceiveTrueNAS
    <2>2. source' = "truenas" /\ event' = digest /\ notice' = TrueNASDigest(digest)
        BY <2>1 DEF Take
    <2>3. ~RecoveryStated'
        BY <2>2 DEF RecoveryStated
    <2>4. (notice = TrueNASDigest(event))'
        BY <2>2
    <2> QED BY <2>2, <2>3, <2>4 DEF NoticeGiven
<1>9. CASE UNCHANGED vars
    BY <1>9 DEF vars, NoticeGiven, RecoveryStated, StatesRecovery, Has
<1> QED BY <1>2, <1>3, <1>4, <1>5, <1>6, <1>7, <1>8, <1>9 DEF Next

LEMMA NoticeAlways == Spec => []NoticeGiven
<1> QED BY NoticeInit, NoticeNext, PTL DEF Spec

-----------------------------------------------------------------------------
(* The same of the mails whose fields are read.                              *)

LetterGiven ==
    /\ source = "zabbix" => event \in Letters /\ notice = ZabbixMail(event)
    /\ source = "qnap" => event \in Letters /\ notice = QnapMail(event)
    /\ source = "grafana" => event \in Letters /\ notice = GrafanaMail(event)
    /\ source = "proxmox_mail" => event \in Letters /\ notice = ProxmoxMail(event)

LEMMA LetterNext == LetterGiven /\ [Next]_vars => LetterGiven'
<1> SUFFICES ASSUME LetterGiven, [Next]_vars PROVE LetterGiven'
    OBVIOUS
<1>1. ASSUME source' \notin {"zabbix", "qnap", "grafana", "proxmox_mail"} PROVE LetterGiven'
    BY <1>1 DEF LetterGiven
<1>2. CASE ReceiveZabbix
    BY <1>2 DEF ReceiveZabbix, Take, LetterGiven
<1>3. CASE ReceiveQnap
    BY <1>3 DEF ReceiveQnap, Take, LetterGiven
<1>4. CASE ReceiveGrafana
    BY <1>4 DEF ReceiveGrafana, Take, LetterGiven
<1>5. CASE ReceiveProxmoxMail
    BY <1>5 DEF ReceiveProxmoxMail, Take, LetterGiven
<1>6. ASSUME ReceiveProxmox \/ ReceiveSynology \/ ReceivePortainer \/ ReceiveEvent
             \/ ReceiveRedfish \/ ReceiveNetwork \/ ReceiveTrueNAS
             \/ ReceiveSynologyMail \/ ReceiveHardware \/ ReceiveDrive
             \/ ReceiveDriveAlarm \/ Dispatch \/ Finish
      PROVE  LetterGiven'
    <2>1. source' \notin {"zabbix", "qnap", "grafana", "proxmox_mail"}
        BY <1>6 DEF Take, ReceiveProxmox, ReceiveSynology, ReceivePortainer, ReceiveEvent,
           ReceiveRedfish, ReceiveNetwork, ReceiveTrueNAS, ReceiveSynologyMail,
           ReceiveHardware, ReceiveDrive, ReceiveDriveAlarm, Dispatch, Finish
    <2> QED BY <1>1, <2>1
<1>7. CASE ReceiveXO
    <2>1. source' = "xo"
        BY <1>7 DEF ReceiveXO, Take
    <2> QED BY <1>1, <2>1
<1>8. CASE UNCHANGED vars
    BY <1>8 DEF vars, LetterGiven
<1> QED BY <1>2, <1>3, <1>4, <1>5, <1>6, <1>7, <1>8 DEF Next

LEMMA LetterAlways == Spec => []LetterGiven
<1>1. Init => LetterGiven
    BY DEF Init, LetterGiven
<1> QED BY <1>1, LetterNext, PTL DEF Spec

\* The same of what Xen Orchestra sends.
RunGiven ==
    source = "xo" =>
        \E run \in Runs, order \in SetToSeqs(Outcomes), summarised, counted \in BOOLEAN :
            /\ event = [run |-> run, summarised |-> summarised, counted |-> counted]
            /\ notice.count = Counts(Report(run, order, summarised, counted)).count
            /\ notice.total = Counts(Report(run, order, summarised, counted)).total

LEMMA RunNext == RunGiven /\ [Next]_vars => RunGiven'
<1> SUFFICES ASSUME RunGiven, [Next]_vars PROVE RunGiven'
    OBVIOUS
<1>1. ASSUME source' # "xo" PROVE RunGiven'
    BY <1>1 DEF RunGiven
<1>2. CASE ReceiveXO
    <2>1. PICK run \in Runs, order \in SetToSeqs(Outcomes), summarised \in BOOLEAN,
               counted \in BOOLEAN :
              LET read == Counts(Report(run, order, summarised, counted))
              IN  \E status \in {"success", "failure", "skipped", "interrupted"} :
                      Take("xo", [run |-> run, summarised |-> summarised, counted |-> counted],
                           [status |-> XONotice(status).status,
                            severity |-> XONotice(status).severity,
                            count |-> read.count, total |-> read.total, names |-> read.names,
                            errors |-> read.errors])
        BY <1>2 DEF ReceiveXO
    <2>2. PICK read : read = Counts(Report(run, order, summarised, counted))
        OBVIOUS
    <2>3. /\ event' = [run |-> run, summarised |-> summarised, counted |-> counted]
          /\ notice'.count = read.count /\ notice'.total = read.total
        BY <2>1, <2>2 DEF Take
    <2> QED BY <2>2, <2>3 DEF RunGiven
<1>3. ASSUME ReceiveProxmox \/ ReceiveSynology \/ ReceivePortainer \/ ReceiveEvent
             \/ ReceiveRedfish \/ ReceiveNetwork \/ ReceiveTrueNAS \/ ReceiveQnap
             \/ ReceiveGrafana \/ ReceiveZabbix \/ ReceiveProxmoxMail
             \/ ReceiveSynologyMail \/ ReceiveHardware \/ ReceiveDrive
             \/ ReceiveDriveAlarm \/ Dispatch \/ Finish
      PROVE  RunGiven'
    <2>1. source' # "xo"
        BY <1>3 DEF Take, ReceiveProxmox, ReceiveSynology, ReceivePortainer, ReceiveEvent,
           ReceiveRedfish, ReceiveNetwork, ReceiveTrueNAS, ReceiveQnap, ReceiveGrafana,
           ReceiveZabbix, ReceiveProxmoxMail, ReceiveSynologyMail,
           ReceiveHardware, ReceiveDrive, ReceiveDriveAlarm, Dispatch, Finish
    <2> QED BY <1>1, <2>1
<1>4. CASE UNCHANGED vars
    BY <1>4 DEF vars, RunGiven
<1> QED BY <1>2, <1>3, <1>4 DEF Next

LEMMA RunAlways == Spec => []RunGiven
<1>1. Init => RunGiven
    BY DEF Init, RunGiven
<1> QED BY <1>1, RunNext, PTL DEF Spec

\* The two platforms show an event alike: whatever a parser made of it, the tables
\* of the two formatters, which differ in form, give one family of colours.
THEOREM PlatformsAgree == Spec => []AdaptersAgree
<1>1. AdaptersAgree
    <2>1. Cards = {DiscordCard(notice)}
        BY CardsAgree DEF Cards
    <2>2. Cardinality(Cards) = 1
        BY <2>1, FS_Singleton
    <2> QED BY <2>2 DEF AdaptersAgree
<1> QED BY <1>1, PTL

\* Whatever a mail quotes or forwards, it does not become TrueNAS's by that: the
\* detectors that are asked before (src/src/dispatcher.py) find no less in the
\* whole text than in the part its sender wrote, and TrueNAS's reads only that part.
THEOREM QuotesNeverSteal == Spec => []QuotedNeverSteals
<1>1. NoticeGiven => QuotedNeverSteals
    BY QuotelessToo DEF NoticeGiven, QuotedNeverSteals
<1> QED BY <1>1, NoticeAlways, PTL

\* Words that any sender may use, in whatever number and wherever they stand, do not
\* make a mail one of a vendor's: no detector goes by them alone.
THEOREM WeakWordsNeverSuffice == Spec => []WeakNeverSuffices
<1>1. NoticeGiven => WeakNeverSuffices
    BY WeakIsGeneric DEF NoticeGiven, WeakNeverSuffices
<1> QED BY <1>1, NoticeAlways, PTL

\* A webhook that states that a condition is over is shown as a recovery on both
\* platforms, whatever its severity and the words of its text.
THEOREM WebhookRecovery == Spec => []WebhookRecoveryShown
<1>1. NoticeGiven => WebhookRecoveryShown
    BY SuccessIsResolved DEF NoticeGiven, WebhookRecoveryShown, Cards
<1> QED BY <1>1, NoticeAlways, PTL

\* A digest of TrueNAS that lists an active alert, in a part that does not say it is a
\* test, is shown as a problem, and as a critical one if the alert is: leaving out
\* repetitions (src/src/parsers/truenas.py) loses no condition, and the worst that is left
\* gives the digest its status, for digests of any number of parts and alerts.
THEOREM ActiveAlertAlwaysShown == Spec => []ActiveAlertShown
<1>1. NoticeGiven => ActiveAlertShown
    BY ActiveShown DEF NoticeGiven
<1> QED BY <1>1, NoticeAlways, PTL

\* A recovery that is stated is shown as one, by a webhook and by Zabbix, whose mail
\* states it by a label in bold type of its first HTML part: the label is among the
\* fields that are found (src/src/parsers/zabbix.py), whatever comes before it or
\* after it, in mails of any length.
THEOREM RecoveryAlwaysShown == Spec => []RecoveryShown
<1>1. NoticeGiven => WebhookRecoveryShown
    BY SuccessIsResolved DEF NoticeGiven, WebhookRecoveryShown, Cards
<1>2. ASSUME LetterGiven, source = "zabbix", PartsOf(event, "html") # <<>>,
             NEW line \in ToSet(PartsOf(event, "html")[1].lines),
             line.form = "bold", line.label = "problem has been resolved"
      PROVE  Cards = {"resolved"}
    <2>1. event \in Letters /\ notice = ZabbixMail(event)
        BY <1>2 DEF LetterGiven
    <2> QED BY <1>2, <2>1, ZabbixRecovers
<1>3. NoticeGiven /\ LetterGiven => RecoveryShown
    BY <1>1, <1>2 DEF RecoveryShown
<1> QED BY <1>3, NoticeAlways, LetterAlways, PTL

\* What a mail states in one way decides: a severity in a mail of QNAP, a state in
\* one of Grafana, a guest that failed in one of Proxmox.  It is so for mails of any
\* number of parts, lines and rows: what is read of a part agrees with what is
\* stated, line after line and entry after entry; what the parts give is joined
\* without loss; and the table gives a phrase that stands by itself its status.
THEOREM StatedAlwaysDecides == Spec => []StatedDecides
<1>1. ASSUME LetterGiven, source = "qnap", NEW i \in DOMAIN QnapTable,
             NEW phrase \in QnapTable[i][2], OnlyStates(event, QnapAliases.severity, phrase)
      PROVE  notice = Notice(QnapTable[i][1], phrase)
    <2>1. event \in Letters /\ notice = QnapMail(event)
        BY <1>1 DEF LetterGiven
    <2> QED BY <1>1, <2>1, QnapDecides
<1>2. ASSUME LetterGiven, source = "grafana", NEW i \in DOMAIN GrafanaTable,
             NEW phrase \in GrafanaTable[i][2], OnlyStates(event, GrafanaAliases.state, phrase)
      PROVE  notice.status = GrafanaTable[i][1]
    <2>1. event \in Letters /\ notice = GrafanaMail(event)
        BY <1>2 DEF LetterGiven
    <2> QED BY <1>2, <2>1, GrafanaDecides
<1>3. ASSUME LetterGiven, source = "proxmox_mail",
             NEW line \in UNION {ToSet(p.lines) : p \in ToSet(PartsOf(event, "plain"))},
             line.form = "guest", line.value = {"failed"}
      PROVE  Cards = {"critical"}
    <2>1. event \in Letters /\ notice = ProxmoxMail(event)
        BY <1>3 DEF LetterGiven
    <2> QED BY <1>3, <2>1, GuestShown
<1>4. LetterGiven => StatedDecides
    BY <1>1, <1>2, <1>3 DEF StatedDecides
<1> QED BY <1>4, LetterAlways, PTL

\* The numbers of a report are those of the run, where they are given: for runs of
\* any number of guests, names that are equal included, in whatever order the
\* sections come (src/src/parsers/xo.py).  Section after section the numbers and
\* the names of an outcome are those of its guests, and those of an outcome whose
\* section has not come are as the summary left them.
THEOREM RunAlwaysCounted == Spec => []RunCounted
<1>1. ASSUME RunGiven, source = "xo", NumbersGiven(event)
      PROVE  /\ \A outcome \in Outcomes :
                    notice.count[outcome] =
                        Cardinality({i \in DOMAIN event.run : event.run[i].outcome = outcome})
             /\ notice.total = Len(event.run)
    <2>1. PICK run \in Runs, order \in SetToSeqs(Outcomes), summarised \in BOOLEAN,
               counted \in BOOLEAN :
              /\ event = [run |-> run, summarised |-> summarised, counted |-> counted]
              /\ notice.count = Counts(Report(run, order, summarised, counted)).count
              /\ notice.total = Counts(Report(run, order, summarised, counted)).total
        BY <1>1 DEF RunGiven
    <2>2. event.run = run /\ event.summarised = summarised /\ event.counted = counted
        BY <2>1
    <2>3. /\ counted \/ \A i, j \in DOMAIN run : run[i].name = run[j].name => i = j
          /\ summarised /\ Places(run, "skipped") # {} => counted /\ Places(run, "failure") # {}
        BY <1>1, <2>2 DEF NumbersGiven, Places
    <2>4. counted \/ Distinct(run)
        <3>1. run \in Seq(ToSet(run)) /\ \A g \in ToSet(run) : g.name # ""
            BY RunsAssumption
        <3>2. DOMAIN run = 1..Len(run)
            BY <3>1, LenProperties
        <3>3. \A i \in 1..Len(run) : run[i].name # ""
            BY <3>1, <3>2 DEF ToSet
        <3> QED BY <2>3, <3>2, <3>3 DEF Distinct
    <2>5. PICK read : read = Counts(Report(run, order, summarised, counted))
        OBVIOUS
    <2>6. Given(run, summarised, counted)
        BY <2>3, <2>4 DEF Given
    <2>7. Right(read, run)
        BY <2>5, <2>6, CountsRight
    <2> QED BY <2>1, <2>2, <2>5, <2>7 DEF Places, Right
<1>2. RunGiven => RunCounted
    BY <1>1 DEF RunCounted
<1> QED BY <1>2, RunAlways, PTL

=============================================================================
