------------------------- MODULE ConversationLemmas -------------------------
(***************************************************************************)
(* What the functions of Conversation compute, for conversations of any    *)
(* length: the folds obey their recursion, and from it follows what        *)
(* validation accepts and what repair returns.                             *)
(*                                                                         *)
(* A fold is a function on the sets of positions of its sequence.  That    *)
(* this function exists, and that its values at the prefixes are the       *)
(* intermediate results, is proved by induction on the length, with the    *)
(* step of the fold as a function on the positions.                        *)
(***************************************************************************)
EXTENDS Conversation, FiniteSetTheorems, NaturalsInduction, WellFoundedInduction, TLAPS

---------------------------------------------------------------------------
(* Induction *)

\* Induction on a number, for the set of the numbers that have a property.
LEMMA NumbersUpTo ==
    ASSUME NEW n \in Nat, NEW P, 0 \in P, \A k \in 1 .. n : k - 1 \in P => k \in P
    PROVE  \A k \in 0 .. n : k \in P
<1> SUFFICES ASSUME NEW bad \in 0 .. n, bad \notin P PROVE FALSE
  OBVIOUS
<1> DEFINE T == {k \in 0 .. n : k \notin P}
<1>1. T \subseteq Nat /\ T # {}
  OBVIOUS
<1> HIDE DEF T
<1>2. PICK x \in T : \A y \in T : ~ (<< y, x >> \in OpToRel(<, Nat))
  BY <1>1, NatLessThanWellFounded, WFMin
<1>3. x \in 0 .. n /\ x \notin P /\ x # 0
  BY <1>2 DEF T
<1>4. x \in 1 .. n /\ x - 1 \in 0 .. n /\ x - 1 \in Nat /\ x \in Nat /\ x - 1 < x
  BY <1>3
<1>5. x - 1 \in T
  BY <1>3, <1>4 DEF T
<1>6. << x - 1, x >> \in OpToRel(<, Nat)
  BY <1>4 DEF OpToRel
<1> QED
  BY <1>2, <1>5, <1>6

\* Induction on a sequence that grows at its end, for the set of the sequences
\* that have a property.
LEMMA SequencesGrow ==
    ASSUME NEW T, NEW P, << >> \in P,
           \A s \in Seq(T), x \in T : s \in P => Append(s, x) \in P
    PROVE  Seq(T) \subseteq P
<1> SUFFICES ASSUME NEW s \in Seq(T) PROVE s \in P
  OBVIOUS
<1> DEFINE Q == {k \in 0 .. Len(s) : SubSeq(s, 1, k) \in P}
<1>1. 0 \in Q
  <2>1. SubSeq(s, 1, 0) = << >>
    OBVIOUS
  <2>2. 0 \in 0 .. Len(s)
    OBVIOUS
  <2> QED
    BY <2>1, <2>2
<1>2. ASSUME NEW k \in 1 .. Len(s), k - 1 \in Q PROVE k \in Q
  <2>1. k - 1 \in Nat /\ k - 1 <= Len(s) /\ s[k] \in T
    OBVIOUS
  <2>2. SubSeq(s, 1, k - 1) \in Seq(T)
    BY <2>1
  <2>3. SubSeq(s, 1, k) = Append(SubSeq(s, 1, k - 1), s[k])
    BY <2>1
  <2>4. SubSeq(s, 1, k - 1) \in P
    BY <1>2
  <2>5. Append(SubSeq(s, 1, k - 1), s[k]) \in P
    BY <2>1, <2>2, <2>4
  <2>6. k \in 0 .. Len(s)
    OBVIOUS
  <2> QED
    BY <2>3, <2>5, <2>6
<1> HIDE DEF Q
<1>3. Len(s) \in Q
  <2>1. Len(s) \in Nat /\ Len(s) \in 0 .. Len(s)
    OBVIOUS
  <2>2. \A k \in 0 .. Len(s) : k \in Q
    BY <1>1, <1>2, <2>1, NumbersUpTo, Zenon
  <2> QED
    BY <2>1, <2>2
<1>4. SubSeq(s, 1, Len(s)) = s
  OBVIOUS
<1> QED
  BY <1>3, <1>4 DEF Q

---------------------------------------------------------------------------
(* Folds *)

\* The largest number of a set that goes up to k.
LEMMA LargestUpTo ==
    ASSUME NEW k \in Nat, NEW t \in SUBSET (1 .. k), k \in t
    PROVE  Max(t) = k
<1>1. \A x \in t : x \in Int /\ k >= x
  OBVIOUS
<1>2. \E m \in t : \A x \in t : m >= x
  BY <1>1
<1>3. Max(t) \in t /\ \A x \in t : Max(t) >= x
  BY <1>2 DEF Max
<1>4. Max(t) >= k /\ k >= Max(t) /\ Max(t) \in Int
  BY <1>1, <1>3
<1> QED
  BY <1>4

LEMMA LargestIn ==
    ASSUME NEW n \in Nat, NEW t \in SUBSET (1 .. n), t # {}
    PROVE  Max(t) \in t
<1> DEFINE P == {k \in 0 .. n : \A u \in SUBSET (1 .. k) : u # {} => Max(u) \in u}
<1>1. 0 \in P
  <2>1. 1 .. 0 = {} /\ 0 \in 0 .. n
    OBVIOUS
  <2> QED
    BY <2>1
<1>2. ASSUME NEW k \in 1 .. n, k - 1 \in P PROVE k \in P
  <2>1. ASSUME NEW u \in SUBSET (1 .. k), u # {} PROVE Max(u) \in u
    <3>1. CASE k \in u
      BY <3>1, LargestUpTo
    <3>2. CASE k \notin u
      <4>1. u \in SUBSET (1 .. k - 1)
        BY <3>2
      <4> QED
        BY <1>2, <2>1, <4>1
    <3> QED
      BY <3>1, <3>2
  <2> QED
    BY <2>1
<1> HIDE DEF P
<1>3. \A k \in 0 .. n : k \in P
  BY <1>1, <1>2, NumbersUpTo
<1> QED
  BY <1>3 DEF P

\* The function by which a fold is defined, over all sets of positions.
IsFold(iter, n, D, base, step) ==
    /\ iter \in [SUBSET (1 .. n) -> D]
    /\ \A t \in SUBSET (1 .. n) :
          iter[t] = IF t = {} THEN base ELSE step[<< iter[t \ {Max(t)}], Max(t) >>]

LEMMA FoldExists ==
    ASSUME NEW n \in Nat, NEW D, NEW base \in D, NEW step \in [D \X (1 .. n) -> D]
    PROVE  \E iter : IsFold(iter, n, D, base, step)
<1> DEFINE Good(k, f) == \A t \in SUBSET (1 .. k) :
                 f[t] = IF t = {} THEN base ELSE step[<< f[t \ {Max(t)}], Max(t) >>]
           P == {k \in 0 .. n : \E f \in [SUBSET (1 .. k) -> D] : Good(k, f)}
<1>1. 0 \in P
  <2> DEFINE f == [t \in SUBSET (1 .. 0) |-> base]
  <2>1. \A t \in SUBSET (1 .. 0) : t = {}
    OBVIOUS
  <2>2. f \in [SUBSET (1 .. 0) -> D] /\ Good(0, f)
    BY <2>1
  <2> HIDE DEF f
  <2>3. \E h \in [SUBSET (1 .. 0) -> D] : Good(0, h)
    BY <2>2, Zenon
  <2>4. 0 \in 0 .. n
    OBVIOUS
  <2> QED
    BY <2>3, <2>4
<1>2. ASSUME NEW k \in 1 .. n, k - 1 \in P PROVE k \in P
  <2>1. PICK f \in [SUBSET (1 .. k - 1) -> D] : Good(k - 1, f)
    BY <1>2
  <2>2. \A t \in SUBSET (1 .. k) : t \ {k} \in SUBSET (1 .. k - 1)
    OBVIOUS
  <2> DEFINE g == [t \in SUBSET (1 .. k) |->
                     IF k \in t THEN step[<< f[t \ {k}], k >>] ELSE f[t]]
  <2>3. ASSUME NEW t \in SUBSET (1 .. k)
        PROVE  /\ g[t] \in D
               /\ g[t] = IF t = {} THEN base ELSE step[<< g[t \ {Max(t)}], Max(t) >>]
    <3>1. CASE k \in t
      <4>1. Max(t) = k
        BY <3>1, LargestUpTo
      <4>2. t \ {k} \in SUBSET (1 .. k - 1) /\ t \ {k} \in SUBSET (1 .. k) /\ k \notin t \ {k}
        BY <2>2
      <4>3. g[t \ {k}] = f[t \ {k}] /\ f[t \ {k}] \in D
        BY <4>2
      <4>4. g[t] = step[<< f[t \ {k}], k >>]
        BY <3>1
      <4>5. g[t] \in D
        BY <4>3, <4>4
      <4> QED
        BY <3>1, <4>1, <4>3, <4>4, <4>5
    <3>2. CASE k \notin t
      <4>1. t \in SUBSET (1 .. k - 1) /\ g[t] = f[t] /\ f[t] \in D
        BY <2>2, <3>2
      <4>2. CASE t = {}
        BY <2>1, <4>1, <4>2
      <4>3. CASE t # {}
        <5>1. t \ {Max(t)} \in SUBSET (1 .. k - 1) /\ k \notin t \ {Max(t)}
              /\ t \ {Max(t)} \in SUBSET (1 .. k)
          BY <3>2, <4>1
        <5>2. g[t \ {Max(t)}] = f[t \ {Max(t)}]
          BY <5>1
        <5> QED
          BY <2>1, <4>1, <4>3, <5>2
      <4> QED
        BY <4>2, <4>3
    <3> QED
      BY <3>1, <3>2
  <2>4. g \in [SUBSET (1 .. k) -> D] /\ Good(k, g)
    BY <2>3
  <2>5. k \in 0 .. n
    OBVIOUS
  <2> HIDE DEF g
  <2> QED
    BY <2>4, <2>5
<1>3. n \in 0 .. n
  OBVIOUS
<1> HIDE DEF P
<1>4. n \in P
  BY <1>1, <1>2, <1>3, NumbersUpTo
<1>5. PICK f \in [SUBSET (1 .. n) -> D] : Good(n, f)
  BY <1>4 DEF P
<1>6. IsFold(f, n, D, base, step)
  BY <1>5 DEF IsFold
<1> QED
  BY <1>6

\* Its value at the first k positions, which does not depend on how it was
\* chosen.
Upto(f, k) == f[1 .. k]

LEMMA FoldsAgree ==
    ASSUME NEW n \in Nat, NEW f, NEW g, Upto(f, 0) = Upto(g, 0),
           \A k \in 1 .. n : Upto(f, k - 1) = Upto(g, k - 1) => Upto(f, k) = Upto(g, k)
    PROVE  \A k \in 0 .. n : Upto(f, k) = Upto(g, k)
<1> DEFINE P == {k \in 0 .. n : Upto(f, k) = Upto(g, k)}
<1>1. 0 \in P
  OBVIOUS
<1>2. ASSUME NEW k \in 1 .. n, k - 1 \in P PROVE k \in P
  BY <1>2
<1> HIDE DEF P
<1>3. \A k \in 0 .. n : k \in P
  BY <1>1, <1>2, NumbersUpTo
<1> QED
  BY <1>3 DEF P

LEMMA NoPrefix == 1 .. 0 = {} /\ \A t : {} \in SUBSET t
OBVIOUS

\* A prefix of positions without its last.
LEMMA PrefixShrinks ==
    ASSUME NEW k \in Nat \ {0}
    PROVE  /\ Max(1 .. k) = k /\ 1 .. k # {}
           /\ (1 .. k) \ {k} = 1 .. k - 1
           /\ k \in 1 .. k
<1>1. k \in 1 .. k /\ 1 .. k \in SUBSET (1 .. k)
  OBVIOUS
<1>2. Max(1 .. k) = k
  BY <1>1, LargestUpTo
<1> QED
  BY <1>1, <1>2

---------------------------------------------------------------------------
(* Folds whose step is a function on their results and elements            *)

\* iter is a function by which the fold of s is defined.
Folds(iter, s, D, base, step) ==
    \A t \in SUBSET (DOMAIN s) :
       /\ iter[t] \in D
       /\ IF t = {} THEN iter[t] = base
          ELSE /\ Max(t) \in DOMAIN s
               /\ iter[t \ {Max(t)}] \in D
               /\ iter[t] = step[<< iter[t \ {Max(t)}], s[Max(t)] >>]

LEMMA FoldExistsOn ==
    ASSUME NEW D, NEW T, NEW base \in D, NEW step \in [D \X T -> D], NEW s \in Seq(T)
    PROVE  \E iter : iter = [t \in SUBSET (DOMAIN s) |-> iter[t]] /\ Folds(iter, s, D, base, step)
<1> DEFINE n == Len(s)
           at == [p \in D \X (1 .. n) |-> step[<< p[1], s[p[2]] >>]]
<1>1. n \in Nat /\ DOMAIN s = 1 .. n /\ \A k \in 1 .. n : s[k] \in T
  OBVIOUS
<1>2. at \in [D \X (1 .. n) -> D]
  BY <1>1
<1>3. \A d \in D, k \in 1 .. n : at[<< d, k >>] = step[<< d, s[k] >>]
  OBVIOUS
<1> HIDE DEF n, at
<1>4. PICK f : IsFold(f, n, D, base, at)
  BY <1>1, <1>2, FoldExists
<1>5. \A t \in SUBSET (1 .. n) : t # {} => Max(t) \in 1 .. n /\ t \ {Max(t)} \in SUBSET (1 .. n)
  BY <1>1, LargestIn
<1>6. f \in [SUBSET (1 .. n) -> D]
  BY <1>4 DEF IsFold
<1>7. ASSUME NEW t \in SUBSET (1 .. n)
      PROVE  /\ f[t] \in D
             /\ t = {} => f[t] = base
             /\ t # {} => /\ Max(t) \in 1 .. n
                          /\ f[t \ {Max(t)}] \in D
                          /\ f[t] = step[<< f[t \ {Max(t)}], s[Max(t)] >>]
  <2>1. f[t] \in D /\ (t = {} => f[t] = base)
    BY <1>4, <1>6 DEF IsFold
  <2>2. ASSUME t # {}
        PROVE  /\ Max(t) \in 1 .. n
               /\ f[t \ {Max(t)}] \in D
               /\ f[t] = step[<< f[t \ {Max(t)}], s[Max(t)] >>]
    <3>1. Max(t) \in 1 .. n /\ t \ {Max(t)} \in SUBSET (1 .. n)
      BY <1>5, <2>2
    <3>2. f[t \ {Max(t)}] \in D
      BY <1>6, <3>1
    <3>3. f[t] = at[<< f[t \ {Max(t)}], Max(t) >>]
      BY <1>4, <2>2 DEF IsFold
    <3> QED
      BY <1>3, <3>1, <3>2, <3>3
  <2> QED
    BY <2>1, <2>2
<1>8. Folds(f, s, D, base, step)
  BY <1>1, <1>7 DEF Folds
<1>9. f = [t \in SUBSET (DOMAIN s) |-> f[t]]
  BY <1>1, <1>6
<1> QED
  BY <1>8, <1>9

\* The intermediate results of a fold, one for each prefix.
Steps(f, s, D, base, step) ==
    /\ Upto(f, 0) = base
    /\ \A k \in 1 .. Len(s) : Upto(f, k) = step[<< Upto(f, k - 1), s[k] >>]
    /\ \A k \in 0 .. Len(s) : Upto(f, k) \in D

LEMMA StepsFromEquation ==
    ASSUME NEW D, NEW T, NEW base \in D, NEW step \in [D \X T -> D], NEW s \in Seq(T), NEW f,
           Upto(f, 0) = base,
           \A k \in 1 .. Len(s) : Upto(f, k - 1) \in D =>
               Upto(f, k) = step[<< Upto(f, k - 1), s[k] >>]
    PROVE  Steps(f, s, D, base, step)
<1> DEFINE n == Len(s)
           P == {k \in 0 .. n : Upto(f, k) \in D}
<1>1. n \in Nat /\ \A k \in 1 .. n : s[k] \in T
  OBVIOUS
<1>2. 0 \in P
  BY <1>1
<1>3. ASSUME NEW k \in 1 .. n, k - 1 \in P PROVE k \in P
  <2>1. Upto(f, k - 1) \in D /\ s[k] \in T
    BY <1>1, <1>3
  <2>2. Upto(f, k) = step[<< Upto(f, k - 1), s[k] >>]
    BY <2>1
  <2>3. Upto(f, k) \in D
    BY <2>1, <2>2
  <2> QED
    BY <2>3, <1>1
<1> HIDE DEF P
<1>4. \A k \in 0 .. n : k \in P
  BY <1>1, <1>2, <1>3, NumbersUpTo
<1>5. \A k \in 0 .. n : Upto(f, k) \in D
  BY <1>4 DEF P
<1>6. \A k \in 1 .. n : k - 1 \in 0 .. n
  BY <1>1
<1> QED
  BY <1>5, <1>6 DEF Steps

LEMMA StepsOfAppended ==
    ASSUME NEW D, NEW T, NEW base, NEW step, NEW s \in Seq(T), NEW x \in T, NEW f, NEW g,
           Steps(f, s, D, base, step), Steps(g, Append(s, x), D, base, step)
    PROVE  Upto(g, Len(Append(s, x))) = step[<< Upto(f, Len(s)), x >>]
<1> DEFINE n == Len(s)
           u == Append(s, x)
<1>1. /\ n \in Nat /\ Len(u) = n + 1
      /\ u[n + 1] = x /\ \A k \in 1 .. n : u[k] = s[k] /\ k \in 1 .. n + 1
  OBVIOUS
<1>2. Upto(f, 0) = base /\ \A k \in 1 .. n : Upto(f, k) = step[<< Upto(f, k - 1), s[k] >>]
  BY DEF Steps
<1>3. Upto(g, 0) = base /\ \A k \in 1 .. Len(u) : Upto(g, k) = step[<< Upto(g, k - 1), u[k] >>]
  BY DEF Steps
<1> HIDE DEF n, u
<1>4. \A k \in 1 .. n : Upto(f, k - 1) = Upto(g, k - 1) => Upto(f, k) = Upto(g, k)
  BY <1>1, <1>2, <1>3
<1>5. n \in Nat /\ n \in 0 .. n /\ Upto(f, 0) = Upto(g, 0)
  BY <1>1, <1>2, <1>3
<1>6. \A k \in 0 .. n : Upto(f, k) = Upto(g, k)
  BY <1>4, <1>5, FoldsAgree
<1>7. n + 1 \in 1 .. Len(u) /\ (n + 1) - 1 = n /\ Len(u) = n + 1 /\ u[n + 1] = x
  BY <1>1
<1> QED
  BY <1>3, <1>5, <1>6, <1>7 DEF n, u

---------------------------------------------------------------------------
(* Among: the elements of a set, in their order *)

AmongAt(s, S) == CHOOSE iter : iter =
    [t \in SUBSET (DOMAIN s) |->
       IF t = {} THEN << >>
       ELSE IF s[Max(t)] \in S THEN Append(iter[t \ {Max(t)}], s[Max(t)])
                               ELSE iter[t \ {Max(t)}]]

AmongStep(T, S) ==
    [p \in Seq(T) \X T |-> IF p[2] \in S THEN Append(p[1], p[2]) ELSE p[1]]

LEMMA AmongIsFold == \A s, S : Among(s, S) = AmongAt(s, S)[DOMAIN s]
BY DEF Among, AmongAt, FoldLeft, MapThenFoldSet

LEMMA AmongSteps ==
    ASSUME NEW T, NEW S, NEW s \in Seq(T)
    PROVE  /\ Steps(AmongAt(s, S), s, Seq(T), << >>, AmongStep(T, S))
           /\ Among(s, S) = Upto(AmongAt(s, S), Len(s))
<1> DEFINE D == Seq(T)
           step == AmongStep(T, S)
           g == AmongAt(s, S)
           Body(iter) == [t \in SUBSET (DOMAIN s) |->
                   IF t = {} THEN << >>
                   ELSE IF s[Max(t)] \in S THEN Append(iter[t \ {Max(t)}], s[Max(t)])
                                           ELSE iter[t \ {Max(t)}]]
<1>1. /\ << >> \in D /\ step \in [D \X T -> D]
      /\ \A d \in D, x \in T : step[<< d, x >>] = IF x \in S THEN Append(d, x) ELSE d
  BY DEF AmongStep
<1>2. DOMAIN s = 1 .. Len(s) /\ Len(s) \in Nat /\ \A k \in DOMAIN s : s[k] \in T
  OBVIOUS
<1> HIDE DEF D, step
<1>3. PICK f : f = [t \in SUBSET (DOMAIN s) |-> f[t]] /\ Folds(f, s, D, << >>, step)
  BY <1>1, FoldExistsOn
<1>4. f = Body(f)
  BY <1>1, <1>2, <1>3 DEF Folds
<1>5. g = Body(g)
  BY <1>4 DEF AmongAt
<1> HIDE DEF g
<1>6. Upto(g, 0) = << >>
  BY <1>5, NoPrefix DEF Upto
<1>7. ASSUME NEW k \in 1 .. Len(s), Upto(g, k - 1) \in D
      PROVE  Upto(g, k) = step[<< Upto(g, k - 1), s[k] >>]
  <2>1. /\ Max(1 .. k) = k /\ 1 .. k # {} /\ (1 .. k) \ {k} = 1 .. k - 1
        /\ 1 .. k \in SUBSET (DOMAIN s) /\ s[k] \in T
    BY <1>2, PrefixShrinks
  <2>2. Upto(g, k) = IF s[k] \in S THEN Append(Upto(g, k - 1), s[k]) ELSE Upto(g, k - 1)
    BY <1>5, <2>1 DEF Upto
  <2> QED
    BY <1>1, <1>7, <2>1, <2>2
<1>8. Steps(g, s, D, << >>, step)
  BY <1>1, <1>6, <1>7, StepsFromEquation
<1> QED
  BY <1>2, <1>8, AmongIsFold DEF D, step, g, Upto

LEMMA AmongEmpty == \A S : Among(<< >>, S) = << >>
<1> SUFFICES ASSUME NEW S PROVE Among(<< >>, S) = << >>
  OBVIOUS
<1>1. << >> \in Seq({}) /\ Len(<< >>) = 0
  OBVIOUS
<1>2. /\ Steps(AmongAt(<< >>, S), << >>, Seq({}), << >>, AmongStep({}, S))
      /\ Among(<< >>, S) = Upto(AmongAt(<< >>, S), Len(<< >>))
  BY <1>1, AmongSteps
<1> QED
  BY <1>1, <1>2 DEF Steps

LEMMA AmongAppend ==
    ASSUME NEW T, NEW s \in Seq(T), NEW x \in T, NEW S
    PROVE  Among(Append(s, x), S) =
               IF x \in S THEN Append(Among(s, S), x) ELSE Among(s, S)
<1> DEFINE u == Append(s, x)
<1>1. u \in Seq(T) /\ Len(s) \in 0 .. Len(s)
  OBVIOUS
<1>2. /\ Steps(AmongAt(s, S), s, Seq(T), << >>, AmongStep(T, S))
      /\ Among(s, S) = Upto(AmongAt(s, S), Len(s))
  BY AmongSteps
<1>3. /\ Steps(AmongAt(u, S), u, Seq(T), << >>, AmongStep(T, S))
      /\ Among(u, S) = Upto(AmongAt(u, S), Len(u))
  BY <1>1, AmongSteps
<1>4. Among(u, S) = AmongStep(T, S)[<< Among(s, S), x >>]
  BY <1>2, <1>3, StepsOfAppended
<1>5. Among(s, S) \in Seq(T)
  BY <1>1, <1>2 DEF Steps
<1> QED
  BY <1>4, <1>5 DEF AmongStep

\* No element twice.
Single(s) == \A j, k \in DOMAIN s : s[j] = s[k] => j = k

LEMMA AppendedTo ==
    ASSUME NEW T, NEW s \in Seq(T), NEW x \in T
    PROVE  /\ Append(s, x) \in Seq(T)
           /\ ToSet(Append(s, x)) = ToSet(s) \cup {x}
           /\ Single(Append(s, x)) <=> Single(s) /\ x \notin ToSet(s)
<1> DEFINE u == Append(s, x)
<1>1. /\ u \in Seq(T) /\ DOMAIN u = DOMAIN s \cup {Len(s) + 1} /\ Len(s) + 1 \notin DOMAIN s
      /\ u[Len(s) + 1] = x /\ \A k \in DOMAIN s : u[k] = s[k]
  OBVIOUS
<1> HIDE DEF u
<1>2. ToSet(u) = ToSet(s) \cup {x}
  BY <1>1 DEF ToSet
<1>3. Single(u) <=> Single(s) /\ x \notin ToSet(s)
  BY <1>1 DEF ToSet, Single
<1> QED
  BY <1>1, <1>2, <1>3 DEF u

LEMMA OfNone == ToSet(<< >>) = {} /\ Single(<< >>) /\ \A T : << >> \in Seq(T)
BY DEF ToSet, Single

LEMMA AmongFacts ==
    ASSUME NEW T, NEW S
    PROVE  \A s \in Seq(T) :
              /\ Among(s, S) \in Seq(T)
              /\ ToSet(Among(s, S)) = ToSet(s) \cap S
              /\ Single(s) => Single(Among(s, S))
<1> DEFINE Good(s) == /\ Among(s, S) \in Seq(T)
                      /\ ToSet(Among(s, S)) = ToSet(s) \cap S
                      /\ Single(s) => Single(Among(s, S))
           P == {s \in Seq(T) : Good(s)}
<1>1. << >> \in P
  BY AmongEmpty, OfNone
<1>2. ASSUME NEW s \in Seq(T), NEW x \in T, s \in P PROVE Append(s, x) \in P
  <2>1. Good(s)
    BY <1>2
  <2>2. CASE x \in S
    <3>1. Among(Append(s, x), S) = Append(Among(s, S), x)
      BY <2>2, AmongAppend
    <3>2. /\ Append(Among(s, S), x) \in Seq(T)
          /\ ToSet(Append(Among(s, S), x)) = ToSet(Among(s, S)) \cup {x}
          /\ Single(Append(Among(s, S), x)) <=> Single(Among(s, S)) /\ x \notin ToSet(Among(s, S))
      BY <2>1, AppendedTo
    <3>3. /\ Append(s, x) \in Seq(T)
          /\ ToSet(Append(s, x)) = ToSet(s) \cup {x}
          /\ Single(Append(s, x)) <=> Single(s) /\ x \notin ToSet(s)
      BY AppendedTo
    <3>4. ToSet(Append(Among(s, S), x)) = ToSet(Append(s, x)) \cap S
      BY <2>1, <2>2, <3>2, <3>3
    <3>5. Single(Append(s, x)) => Single(Append(Among(s, S), x))
      BY <2>1, <3>2, <3>3
    <3> QED
      BY <3>1, <3>2, <3>3, <3>4, <3>5
  <2>3. CASE x \notin S
    <3>1. Among(Append(s, x), S) = Among(s, S)
      BY <2>3, AmongAppend
    <3> QED
      BY <2>1, <2>3, <3>1, AppendedTo
  <2> QED
    BY <2>2, <2>3
<1> HIDE DEF P
<1>3. Seq(T) \subseteq P
  BY <1>1, <1>2, SequencesGrow
<1> QED
  BY <1>3 DEF P

---------------------------------------------------------------------------
(* Distinct: the first of equal elements *)

DistinctAt(s) == CHOOSE iter : iter =
    [t \in SUBSET (DOMAIN s) |->
       IF t = {} THEN << >>
       ELSE IF Contains(iter[t \ {Max(t)}], s[Max(t)])
            THEN iter[t \ {Max(t)}] ELSE Append(iter[t \ {Max(t)}], s[Max(t)])]

DistinctStep(T) ==
    [p \in Seq(T) \X T |-> IF Contains(p[1], p[2]) THEN p[1] ELSE Append(p[1], p[2])]

LEMMA DistinctIsFold == \A s : Distinct(s) = DistinctAt(s)[DOMAIN s]
BY DEF Distinct, DistinctAt, FoldLeft, MapThenFoldSet

LEMMA DistinctSteps ==
    ASSUME NEW T, NEW s \in Seq(T)
    PROVE  /\ Steps(DistinctAt(s), s, Seq(T), << >>, DistinctStep(T))
           /\ Distinct(s) = Upto(DistinctAt(s), Len(s))
<1> DEFINE D == Seq(T)
           step == DistinctStep(T)
           g == DistinctAt(s)
           Body(iter) == [t \in SUBSET (DOMAIN s) |->
                   IF t = {} THEN << >>
                   ELSE IF Contains(iter[t \ {Max(t)}], s[Max(t)])
                        THEN iter[t \ {Max(t)}] ELSE Append(iter[t \ {Max(t)}], s[Max(t)])]
<1>1. /\ << >> \in D /\ step \in [D \X T -> D]
      /\ \A d \in D, x \in T : step[<< d, x >>] = IF Contains(d, x) THEN d ELSE Append(d, x)
  BY DEF DistinctStep
<1>2. DOMAIN s = 1 .. Len(s) /\ Len(s) \in Nat /\ \A k \in DOMAIN s : s[k] \in T
  OBVIOUS
<1> HIDE DEF D, step
<1>3. PICK f : f = [t \in SUBSET (DOMAIN s) |-> f[t]] /\ Folds(f, s, D, << >>, step)
  BY <1>1, FoldExistsOn
<1>4. f = Body(f)
  BY <1>1, <1>2, <1>3 DEF Folds
<1>5. g = Body(g)
  BY <1>4 DEF DistinctAt
<1> HIDE DEF g
<1>6. Upto(g, 0) = << >>
  BY <1>5, NoPrefix DEF Upto
<1>7. ASSUME NEW k \in 1 .. Len(s), Upto(g, k - 1) \in D
      PROVE  Upto(g, k) = step[<< Upto(g, k - 1), s[k] >>]
  <2>1. /\ Max(1 .. k) = k /\ 1 .. k # {} /\ (1 .. k) \ {k} = 1 .. k - 1
        /\ 1 .. k \in SUBSET (DOMAIN s) /\ s[k] \in T
    BY <1>2, PrefixShrinks
  <2>2. Upto(g, k) = IF Contains(Upto(g, k - 1), s[k]) THEN Upto(g, k - 1)
                     ELSE Append(Upto(g, k - 1), s[k])
    BY <1>5, <2>1 DEF Upto
  <2> QED
    BY <1>1, <1>7, <2>1, <2>2
<1>8. Steps(g, s, D, << >>, step)
  BY <1>1, <1>6, <1>7, StepsFromEquation
<1> QED
  BY <1>2, <1>8, DistinctIsFold DEF D, step, g, Upto

LEMMA DistinctEmpty == Distinct(<< >>) = << >>
<1>1. << >> \in Seq({}) /\ Len(<< >>) = 0
  OBVIOUS
<1>2. /\ Steps(DistinctAt(<< >>), << >>, Seq({}), << >>, DistinctStep({}))
      /\ Distinct(<< >>) = Upto(DistinctAt(<< >>), Len(<< >>))
  BY <1>1, DistinctSteps
<1> QED
  BY <1>1, <1>2 DEF Steps

LEMMA DistinctAppend ==
    ASSUME NEW T, NEW s \in Seq(T), NEW x \in T
    PROVE  Distinct(Append(s, x)) =
               IF Contains(Distinct(s), x) THEN Distinct(s) ELSE Append(Distinct(s), x)
<1> DEFINE u == Append(s, x)
<1>1. u \in Seq(T) /\ Len(s) \in 0 .. Len(s)
  OBVIOUS
<1>2. /\ Steps(DistinctAt(s), s, Seq(T), << >>, DistinctStep(T))
      /\ Distinct(s) = Upto(DistinctAt(s), Len(s))
  BY DistinctSteps
<1>3. /\ Steps(DistinctAt(u), u, Seq(T), << >>, DistinctStep(T))
      /\ Distinct(u) = Upto(DistinctAt(u), Len(u))
  BY <1>1, DistinctSteps
<1>4. Distinct(u) = DistinctStep(T)[<< Distinct(s), x >>]
  BY <1>2, <1>3, StepsOfAppended
<1>5. Distinct(s) \in Seq(T)
  BY <1>1, <1>2 DEF Steps
<1> QED
  BY <1>4, <1>5 DEF DistinctStep

LEMMA ContainsIsMember ==
    ASSUME NEW T, NEW s \in Seq(T), NEW x
    PROVE  Contains(s, x) <=> x \in ToSet(s)
BY DEF Contains, ToSet

LEMMA DistinctFacts ==
    ASSUME NEW T
    PROVE  \A s \in Seq(T) :
              /\ Distinct(s) \in Seq(T)
              /\ ToSet(Distinct(s)) = ToSet(s)
              /\ Single(Distinct(s))
<1> DEFINE Good(s) == /\ Distinct(s) \in Seq(T)
                      /\ ToSet(Distinct(s)) = ToSet(s)
                      /\ Single(Distinct(s))
           P == {s \in Seq(T) : Good(s)}
<1>1. << >> \in P
  BY DistinctEmpty, OfNone
<1>2. ASSUME NEW s \in Seq(T), NEW x \in T, s \in P PROVE Append(s, x) \in P
  <2>1. Good(s)
    BY <1>2
  <2>2. Append(s, x) \in Seq(T) /\ ToSet(Append(s, x)) = ToSet(s) \cup {x}
    BY AppendedTo
  <2>3. Contains(Distinct(s), x) <=> x \in ToSet(Distinct(s))
    BY <2>1, ContainsIsMember
  <2>4. CASE x \in ToSet(Distinct(s))
    <3>1. Distinct(Append(s, x)) = Distinct(s)
      BY <2>3, <2>4, DistinctAppend
    <3> QED
      BY <2>1, <2>2, <2>4, <3>1
  <2>5. CASE x \notin ToSet(Distinct(s))
    <3>1. Distinct(Append(s, x)) = Append(Distinct(s), x)
      BY <2>3, <2>5, DistinctAppend
    <3>2. /\ Append(Distinct(s), x) \in Seq(T)
          /\ ToSet(Append(Distinct(s), x)) = ToSet(Distinct(s)) \cup {x}
          /\ Single(Append(Distinct(s), x)) <=> Single(Distinct(s)) /\ x \notin ToSet(Distinct(s))
      BY <2>1, AppendedTo
    <3> QED
      BY <2>1, <2>2, <2>5, <3>1, <3>2
  <2> QED
    BY <2>4, <2>5
<1> HIDE DEF P
<1>3. Seq(T) \subseteq P
  BY <1>1, <1>2, SequencesGrow
<1> QED
  BY <1>3 DEF P

---------------------------------------------------------------------------
(* Messages *)

\* Messages with ids in I. Left out are calls in the field of a system or tool
\* message, or of a user message that gives results: the repair would keep that
\* one for its results and not remember its calls.
Messages(I) ==
    {m \in [role : {"system", "user", "assistant", "tool"}, calls : Seq(I), uses : Seq(I),
            answer : I \cup {None}, results : Seq(I), text : Nat] :
        m.role \in {"system", "tool"} \/ (m.role = "user" /\ m.results # << >>)
            => m.calls = << >>}

LEMMA Joined ==
    ASSUME NEW T, NEW s \in Seq(T), NEW u \in Seq(T)
    PROVE  /\ s \o u \in Seq(T)
           /\ ToSet(s \o u) = ToSet(s) \cup ToSet(u)
<1> DEFINE w == s \o u
<1>1. /\ w \in Seq(T) /\ Len(w) = Len(s) + Len(u) /\ Len(s) \in Nat /\ Len(u) \in Nat
      /\ DOMAIN w = 1 .. Len(w) /\ DOMAIN s = 1 .. Len(s) /\ DOMAIN u = 1 .. Len(u)
  OBVIOUS
<1>2. /\ \A k \in 1 .. Len(s) : w[k] = s[k]
      /\ \A k \in 1 .. Len(u) : w[Len(s) + k] = u[k]
  OBVIOUS
<1> HIDE DEF w
<1>3. ToSet(s) \subseteq ToSet(w)
  BY <1>1, <1>2 DEF ToSet
<1>4. ASSUME NEW e \in ToSet(u) PROVE e \in ToSet(w)
  <2>1. PICK k \in 1 .. Len(u) : e = u[k]
    BY <1>1 DEF ToSet
  <2>2. Len(s) + k \in DOMAIN w /\ w[Len(s) + k] = e
    BY <1>1, <1>2, <2>1
  <2> QED
    BY <2>2 DEF ToSet
<1>5. ASSUME NEW e \in ToSet(w) PROVE e \in ToSet(s) \cup ToSet(u)
  <2>1. PICK k \in 1 .. Len(w) : e = w[k]
    BY <1>1 DEF ToSet
  <2>2. CASE k <= Len(s)
    <3>1. k \in DOMAIN s /\ e = s[k]
      BY <1>1, <1>2, <2>1, <2>2
    <3> QED
      BY <3>1 DEF ToSet
  <2>3. CASE ~ (k <= Len(s))
    <3>1. k - Len(s) \in 1 .. Len(u) /\ Len(s) + (k - Len(s)) = k
      BY <1>1, <2>3
    <3>2. e = u[k - Len(s)] /\ k - Len(s) \in DOMAIN u
      BY <1>1, <1>2, <2>1, <3>1
    <3> QED
      BY <3>2 DEF ToSet
  <2> QED
    BY <2>2, <2>3
<1> QED
  BY <1>1, <1>3, <1>4, <1>5 DEF w

LEMMA NoneIn ==
    ASSUME NEW T, NEW s \in Seq(T)
    PROVE  s = << >> <=> ToSet(s) = {}
<1>1. s # << >> => 1 \in DOMAIN s
  OBVIOUS
<1> QED
  BY <1>1, OfNone DEF ToSet

LEMMA CallsOfMessage ==
    ASSUME NEW I, NEW m \in Messages(I)
    PROVE  /\ CallsOf(m) \in Seq(I) /\ Single(CallsOf(m))
           /\ ToSet(CallsOf(m)) = ToSet(m.calls) \cup
                                  (IF m.role = "assistant" THEN ToSet(m.uses) ELSE {})
           /\ CallsOf(m) = << >> <=> ToSet(CallsOf(m)) = {}
<1> DEFINE u == IF m.role = "assistant" THEN m.uses ELSE << >>
<1>1. m.calls \in Seq(I) /\ u \in Seq(I)
  BY DEF Messages
<1>2. ToSet(u) = IF m.role = "assistant" THEN ToSet(m.uses) ELSE {}
  BY OfNone
<1> HIDE DEF u
<1>3. m.calls \o u \in Seq(I) /\ ToSet(m.calls \o u) = ToSet(m.calls) \cup ToSet(u)
  BY <1>1, Joined
<1>4. CallsOf(m) = Distinct(m.calls \o u)
  BY DEF CallsOf, u
<1>5. /\ CallsOf(m) \in Seq(I) /\ Single(CallsOf(m))
      /\ ToSet(CallsOf(m)) = ToSet(m.calls \o u)
  BY <1>3, <1>4, DistinctFacts
<1> QED
  BY <1>2, <1>3, <1>5, NoneIn

LEMMA ResultsOfMessage ==
    ASSUME NEW I, NEW m \in Messages(I)
    PROVE  /\ ToSet(ResultsOf(m)) =
                 (IF m.role = "tool" /\ m.answer # None THEN {m.answer} ELSE {})
                 \cup (IF m.role \in {"user", "tool"} THEN ToSet(m.results) ELSE {})
           /\ ToSet(ResultsOf(m)) \subseteq I
<1> DEFINE a == IF m.role = "tool" /\ m.answer # None THEN << m.answer >> ELSE << >>
           b == IF m.role \in {"user", "tool"} THEN m.results ELSE << >>
<1>1. m.answer \in I \cup {None} /\ m.results \in Seq(I)
  BY DEF Messages
<1>2. a \in Seq(I) /\ b \in Seq(I)
  BY <1>1
<1>3. ToSet(a) = IF m.role = "tool" /\ m.answer # None THEN {m.answer} ELSE {}
  <2>1. ToSet(<< m.answer >>) = {m.answer}
    BY DEF ToSet
  <2> QED
    BY <2>1, OfNone
<1>4. ToSet(b) = IF m.role \in {"user", "tool"} THEN ToSet(m.results) ELSE {}
  BY OfNone
<1>5. ResultsOf(m) = Distinct(a \o b)
  BY DEF ResultsOf
<1> HIDE DEF a, b
<1>6. a \o b \in Seq(I) /\ ToSet(a \o b) = ToSet(a) \cup ToSet(b)
  BY <1>2, Joined
<1>7. ToSet(ResultsOf(m)) = ToSet(a) \cup ToSet(b)
  BY <1>5, <1>6, DistinctFacts
<1>8. ToSet(a) \cup ToSet(b) \subseteq I
  BY <1>2 DEF ToSet
<1> QED
  BY <1>3, <1>4, <1>7, <1>8

---------------------------------------------------------------------------
(* Validation *)

Fresh == [pending |-> {}, ok |-> TRUE]

\* Where validate stands after the conversation.
Replay(c) == FoldLeft(ValidateStep, Fresh, c)

Checks(I) == [pending : SUBSET I, ok : BOOLEAN]

ReplayAt(c) == CHOOSE iter : iter =
    [t \in SUBSET (DOMAIN c) |->
       IF t = {} THEN Fresh ELSE ValidateStep(iter[t \ {Max(t)}], c[Max(t)])]

ReplayStep(I) == [p \in Checks(I) \X Messages(I) |-> ValidateStep(p[1], p[2])]

LEMMA ReplayIsFold == \A c : Replay(c) = ReplayAt(c)[DOMAIN c]
BY DEF Replay, ReplayAt, FoldLeft, MapThenFoldSet

LEMMA ValidateIsReplay == \A c : Validate(c) <=> Replay(c).ok /\ Replay(c).pending = {}
BY DEF Validate, Replay, Fresh

LEMMA ValidateStepType ==
    ASSUME NEW I, NEW s \in Checks(I), NEW m \in Messages(I)
    PROVE  ValidateStep(s, m) \in Checks(I)
<1>1. ToSet(CallsOf(m)) \subseteq I
  BY CallsOfMessage DEF ToSet
<1>2. s.pending \subseteq I /\ s.ok \in BOOLEAN
  BY DEF Checks
<1> QED
  BY <1>1, <1>2 DEF ValidateStep, Checks

LEMMA ReplaySteps ==
    ASSUME NEW I, NEW c \in Seq(Messages(I))
    PROVE  /\ Steps(ReplayAt(c), c, Checks(I), Fresh, ReplayStep(I))
           /\ Replay(c) = Upto(ReplayAt(c), Len(c))
<1> DEFINE D == Checks(I)
           T == Messages(I)
           step == ReplayStep(I)
           g == ReplayAt(c)
           Body(iter) == [t \in SUBSET (DOMAIN c) |->
                   IF t = {} THEN Fresh ELSE ValidateStep(iter[t \ {Max(t)}], c[Max(t)])]
<1>1. /\ Fresh \in D /\ step \in [D \X T -> D]
      /\ \A d \in D, x \in T : step[<< d, x >>] = ValidateStep(d, x)
  <2>1. Fresh \in D
    BY DEF Fresh, Checks
  <2>2. step \in [D \X T -> D]
    BY ValidateStepType DEF ReplayStep
  <2> QED
    BY <2>1, <2>2 DEF ReplayStep
<1>2. DOMAIN c = 1 .. Len(c) /\ Len(c) \in Nat /\ \A k \in DOMAIN c : c[k] \in T
  OBVIOUS
<1>3. c \in Seq(T)
  OBVIOUS
<1> HIDE DEF D, T, step
<1>4. PICK f : f = [t \in SUBSET (DOMAIN c) |-> f[t]] /\ Folds(f, c, D, Fresh, step)
  BY <1>1, <1>3, FoldExistsOn
<1>5. f = Body(f)
  BY <1>1, <1>2, <1>4 DEF Folds
<1>6. g = Body(g)
  BY <1>5 DEF ReplayAt
<1> HIDE DEF g
<1>7. Upto(g, 0) = Fresh
  BY <1>6, NoPrefix DEF Upto
<1>8. ASSUME NEW k \in 1 .. Len(c), Upto(g, k - 1) \in D
      PROVE  Upto(g, k) = step[<< Upto(g, k - 1), c[k] >>]
  <2>1. /\ Max(1 .. k) = k /\ 1 .. k # {} /\ (1 .. k) \ {k} = 1 .. k - 1
        /\ 1 .. k \in SUBSET (DOMAIN c) /\ c[k] \in T
    <3>1. k \in Nat \ {0} /\ k \in DOMAIN c /\ 1 .. k \in SUBSET (DOMAIN c)
      BY <1>2
    <3> QED
      BY <1>2, <3>1, PrefixShrinks
  <2>2. Upto(g, k) = ValidateStep(Upto(g, k - 1), c[k])
    BY <1>6, <2>1 DEF Upto
  <2> QED
    BY <1>1, <1>8, <2>1, <2>2
<1>9. Steps(g, c, D, Fresh, step)
  BY <1>1, <1>3, <1>7, <1>8, StepsFromEquation
<1> QED
  BY <1>2, <1>9, ReplayIsFold DEF D, step, g, Upto

LEMMA ReplayEmpty == Replay(<< >>) = Fresh
<1>1. << >> \in Seq(Messages({})) /\ Len(<< >>) = 0
  OBVIOUS
<1>2. /\ Steps(ReplayAt(<< >>), << >>, Checks({}), Fresh, ReplayStep({}))
      /\ Replay(<< >>) = Upto(ReplayAt(<< >>), Len(<< >>))
  BY <1>1, ReplaySteps
<1> QED
  BY <1>1, <1>2 DEF Steps

LEMMA ReplayAppend ==
    ASSUME NEW I, NEW c \in Seq(Messages(I)), NEW m \in Messages(I)
    PROVE  Replay(Append(c, m)) = ValidateStep(Replay(c), m) /\ Replay(c) \in Checks(I)
<1> DEFINE u == Append(c, m)
<1>1. u \in Seq(Messages(I)) /\ Len(c) \in 0 .. Len(c)
  OBVIOUS
<1>2. /\ Steps(ReplayAt(c), c, Checks(I), Fresh, ReplayStep(I))
      /\ Replay(c) = Upto(ReplayAt(c), Len(c))
  BY ReplaySteps
<1>3. /\ Steps(ReplayAt(u), u, Checks(I), Fresh, ReplayStep(I))
      /\ Replay(u) = Upto(ReplayAt(u), Len(u))
  BY <1>1, ReplaySteps
<1>4. Replay(u) = ReplayStep(I)[<< Replay(c), m >>]
  BY <1>2, <1>3, StepsOfAppended
<1>5. Replay(c) \in Checks(I)
  BY <1>1, <1>2 DEF Steps
<1> QED
  BY <1>4, <1>5 DEF ReplayStep

LEMMA ReplayType ==
    ASSUME NEW I, NEW c \in Seq(Messages(I))
    PROVE  Replay(c) \in Checks(I)
<1>1. Len(c) \in 0 .. Len(c)
  OBVIOUS
<1> QED
  BY <1>1, ReplaySteps DEF Steps

LEMMA ToolMessageFacts ==
    ASSUME NEW I, None \notin I, NEW id \in I, NEW text \in Nat
    PROVE  /\ ToolMessage(id, text) \in Messages(I)
           /\ ToSet(CallsOf(ToolMessage(id, text))) = {}
           /\ ToSet(ResultsOf(ToolMessage(id, text))) = {id}
           /\ BlocksFitRole(ToolMessage(id, text))
<1> DEFINE m == ToolMessage(id, text)
<1>1. m = [role |-> "tool", calls |-> << >>, uses |-> << >>, answer |-> id,
           results |-> << >>, text |-> text]
  BY DEF ToolMessage, Plain
<1> HIDE DEF m
<1>2. << >> \in Seq(I)
  OBVIOUS
<1>3. m \in Messages(I)
  BY <1>1, <1>2 DEF Messages
<1>4. ToSet(CallsOf(m)) = {}
  BY <1>1, <1>3, CallsOfMessage, OfNone
<1>5. ToSet(ResultsOf(m)) = {id}
  BY <1>1, <1>3, ResultsOfMessage, OfNone
<1>6. BlocksFitRole(m)
  BY <1>1 DEF BlocksFitRole
<1> QED
  BY <1>3, <1>4, <1>5, <1>6 DEF m

\* A result per id, with one text.
Answers(ids, text) == [k \in DOMAIN ids |-> ToolMessage(ids[k], text)]

LEMMA AnswersGrow ==
    ASSUME NEW I, NEW ids \in Seq(I), NEW id \in I, NEW text
    PROVE  Answers(Append(ids, id), text) = Append(Answers(ids, text), ToolMessage(id, text))
<1> DEFINE f(k) == ToolMessage(k, text)
           a == [k \in DOMAIN ids |-> f(ids[k])]
           u == Append(ids, id)
<1> HIDE DEF f
<1>1. /\ DOMAIN u = 1 .. Len(ids) + 1 /\ DOMAIN ids = 1 .. Len(ids) /\ Len(ids) \in Nat
      /\ u[Len(ids) + 1] = id /\ \A k \in 1 .. Len(ids) : u[k] = ids[k]
  OBVIOUS
<1>2. a \in Seq({f(ids[k]) : k \in DOMAIN ids}) /\ Len(a) = Len(ids)
  BY <1>1
<1>3. /\ DOMAIN Append(a, f(id)) = 1 .. Len(ids) + 1
      /\ Append(a, f(id))[Len(ids) + 1] = f(id)
      /\ \A k \in 1 .. Len(ids) : Append(a, f(id))[k] = a[k]
      /\ Append(a, f(id)) = [k \in 1 .. Len(ids) + 1 |-> Append(a, f(id))[k]]
  BY <1>2
<1>4. \A k \in 1 .. Len(ids) + 1 : Append(a, f(id))[k] = f(u[k])
  BY <1>1, <1>3
<1>5. [k \in DOMAIN u |-> f(u[k])] = Append(a, f(id))
  BY <1>1, <1>3, <1>4
<1> QED
  BY <1>5 DEF Answers, f

\* Answering pending calls, each once, closes them.
LEMMA AnswersClose ==
    ASSUME NEW I, None \notin I, NEW c \in Seq(Messages(I)), NEW text \in Nat
    PROVE  \A ids \in Seq(I) :
              /\ Answers(ids, text) \in Seq(Messages(I))
              /\ Replay(c \o Answers(ids, text)).pending = Replay(c).pending \ ToSet(ids)
              /\ Replay(c).ok /\ Single(ids) /\ ToSet(ids) \subseteq Replay(c).pending
                    => Replay(c \o Answers(ids, text)).ok
<1> DEFINE Good(ids) ==
              /\ Answers(ids, text) \in Seq(Messages(I))
              /\ Replay(c \o Answers(ids, text)).pending = Replay(c).pending \ ToSet(ids)
              /\ Replay(c).ok /\ Single(ids) /\ ToSet(ids) \subseteq Replay(c).pending
                    => Replay(c \o Answers(ids, text)).ok
           P == {ids \in Seq(I) : Good(ids)}
<1>1. << >> \in P
  <2>1. Answers(<< >>, text) = << >> /\ c \o << >> = c
    BY DEF Answers
  <2> QED
    BY <2>1, OfNone
<1>2. ASSUME NEW ids \in Seq(I), NEW id \in I, ids \in P PROVE Append(ids, id) \in P
  <2> DEFINE a == Answers(ids, text)
             m == ToolMessage(id, text)
             u == Append(ids, id)
  <2>1. Good(ids)
    BY <1>2
  <2>2. Answers(u, text) = Append(a, m)
    BY AnswersGrow
  <2>3. /\ m \in Messages(I) /\ ToSet(CallsOf(m)) = {} /\ ToSet(ResultsOf(m)) = {id}
        /\ BlocksFitRole(m)
    BY ToolMessageFacts
  <2>4. /\ u \in Seq(I) /\ ToSet(u) = ToSet(ids) \cup {id}
        /\ Single(u) <=> Single(ids) /\ id \notin ToSet(ids)
    BY AppendedTo
  <2> HIDE DEF a, m, u
  <2>5. a \in Seq(Messages(I))
    BY <2>1 DEF a
  <2>6. c \o a \in Seq(Messages(I)) /\ Append(a, m) \in Seq(Messages(I))
        /\ c \o Append(a, m) = Append(c \o a, m)
    BY <2>3, <2>5
  <2>7. Replay(c \o Append(a, m)) = ValidateStep(Replay(c \o a), m)
    BY <2>3, <2>6, ReplayAppend
  <2>8. /\ ValidateStep(Replay(c \o a), m).pending = Replay(c \o a).pending \ {id}
        /\ ValidateStep(Replay(c \o a), m).ok <=>
              Replay(c \o a).ok /\ {id} \subseteq Replay(c \o a).pending
    BY <2>3 DEF ValidateStep
  <2>9. /\ Replay(c \o a).pending = Replay(c).pending \ ToSet(ids)
        /\ Replay(c).ok /\ Single(ids) /\ ToSet(ids) \subseteq Replay(c).pending
              => Replay(c \o a).ok
    BY <2>1 DEF a
  <2>10. Replay(c \o Answers(u, text)).pending = Replay(c).pending \ ToSet(u)
    BY <2>2, <2>4, <2>7, <2>8, <2>9
  <2>11. Replay(c).ok /\ Single(u) /\ ToSet(u) \subseteq Replay(c).pending
              => Replay(c \o Answers(u, text)).ok
    BY <2>2, <2>4, <2>7, <2>8, <2>9
  <2> QED
    BY <2>2, <2>4, <2>6, <2>10, <2>11 DEF u
<1> HIDE DEF P
<1>3. Seq(I) \subseteq P
  BY <1>1, <1>2, SequencesGrow
<1> QED
  BY <1>3 DEF P

---------------------------------------------------------------------------
(* Repair *)

Repairs(I) == [pending : Seq(I), out : Seq(Messages(I))]

\* The messages so far are replayable up to the pending calls.
Sound(I, s) ==
    /\ s \in Repairs(I)
    /\ Single(s.pending)
    /\ Replay(s.out).ok
    /\ Replay(s.out).pending = ToSet(s.pending)

LEMMA WithoutFacts ==
    ASSUME NEW T, NEW s \in Seq(T), NEW S
    PROVE  /\ Without(s, S) \in Seq(T)
           /\ ToSet(Without(s, S)) = ToSet(s) \ S
           /\ Single(s) => Single(Without(s, S))
<1> DEFINE chosen == ToSet(s) \ S
<1>1. Without(s, S) = Among(s, chosen)
  BY DEF Without
<1>2. ToSet(s) \cap chosen = ToSet(s) \ S
  OBVIOUS
<1> HIDE DEF chosen
<1> QED
  BY <1>1, <1>2, AmongFacts

\* Nothing is left out of a sequence when nothing is gone.
LEMMA WithoutNothing ==
    ASSUME NEW T
    PROVE  \A s \in Seq(T) : Without(s, {}) = s
<1>1. ASSUME NEW S PROVE \A s \in Seq(T) : ToSet(s) \subseteq S => Among(s, S) = s
  <2> DEFINE P == {s \in Seq(T) : ToSet(s) \subseteq S => Among(s, S) = s}
  <2>1. << >> \in P
    BY AmongEmpty
  <2>2. ASSUME NEW s \in Seq(T), NEW x \in T, s \in P PROVE Append(s, x) \in P
    BY <2>2, AppendedTo, AmongAppend
  <2> HIDE DEF P
  <2>3. Seq(T) \subseteq P
    BY <2>1, <2>2, SequencesGrow
  <2> QED
    BY <2>3 DEF P
<1>2. ASSUME NEW s \in Seq(T) PROVE Without(s, {}) = s
  <2>1. ToSet(s) \ {} = ToSet(s)
    OBVIOUS
  <2> QED
    BY <1>1, <2>1 DEF Without
<1> QED
  BY <1>2

LEMMA FlushedIs ==
    \A s : FlushPending(s) = [pending |-> << >>, out |-> s.out \o Answers(s.pending, 1)]
BY DEF FlushPending, Answers

LEMMA FlushType ==
    ASSUME NEW I, None \notin I, NEW s \in Repairs(I)
    PROVE  FlushPending(s) \in Repairs(I)
<1>1. s.pending \in Seq(I) /\ s.out \in Seq(Messages(I))
  BY DEF Repairs
<1>2. Answers(s.pending, 1) \in Seq(Messages(I))
  BY <1>1, AnswersClose
<1>3. s.out \o Answers(s.pending, 1) \in Seq(Messages(I)) /\ << >> \in Seq(I)
  BY <1>1, <1>2
<1> QED
  BY <1>3, FlushedIs DEF Repairs

\* flush_pending closes all calls that wait for a result.
LEMMA FlushIsSound ==
    ASSUME NEW I, None \notin I, NEW s, Sound(I, s)
    PROVE  Sound(I, FlushPending(s)) /\ FlushPending(s).pending = << >>
<1>1. s \in Repairs(I) /\ s.pending \in Seq(I) /\ s.out \in Seq(Messages(I))
  BY DEF Sound, Repairs
<1>2. /\ Replay(s.out \o Answers(s.pending, 1)).pending = {}
      /\ Replay(s.out \o Answers(s.pending, 1)).ok
  BY <1>1, AnswersClose DEF Sound
<1>3. FlushPending(s) \in Repairs(I)
  BY <1>1, FlushType
<1> QED
  BY <1>2, <1>3, FlushedIs, OfNone DEF Sound

LEMMA StripFacts ==
    ASSUME NEW I, NEW m \in Messages(I)
    PROVE  /\ StripRoleInvalidBlocks(m) \in Messages(I)
           /\ BlocksFitRole(StripRoleInvalidBlocks(m))
           /\ StripRoleInvalidBlocks(m).role = m.role
<1> DEFINE n == StripRoleInvalidBlocks(m)
<1>1. << >> \in Seq(I) /\ m.uses \in Seq(I) /\ m.results \in Seq(I)
  BY DEF Messages
<1>2. /\ n.role = m.role /\ n.calls = m.calls /\ n.answer = m.answer /\ n.text = m.text
      /\ n.uses = (IF m.role = "assistant" THEN m.uses ELSE << >>)
      /\ n.results = (IF m.role \in {"user", "tool"} THEN m.results ELSE << >>)
      /\ n = [role |-> n.role, calls |-> n.calls, uses |-> n.uses, answer |-> n.answer,
              results |-> n.results, text |-> n.text]
  <2>1. m = [role |-> m.role, calls |-> m.calls, uses |-> m.uses, answer |-> m.answer,
             results |-> m.results, text |-> m.text]
    BY DEF Messages
  <2> DEFINE u == IF m.role = "assistant" THEN m.uses ELSE << >>
             r == IF m.role \in {"user", "tool"} THEN m.results ELSE << >>
  <2>2. n = [m EXCEPT !.uses = u, !.results = r]
    BY DEF StripRoleInvalidBlocks
  <2> HIDE DEF n, u, r
  <2>3. n = [role |-> m.role, calls |-> m.calls, uses |-> u, answer |-> m.answer,
             results |-> r, text |-> m.text]
    BY <2>1, <2>2
  <2> QED
    BY <2>3 DEF u, r
<1> HIDE DEF n
<1>3. n.uses \in Seq(I) /\ n.results \in Seq(I)
  BY <1>1, <1>2
<1>4. n \in Messages(I)
  BY <1>2, <1>3 DEF Messages
<1>5. BlocksFitRole(n)
  BY <1>2 DEF BlocksFitRole
<1> QED
  BY <1>2, <1>4, <1>5 DEF n

\* The message with the results that are kept.
LEMMA KeptFacts ==
    ASSUME NEW I, NEW m \in Messages(I), BlocksFitRole(m), NEW valid,
           valid \subseteq ToSet(ResultsOf(m))
    PROVE  LET kept == [m EXCEPT !.results = Among(@, valid)]
           IN  /\ kept \in Messages(I) /\ BlocksFitRole(kept)
               /\ kept.role = m.role
               /\ CallsOf(kept) = CallsOf(m)
               /\ ToSet(ResultsOf(kept)) \subseteq ToSet(ResultsOf(m))
               /\ ToSet(ResultsOf(kept)) =
                     (IF m.role = "tool" /\ m.answer # None THEN {m.answer} ELSE {}) \cup valid
<1> DEFINE kept == [m EXCEPT !.results = Among(@, valid)]
<1>1. m.results \in Seq(I)
  BY DEF Messages
<1>2. /\ Among(m.results, valid) \in Seq(I)
      /\ ToSet(Among(m.results, valid)) = ToSet(m.results) \cap valid
  BY <1>1, AmongFacts
<1>3. /\ kept.role = m.role /\ kept.calls = m.calls /\ kept.uses = m.uses
      /\ kept.answer = m.answer /\ kept.results = Among(m.results, valid)
      /\ kept \in Messages(I)
  <2> DEFINE r == Among(m.results, valid)
  <2>1. m.results = << >> => r = << >>
    BY <1>1, <1>2, NoneIn
  <2>2. kept = [m EXCEPT !.results = r] /\ r \in Seq(I)
    BY <1>2
  <2> HIDE DEF kept, r
  <2>3. /\ kept.role = m.role /\ kept.calls = m.calls /\ kept.uses = m.uses
        /\ kept.answer = m.answer /\ kept.results = r
    BY <2>2 DEF Messages
  <2> QED
    BY <2>1, <2>2, <2>3 DEF r, Messages
<1> HIDE DEF kept
<1>4. BlocksFitRole(kept)
  <2>1. kept.results # << >> => m.results # << >>
    BY <1>1, <1>2, <1>3, NoneIn
  <2> QED
    BY <1>3, <2>1 DEF BlocksFitRole
<1>5. CallsOf(kept) = CallsOf(m)
  BY <1>3 DEF CallsOf
<1>6. ToSet(ResultsOf(m)) =
                 (IF m.role = "tool" /\ m.answer # None THEN {m.answer} ELSE {})
                 \cup (IF m.role \in {"user", "tool"} THEN ToSet(m.results) ELSE {})
  BY ResultsOfMessage
<1>7. ToSet(ResultsOf(kept)) =
                 (IF m.role = "tool" /\ m.answer # None THEN {m.answer} ELSE {})
                 \cup (IF m.role \in {"user", "tool"} THEN ToSet(m.results) \cap valid ELSE {})
  BY <1>2, <1>3, ResultsOfMessage
<1> QED
  BY <1>3, <1>4, <1>5, <1>6, <1>7 DEF kept

\* A message is emitted after which validate stands at the calls still open.
LEMMA EmitIsSound ==
    ASSUME NEW I, NEW s, Sound(I, s), NEW m \in Messages(I), NEW open \in Seq(I), Single(open),
           ValidateStep(Replay(s.out), m) = [pending |-> ToSet(open), ok |-> TRUE]
    PROVE  Sound(I, [pending |-> open, out |-> Append(s.out, m)])
<1>1. s.out \in Seq(Messages(I)) /\ Append(s.out, m) \in Seq(Messages(I))
  BY DEF Sound, Repairs
<1>2. Replay(Append(s.out, m)) = ValidateStep(Replay(s.out), m)
  BY <1>1, ReplayAppend
<1> QED
  BY <1>1, <1>2 DEF Sound, Repairs

LEMMA AnsweredIsSound ==
    ASSUME NEW I, NEW s \in Repairs(I), NEW ids
    PROVE  /\ Answered(s, ids) = [pending |-> Without(s.pending, ids), out |-> s.out]
           /\ Answered(s, ids) \in Repairs(I)
           /\ Answered(s, {}).pending = Without(s.pending, {})
<1>1. s = [pending |-> s.pending, out |-> s.out] /\ s.pending \in Seq(I)
      /\ s.out \in Seq(Messages(I))
  BY DEF Repairs
<1>2. Without(s.pending, ids) \in Seq(I)
  BY <1>1, WithoutFacts
<1>3. \A x : Answered(s, x) = [pending |-> Without(s.pending, x), out |-> s.out]
  BY <1>1 DEF Answered
<1> QED
  BY <1>1, <1>2, <1>3 DEF Repairs

\* Records of a repair, one field replaced.
LEMMA EmitIs ==
    \A r, p, o, m : r = [pending |-> p, out |-> o] =>
        Emit(r, m) = [pending |-> p, out |-> Append(o, m)]
BY DEF Emit

\* A step of validate, one field at a time.
LEMMA ValidateStepIs ==
    ASSUME NEW s, NEW m, NEW results, NEW calls,
           results = ToSet(ResultsOf(m)), calls = ToSet(CallsOf(m))
    PROVE  ValidateStep(s, m) =
              [pending |-> IF calls = {} THEN s.pending \ results ELSE calls,
               ok |-> /\ s.ok /\ BlocksFitRole(m) /\ results \subseteq s.pending
                      /\ calls # {} \/ results = {} => s.pending \ results = {}
                      /\ calls = {} /\ results = {} => m.role # "tool"]
BY DEF ValidateStep

\* One message of the conversation to repair, whatever it is.
LEMMA RepairStepType ==
    ASSUME NEW I, None \notin I, NEW s \in Repairs(I), NEW message \in Messages(I)
    PROVE  RepairStep(s, message) \in Repairs(I)
<1> DEFINE m     == StripRoleInvalidBlocks(message)
           valid == ToSet(ResultsOf(m)) \cap ToSet(s.pending)
           calls == CallsOf(m)
           kept  == [m EXCEPT !.results = Among(@, valid)]
           rest  == Answered(s, valid)
<1>1. m \in Messages(I) /\ BlocksFitRole(m)
  BY StripFacts
<1>2. calls \in Seq(I)
  BY <1>1, CallsOfMessage
<1>3. kept \in Messages(I)
  BY <1>1, KeptFacts
<1>4. rest \in Repairs(I)
  BY AnsweredIsSound
<1>5. RepairStep(s, message) \in {Emit(rest, kept), s, Remember(Emit(FlushPending(rest), kept), calls),
                                  FlushPending(rest), Emit(FlushPending(rest), kept)}
  BY <1>1 DEF RepairStep, Messages
<1> HIDE DEF m, valid, calls, kept, rest
<1>6. FlushPending(rest) \in Repairs(I)
  BY <1>4, FlushType
<1>7. ASSUME NEW r \in Repairs(I)
      PROVE  /\ Emit(r, kept) \in Repairs(I)
             /\ Emit(r, kept) = [pending |-> r.pending, out |-> Append(r.out, kept)]
  <2>1. r = [pending |-> r.pending, out |-> r.out] /\ r.pending \in Seq(I)
        /\ r.out \in Seq(Messages(I))
    BY DEF Repairs
  <2>2. Emit(r, kept) = [pending |-> r.pending, out |-> Append(r.out, kept)]
    BY <2>1, EmitIs
  <2> QED
    BY <1>3, <2>1, <2>2 DEF Repairs
<1>8. ASSUME NEW r \in Repairs(I) PROVE Remember(r, calls) \in Repairs(I)
  <2>1. r = [pending |-> r.pending, out |-> r.out] /\ r.pending \in Seq(I)
        /\ r.out \in Seq(Messages(I))
    BY DEF Repairs
  <2>2. Without(calls, ToSet(r.pending)) \in Seq(I)
    BY <1>2, WithoutFacts
  <2>3. Remember(r, calls) =
           [pending |-> r.pending \o Without(calls, ToSet(r.pending)), out |-> r.out]
    BY <2>1 DEF Remember
  <2> QED
    BY <2>1, <2>2, <2>3 DEF Repairs
<1> QED
  BY <1>4, <1>5, <1>6, <1>7, <1>8

LEMMA RepairStepIsSound ==
    ASSUME NEW I, None \notin I, NEW s, Sound(I, s), NEW message \in Messages(I)
    PROVE  Sound(I, RepairStep(s, message))
<1> DEFINE m     == StripRoleInvalidBlocks(message)
           valid == ToSet(ResultsOf(m)) \cap ToSet(s.pending)
           calls == CallsOf(m)
           kept  == [m EXCEPT !.results = Among(@, valid)]
           rest  == Answered(s, valid)
           open  == Without(s.pending, valid)
<1>1. /\ s \in Repairs(I) /\ s = [pending |-> s.pending, out |-> s.out]
      /\ s.pending \in Seq(I) /\ s.out \in Seq(Messages(I))
      /\ Single(s.pending) /\ Replay(s.out).ok /\ Replay(s.out).pending = ToSet(s.pending)
  BY DEF Sound, Repairs
<1>2. m \in Messages(I) /\ BlocksFitRole(m) /\ m.role \in {"system", "user", "assistant", "tool"}
  BY StripFacts DEF Messages
<1>3. /\ calls \in Seq(I) /\ Single(calls)
      /\ ToSet(calls) = ToSet(m.calls) \cup (IF m.role = "assistant" THEN ToSet(m.uses) ELSE {})
      /\ calls = << >> <=> ToSet(calls) = {}
  BY <1>2, CallsOfMessage
<1>4. /\ kept \in Messages(I) /\ BlocksFitRole(kept) /\ kept.role = m.role
      /\ CallsOf(kept) = calls
      /\ ToSet(ResultsOf(kept)) =
            (IF m.role = "tool" /\ m.answer # None THEN {m.answer} ELSE {}) \cup valid
  BY <1>2, KeptFacts
<1>5. ToSet(ResultsOf(m)) =
            (IF m.role = "tool" /\ m.answer # None THEN {m.answer} ELSE {})
            \cup (IF m.role \in {"user", "tool"} THEN ToSet(m.results) ELSE {})
  BY <1>2, ResultsOfMessage
<1>6. m.role # "assistant" /\ m.calls = << >> => ToSet(calls) = {}
  BY <1>3, OfNone
<1>7. open \in Seq(I) /\ Single(open) /\ ToSet(open) = ToSet(s.pending) \ valid
  BY <1>1, WithoutFacts
<1>8. rest = [pending |-> open, out |-> s.out]
  BY <1>1, AnsweredIsSound
<1>9. /\ m.role = "tool" /\ KeepsTool(m, valid) => RepairStep(s, message) = Emit(rest, kept)
      /\ m.role = "tool" /\ ~ KeepsTool(m, valid) => RepairStep(s, message) = s
      /\ m.role # "tool" /\ valid # {} => RepairStep(s, message) = Emit(rest, kept)
      /\ m.role # "tool" /\ valid = {} /\ calls # << >> =>
            RepairStep(s, message) = Remember(Emit(FlushPending(rest), kept), calls)
      /\ m.role # "tool" /\ valid = {} /\ calls = << >> =>
            RepairStep(s, message) = IF IsEmpty(kept) THEN FlushPending(rest)
                                     ELSE Emit(FlushPending(rest), kept)
  BY DEF RepairStep
<1>10. valid \subseteq ToSet(s.pending) /\ valid \subseteq ToSet(ResultsOf(m))
  OBVIOUS
<1> HIDE DEF m, valid, calls, kept, rest, open
<1>12. valid = {} => Sound(I, rest)
  BY <1>1, <1>7, <1>8 DEF Sound, Repairs
<1>13. ASSUME valid = {}
       PROVE  \E o \in Seq(Messages(I)) :
                 /\ FlushPending(rest) = [pending |-> << >>, out |-> o]
                 /\ Sound(I, FlushPending(rest))
                 /\ Replay(o) = Fresh
  <2>1. Sound(I, FlushPending(rest)) /\ FlushPending(rest).pending = << >>
    BY <1>12, <1>13, FlushIsSound
  <2>2. /\ FlushPending(rest) = [pending |-> << >>, out |-> FlushPending(rest).out]
        /\ FlushPending(rest).out \in Seq(Messages(I))
    BY <2>1 DEF Sound, Repairs
  <2>3. Replay(FlushPending(rest).out) = Fresh
    BY <2>1, <2>2, ReplayType, OfNone DEF Sound, Fresh, Checks
  <2> QED
    BY <2>1, <2>2, <2>3
<1>14. ASSUME valid # {} \/ m.role = "tool", m.role = "tool" => KeepsTool(m, valid)
       PROVE  Sound(I, Emit(rest, kept))
  <2>1. ToSet(ResultsOf(kept)) = valid /\ valid # {}
    BY <1>4, <1>5, <1>10, <1>14 DEF KeepsTool
  <2>2. m.role = "tool" \/ (m.role = "user" /\ ToSet(m.results) # {})
    BY <1>5, <1>10, <2>1
  <2>3. m.role # "assistant" /\ m.calls = << >>
    <3>1. m.results \in Seq(I)
      BY <1>2 DEF Messages
    <3>2. ToSet(m.results) # {} => m.results # << >>
      BY <3>1, NoneIn
    <3>3. m.role = "tool" \/ (m.role = "user" /\ m.results # << >>) => m.calls = << >>
      BY <1>2 DEF Messages
    <3> QED
      BY <2>2, <3>2, <3>3
  <2>4. ToSet(CallsOf(kept)) = {}
    BY <1>4, <1>6, <2>3
  <2>5. ValidateStep(Replay(s.out), kept) = [pending |-> ToSet(open), ok |-> TRUE]
    BY <1>1, <1>4, <1>7, <1>10, <2>1, <2>4 DEF ValidateStep
  <2>6. Sound(I, [pending |-> open, out |-> Append(s.out, kept)])
    BY <1>4, <1>7, <2>5, EmitIsSound
  <2>7. Emit(rest, kept) = [pending |-> open, out |-> Append(s.out, kept)]
    BY <1>8, EmitIs
  <2> QED
    BY <2>6, <2>7
<1>15. CASE m.role = "tool" /\ KeepsTool(m, valid)
  BY <1>9, <1>14, <1>15
<1>16. CASE m.role = "tool" /\ ~ KeepsTool(m, valid)
  BY <1>9, <1>16
<1>17. CASE m.role # "tool" /\ valid # {}
  BY <1>9, <1>14, <1>17
<1>18. CASE m.role # "tool" /\ valid = {} /\ calls # << >>
  <2>1. PICK o \in Seq(Messages(I)) :
                 /\ FlushPending(rest) = [pending |-> << >>, out |-> o]
                 /\ Sound(I, FlushPending(rest))
                 /\ Replay(o) = Fresh
    BY <1>13, <1>18
  <2>2. ToSet(ResultsOf(kept)) = {} /\ ToSet(CallsOf(kept)) = ToSet(calls) /\ ToSet(calls) # {}
    BY <1>3, <1>4, <1>18
  <2>3. ValidateStep(Replay(o), kept) = [pending |-> ToSet(calls), ok |-> TRUE]
    <3> DEFINE f == Replay(o)
               set == ToSet(calls)
    <3>1. f.pending = {} /\ f.ok = TRUE /\ set # {}
      BY <2>1, <2>2 DEF Fresh
    <3>2. {} = ToSet(ResultsOf(kept)) /\ set = ToSet(CallsOf(kept))
      BY <2>2
    <3> HIDE DEF f, set
    <3> DEFINE results == ToSet(ResultsOf(kept))
               ok == /\ f.ok /\ BlocksFitRole(kept) /\ results \subseteq f.pending
                     /\ set # {} \/ results = {} => f.pending \ results = {}
                     /\ set = {} /\ results = {} => kept.role # "tool"
               left == IF set = {} THEN f.pending \ results ELSE set
    <3>3. ValidateStep(f, kept) = [pending |-> left, ok |-> ok]
      BY <3>2, ValidateStepIs
    <3>4. ok = TRUE /\ left = set
      BY <1>4, <3>1, <3>2
    <3> HIDE DEF ok, left
    <3> QED
      BY <3>1, <3>3, <3>4 DEF f, set
  <2>4. Sound(I, [pending |-> calls, out |-> Append(o, kept)])
    <3>1. Sound(I, [pending |-> << >>, out |-> o])
      BY <2>1
    <3> DEFINE r == [pending |-> << >>, out |-> o]
    <3>2. r.out = o
      OBVIOUS
    <3> HIDE DEF r
    <3> QED
      BY <1>3, <1>4, <2>3, <3>1, <3>2, EmitIsSound DEF r
  <2>5. Without(calls, {}) = calls
    BY <1>3, WithoutNothing
  <2>6. Remember(Emit(FlushPending(rest), kept), calls) =
           [pending |-> << >> \o Without(calls, {}), out |-> Append(o, kept)]
    <3>1. Emit(FlushPending(rest), kept) = [pending |-> << >>, out |-> Append(o, kept)]
      BY <2>1, EmitIs
    <3>2. ToSet(<< >>) = {}
      BY OfNone
    <3> DEFINE r == Emit(FlushPending(rest), kept)
               out == Append(o, kept)
               p == << >>
    <3> HIDE DEF r, out, p
    <3>4. r = [pending |-> p, out |-> out]
      BY <3>1 DEF r, out, p
    <3>3. Remember(r, calls) = [pending |-> p \o Without(calls, ToSet(p)), out |-> out]
      <4> DEFINE v == r.pending \o Without(calls, ToSet(r.pending))
      <4>1. r.pending = p
        BY <3>4
      <4>2. v = p \o Without(calls, ToSet(p))
        BY <4>1
      <4>3. Remember(r, calls) = [r EXCEPT !.pending = v]
        BY DEF Remember
      <4> HIDE DEF v
      <4>4. [r EXCEPT !.pending = v] = [pending |-> v, out |-> out]
        BY <3>4
      <4> QED
        BY <4>2, <4>3, <4>4
    <3> QED
      BY <3>2, <3>3 DEF r, out, p
  <2>7. << >> \o calls = calls
    BY <1>3
  <2> QED
    BY <1>9, <1>18, <2>4, <2>5, <2>6, <2>7
<1>19. CASE m.role # "tool" /\ valid = {} /\ calls = << >>
  <2>1. PICK o \in Seq(Messages(I)) :
                 /\ FlushPending(rest) = [pending |-> << >>, out |-> o]
                 /\ Sound(I, FlushPending(rest))
                 /\ Replay(o) = Fresh
    BY <1>13, <1>19
  <2>2. ToSet(ResultsOf(kept)) = {} /\ ToSet(CallsOf(kept)) = {}
    BY <1>3, <1>4, <1>19
  <2>3. ValidateStep(Replay(o), kept) = [pending |-> ToSet(<< >>), ok |-> TRUE]
    <3> DEFINE f == Replay(o)
    <3>1. f.pending = {} /\ f.ok = TRUE /\ ToSet(<< >>) = {}
      BY <2>1, OfNone DEF Fresh
    <3>2. {} = ToSet(ResultsOf(kept)) /\ {} = ToSet(CallsOf(kept))
      BY <2>2
    <3> HIDE DEF f
    <3>3. ValidateStep(f, kept) =
              [pending |-> IF {} = {} THEN f.pending \ {} ELSE {},
               ok |-> /\ f.ok /\ BlocksFitRole(kept) /\ {} \subseteq f.pending
                      /\ {} # {} \/ {} = {} => f.pending \ {} = {}
                      /\ {} = {} /\ {} = {} => kept.role # "tool"]
      BY <3>2, ValidateStepIs
    <3>4. (/\ f.ok /\ BlocksFitRole(kept) /\ {} \subseteq f.pending
           /\ {} # {} \/ {} = {} => f.pending \ {} = {}
           /\ {} = {} /\ {} = {} => kept.role # "tool") = TRUE
      BY <1>4, <1>19, <3>1
    <3> QED
      BY <3>1, <3>3, <3>4 DEF f
  <2>4. Sound(I, [pending |-> << >>, out |-> Append(o, kept)])
    <3> DEFINE r == [pending |-> << >>, out |-> o]
    <3>1. Sound(I, r) /\ r.out = o /\ << >> \in Seq(I)
      BY <2>1
    <3> HIDE DEF r
    <3> QED
      BY <1>4, <2>3, <3>1, OfNone, EmitIsSound
  <2>5. Emit(FlushPending(rest), kept) = [pending |-> << >>, out |-> Append(o, kept)]
    BY <2>1, EmitIs
  <2> QED
    BY <1>9, <1>19, <2>1, <2>4, <2>5
<1> QED
  BY <1>15, <1>16, <1>17, <1>18, <1>19

---------------------------------------------------------------------------
(* The repair of a whole conversation *)

Start == [pending |-> << >>, out |-> << >>]

\* The repair after the messages of c, calls still pending.
Repairing(c) == FoldLeft(RepairStep, Start, c)

RepairAt(c) == CHOOSE iter : iter =
    [t \in SUBSET (DOMAIN c) |->
       IF t = {} THEN Start ELSE RepairStep(iter[t \ {Max(t)}], c[Max(t)])]

RepairingStep(I) == [p \in Repairs(I) \X Messages(I) |-> RepairStep(p[1], p[2])]

LEMMA RepairingIsFold == \A c : Repairing(c) = RepairAt(c)[DOMAIN c]
BY DEF Repairing, RepairAt, FoldLeft, MapThenFoldSet

LEMMA RepairToolPairsIs ==
    \A c : RepairToolPairs(c) = FlushPending(Repairing(NormalizeArguments(c))).out
BY DEF RepairToolPairs, Repairing, Start

LEMMA RepairingSteps ==
    ASSUME NEW I, None \notin I, NEW c \in Seq(Messages(I))
    PROVE  /\ Steps(RepairAt(c), c, Repairs(I), Start, RepairingStep(I))
           /\ Repairing(c) = Upto(RepairAt(c), Len(c))
<1> DEFINE D == Repairs(I)
           T == Messages(I)
           step == RepairingStep(I)
           g == RepairAt(c)
           Body(iter) == [t \in SUBSET (DOMAIN c) |->
                   IF t = {} THEN Start ELSE RepairStep(iter[t \ {Max(t)}], c[Max(t)])]
<1>1. /\ Start \in D /\ step \in [D \X T -> D]
      /\ \A d \in D, x \in T : step[<< d, x >>] = RepairStep(d, x)
  <2>1. Start \in D
    <3>1. << >> \in Seq(I) /\ << >> \in Seq(Messages(I))
      BY OfNone
    <3> QED
      BY <3>1 DEF Start, Repairs
  <2>2. step \in [D \X T -> D]
    BY RepairStepType DEF RepairingStep
  <2> QED
    BY <2>1, <2>2 DEF RepairingStep
<1>2. DOMAIN c = 1 .. Len(c) /\ Len(c) \in Nat /\ \A k \in DOMAIN c : c[k] \in T
  OBVIOUS
<1>3. c \in Seq(T)
  OBVIOUS
<1> HIDE DEF D, T, step
<1>4. PICK f : f = [t \in SUBSET (DOMAIN c) |-> f[t]] /\ Folds(f, c, D, Start, step)
  BY <1>1, <1>3, FoldExistsOn
<1>5. f = Body(f)
  BY <1>1, <1>2, <1>4 DEF Folds
<1>6. g = Body(g)
  BY <1>5 DEF RepairAt
<1> HIDE DEF g
<1>7. Upto(g, 0) = Start
  BY <1>6, NoPrefix DEF Upto
<1>8. ASSUME NEW k \in 1 .. Len(c), Upto(g, k - 1) \in D
      PROVE  Upto(g, k) = step[<< Upto(g, k - 1), c[k] >>]
  <2>1. /\ Max(1 .. k) = k /\ 1 .. k # {} /\ (1 .. k) \ {k} = 1 .. k - 1
        /\ 1 .. k \in SUBSET (DOMAIN c) /\ c[k] \in T
    <3>1. k \in Nat \ {0} /\ k \in DOMAIN c /\ 1 .. k \in SUBSET (DOMAIN c)
      BY <1>2
    <3> QED
      BY <1>2, <3>1, PrefixShrinks
  <2>2. Upto(g, k) = RepairStep(Upto(g, k - 1), c[k])
    BY <1>6, <2>1 DEF Upto
  <2> QED
    BY <1>1, <1>8, <2>1, <2>2
<1>9. Steps(g, c, D, Start, step)
  BY <1>1, <1>3, <1>7, <1>8, StepsFromEquation
<1> QED
  BY <1>2, <1>9, RepairingIsFold DEF D, step, g, Upto

LEMMA RepairingEmpty == Repairing(<< >>) = Start
<1>1. << >> \in Seq(Messages({})) /\ Len(<< >>) = 0 /\ None \notin {}
  OBVIOUS
<1>2. /\ Steps(RepairAt(<< >>), << >>, Repairs({}), Start, RepairingStep({}))
      /\ Repairing(<< >>) = Upto(RepairAt(<< >>), Len(<< >>))
  BY <1>1, RepairingSteps
<1> QED
  BY <1>1, <1>2 DEF Steps

LEMMA RepairingAppend ==
    ASSUME NEW I, None \notin I, NEW c \in Seq(Messages(I)), NEW m \in Messages(I)
    PROVE  Repairing(Append(c, m)) = RepairStep(Repairing(c), m) /\ Repairing(c) \in Repairs(I)
<1> DEFINE u == Append(c, m)
<1>1. u \in Seq(Messages(I)) /\ Len(c) \in 0 .. Len(c)
  OBVIOUS
<1>2. /\ Steps(RepairAt(c), c, Repairs(I), Start, RepairingStep(I))
      /\ Repairing(c) = Upto(RepairAt(c), Len(c))
  BY RepairingSteps
<1>3. /\ Steps(RepairAt(u), u, Repairs(I), Start, RepairingStep(I))
      /\ Repairing(u) = Upto(RepairAt(u), Len(u))
  BY <1>1, RepairingSteps
<1>4. Repairing(u) = RepairingStep(I)[<< Repairing(c), m >>]
  BY <1>2, <1>3, StepsOfAppended
<1>5. Repairing(c) \in Repairs(I)
  BY <1>1, <1>2 DEF Steps
<1> QED
  BY <1>4, <1>5 DEF RepairingStep

\* The fold keeps the invariant of the repair.
LEMMA RepairingIsSound ==
    ASSUME NEW I, None \notin I
    PROVE  \A c \in Seq(Messages(I)) : Sound(I, Repairing(c))
<1> DEFINE T == Messages(I)
           P == {c \in Seq(T) : Sound(I, Repairing(c))}
<1>1. << >> \in P
  <2>1. Start \in Repairs(I)
    <3>1. << >> \in Seq(I) /\ << >> \in Seq(Messages(I))
      BY OfNone
    <3> QED
      BY <3>1 DEF Start, Repairs
  <2>2. Start.pending = << >> /\ Start.out = << >>
    BY DEF Start
  <2>3. Replay(<< >>).ok /\ Replay(<< >>).pending = {}
    BY ReplayEmpty DEF Fresh
  <2>4. Sound(I, Start)
    BY <2>1, <2>2, <2>3, OfNone DEF Sound
  <2> QED
    BY <2>4, RepairingEmpty, OfNone
<1>2. ASSUME NEW c \in Seq(T), NEW m \in T, c \in P PROVE Append(c, m) \in P
  <2>1. Repairing(Append(c, m)) = RepairStep(Repairing(c), m)
    BY RepairingAppend
  <2>2. Sound(I, Repairing(c))
    BY <1>2
  <2>3. Sound(I, RepairStep(Repairing(c), m))
    BY <2>2, RepairStepIsSound
  <2>4. Append(c, m) \in Seq(T)
    OBVIOUS
  <2> QED
    BY <2>1, <2>3, <2>4
<1> HIDE DEF P, T
<1>3. Seq(T) \subseteq P
  BY <1>1, <1>2, SequencesGrow
<1> QED
  BY <1>3 DEF P, T

\* The normal form of one message: a call in both shapes is kept in the field.
Normalized(m) == [m EXCEPT !.uses = Without(@, ToSet(m.calls))]

LEMMA NormalizedFacts ==
    ASSUME NEW I, NEW m \in Messages(I)
    PROVE  /\ Normalized(m) \in Messages(I)
           /\ Normalized(m).role = m.role
           /\ ToSet(CallsOf(Normalized(m))) = ToSet(CallsOf(m))
           /\ ToSet(ResultsOf(Normalized(m))) = ToSet(ResultsOf(m))
<1> DEFINE v == Without(m.uses, ToSet(m.calls))
           n == Normalized(m)
<1>1. v \in Seq(I) /\ ToSet(v) = ToSet(m.uses) \ ToSet(m.calls)
  <2>1. m.uses \in Seq(I)
    BY DEF Messages
  <2> QED
    BY <2>1, WithoutFacts
<1>2. n = [m EXCEPT !.uses = v]
  BY DEF Normalized
<1> HIDE DEF v, n
<1>3. /\ n.role = m.role /\ n.calls = m.calls /\ n.uses = v /\ n.answer = m.answer
      /\ n.results = m.results /\ n \in Messages(I)
  BY <1>1, <1>2 DEF Messages
<1>4. ToSet(CallsOf(n)) = ToSet(CallsOf(m))
  <2>1. ToSet(CallsOf(n)) = ToSet(n.calls) \cup
                            (IF n.role = "assistant" THEN ToSet(n.uses) ELSE {})
    BY <1>3, CallsOfMessage
  <2>2. ToSet(CallsOf(m)) = ToSet(m.calls) \cup
                            (IF m.role = "assistant" THEN ToSet(m.uses) ELSE {})
    BY CallsOfMessage
  <2> QED
    BY <1>1, <1>3, <2>1, <2>2
<1>5. ToSet(ResultsOf(n)) = ToSet(ResultsOf(m))
  BY <1>3 DEF ResultsOf
<1> QED
  BY <1>3, <1>4, <1>5 DEF n

LEMMA NormalizeType ==
    ASSUME NEW I, NEW c \in Seq(Messages(I))
    PROVE  NormalizeArguments(c) \in Seq(Messages(I))
<1>1. NormalizeArguments(c) = [i \in 1 .. Len(c) |-> Normalized(c[i])]
  BY DEF NormalizeArguments, Normalized
<1>2. \A i \in 1 .. Len(c) : Normalized(c[i]) \in Messages(I)
  BY NormalizedFacts
<1> QED
  BY <1>1, <1>2

\* Whatever the conversation, its repair passes the check before a request.
THEOREM RepairIsReplayable ==
    ASSUME NEW I, None \notin I, NEW c \in Seq(Messages(I))
    PROVE  RepairToolPairs(c) \in Seq(Messages(I)) /\ Validate(RepairToolPairs(c))
<1> DEFINE s == Repairing(NormalizeArguments(c))
<1>1. Sound(I, s)
  BY NormalizeType, RepairingIsSound
<1> HIDE DEF s
<1>2. Sound(I, FlushPending(s)) /\ FlushPending(s).pending = << >>
  BY <1>1, FlushIsSound
<1>3. RepairToolPairs(c) = FlushPending(s).out
  BY RepairToolPairsIs DEF s
<1>4. Replay(RepairToolPairs(c)).ok /\ Replay(RepairToolPairs(c)).pending = {}
  BY <1>2, <1>3, OfNone DEF Sound
<1>5. RepairToolPairs(c) \in Seq(Messages(I))
  BY <1>2, <1>3 DEF Sound, Repairs
<1> QED
  BY <1>4, <1>5, ValidateIsReplay

---------------------------------------------------------------------------
(* Steps of the check *)

\* A message that makes no calls and gives no results leaves the check where
\* it is, but for a failure while calls are open.
Silent(m) ==
    /\ BlocksFitRole(m) /\ m.role # "tool"
    /\ ToSet(CallsOf(m)) = {} /\ ToSet(ResultsOf(m)) = {}

LEMMA SilentStep ==
    ASSUME NEW I, NEW s \in Checks(I), NEW m, Silent(m)
    PROVE  /\ ValidateStep(s, m).pending = s.pending
           /\ ValidateStep(s, m).ok <=> s.ok /\ s.pending = {}
           /\ s = Fresh => ValidateStep(s, m) = Fresh
<1> DEFINE results == ToSet(ResultsOf(m))
           calls == ToSet(CallsOf(m))
           v == ValidateStep(s, m)
<1>1. results = {} /\ calls = {} /\ BlocksFitRole(m) /\ m.role # "tool"
  BY DEF Silent
<1>2. v = [pending |-> IF calls = {} THEN s.pending \ results ELSE calls,
           ok |-> /\ s.ok /\ BlocksFitRole(m) /\ results \subseteq s.pending
                  /\ calls # {} \/ results = {} => s.pending \ results = {}
                  /\ calls = {} /\ results = {} => m.role # "tool"]
  BY ValidateStepIs
<1>3. s.pending \subseteq I /\ s.ok \in BOOLEAN
  BY DEF Checks
<1> HIDE DEF results, calls, v
<1>4. v.pending = s.pending
  BY <1>1, <1>2
<1>5. v.ok <=> s.ok /\ s.pending = {}
  BY <1>1, <1>2
<1>6. s = Fresh => v = Fresh
  <2>1. v = [pending |-> v.pending, ok |-> v.ok] /\ v.ok \in BOOLEAN
    BY <1>2
  <2>2. s = Fresh => v.pending = {} /\ v.ok = TRUE
    BY <1>4, <1>5, <2>1 DEF Fresh
  <2> HIDE DEF v
  <2> QED
    BY <2>1, <2>2 DEF Fresh
<1> QED
  BY <1>4, <1>5, <1>6 DEF v

LEMMA SilentMessages ==
    ASSUME NEW I, NEW text \in Nat
    PROVE  /\ SystemMessage \in Messages(I) /\ Silent(SystemMessage)
           /\ UserMessage(text) \in Messages(I) /\ Silent(UserMessage(text))
           /\ AssistantMessage(<< >>, text) \in Messages(I) /\ Silent(AssistantMessage(<< >>, text))
<1>1. ASSUME NEW role \in {"system", "user", "assistant"}, NEW t \in Nat, NEW m,
             m = [role |-> role, calls |-> << >>, uses |-> << >>, answer |-> None,
                  results |-> << >>, text |-> t]
      PROVE  m \in Messages(I) /\ Silent(m)
  <2>1. << >> \in Seq(I)
    OBVIOUS
  <2>2. m \in Messages(I)
    BY <1>1, <2>1 DEF Messages
  <2>3. ToSet(CallsOf(m)) = {}
    BY <1>1, <2>2, CallsOfMessage, OfNone
  <2>4. ToSet(ResultsOf(m)) = {}
    BY <1>1, <2>2, ResultsOfMessage, OfNone
  <2>5. BlocksFitRole(m) /\ m.role # "tool"
    BY <1>1 DEF BlocksFitRole
  <2> QED
    BY <2>2, <2>3, <2>4, <2>5 DEF Silent
<1>2. SystemMessage = [role |-> "system", calls |-> << >>, uses |-> << >>, answer |-> None,
                  results |-> << >>, text |-> 1]
  BY DEF SystemMessage, Plain
<1>3. UserMessage(text) = [role |-> "user", calls |-> << >>, uses |-> << >>, answer |-> None,
                  results |-> << >>, text |-> text]
  BY DEF UserMessage, Plain
<1>4. AssistantMessage(<< >>, text) = [role |-> "assistant", calls |-> << >>, uses |-> << >>,
                  answer |-> None, results |-> << >>, text |-> text]
  BY DEF AssistantMessage, Plain
<1> QED
  BY <1>1, <1>2, <1>3, <1>4

\* A reply that makes calls, right after a conversation in which none is open.
LEMMA CallingMessage ==
    ASSUME NEW I, NEW ids \in Seq(I), NEW text \in Nat
    PROVE  /\ AssistantMessage(ids, text) \in Messages(I)
           /\ BlocksFitRole(AssistantMessage(ids, text))
           /\ ToSet(CallsOf(AssistantMessage(ids, text))) = ToSet(ids)
           /\ ToSet(ResultsOf(AssistantMessage(ids, text))) = {}
           /\ CallsOf(AssistantMessage(ids, text)) = << >> <=> ids = << >>
<1> DEFINE m == AssistantMessage(ids, text)
<1>1. m = [role |-> "assistant", calls |-> ids, uses |-> << >>, answer |-> None,
           results |-> << >>, text |-> text]
  BY DEF AssistantMessage, Plain
<1> HIDE DEF m
<1>2. << >> \in Seq(I)
  OBVIOUS
<1>3. m \in Messages(I)
  BY <1>1, <1>2 DEF Messages
<1>4. ToSet(CallsOf(m)) = ToSet(ids) /\ (CallsOf(m) = << >> <=> ToSet(CallsOf(m)) = {})
  BY <1>1, <1>3, CallsOfMessage, OfNone
<1>5. ToSet(ResultsOf(m)) = {}
  BY <1>1, <1>3, ResultsOfMessage, OfNone
<1>6. BlocksFitRole(m)
  BY <1>1 DEF BlocksFitRole
<1>7. ids = << >> <=> ToSet(ids) = {}
  BY NoneIn
<1> QED
  BY <1>3, <1>4, <1>5, <1>6, <1>7 DEF m

LEMMA ValidIsFresh ==
    ASSUME NEW I, NEW c \in Seq(Messages(I))
    PROVE  /\ Validate(c) <=> Replay(c) = Fresh
           /\ Validate(c) <=> Replay(c).ok /\ Replay(c).pending = {}
<1>1. Replay(c) \in Checks(I)
  BY ReplayType
<1>2. Replay(c) = [pending |-> Replay(c).pending, ok |-> Replay(c).ok]
      /\ Replay(c).ok \in BOOLEAN
  BY <1>1 DEF Checks
<1>3. Replay(c).ok /\ Replay(c).pending = {} => Replay(c) = Fresh
  BY <1>2 DEF Fresh
<1>4. Replay(c) = Fresh => Replay(c).ok /\ Replay(c).pending = {}
  BY DEF Fresh
<1> QED
  BY <1>3, <1>4, ValidateIsReplay

LEMMA SilentKeepsValid ==
    ASSUME NEW I, NEW c \in Seq(Messages(I)), NEW m \in Messages(I), Silent(m), Validate(c)
    PROVE  Append(c, m) \in Seq(Messages(I)) /\ Validate(Append(c, m))
<1>1. Append(c, m) \in Seq(Messages(I))
  OBVIOUS
<1>2. Replay(Append(c, m)) = ValidateStep(Replay(c), m) /\ Replay(c) \in Checks(I)
  BY ReplayAppend
<1>3. Replay(c) = Fresh
  BY ValidIsFresh
<1>4. Replay(Append(c, m)) = Fresh
  BY <1>2, <1>3, SilentStep
<1> QED
  BY <1>1, <1>4, ValidIsFresh

LEMMA SilentsKeepValid ==
    ASSUME NEW I, NEW c \in Seq(Messages(I)), Validate(c)
    PROVE  \A q \in Seq({m \in Messages(I) : Silent(m)}) :
              c \o q \in Seq(Messages(I)) /\ Validate(c \o q)
<1> DEFINE T == {m \in Messages(I) : Silent(m)}
           P == {q \in Seq(T) : c \o q \in Seq(Messages(I)) /\ Validate(c \o q)}
<1>1. << >> \in P
  <2>1. c \o << >> = c /\ << >> \in Seq(T)
    OBVIOUS
  <2> QED
    BY <2>1
<1>2. ASSUME NEW q \in Seq(T), NEW m \in T, q \in P PROVE Append(q, m) \in P
  <2>1. c \o q \in Seq(Messages(I)) /\ Validate(c \o q) /\ m \in Messages(I) /\ Silent(m)
    BY <1>2
  <2>2. q \in Seq(Messages(I))
    <3>1. \A k \in 1 .. Len(q) : q[k] \in Messages(I)
      OBVIOUS
    <3>2. q = [k \in 1 .. Len(q) |-> q[k]] /\ Len(q) \in Nat
      OBVIOUS
    <3> QED
      BY <3>1, <3>2
  <2>3. c \o Append(q, m) = Append(c \o q, m)
    BY <2>1, <2>2
  <2>4. Append(c \o q, m) \in Seq(Messages(I)) /\ Validate(Append(c \o q, m))
    BY <2>1, SilentKeepsValid
  <2>5. Append(q, m) \in Seq(T)
    OBVIOUS
  <2> QED
    BY <2>3, <2>4, <2>5
<1> HIDE DEF P, T
<1>3. Seq(T) \subseteq P
  BY <1>1, <1>2, SequencesGrow
<1> QED
  BY <1>3 DEF P, T

LEMMA CallsOpen ==
    ASSUME NEW I, NEW c \in Seq(Messages(I)), Validate(c), NEW ids \in Seq(I),
           NEW text \in Nat, ids # << >>
    PROVE  LET d == Append(c, AssistantMessage(ids, text))
           IN  /\ d \in Seq(Messages(I))
               /\ Replay(d).ok /\ Replay(d).pending = ToSet(ids)
<1> DEFINE m == AssistantMessage(ids, text)
           d == Append(c, m)
           set == ToSet(ids)
           f == Replay(c)
<1>1. /\ m \in Messages(I) /\ BlocksFitRole(m) /\ set = ToSet(CallsOf(m))
      /\ {} = ToSet(ResultsOf(m)) /\ set # {}
  <2>1. set # {}
    BY NoneIn
  <2> QED
    BY <2>1, CallingMessage
<1>2. f.ok /\ f.pending = {}
  BY ValidIsFresh
<1> HIDE DEF m, set
<1>3. d \in Seq(Messages(I)) /\ Replay(d) = ValidateStep(f, m)
  BY <1>1, ReplayAppend
<1> HIDE DEF d, f
<1> DEFINE results == ToSet(ResultsOf(m))
<1>4. ValidateStep(f, m) =
          [pending |-> IF set = {} THEN f.pending \ results ELSE set,
           ok |-> /\ f.ok /\ BlocksFitRole(m) /\ results \subseteq f.pending
                  /\ set # {} \/ results = {} => f.pending \ results = {}
                  /\ set = {} /\ results = {} => m.role # "tool"]
  BY <1>1, ValidateStepIs
<1>5. ValidateStep(f, m).ok
  BY <1>1, <1>2, <1>4
<1>6. ValidateStep(f, m).pending = set
  BY <1>1, <1>4
<1> QED
  BY <1>3, <1>5, <1>6 DEF m, d, set

\* The normal form of a conversation is checked as the conversation is.
LEMMA NormalizeKeepsChecks ==
    ASSUME NEW I
    PROVE  \A c \in Seq(Messages(I)) :
              /\ Replay(NormalizeArguments(c)).pending = Replay(c).pending
              /\ Replay(c).ok => Replay(NormalizeArguments(c)).ok
<1> DEFINE T == Messages(I)
           Good(c) == /\ Replay(NormalizeArguments(c)).pending = Replay(c).pending
                      /\ Replay(c).ok => Replay(NormalizeArguments(c)).ok
           P == {c \in Seq(T) : Good(c)}
<1>1. << >> \in P
  <2>1. NormalizeArguments(<< >>) = << >>
    BY DEF NormalizeArguments
  <2> QED
    BY <2>1
<1>2. ASSUME NEW c \in Seq(T), NEW m \in T, c \in P PROVE Append(c, m) \in P
  <2> DEFINE n == Normalized(m)
             d == NormalizeArguments(c)
             a == Replay(c)
             b == Replay(d)
  <2>1. b.pending = a.pending /\ (a.ok => b.ok)
    BY <1>2
  <2>2. /\ n \in T /\ n.role = m.role /\ ToSet(CallsOf(n)) = ToSet(CallsOf(m))
        /\ ToSet(ResultsOf(n)) = ToSet(ResultsOf(m))
    BY NormalizedFacts
  <2>3. d \in Seq(T)
    BY NormalizeType
  <2>4. NormalizeArguments(Append(c, m)) = Append(d, n)
    <3> DEFINE u == Append(c, m)
    <3>1. /\ DOMAIN u = 1 .. Len(c) + 1 /\ DOMAIN c = 1 .. Len(c) /\ Len(c) \in Nat
          /\ u[Len(c) + 1] = m /\ \A k \in 1 .. Len(c) : u[k] = c[k]
      OBVIOUS
    <3>2. \A e : NormalizeArguments(e) = [i \in DOMAIN e |-> Normalized(e[i])]
      BY DEF NormalizeArguments, Normalized
    <3>3. DOMAIN d = 1 .. Len(c) /\ \A k \in 1 .. Len(c) : d[k] = Normalized(c[k])
      BY <3>1, <3>2
    <3> HIDE DEF d, n, u
    <3>4. Len(d) = Len(c)
      BY <2>3, <3>1, <3>3
    <3>5. n \in T
      BY <2>2
    <3>6. /\ DOMAIN Append(d, n) = 1 .. Len(c) + 1
          /\ Append(d, n)[Len(c) + 1] = n
          /\ \A k \in 1 .. Len(c) : Append(d, n)[k] = d[k]
          /\ Append(d, n) = [k \in 1 .. Len(c) + 1 |-> Append(d, n)[k]]
      <4> HIDE DEF T
      <4> DEFINE e == Append(d, n)
      <4>1. e \in Seq(T) /\ Len(e) = Len(d) + 1
        BY <2>3, <3>5
      <4>2. e[Len(d) + 1] = n /\ \A k \in 1 .. Len(d) : e[k] = d[k]
        BY <2>3, <3>5
      <4> HIDE DEF e
      <4>3. DOMAIN e = 1 .. Len(e) /\ e = [k \in 1 .. Len(e) |-> e[k]]
        BY <4>1
      <4>4. Len(e) = Len(c) + 1
        BY <3>4, <4>1
      <4>5. DOMAIN e = 1 .. Len(c) + 1 /\ e = [k \in 1 .. Len(c) + 1 |-> e[k]]
        BY <4>3, <4>4
      <4>6. e[Len(c) + 1] = n /\ \A k \in 1 .. Len(c) : e[k] = d[k]
        BY <3>4, <4>2
      <4> QED
        BY <4>5, <4>6 DEF e
    <3>7. \A k \in 1 .. Len(c) + 1 : Append(d, n)[k] = Normalized(u[k])
      BY <3>1, <3>3, <3>6 DEF n
    <3>8. [k \in DOMAIN u |-> Normalized(u[k])] = Append(d, n)
      BY <3>1, <3>6, <3>7
    <3> QED
      BY <3>2, <3>8 DEF u
  <2>5. BlocksFitRole(m) => BlocksFitRole(n)
    <3> DEFINE v == Without(m.uses, ToSet(m.calls))
    <3>1. m.uses \in Seq(I)
      BY DEF Messages
    <3>2. v \in Seq(I) /\ ToSet(v) \subseteq ToSet(m.uses)
      BY <3>1, WithoutFacts
    <3>3. m.uses = << >> => v = << >>
      <4>1. ToSet(v) = {} => v = << >>
        BY <3>2, NoneIn
      <4> HIDE DEF v
      <4>2. m.uses = << >> => ToSet(m.uses) = {}
        BY OfNone
      <4> QED
        BY <3>2, <4>1, <4>2
    <3>4. n = [m EXCEPT !.uses = v]
      BY DEF Normalized
    <3> HIDE DEF v, n
    <3>5. n.uses = v /\ n.results = m.results
      BY <3>4 DEF Messages
    <3> QED
      BY <2>2, <3>3, <3>5 DEF BlocksFitRole
  <2> HIDE DEF n, d
  <2>6. Replay(Append(c, m)) = ValidateStep(a, m)
    BY ReplayAppend
  <2>7. Replay(Append(d, n)) = ValidateStep(b, n)
    BY <2>2, <2>3, ReplayAppend
  <2> DEFINE results == ToSet(ResultsOf(m))
             calls == ToSet(CallsOf(m))
  <2> HIDE DEF a, b
  <2>8. ValidateStep(a, m) =
              [pending |-> IF calls = {} THEN a.pending \ results ELSE calls,
               ok |-> /\ a.ok /\ BlocksFitRole(m) /\ results \subseteq a.pending
                      /\ calls # {} \/ results = {} => a.pending \ results = {}
                      /\ calls = {} /\ results = {} => m.role # "tool"]
    BY ValidateStepIs
  <2>9. ValidateStep(b, n) =
              [pending |-> IF calls = {} THEN b.pending \ results ELSE calls,
               ok |-> /\ b.ok /\ BlocksFitRole(n) /\ results \subseteq b.pending
                      /\ calls # {} \/ results = {} => b.pending \ results = {}
                      /\ calls = {} /\ results = {} => n.role # "tool"]
    BY <2>2, ValidateStepIs
  <2> HIDE DEF results, calls
  <2>10. ValidateStep(b, n).pending = ValidateStep(a, m).pending
    BY <2>1, <2>8, <2>9
  <2>11. ValidateStep(a, m).ok => ValidateStep(b, n).ok
    BY <2>1, <2>2, <2>5, <2>8, <2>9
  <2>12. Good(Append(c, m))
    BY <2>4, <2>6, <2>7, <2>10, <2>11
  <2>13. Append(c, m) \in Seq(T)
    OBVIOUS
  <2> QED
    BY <2>12, <2>13
<1> HIDE DEF P, T
<1>3. Seq(T) \subseteq P
  BY <1>1, <1>2, SequencesGrow
<1> QED
  BY <1>3 DEF P, T

LEMMA NormalizeKeepsValid ==
    ASSUME NEW I, NEW c \in Seq(Messages(I)), Validate(c)
    PROVE  NormalizeArguments(c) \in Seq(Messages(I)) /\ Validate(NormalizeArguments(c))
<1>1. NormalizeArguments(c) \in Seq(Messages(I))
  BY NormalizeType
<1>2. /\ Replay(NormalizeArguments(c)).pending = Replay(c).pending
      /\ Replay(c).ok => Replay(NormalizeArguments(c)).ok
  BY NormalizeKeepsChecks
<1> QED
  BY <1>1, <1>2, ValidIsFresh

---------------------------------------------------------------------------
(* Parts of a conversation *)

\* Of a set of messages, the ones of the sequence matter.
LEMMA AmongMeets ==
    ASSUME NEW T, NEW c \in Seq(T), NEW S, NEW W, \A x \in ToSet(c) : x \in W <=> x \in S
    PROVE  Among(c, W) = Among(c, S)
<1> DEFINE Alike(s) == \A x \in ToSet(s) : x \in W <=> x \in S
           P == {s \in Seq(T) : Alike(s) => Among(s, W) = Among(s, S)}
<1>1. << >> \in P
  BY AmongEmpty, OfNone
<1>2. ASSUME NEW s \in Seq(T), NEW x \in T, s \in P PROVE Append(s, x) \in P
  <2> DEFINE u == Append(s, x)
  <2>1. u \in Seq(T) /\ ToSet(u) = ToSet(s) \cup {x}
    BY AppendedTo
  <2>2. /\ Among(u, S) = IF x \in S THEN Append(Among(s, S), x) ELSE Among(s, S)
        /\ Among(u, W) = IF x \in W THEN Append(Among(s, W), x) ELSE Among(s, W)
    BY AmongAppend
  <2>3. Alike(s) => Among(s, W) = Among(s, S)
    BY <1>2
  <2> HIDE DEF u
  <2>4. Alike(u) => Alike(s) /\ (x \in W <=> x \in S)
    BY <2>1
  <2> HIDE DEF Alike
  <2>5. Alike(u) => Among(u, W) = Among(u, S)
    BY <2>2, <2>3, <2>4
  <2> QED
    BY <2>1, <2>5 DEF u
<1> HIDE DEF P, Alike
<1>3. Seq(T) \subseteq P
  BY <1>1, <1>2, SequencesGrow
<1>4. c \in P /\ Alike(c)
  BY <1>3 DEF Alike
<1> QED
  BY <1>4 DEF P

LEMMA OthersAre ==
    ASSUME NEW T, NEW c \in Seq(T)
    PROVE  OtherMessages(c) = Among(c, {m \in T : ~ IsSystem(m)})
<1> DEFINE S == {m \in T : ~ IsSystem(m)}
           W == {m \in ToSet(c) : ~ IsSystem(m)}
<1>1. ToSet(c) \subseteq T
  BY DEF ToSet
<1>2. \A x \in ToSet(c) : x \in W <=> x \in S
  BY <1>1
<1>3. OtherMessages(c) = Among(c, W)
  BY DEF OtherMessages
<1> HIDE DEF S, W
<1>4. Among(c, W) = Among(c, S)
  BY <1>2, AmongMeets
<1> QED
  BY <1>3, <1>4 DEF S

\* A conversation that is replayable up to the calls still open stays so when
\* its system messages give way to one at its head (execute_handoff).
LEMMA SystemsGiveWay ==
    ASSUME NEW I
    PROVE  \A c \in Seq(Messages(I)) :
              LET d == << SystemMessage >> \o Among(c, {m \in Messages(I) : ~ IsSystem(m)})
              IN  /\ d \in Seq(Messages(I))
                  /\ Replay(c).ok => Replay(d) = Replay(c)
<1> DEFINE T == Messages(I)
           N == {m \in T : ~ IsSystem(m)}
           Head1 == << SystemMessage >>
           D(c) == Head1 \o Among(c, N)
           Good(c) == D(c) \in Seq(T) /\ (Replay(c).ok => Replay(D(c)) = Replay(c))
           P == {c \in Seq(T) : Good(c)}
<1>1. SystemMessage \in T /\ Silent(SystemMessage) /\ Head1 \in Seq(T)
  <2>1. 1 \in Nat
    OBVIOUS
  <2>2. SystemMessage \in T /\ Silent(SystemMessage)
    BY <2>1, SilentMessages
  <2> QED
    BY <2>2
<1>2. << >> \in P
  <2>1. Among(<< >>, N) = << >> /\ Head1 \o << >> = Append(<< >>, SystemMessage)
    BY <1>1, AmongEmpty
  <2>2. Replay(Append(<< >>, SystemMessage)) = ValidateStep(Replay(<< >>), SystemMessage)
        /\ Replay(<< >>) \in Checks(I)
    BY <1>1, OfNone, ReplayAppend
  <2>3. Replay(<< >>) = Fresh
    BY ReplayEmpty
  <2>4. ValidateStep(Fresh, SystemMessage) = Fresh
    BY <1>1, <2>2, <2>3, SilentStep
  <2>5. Append(<< >>, SystemMessage) \in Seq(T) /\ << >> \in Seq(T)
    BY <1>1
  <2>6. Good(<< >>)
    BY <2>1, <2>2, <2>3, <2>4, <2>5
  <2> QED
    BY <2>5, <2>6
<1>3. ASSUME NEW c \in Seq(T), NEW m \in T, c \in P PROVE Append(c, m) \in P
  <2> DEFINE u == Append(c, m)
             x == Among(c, N)
             d == D(c)
             a == Replay(c)
             v == ValidateStep(a, m)
  <2>1. d \in Seq(T) /\ (a.ok => Replay(d) = a)
    BY <1>3
  <2>2. u \in Seq(T) /\ Replay(u) = v /\ a \in Checks(I)
    BY ReplayAppend
  <2>3. Among(u, N) = IF m \in N THEN Append(x, m) ELSE x
    BY AmongAppend
  <2>4. x \in Seq(T)
    BY AmongFacts
  <2>5. v.ok => a.ok /\ BlocksFitRole(m)
    BY ValidateStepIs
  <2>6. CASE m \in N
    <3>1. Head1 \o Append(x, m) = Append(Head1 \o x, m)
      BY <1>1, <2>4
    <3>2. D(u) = Append(d, m)
      BY <2>3, <2>6, <3>1
    <3>3. Append(d, m) \in Seq(T)
      BY <2>1
    <3>4. Replay(Append(d, m)) = ValidateStep(Replay(d), m)
      BY <2>1, ReplayAppend
    <3> HIDE DEF D, d, u, a, v
    <3>5. Replay(u).ok => Replay(D(u)) = Replay(u)
      BY <2>1, <2>2, <2>5, <3>2, <3>4 DEF v
    <3>6. Good(u)
      BY <3>2, <3>3, <3>5
    <3> QED
      BY <2>2, <3>6 DEF u
  <2>7. CASE m \notin N
    <3>1. D(u) = d
      BY <2>3, <2>7
    <3>2. m.role = "system" /\ m.calls = << >> /\ m.results \in Seq(I)
      <4>1. m.role = "system"
        BY <2>7 DEF IsSystem
      <4>2. m \in Messages(I)
        OBVIOUS
      <4> HIDE DEF T, N, D, P
      <4>3. m.results \in Seq(I)
        BY <4>2 DEF Messages
      <4>4. m.role \in {"system", "tool"} => m.calls = << >>
        BY <4>2 DEF Messages
      <4> QED
        BY <4>1, <4>3, <4>4
    <3>3. ToSet(CallsOf(m)) = {} /\ ToSet(ResultsOf(m)) = {}
      BY <3>2, CallsOfMessage, ResultsOfMessage, OfNone
    <3>4. BlocksFitRole(m) => Silent(m)
      BY <3>2, <3>3 DEF Silent
    <3>5. BlocksFitRole(m) => v.pending = a.pending /\ (v.ok <=> a.ok /\ a.pending = {})
      BY <2>2, <3>4, SilentStep
    <3>6. v \in Checks(I)
      BY <2>2, ValidateStepType
    <3> HIDE DEF D, d, u, v, a
    <3>7. v = [pending |-> v.pending, ok |-> v.ok] /\ a = [pending |-> a.pending, ok |-> a.ok]
          /\ v.ok \in BOOLEAN /\ a.ok \in BOOLEAN
      BY <2>2, <3>6 DEF Checks
    <3>8. v.ok => v.ok = TRUE /\ a.ok = TRUE /\ v.pending = a.pending
      BY <2>5, <3>5, <3>7
    <3>9. v.ok => v = a
      BY <3>7, <3>8
    <3>10. Replay(u).ok => Replay(D(u)) = Replay(u)
      BY <2>1, <2>2, <2>5, <3>1, <3>9
    <3>11. Good(u)
      BY <2>1, <3>1, <3>10
    <3> QED
      BY <2>2, <3>11 DEF u
  <2> QED
    BY <2>6, <2>7
<1> HIDE DEF P, T
<1>4. Seq(T) \subseteq P
  BY <1>2, <1>3, SequencesGrow
<1> QED
  BY <1>4 DEF P, T

---------------------------------------------------------------------------
(* Compactions *)

LEMMA LargestUnder ==
    ASSUME NEW n \in Nat, NEW t \in SUBSET (0 .. n), t # {}
    PROVE  Max(t) \in t /\ \A x \in t : Max(t) >= x
<1> DEFINE Bounded(u) == \E m \in u : \A x \in u : m >= x
           P == {k \in 0 .. n : \A u \in SUBSET (0 .. k) : u # {} => Bounded(u)}
<1>1. 0 \in P
  <2>1. \A u \in SUBSET (0 .. 0) : u # {} => u = {0}
    <3>1. 0 .. 0 = {0}
      OBVIOUS
    <3> QED
      BY <3>1
  <2>2. Bounded({0}) /\ 0 \in 0 .. n
    OBVIOUS
  <2> HIDE DEF Bounded
  <2> QED
    BY <2>1, <2>2
<1>2. ASSUME NEW k \in 1 .. n, k - 1 \in P PROVE k \in P
  <2>1. ASSUME NEW u \in SUBSET (0 .. k), u # {} PROVE Bounded(u)
    <3>1. CASE k \in u
      <4>1. \A x \in u : k >= x
        OBVIOUS
      <4> QED
        BY <3>1, <4>1
    <3>2. CASE k \notin u
      <4>1. u \in SUBSET (0 .. k - 1)
        BY <3>2
      <4> HIDE DEF Bounded
      <4> QED
        BY <1>2, <2>1, <4>1
    <3> QED
      BY <3>1, <3>2
  <2>2. k \in 0 .. n
    OBVIOUS
  <2> HIDE DEF Bounded
  <2> QED
    BY <2>1, <2>2
<1> HIDE DEF P
<1>3. \A k \in 0 .. n : k \in P
  BY <1>1, <1>2, NumbersUpTo
<1>4. Bounded(t)
  BY <1>3 DEF P
<1> QED
  BY <1>4 DEF Max

LEMMA SmallerOf ==
    ASSUME NEW a \in Nat, NEW b \in Nat
    PROVE  Min({a, b}) \in Nat /\ Min({a, b}) <= a /\ Min({a, b}) <= b
<1>1. \E x \in {a, b} : \A y \in {a, b} : x <= y
  BY a <= b \/ b <= a
<1> QED
  BY <1>1 DEF Min

LEMMA LastMessagesType ==
    ASSUME NEW T, NEW s \in Seq(T), NEW n \in 0 .. Len(s)
    PROVE  LastMessages(s, n) \in Seq(T)
<1>1. SubSeq(s, Len(s) - n + 1, Len(s)) \in Seq(T)
  OBVIOUS
<1> QED
  BY <1>1 DEF LastMessages

LEMMA SystemsType ==
    ASSUME NEW T, NEW c \in Seq(T)
    PROVE  SystemMessages(c) \in Seq(T) /\ OtherMessages(c) \in Seq(T)
BY AmongFacts DEF SystemMessages, OtherMessages

LEMMA CutType ==
    ASSUME NEW T, NEW c \in Seq(T), NEW keep \in BOOLEAN, NEW least \in Nat, NEW budget \in Nat
    PROVE  Cut(c, keep, least, budget) \in Seq(T)
<1> DEFINE kept == IF keep THEN SystemMessages(c) ELSE << >>
           others == OtherMessages(c)
           Fits(n) == Len(kept) + n <= budget \/ n <= least
           X == {n \in 0 .. Len(others) - 1 : n >= least /\ Fits(n)}
           left == Max(X)
<1>1. kept \in Seq(T) /\ others \in Seq(T) /\ Len(others) \in Nat
  BY SystemsType
<1>2. Cut(c, keep, least, budget) =
          CASE Len(others) <= least -> kept \o others
            [] Len(others) > least /\ Len(c) <= budget -> c
            [] OTHER -> kept \o LastMessages(others, left)
  BY DEF Cut
<1> HIDE DEF kept, others
<1>3. ASSUME ~ (Len(others) <= least)
      PROVE  left \in 0 .. Len(others)
  <2>1. least \in X
    BY <1>1, <1>3
  <2>2. Len(others) - 1 \in Nat /\ X \in SUBSET (0 .. Len(others) - 1)
    BY <1>1, <1>3
  <2> HIDE DEF X
  <2>3. left \in X
    BY <2>1, <2>2, LargestUnder
  <2> HIDE DEF left
  <2>4. left \in 0 .. Len(others) - 1
    BY <2>2, <2>3
  <2> QED
    BY <1>1, <2>4
<1> HIDE DEF left
<1>4. ~ (Len(others) <= least) => LastMessages(others, left) \in Seq(T)
  BY <1>1, <1>3, LastMessagesType
<1> QED
  BY <1>1, <1>2, <1>4

LEMMA TruncationIsReplayable ==
    ASSUME NEW I, None \notin I, NEW c \in Seq(Messages(I)), NEW keep \in BOOLEAN,
           NEW least \in Nat, NEW budget \in Nat
    PROVE  LET d == TruncateConversation(c, keep, least, budget)
           IN  d \in Seq(Messages(I)) /\ Validate(d)
<1> DEFINE x == Cut(c, keep, least, budget)
<1>1. x \in Seq(Messages(I))
  BY CutType
<1>2. TruncateConversation(c, keep, least, budget) = RepairToolPairs(x)
  BY DEF TruncateConversation
<1> HIDE DEF x
<1> QED
  BY <1>1, <1>2, RepairIsReplayable

LEMMA WindowIsReplayable ==
    ASSUME NEW I, None \notin I, NEW c \in Seq(Messages(I)), NEW most \in Nat, NEW budget \in Nat
    PROVE  LET d == SlidingWindow(c, most, budget)
           IN  d \in Seq(Messages(I)) /\ Validate(d)
<1> DEFINE systems == SystemMessages(c)
           others  == OtherMessages(c)
           n == Min({Len(others), most})
           window  == systems \o LastMessages(others, n)
           least == Max({2, Len(systems)})
           cut == TruncateConversation(window, TRUE, least, budget)
           x == IF Len(window) <= budget THEN window ELSE cut
<1>1. systems \in Seq(Messages(I)) /\ others \in Seq(Messages(I))
      /\ Len(others) \in Nat /\ Len(systems) \in Nat
  BY SystemsType
<1>2. SlidingWindow(c, most, budget) = RepairToolPairs(x)
  BY DEF SlidingWindow
<1> HIDE DEF systems, others
<1>3. n \in 0 .. Len(others)
  <2>1. n \in Nat /\ n <= Len(others)
    BY <1>1, SmallerOf
  <2> HIDE DEF n
  <2> QED
    BY <1>1, <2>1
<1> HIDE DEF n
<1>4. window \in Seq(Messages(I))
  BY <1>1, <1>3, LastMessagesType
<1>5. least \in Nat
  <2> DEFINE t == {2, Len(systems)}
  <2>1. t \in SUBSET (0 .. 2 + Len(systems)) /\ t # {} /\ 2 + Len(systems) \in Nat
    BY <1>1
  <2> HIDE DEF t
  <2>2. Max(t) \in t
    BY <2>1, LargestUnder
  <2> QED
    BY <1>1, <2>2 DEF t
<1> HIDE DEF window, least
<1>6. cut \in Seq(Messages(I))
  BY <1>4, <1>5, TruncationIsReplayable
<1> HIDE DEF cut
<1>7. x \in Seq(Messages(I))
  BY <1>4, <1>6
<1> HIDE DEF x
<1> QED
  BY <1>2, <1>7, RepairIsReplayable

LEMMA SummaryIsReplayable ==
    ASSUME NEW I, None \notin I, NEW c \in Seq(Messages(I)), NEW budget \in Nat
    PROVE  LET d == Summarize(c, budget)
           IN  d \in Seq(Messages(I)) /\ (d = c \/ Validate(d))
<1> DEFINE n == Boundary(c)
           x == << SystemMessage >> \o SubSeq(c, n + 1, Len(c))
<1>1. n \in 0 .. Len(c)
  <2> DEFINE t == {0} \cup {k \in 1 .. Len(c) - Recent : ~ CarriesResult(c[k + 1])}
  <2>1. t \in SUBSET (0 .. Len(c)) /\ t # {} /\ Len(c) \in Nat
    BY RecentAssumption
  <2>2. n = Max(t)
    BY DEF Boundary
  <2> HIDE DEF t, n
  <2>3. Max(t) \in t
    BY <2>1, LargestUnder
  <2> QED
    BY <2>1, <2>2, <2>3
<1> HIDE DEF n
<1>2. x \in Seq(Messages(I))
  <2>1. 1 \in Nat
    OBVIOUS
  <2>2. << SystemMessage >> \in Seq(Messages(I))
    BY <2>1, SilentMessages
  <2>3. SubSeq(c, n + 1, Len(c)) \in Seq(Messages(I))
    BY <1>1
  <2> QED
    BY <2>2, <2>3
<1>3. Summarize(c, budget) = IF Len(c) <= budget \/ n = 0 THEN c ELSE RepairToolPairs(x)
  BY DEF Summarize, n
<1> HIDE DEF x
<1> QED
  BY <1>2, <1>3, RepairIsReplayable

\* Whatever a replayable conversation is cut to, by truncation, a sliding window
\* or a summary with any limits, the outcome is replayable (apply_strategy).
THEOREM CompactionIsReplayable ==
    ASSUME NEW I, None \notin I, NEW c \in Seq(Messages(I)), Validate(c),
           NEW keep \in BOOLEAN, NEW least \in Nat, NEW budget \in Nat
    PROVE  /\ Validate(TruncateConversation(c, keep, least, budget))
           /\ Validate(SlidingWindow(c, least, budget))
           /\ Validate(Summarize(c, budget))
BY TruncationIsReplayable, WindowIsReplayable, SummaryIsReplayable

\* The conversation a handoff carries over is replayable when the source's is.
THEOREM CarriedIsReplayable ==
    ASSUME NEW I, NEW c \in Seq(Messages(I))
    PROVE  LET d == << SystemMessage >> \o OtherMessages(c)
           IN  d \in Seq(Messages(I)) /\ (Validate(c) => Validate(d))
<1> DEFINE d == << SystemMessage >> \o OtherMessages(c)
           e == << SystemMessage >> \o Among(c, {m \in Messages(I) : ~ IsSystem(m)})
<1>1. d = e
  BY OthersAre
<1>2. e \in Seq(Messages(I)) /\ (Replay(c).ok => Replay(e) = Replay(c))
  BY SystemsGiveWay
<1>3. Validate(c) => Replay(c) = Fresh /\ Replay(c).ok
  BY ValidIsFresh
<1> HIDE DEF d, e
<1>4. d \in Seq(Messages(I)) /\ (Validate(c) => Replay(d) = Fresh)
  BY <1>1, <1>2, <1>3
<1>5. Validate(c) => Validate(d)
  BY <1>4, ValidIsFresh
<1> QED
  BY <1>4, <1>5 DEF d

---------------------------------------------------------------------------
(* Recovery on cancellation *)

Untold == [seen |-> {}, collected |-> << >>]

Recovering(c) == FoldLeft(RecoverStep, Untold, c)

Recoveries(I) == [seen : SUBSET (I \cup {None}), collected : Seq(I)]

RecoverAt(c) == CHOOSE iter : iter =
    [t \in SUBSET (DOMAIN c) |->
       IF t = {} THEN Untold ELSE RecoverStep(iter[t \ {Max(t)}], c[Max(t)])]

RecoveringStep(I) == [p \in Recoveries(I) \X Messages(I) |-> RecoverStep(p[1], p[2])]

LEMMA RecoveringIsFold == \A c : Recovering(c) = RecoverAt(c)[DOMAIN c]
BY DEF Recovering, RecoverAt, FoldLeft, MapThenFoldSet

LEMMA RecoverStepType ==
    ASSUME NEW I, NEW s \in Recoveries(I), NEW m \in Messages(I)
    PROVE  RecoverStep(s, m) \in Recoveries(I)
<1> DEFINE more == Without(m.calls, s.seen)
           seen == s.seen \cup (IF m.role = "tool" THEN {m.answer} ELSE {})
           all == IF m.role = "assistant" THEN s.collected \o more ELSE s.collected
<1>1. s.seen \subseteq I \cup {None} /\ s.collected \in Seq(I)
  BY DEF Recoveries
<1>2. m.calls \in Seq(I) /\ m.answer \in I \cup {None}
  BY DEF Messages
<1>3. more \in Seq(I)
  BY <1>2, WithoutFacts
<1>4. RecoverStep(s, m) = [seen |-> seen, collected |-> all]
  BY DEF RecoverStep
<1> HIDE DEF more
<1>5. seen \in SUBSET (I \cup {None}) /\ all \in Seq(I)
  BY <1>1, <1>2, <1>3
<1> HIDE DEF seen, all
<1> QED
  BY <1>4, <1>5 DEF Recoveries

LEMMA RecoveringType ==
    ASSUME NEW I, NEW c \in Seq(Messages(I))
    PROVE  Recovering(c) \in Recoveries(I)
<1> DEFINE D == Recoveries(I)
           T == Messages(I)
           step == RecoveringStep(I)
           g == RecoverAt(c)
           Body(iter) == [t \in SUBSET (DOMAIN c) |->
                   IF t = {} THEN Untold ELSE RecoverStep(iter[t \ {Max(t)}], c[Max(t)])]
<1>1. /\ Untold \in D /\ step \in [D \X T -> D]
      /\ \A d \in D, x \in T : step[<< d, x >>] = RecoverStep(d, x)
  <2>1. Untold \in D
    <3>1. << >> \in Seq(I)
      OBVIOUS
    <3> QED
      BY <3>1 DEF Untold, Recoveries
  <2>2. step \in [D \X T -> D]
    BY RecoverStepType DEF RecoveringStep
  <2> QED
    BY <2>1, <2>2 DEF RecoveringStep
<1>2. DOMAIN c = 1 .. Len(c) /\ Len(c) \in Nat /\ \A k \in DOMAIN c : c[k] \in T
  OBVIOUS
<1>3. c \in Seq(T)
  OBVIOUS
<1> HIDE DEF D, T, step
<1>4. PICK f : f = [t \in SUBSET (DOMAIN c) |-> f[t]] /\ Folds(f, c, D, Untold, step)
  BY <1>1, <1>3, FoldExistsOn
<1>5. f = Body(f)
  BY <1>1, <1>2, <1>4 DEF Folds
<1>6. g = Body(g)
  BY <1>5 DEF RecoverAt
<1> HIDE DEF g
<1>7. Upto(g, 0) = Untold
  BY <1>6, NoPrefix DEF Upto
<1>8. ASSUME NEW k \in 1 .. Len(c), Upto(g, k - 1) \in D
      PROVE  Upto(g, k) = step[<< Upto(g, k - 1), c[k] >>]
  <2>1. /\ Max(1 .. k) = k /\ 1 .. k # {} /\ (1 .. k) \ {k} = 1 .. k - 1
        /\ 1 .. k \in SUBSET (DOMAIN c) /\ c[k] \in T
    <3>1. k \in Nat \ {0} /\ k \in DOMAIN c /\ 1 .. k \in SUBSET (DOMAIN c)
      BY <1>2
    <3> QED
      BY <1>2, <3>1, PrefixShrinks
  <2>2. Upto(g, k) = RecoverStep(Upto(g, k - 1), c[k])
    BY <1>6, <2>1 DEF Upto
  <2> QED
    BY <1>1, <1>8, <2>1, <2>2
<1>9. Steps(g, c, D, Untold, step)
  BY <1>1, <1>3, <1>7, <1>8, StepsFromEquation
<1>10. Len(c) \in 0 .. Len(c)
  BY <1>2
<1>11. Upto(g, Len(c)) \in D
  BY <1>9, <1>10 DEF Steps
<1> QED
  BY <1>2, <1>11, RecoveringIsFold DEF D, g, Upto

LEMMA RecoveredType ==
    ASSUME NEW I, None \notin I, NEW c \in Seq(Messages(I))
    PROVE  RecoverOnCancel(c) \in Seq(Messages(I))
<1> DEFINE ids == Recovering(c).collected
<1>1. ids \in Seq(I)
  BY RecoveringType DEF Recoveries
<1>2. RecoverOnCancel(c) = c \o Answers(ids, 1)
  BY DEF RecoverOnCancel, Recovering, Untold, Answers
<1> HIDE DEF ids
<1>3. Answers(ids, 1) \in Seq(Messages(I))
  BY <1>1, AnswersClose
<1> QED
  BY <1>2, <1>3
=============================================================================
