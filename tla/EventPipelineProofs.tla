------------------------ MODULE EventPipelineProofs ------------------------
(***************************************************************************)
(* Theorems about EventPipeline for every number of publishers, every      *)
(* capacity, every burst and every failure of an insert.                   *)
(***************************************************************************)
EXTENDS EventPipeline, FiniteSetTheorems, SequenceTheorems, TLAPS

---------------------------------------------------------------------------
(* The inductive invariant                                                 *)

Fibers == Publisher \cup {"dispatcher", "drain", "closer"}

DataType ==
    /\ buffer \in Seq(Nat) /\ hand \in Seq(Nat)
    /\ pending \in Seq(Nat) /\ table \in Seq(Nat)
    /\ dead \in Seq(Nat)
    /\ published \in Nat
    /\ buried \subseteq Nat /\ lost \subseteq Nat

PipelineType ==
    /\ DataType
    /\ ready \in Seq(Fibers)
    /\ drain \in {"first", "second", "stopped"}
    /\ phase \in {"open", "first", "second", "closed"}
    /\ running \in BOOLEAN /\ torn \in BOOLEAN
    /\ before \in Nat

\* Buffers keep to their capacities.
WithinCapacity == Len(buffer) <= BusCapacity /\ Len(pending) <= WriterCapacity

\* A fiber waits for one turn at a time.
OneTurnEach(q) == \A j, k \in DOMAIN q : q[j] = q[k] => j = k

\* What the stream holds has woken the dispatcher.
DispatcherWoken == ~ torn /\ hand \o buffer # << >> => ~ Waiting("dispatcher")

\* close is under way exactly while its fiber has a turn to come.
CloserWaits ==
    /\ ~ Waiting("closer") => ~ torn /\ phase # "closed"
    /\ phase \in {"first", "second"} => ~ Waiting("closer")

\* A runtime that ends without close has no turns left but its daemons'.
DaemonsLeft == torn /\ phase = "open" => \A p \in Publisher : p \notin ToSet(ready)

\* The dispatcher has its turn before close goes on.
DispatchedFirst(q) ==
    \E j, k \in DOMAIN q : j < k /\ q[j] = "dispatcher" /\ q[k] = "closer"

\* Events published before close first yielded that the bus still holds.
EarlyOnBus == \E e \in ToSet(hand \o buffer) : e <= before

EarlyWithWriter == \E e \in ToSet(pending) : e <= before

\* The two yields of close let the dispatcher have its turn, then the writer.
ClosePasses ==
    /\ before <= published
    /\ phase = "first" /\ EarlyOnBus => DispatchedFirst(ready)
    /\ phase \in {"second", "closed"} => ~ EarlyOnBus
    /\ phase = "closed" => ~ EarlyWithWriter

Turns == OneTurnEach(ready) /\ DispatcherWoken /\ CloserWaits /\ DaemonsLeft

Ordered(s) == \A j, k \in DOMAIN s : j < k => s[j] < s[k]

Line == table \o pending \o hand \o buffer

\* The places an event can be in hold it once, and hold every event.
Placed ==
    /\ Ordered(Line)
    /\ ToSet(Line) \cup buried \cup lost = 1 .. published
    /\ ToSet(Line) \cap buried = {}
    /\ ToSet(Line) \cap lost = {}
    /\ buried \cap lost = {}
    /\ ToSet(dead) \subseteq buried

PipelineInv == PipelineType /\ WithinCapacity /\ Turns /\ ClosePasses /\ Placed

---------------------------------------------------------------------------
(* Sequences of events                                                     *)

Below(S, T) == \A x \in S, y \in T : x < y

LEMMA SetOfConcat ==
    ASSUME NEW A, NEW s \in Seq(A), NEW t \in Seq(A)
    PROVE  ToSet(s \o t) = ToSet(s) \cup ToSet(t)
<1>1. \A f : ToSet(f) = Range(f)
  BY DEF ToSet, Range
<1> QED
  BY <1>1, RangeConcatenation

LEMMA SetOfNat ==
    ASSUME NEW s \in Seq(Nat)
    PROVE  ToSet(s) \subseteq Nat
BY DEF ToSet

LEMMA OrderedConcat ==
    ASSUME NEW s \in Seq(Nat), NEW t \in Seq(Nat)
    PROVE  Ordered(s \o t) <=> Ordered(s) /\ Ordered(t) /\ Below(ToSet(s), ToSet(t))
<1>1. /\ s \o t \in Seq(Nat) /\ Len(s \o t) = Len(s) + Len(t)
      /\ \A i \in 1 .. Len(s) : (s \o t)[i] = s[i]
      /\ \A i \in 1 .. Len(t) : (s \o t)[Len(s) + i] = t[i]
  OBVIOUS
<1>2. /\ DOMAIN s = 1 .. Len(s) /\ DOMAIN t = 1 .. Len(t)
      /\ DOMAIN (s \o t) = 1 .. Len(s) + Len(t)
      /\ Len(s) \in Nat /\ Len(t) \in Nat
  BY <1>1
<1>3. ASSUME Ordered(s \o t), NEW j \in DOMAIN s, NEW k \in DOMAIN s, j < k
      PROVE  s[j] < s[k]
  <2>1. j \in DOMAIN (s \o t) /\ k \in DOMAIN (s \o t)
    BY <1>2
  <2> QED
    BY <1>1, <1>2, <1>3, <2>1 DEF Ordered
<1>4. ASSUME Ordered(s \o t), NEW j \in DOMAIN t, NEW k \in DOMAIN t, j < k
      PROVE  t[j] < t[k]
  <2>1. /\ Len(s) + j \in DOMAIN (s \o t) /\ Len(s) + k \in DOMAIN (s \o t)
        /\ Len(s) + j < Len(s) + k
    BY <1>2, <1>4
  <2> QED
    BY <1>1, <1>2, <1>4, <2>1 DEF Ordered
<1>5. ASSUME Ordered(s \o t), NEW x \in ToSet(s), NEW y \in ToSet(t)
      PROVE  x < y
  <2>1. PICK i \in 1 .. Len(s) : x = s[i]
    BY <1>2, <1>5 DEF ToSet
  <2>2. PICK k \in 1 .. Len(t) : y = t[k]
    BY <1>2, <1>5 DEF ToSet
  <2>3. /\ i \in DOMAIN (s \o t) /\ Len(s) + k \in DOMAIN (s \o t)
        /\ i < Len(s) + k
    BY <1>2
  <2> QED
    BY <1>1, <1>5, <2>1, <2>2, <2>3 DEF Ordered
<1>6. ASSUME Ordered(s), Ordered(t), Below(ToSet(s), ToSet(t)),
             NEW j \in DOMAIN (s \o t), NEW k \in DOMAIN (s \o t), j < k
      PROVE  (s \o t)[j] < (s \o t)[k]
  <2>1. CASE k <= Len(s)
    BY <1>1, <1>2, <1>6, <2>1 DEF Ordered
  <2>2. CASE j > Len(s)
    <3>0. j \in 1 .. Len(s) + Len(t) /\ k \in 1 .. Len(s) + Len(t)
      BY <1>2
    <3>1. /\ j - Len(s) \in 1 .. Len(t) /\ k - Len(s) \in 1 .. Len(t)
          /\ j - Len(s) < k - Len(s)
          /\ j = Len(s) + (j - Len(s)) /\ k = Len(s) + (k - Len(s))
      <4>1. j \in Int /\ k \in Int /\ Len(s) \in Int /\ Len(t) \in Int
        BY <1>2, <3>0
      <4> QED
        BY <1>6, <2>2, <3>0, <4>1
    <3>2. t[j - Len(s)] < t[k - Len(s)]
      BY <1>2, <1>6, <3>1 DEF Ordered
    <3> QED
      BY <1>1, <3>1, <3>2
  <2>3. CASE j <= Len(s) /\ k > Len(s)
    <3>1. j \in 1 .. Len(s) /\ k - Len(s) \in 1 .. Len(t) /\ k = Len(s) + (k - Len(s))
      BY <1>2, <1>6, <2>3
    <3>2. s[j] \in ToSet(s) /\ t[k - Len(s)] \in ToSet(t)
      BY <1>2, <3>1 DEF ToSet
    <3> QED
      BY <1>1, <1>6, <3>1, <3>2 DEF Below
  <2> QED
    BY <1>2, <1>6, <2>1, <2>2, <2>3
<1> QED
  BY <1>3, <1>4, <1>5, <1>6 DEF Ordered, Below

LEMMA SplitAt ==
    ASSUME NEW A, NEW s \in Seq(A), NEW n \in Nat
    PROVE  /\ First(s, n) \in Seq(A) /\ Len(First(s, n)) <= n
           /\ After(s, n) \in Seq(A)
           /\ First(s, n) \o After(s, n) = s
<1>1. Len(s) \in Nat /\ s \in [1 .. Len(s) -> A]
  OBVIOUS
<1>2. CASE n < Len(s)
  <2>1. /\ SubSeq(s, 1, n) \in Seq(A) /\ Len(SubSeq(s, 1, n)) = n
        /\ SubSeq(s, n + 1, Len(s)) \in Seq(A)
    BY <1>1, <1>2
  <2>2. SubSeq(s, 1, n) \o SubSeq(s, n + 1, Len(s)) = s
    <3>1. 1 \in 1 .. Len(s) + 1 /\ n \in 1 - 1 .. Len(s) /\ Len(s) \in n .. Len(s)
      BY <1>1, <1>2
    <3> QED
      BY <3>1, ConcatAdjacentSubSeq, SubSeqFull
  <2>3. First(s, n) = SubSeq(s, 1, n) /\ After(s, n) = SubSeq(s, n + 1, Len(s))
    BY <1>2 DEF First, After
  <2>4. First(s, n) \in Seq(A) /\ Len(First(s, n)) = n /\ After(s, n) \in Seq(A)
    BY <2>1, <2>3
  <2>5. First(s, n) \o After(s, n) = s
    BY <2>2, <2>3
  <2> QED
    BY <2>4, <2>5
<1>3. CASE ~ (n < Len(s))
  <2>1. First(s, n) = s
    BY <1>3, SubSeqFull DEF First
  <2>2. After(s, n) = << >>
    <3>1. n + 1 \in Int /\ Len(s) \in Int /\ Len(s) < n + 1
      BY <1>1, <1>3
    <3> QED
      BY <3>1, SubSeqEmpty DEF After
  <2> QED
    BY <1>1, <1>3, <2>1, <2>2, ConcatEmptySeq, EmptySeq
<1> QED
  BY <1>2, <1>3

\* Cutting a sequence in two cuts its elements in two; in an ordered one the
\* parts are ordered and share none.
LEMMA Parts ==
    ASSUME NEW s \in Seq(Nat), NEW n \in Nat
    PROVE  /\ First(s, n) \in Seq(Nat) /\ After(s, n) \in Seq(Nat)
           /\ Len(First(s, n)) <= n
           /\ ToSet(s) = ToSet(First(s, n)) \cup ToSet(After(s, n))
           /\ Ordered(s) => /\ Ordered(First(s, n)) /\ Ordered(After(s, n))
                            /\ Below(ToSet(First(s, n)), ToSet(After(s, n)))
<1> DEFINE a == First(s, n)
           b == After(s, n)
<1>1. a \in Seq(Nat) /\ Len(a) <= n /\ b \in Seq(Nat) /\ a \o b = s
  BY SplitAt
<1> HIDE DEF a, b
<1>2. ToSet(a \o b) = ToSet(a) \cup ToSet(b)
  BY <1>1, SetOfConcat
<1>3. Ordered(a \o b) => Ordered(a) /\ Ordered(b) /\ Below(ToSet(a), ToSet(b))
  BY <1>1, OrderedConcat
<1> QED
  BY <1>1, <1>2, <1>3 DEF a, b

\* A batch is written in its order, and what is not written is lost.
LEMMA SavedPart ==
    ASSUME NEW batch \in Seq(Nat), Ordered(batch), SaveEvents(batch)
    PROVE  \E w \in Seq(Nat) :
               /\ table' = table \o w /\ Ordered(w) /\ ToSet(w) \subseteq ToSet(batch)
               /\ lost' = lost \cup (ToSet(batch) \ ToSet(w))
<1>1. /\ DOMAIN batch = 1 .. Len(batch) /\ Len(batch) \in Nat
      /\ \A k \in DOMAIN batch : batch[k] \in Nat
  OBVIOUS
<1>a. PICK n \in 0 .. Len(batch) : \E at \in [1 .. n -> DOMAIN batch] :
         /\ \A j, k \in 1 .. n : j < k => at[j] < at[k]
         /\ table' = table \o [k \in 1 .. n |-> batch[at[k]]]
         /\ lost' = lost \cup {batch[k] : k \in DOMAIN batch \ Range(at)}
  BY DEF SaveEvents
<1>2. PICK at \in [1 .. n -> DOMAIN batch] :
         /\ \A j, k \in 1 .. n : j < k => at[j] < at[k]
         /\ table' = table \o [k \in 1 .. n |-> batch[at[k]]]
         /\ lost' = lost \cup {batch[k] : k \in DOMAIN batch \ Range(at)}
  BY <1>a
<1> DEFINE w == [k \in 1 .. n |-> batch[at[k]]]
<1>3. n \in Nat /\ w \in Seq(Nat) /\ DOMAIN w = 1 .. n
  <2>1. n \in Nat
    BY <1>1
  <2>2. w \in [1 .. n -> Nat]
    BY <1>1
  <2>3. Seq(Nat) = UNION {[1 .. m -> Nat] : m \in Nat}
    BY SeqDef
  <2> QED
    BY <2>1, <2>2, <2>3
<1>4. Ordered(w)
  BY <1>1, <1>2, <1>3 DEF Ordered
<1>5. ToSet(w) = {batch[k] : k \in Range(at)}
  BY <1>3 DEF ToSet, Range
<1>6. \A j, k \in DOMAIN batch : batch[j] = batch[k] => j = k
  <2>1. \A j, k \in DOMAIN batch : j < k => batch[j] # batch[k]
    BY <1>1 DEF Ordered
  <2> QED
    BY <1>1, <2>1
<1>7. Range(at) \subseteq DOMAIN batch
  BY DEF Range
<1>8. ToSet(batch) \ ToSet(w) = {batch[k] : k \in DOMAIN batch \ Range(at)}
  <2> HIDE DEF w
  <2>1. ToSet(batch) = {batch[k] : k \in DOMAIN batch}
    BY DEF ToSet
  <2>2. \A k \in DOMAIN batch : batch[k] \in ToSet(w) <=> k \in Range(at)
    BY <1>5, <1>6, <1>7
  <2>3. \A x : x \in ToSet(batch) \ ToSet(w)
                  <=> \E k \in DOMAIN batch \ Range(at) : x = batch[k]
    BY <2>1, <2>2
  <2> QED
    BY <2>3
<1>9. ToSet(w) \subseteq ToSet(batch)
  BY <1>5, <1>7 DEF ToSet
<1> QED
  BY <1>2, <1>3, <1>4, <1>8, <1>9

\* The newest dead letters are kept, no others appear.
LEMMA LettersKept ==
    ASSUME DataType, NEW events \in Seq(Nat)
    PROVE  /\ DeadLettersWith(events) \in Seq(Nat)
           /\ ToSet(DeadLettersWith(events)) \subseteq ToSet(events) \cup ToSet(dead)
<1> DEFINE back == Reverse(events)
<1>1. DOMAIN events = 1 .. Len(events) /\ Len(events) \in Nat
  OBVIOUS
<1>2. \A i \in 1 .. Len(events) : (Len(events) - i) + 1 \in 1 .. Len(events)
  BY <1>1
<1>3. back \in [1 .. Len(events) -> Nat] /\ ToSet(back) \subseteq ToSet(events)
  BY <1>1, <1>2 DEF Reverse, ToSet
<1>4. back \in Seq(Nat)
  BY <1>1, <1>3, SeqDef
<1> HIDE DEF back
<1> DEFINE all == back \o dead
<1>5. /\ all \in Seq(Nat) /\ DeadLetterMax \in Nat
      /\ ToSet(all) = ToSet(back) \cup ToSet(dead)
  BY <1>4, SetOfConcat, PipelineAssumption DEF DataType
<1>6. DeadLettersWith(events) = IF DeadLetterMax = 0 THEN all
                                ELSE First(all, DeadLetterMax)
  BY DEF DeadLettersWith, back
<1> HIDE DEF all
<1>7. /\ First(all, DeadLetterMax) \in Seq(Nat)
      /\ ToSet(First(all, DeadLetterMax)) \subseteq ToSet(all)
  BY <1>5, Parts
<1> QED
  BY <1>3, <1>5, <1>6, <1>7

---------------------------------------------------------------------------
(* The run queue                                                           *)

LEMMA TurnTaken ==
    ASSUME ready \in Seq(Fibers), OneTurnEach(ready), NEW f \in Fibers, Turn(f)
    PROVE  /\ Wait \in Seq(Fibers) /\ OneTurnEach(Wait)
           /\ ToSet(Wait) = ToSet(ready) \ {f} /\ f \in ToSet(ready)
           /\ f # "dispatcher" /\ DispatchedFirst(ready) => DispatchedFirst(Wait)
           /\ f = "closer" => ~ DispatchedFirst(ready)
<1>1. /\ Len(ready) \in Nat \ {0} /\ DOMAIN ready = 1 .. Len(ready)
      /\ Wait \in Seq(Fibers) /\ Len(Wait) = Len(ready) - 1
      /\ DOMAIN Wait = 1 .. Len(ready) - 1
      /\ \A i \in 1 .. Len(ready) - 1 : Wait[i] = ready[i + 1]
      /\ ready[1] = f
  <2>1. ready # << >> /\ Head(ready) = f
    BY DEF Turn
  <2>2. /\ Tail(ready) \in Seq(Fibers) /\ Len(Tail(ready)) = Len(ready) - 1
        /\ \A i \in 1 .. Len(Tail(ready)) : Tail(ready)[i] = ready[i + 1]
    BY <2>1, HeadTailProperties
  <2>3. Len(ready) \in Nat \ {0} /\ DOMAIN ready = 1 .. Len(ready) /\ ready[1] = f
    BY <2>1, EmptySeq, LenProperties
  <2>4. DOMAIN Tail(ready) = 1 .. Len(Tail(ready))
    BY <2>2, LenProperties
  <2> QED
    BY <2>2, <2>3, <2>4 DEF Wait
<1>2. \A i \in 1 .. Len(ready) - 1 : i + 1 \in 1 .. Len(ready)
  BY <1>1
<1>3. \A i \in 1 .. Len(ready) : i # 1 => i - 1 \in 1 .. Len(ready) - 1 /\ (i - 1) + 1 = i
  BY <1>1
<1>4. OneTurnEach(Wait)
  <2>1. SUFFICES ASSUME NEW j \in 1 .. Len(ready) - 1, NEW k \in 1 .. Len(ready) - 1,
                        Wait[j] = Wait[k]
                 PROVE  j = k
    BY <1>1 DEF OneTurnEach
  <2>2. j + 1 = k + 1
    BY <1>1, <1>2, <2>1 DEF OneTurnEach
  <2> QED
    BY <2>2
<1>5. ASSUME NEW x \in ToSet(Wait) PROVE x \in ToSet(ready) \ {f}
  <2>1. PICK i \in 1 .. Len(ready) - 1 : x = ready[i + 1]
    BY <1>1, <1>5 DEF ToSet
  <2>2. i + 1 \in DOMAIN ready /\ 1 \in DOMAIN ready /\ i + 1 # 1
    BY <1>1, <1>2
  <2>3. x # f
    BY <1>1, <2>1, <2>2 DEF OneTurnEach
  <2> QED
    BY <2>1, <2>2, <2>3 DEF ToSet
<1>6. ASSUME NEW x \in ToSet(ready), x # f PROVE x \in ToSet(Wait)
  <2>1. PICK i \in 1 .. Len(ready) : x = ready[i]
    BY <1>1 DEF ToSet
  <2>2. i - 1 \in DOMAIN Wait /\ Wait[i - 1] = x
    BY <1>1, <1>3, <1>6, <2>1
  <2> QED
    BY <2>2 DEF ToSet
<1>7. f \in ToSet(ready)
  <2>1. 1 \in DOMAIN ready
    BY <1>1
  <2> QED
    BY <1>1, <2>1 DEF ToSet
<1>8. ASSUME f # "dispatcher", DispatchedFirst(ready) PROVE DispatchedFirst(Wait)
  <2>1. PICK j, k \in 1 .. Len(ready) : j < k /\ ready[j] = "dispatcher" /\ ready[k] = "closer"
    BY <1>1, <1>8 DEF DispatchedFirst
  <2>2. j # 1 /\ k # 1 /\ j - 1 < k - 1
    BY <1>1, <1>8, <2>1
  <2>3. /\ j - 1 \in DOMAIN Wait /\ k - 1 \in DOMAIN Wait
        /\ Wait[j - 1] = "dispatcher" /\ Wait[k - 1] = "closer"
    BY <1>1, <1>3, <2>1, <2>2
  <2> QED
    BY <2>2, <2>3 DEF DispatchedFirst
<1>9. ASSUME f = "closer", DispatchedFirst(ready) PROVE FALSE
  <2>1. PICK j, k \in 1 .. Len(ready) : j < k /\ ready[k] = "closer"
    BY <1>1, <1>9 DEF DispatchedFirst
  <2>2. 1 \in 1 .. Len(ready) /\ k # 1
    BY <1>1, <2>1
  <2> QED
    BY <1>1, <1>9, <2>1, <2>2 DEF OneTurnEach
<1> QED
  BY <1>1, <1>4, <1>5, <1>6, <1>7, <1>8, <1>9

LEMMA Queued ==
    ASSUME NEW q \in Seq(Fibers), OneTurnEach(q), NEW f \in Fibers, f \notin ToSet(q)
    PROVE  /\ Append(q, f) \in Seq(Fibers) /\ OneTurnEach(Append(q, f))
           /\ ToSet(Append(q, f)) = ToSet(q) \cup {f}
           /\ DispatchedFirst(q) => DispatchedFirst(Append(q, f))
           /\ f = "closer" /\ "dispatcher" \in ToSet(q) => DispatchedFirst(Append(q, f))
<1> DEFINE a == Append(q, f)
<1>1. /\ Len(q) \in Nat /\ DOMAIN q = 1 .. Len(q)
      /\ a \in Seq(Fibers) /\ DOMAIN a = 1 .. Len(q) + 1
      /\ \A i \in 1 .. Len(q) : a[i] = q[i]
      /\ a[Len(q) + 1] = f
  BY AppendProperties, LenProperties
<1> HIDE DEF a
<1>2. \A i \in 1 .. Len(q) + 1 : i \in 1 .. Len(q) \/ i = Len(q) + 1
  BY <1>1
<1>3. \A i \in 1 .. Len(q) : i \in 1 .. Len(q) + 1 /\ i < Len(q) + 1
  BY <1>1
<1>4. \A i \in 1 .. Len(q) : q[i] # f
  BY <1>1 DEF ToSet
<1>5. OneTurnEach(a)
  BY <1>1, <1>2, <1>4 DEF OneTurnEach
<1>6. Len(q) + 1 \in 1 .. Len(q) + 1
  BY <1>1
<1>7. ToSet(a) = ToSet(q) \cup {f}
  <2>1. \A x \in ToSet(a) : x \in ToSet(q) \cup {f}
    BY <1>1, <1>2 DEF ToSet
  <2>2. \A x \in ToSet(q) : x \in ToSet(a)
    BY <1>1, <1>3 DEF ToSet
  <2>3. f \in ToSet(a)
    BY <1>1, <1>6 DEF ToSet
  <2> QED
    BY <2>1, <2>2, <2>3
<1>8. ASSUME DispatchedFirst(q) PROVE DispatchedFirst(a)
  BY <1>1, <1>3, <1>8 DEF DispatchedFirst
<1>9. ASSUME f = "closer", "dispatcher" \in ToSet(q) PROVE DispatchedFirst(a)
  <2>1. PICK i \in 1 .. Len(q) : q[i] = "dispatcher"
    BY <1>1, <1>9 DEF ToSet
  <2>2. /\ i \in DOMAIN a /\ Len(q) + 1 \in DOMAIN a /\ i < Len(q) + 1
        /\ a[i] = "dispatcher" /\ a[Len(q) + 1] = "closer"
    BY <1>1, <1>3, <1>6, <1>9, <2>1
  <2> QED
    BY <2>2 DEF DispatchedFirst
<1> QED
  BY <1>1, <1>5, <1>7, <1>8, <1>9 DEF a

---------------------------------------------------------------------------
(* What the bus does with events                                           *)

LEMMA Associative == \A s, t, u \in Seq(Nat) : (s \o t) \o u = s \o (t \o u)
BY ConcatAssociative

LEMMA LineParts ==
    ASSUME NEW t \in Seq(Nat), NEW p \in Seq(Nat), NEW h \in Seq(Nat), NEW b \in Seq(Nat)
    PROVE  /\ t \o p \o h \o b = (t \o p) \o (h \o b)
           /\ t \o p \o h \o b \in Seq(Nat) /\ t \o p \in Seq(Nat) /\ h \o b \in Seq(Nat)
           /\ ToSet(t \o p \o h \o b) = ToSet(t) \cup ToSet(p) \cup ToSet(h \o b)
           /\ ToSet(h \o b) = ToSet(h) \cup ToSet(b)
           /\ Ordered(t \o p \o h \o b) <=>
                  /\ Ordered(t) /\ Ordered(p) /\ Ordered(h \o b)
                  /\ Below(ToSet(t), ToSet(p))
                  /\ Below(ToSet(t), ToSet(h \o b)) /\ Below(ToSet(p), ToSet(h \o b))
<1> DEFINE tp == t \o p
           hb == h \o b
<1>1. tp \in Seq(Nat) /\ hb \in Seq(Nat)
  BY ConcatProperties
<1>2. t \o p \o h \o b = tp \o hb
  <2> HIDE DEF tp
  <2>1. (tp \o h) \o b = tp \o (h \o b)
    BY <1>1, Associative, Zenon
  <2> QED
    BY <2>1 DEF tp
<1>3. /\ ToSet(tp) = ToSet(t) \cup ToSet(p) /\ ToSet(hb) = ToSet(h) \cup ToSet(b)
      /\ Ordered(tp) <=> Ordered(t) /\ Ordered(p) /\ Below(ToSet(t), ToSet(p))
  BY SetOfConcat, OrderedConcat
<1> HIDE DEF tp, hb
<1>4. /\ tp \o hb \in Seq(Nat)
      /\ ToSet(tp \o hb) = ToSet(tp) \cup ToSet(hb)
      /\ Ordered(tp \o hb) <=> Ordered(tp) /\ Ordered(hb) /\ Below(ToSet(tp), ToSet(hb))
  BY <1>1, SetOfConcat, OrderedConcat, ConcatProperties
<1>5. Below(ToSet(tp), ToSet(hb)) <=>
         Below(ToSet(t), ToSet(hb)) /\ Below(ToSet(p), ToSet(hb))
  BY <1>3 DEF Below
<1> QED
  BY <1>1, <1>2, <1>3, <1>4, <1>5 DEF tp, hb

\* n events published in a row, and where the bus puts them: one for a
\* waiting dispatcher, the stream's room, the rest buried.
LEMMA PublishPlaces ==
    ASSUME DataType, WithinCapacity, DispatcherWoken, NEW n \in Nat, Publish(n)
    PROVE  \E kept \in Seq(Nat), rest \in Seq(Nat) :
               /\ hand' \o buffer' = (hand \o buffer) \o kept
               /\ Ordered(kept) /\ Below(ToSet(kept), ToSet(rest))
               /\ ToSet(kept) \cup ToSet(rest) = published + 1 .. published + n
               /\ Bury(rest)
               /\ hand' \in Seq(Nat) /\ buffer' \in Seq(Nat)
               /\ Len(buffer') <= BusCapacity
<1> DEFINE events == [k \in 1 .. n |-> published + k]
           handed == Handed(events)
           first  == First(events, handed)
           queued == After(events, handed)
           room   == BusCapacity - Len(buffer)
           stream == First(queued, room)
           rest   == After(queued, room)
<1>1. /\ hand' = hand \o first /\ buffer' = buffer \o stream /\ Bury(rest)
  BY DEF Publish
<1>2. /\ events \in Seq(Nat) /\ Ordered(events)
      /\ ToSet(events) = published + 1 .. published + n
  <2>1. published \in Nat
    BY DEF DataType
  <2>2. events \in [1 .. n -> Nat] /\ DOMAIN events = 1 .. n
    BY <2>1
  <2>3. events \in Seq(Nat)
    BY <2>2, SeqDef
  <2>4. Ordered(events)
    BY <2>1 DEF Ordered
  <2>5. \A x \in ToSet(events) : x \in published + 1 .. published + n
    BY <2>1 DEF ToSet
  <2>6. ASSUME NEW x \in published + 1 .. published + n PROVE x \in ToSet(events)
    <3>1. x - published \in 1 .. n /\ x = published + (x - published)
      BY <2>1
    <3> QED
      BY <3>1 DEF ToSet
  <2> QED
    BY <2>3, <2>4, <2>5, <2>6
<1>3. handed \in {0, 1} /\ handed \in Nat /\ (handed = 1 => Listening)
  BY DEF Handed
<1>4. room \in Nat
  BY PipelineAssumption DEF WithinCapacity, DataType
<1> HIDE DEF events, handed
<1>5. /\ first \in Seq(Nat) /\ queued \in Seq(Nat) /\ Len(first) <= handed
      /\ first \o queued = events
  BY <1>2, <1>3, SplitAt
<1> HIDE DEF first, queued, room
<1>6. /\ stream \in Seq(Nat) /\ rest \in Seq(Nat) /\ Len(stream) <= room
      /\ stream \o rest = queued
  BY <1>4, <1>5, SplitAt
<1> HIDE DEF stream, rest
<1> DEFINE kept == first \o stream
<1>7. kept \in Seq(Nat) /\ kept \o rest = events
  <2>1. (first \o stream) \o rest = first \o (stream \o rest)
    BY <1>5, <1>6, Associative
  <2> QED
    BY <1>5, <1>6, <2>1, ConcatProperties
<1>8. hand \in Seq(Nat) /\ buffer \in Seq(Nat)
  BY DEF DataType
<1>9. hand' \o buffer' = (hand \o buffer) \o kept
  <2>1. CASE handed = 1
    <3>1. hand \o buffer = << >>
      BY <1>3, <2>1 DEF DispatcherWoken, Listening
    <3>2. hand = << >> /\ buffer = << >>
      BY <1>8, <3>1, ConcatEqualIffEmpty
    <3>3. hand' = first /\ buffer' = stream
      BY <1>1, <1>5, <1>6, <3>2, ConcatEmptySeq
    <3> QED
      BY <1>7, <3>1, <3>3, ConcatEmptySeq
  <2>2. CASE handed = 0
    <3>1. first = << >>
      BY <1>5, <2>2, EmptySeq
    <3>2. hand' = hand /\ kept = stream
      BY <1>1, <1>6, <1>8, <3>1, ConcatEmptySeq
    <3>3. (hand \o buffer) \o stream = hand \o (buffer \o stream)
      BY <1>6, <1>8, Associative
    <3> QED
      BY <1>1, <3>2, <3>3
  <2> QED
    BY <1>3, <2>1, <2>2
<1>10. hand' \in Seq(Nat) /\ buffer' \in Seq(Nat) /\ Len(buffer') <= BusCapacity
  <2>1. Len(buffer') = Len(buffer) + Len(stream)
    BY <1>1, <1>6, <1>8, ConcatProperties
  <2>2. Len(buffer) \in Nat /\ Len(stream) \in Nat /\ BusCapacity \in Nat
    BY <1>6, <1>8, PipelineAssumption, LenProperties
  <2> QED
    BY <1>1, <1>5, <1>6, <1>8, <2>1, <2>2, ConcatProperties DEF room
<1> HIDE DEF kept
<1>11. /\ ToSet(events) = ToSet(kept) \cup ToSet(rest)
       /\ Ordered(kept) /\ Below(ToSet(kept), ToSet(rest))
  <2>1. /\ ToSet(kept \o rest) = ToSet(kept) \cup ToSet(rest)
        /\ Ordered(kept \o rest) <=>
               Ordered(kept) /\ Ordered(rest) /\ Below(ToSet(kept), ToSet(rest))
    BY <1>6, <1>7, SetOfConcat, OrderedConcat
  <2> QED
    BY <1>2, <1>7, <2>1
<1> QED
  BY <1>1, <1>2, <1>6, <1>7, <1>9, <1>10, <1>11

\* The places an event is in, as sets.
LEMMA PlacedParts ==
    ASSUME DataType
    PROVE  Placed <=>
             /\ Ordered(table) /\ Ordered(pending) /\ Ordered(hand \o buffer)
             /\ Below(ToSet(table), ToSet(pending))
             /\ Below(ToSet(table), ToSet(hand \o buffer))
             /\ Below(ToSet(pending), ToSet(hand \o buffer))
             /\ ToSet(table) \cup ToSet(pending) \cup ToSet(hand \o buffer)
                    \cup buried \cup lost = 1 .. published
             /\ (ToSet(table) \cup ToSet(pending) \cup ToSet(hand \o buffer))
                    \cap (buried \cup lost) = {}
             /\ buried \cap lost = {}
             /\ ToSet(dead) \subseteq buried
<1>1. /\ table \in Seq(Nat) /\ pending \in Seq(Nat)
      /\ hand \in Seq(Nat) /\ buffer \in Seq(Nat)
  BY DEF DataType
<1>2. /\ ToSet(Line) = ToSet(table) \cup ToSet(pending) \cup ToSet(hand \o buffer)
      /\ Ordered(Line) <=>
             /\ Ordered(table) /\ Ordered(pending) /\ Ordered(hand \o buffer)
             /\ Below(ToSet(table), ToSet(pending))
             /\ Below(ToSet(table), ToSet(hand \o buffer))
             /\ Below(ToSet(pending), ToSet(hand \o buffer))
  BY <1>1, LineParts DEF Line
<1> QED
  BY <1>2 DEF Placed

LEMMA PlacedPartsNext == DataType' =>
    (Placed' <=>
             /\ Ordered(table') /\ Ordered(pending') /\ Ordered(hand' \o buffer')
             /\ Below(ToSet(table'), ToSet(pending'))
             /\ Below(ToSet(table'), ToSet(hand' \o buffer'))
             /\ Below(ToSet(pending'), ToSet(hand' \o buffer'))
             /\ ToSet(table') \cup ToSet(pending') \cup ToSet(hand' \o buffer')
                    \cup buried' \cup lost' = 1 .. published'
             /\ (ToSet(table') \cup ToSet(pending') \cup ToSet(hand' \o buffer'))
                    \cap (buried' \cup lost') = {}
             /\ buried' \cap lost' = {}
             /\ ToSet(dead') \subseteq buried')
<1> SUFFICES ASSUME DataType' PROVE
       Placed' <=>
             /\ Ordered(table') /\ Ordered(pending') /\ Ordered(hand' \o buffer')
             /\ Below(ToSet(table'), ToSet(pending'))
             /\ Below(ToSet(table'), ToSet(hand' \o buffer'))
             /\ Below(ToSet(pending'), ToSet(hand' \o buffer'))
             /\ ToSet(table') \cup ToSet(pending') \cup ToSet(hand' \o buffer')
                    \cup buried' \cup lost' = 1 .. published'
             /\ (ToSet(table') \cup ToSet(pending') \cup ToSet(hand' \o buffer'))
                    \cap (buried' \cup lost') = {}
             /\ buried' \cap lost' = {}
             /\ ToSet(dead') \subseteq buried'
  OBVIOUS
<1>1. /\ table' \in Seq(Nat) /\ pending' \in Seq(Nat)
      /\ hand' \in Seq(Nat) /\ buffer' \in Seq(Nat)
  BY DEF DataType
<1>2. /\ ToSet(Line') = ToSet(table') \cup ToSet(pending') \cup ToSet(hand' \o buffer')
      /\ Ordered(Line') <=>
             /\ Ordered(table') /\ Ordered(pending') /\ Ordered(hand' \o buffer')
             /\ Below(ToSet(table'), ToSet(pending'))
             /\ Below(ToSet(table'), ToSet(hand' \o buffer'))
             /\ Below(ToSet(pending'), ToSet(hand' \o buffer'))
  BY <1>1, LineParts DEF Line
<1> QED
  BY <1>2 DEF Placed

LEMMA Buried ==
    ASSUME DataType, NEW events \in Seq(Nat), Bury(events)
    PROVE  /\ dead' \in Seq(Nat)
           /\ buried' = buried \cup ToSet(events) /\ buried' \subseteq Nat
           /\ ToSet(dead) \subseteq buried => ToSet(dead') \subseteq buried'
<1>1. /\ DeadLettersWith(events) \in Seq(Nat)
      /\ ToSet(DeadLettersWith(events)) \subseteq ToSet(events) \cup ToSet(dead)
  BY LettersKept
<1>2. dead' = DeadLettersWith(events) /\ buried' = buried \cup ToSet(events)
  BY DEF Bury
<1>3. ToSet(events) \subseteq Nat /\ buried \subseteq Nat
  BY SetOfNat DEF DataType
<1> QED
  BY <1>1, <1>2, <1>3

---------------------------------------------------------------------------
(* The events are in their places after each operation on them             *)

DataInv == DataType /\ WithinCapacity /\ Placed

OnBus == ToSet(hand \o buffer)

LEMMA PublishKeepsData ==
    ASSUME DataInv, DispatcherWoken, NEW n \in Nat, Publish(n),
           UNCHANGED << pending, table, lost >>
    PROVE  /\ DataInv' /\ published' = published + n
           /\ \A e \in OnBus' : e \in OnBus \/ e > published
           /\ hand \o buffer # << >> => hand' \o buffer' # << >>
           /\ n = 0 => OnBus' = OnBus /\ (hand' \o buffer' # << >> => hand \o buffer # << >>)
<1>1. PICK kept \in Seq(Nat), rest \in Seq(Nat) :
           /\ hand' \o buffer' = (hand \o buffer) \o kept
           /\ Ordered(kept) /\ Below(ToSet(kept), ToSet(rest))
           /\ ToSet(kept) \cup ToSet(rest) = published + 1 .. published + n
           /\ Bury(rest)
           /\ hand' \in Seq(Nat) /\ buffer' \in Seq(Nat)
           /\ Len(buffer') <= BusCapacity
  BY PublishPlaces DEF DataInv
<1>2. published' = published + n
  BY DEF Publish
<1>3. DataType
  BY DEF DataInv
<1>4. /\ dead' \in Seq(Nat)
      /\ buried' = buried \cup ToSet(rest) /\ buried' \subseteq Nat
      /\ ToSet(dead) \subseteq buried => ToSet(dead') \subseteq buried'
  BY <1>1, <1>3, Buried
<1>5. DataType' /\ WithinCapacity'
  BY <1>1, <1>2, <1>3, <1>4 DEF DataType, WithinCapacity, DataInv
<1> DEFINE bus0 == hand \o buffer
           bus1 == hand' \o buffer'
<1>6. bus0 \in Seq(Nat) /\ bus1 = bus0 \o kept
  BY <1>1, <1>3, ConcatProperties DEF DataType
<1> HIDE DEF bus0, bus1
<1>7. /\ ToSet(bus1) = ToSet(bus0) \cup ToSet(kept)
      /\ Ordered(bus1) <=> Ordered(bus0) /\ Ordered(kept)
                              /\ Below(ToSet(bus0), ToSet(kept))
  BY <1>6, SetOfConcat, OrderedConcat
<1> DEFINE T == ToSet(table)
           W == ToSet(pending)
           B == ToSet(bus0)
           K == ToSet(kept)
           R == ToSet(rest)
           D == ToSet(dead)
<1>8. /\ Ordered(table) /\ Ordered(pending) /\ Ordered(bus0)
      /\ Below(T, W) /\ Below(T, B) /\ Below(W, B)
      /\ T \cup W \cup B \cup buried \cup lost = 1 .. published
      /\ (T \cup W \cup B) \cap (buried \cup lost) = {}
      /\ buried \cap lost = {} /\ D \subseteq buried
  BY <1>3, PlacedParts DEF DataInv, bus0
<1>9. published \in Nat
  BY <1>3 DEF DataType
<1>10. /\ K \cup R = published + 1 .. published + n /\ Below(K, R)
  BY <1>1
<1> HIDE DEF T, W, B, K, R, D
<1>11. \A X \in {T, W, B, buried, lost} :
           /\ Below(X, K) /\ X \cap K = {} /\ X \cap R = {}
  <2>1. SUFFICES ASSUME NEW X, X \subseteq 1 .. published
                 PROVE  Below(X, K) /\ X \cap K = {} /\ X \cap R = {}
    BY <1>8
  <2>2. \A x \in X : x \in 1 .. published
    BY <2>1
  <2>3. \A y \in K \cup R : y \in published + 1 .. published + n
    BY <1>10
  <2>4. \A x \in X, y \in K \cup R : x < y
    BY <1>9, <2>2, <2>3
  <2> QED
    BY <2>2, <2>4, <1>9 DEF Below
<1>12. K \cap R = {}
  BY <1>9, <1>10 DEF Below
<1>13. (1 .. published) \cup (published + 1 .. published + n) = 1 .. published + n
  BY <1>9
<1>14. Placed'
  <2>1. Below(T, B \cup K) /\ Below(W, B \cup K)
    BY <1>8, <1>11 DEF Below
  <2>2. Ordered(bus1)
    BY <1>1, <1>7, <1>8, <1>11 DEF B, K
  <2>3. T \cup W \cup (B \cup K) \cup (buried \cup R) \cup lost = 1 .. published + n
    BY <1>8, <1>10, <1>13
  <2>4. /\ (T \cup W \cup (B \cup K)) \cap ((buried \cup R) \cup lost) = {}
        /\ (buried \cup R) \cap lost = {}
    BY <1>8, <1>11, <1>12
  <2> QED
    BY <1>2, <1>4, <1>5, <1>7, <1>8, <2>1, <2>2, <2>3, <2>4, PlacedPartsNext
       DEF T, W, B, K, R, D, bus1
<1>15. \A e \in OnBus' : e \in OnBus \/ e > published
  <2>1. \A e \in K : e > published
    BY <1>9, <1>10
  <2> QED
    BY <1>7, <2>1 DEF OnBus, bus0, bus1, B, K
<1>16. bus0 # << >> => bus1 # << >>
  BY <1>6, ConcatEqualIffEmpty DEF bus0
<1>17. n = 0 => kept = << >>
  <2>1. n = 0 => K = {}
    BY <1>9, <1>10
  <2>2. Len(kept) > 0 => kept[1] \in K
    BY DEF K, ToSet
  <2> QED
    BY <2>1, <2>2
<1>18. n = 0 => bus1 = bus0
  BY <1>6, <1>17
<1> QED
  BY <1>2, <1>5, <1>14, <1>15, <1>16, <1>18 DEF DataInv, OnBus, bus0, bus1

LEMMA DispatchKeepsData ==
    ASSUME DataInv, DispatcherTurn
    PROVE  /\ DataInv' /\ OnBus' = {} /\ hand' \o buffer' = << >>
           /\ \A e \in ToSet(pending') : e \in ToSet(pending) \/ e \in OnBus
<1> DEFINE delivered == hand \o buffer
           room == WriterCapacity - Len(pending)
           taken == First(delivered, room)
           rest == After(delivered, room)
<1>1. /\ pending' = pending \o taken /\ Bury(rest)
      /\ hand' = << >> /\ buffer' = << >>
      /\ UNCHANGED << published, table, lost >>
  BY DEF DispatcherTurn, Push, sinks
<1>2. DataType /\ delivered \in Seq(Nat) /\ pending \in Seq(Nat)
  BY ConcatProperties DEF DataInv, DataType
<1>3. room \in Nat /\ Len(pending) \in Nat /\ WriterCapacity \in Nat /\ BusCapacity \in Nat
  BY <1>2, PipelineAssumption, LenProperties DEF DataInv, WithinCapacity
<1>4. /\ Ordered(table) /\ Ordered(pending) /\ Ordered(delivered)
      /\ Below(ToSet(table), ToSet(pending)) /\ Below(ToSet(table), ToSet(delivered))
      /\ Below(ToSet(pending), ToSet(delivered))
      /\ ToSet(table) \cup ToSet(pending) \cup ToSet(delivered)
             \cup buried \cup lost = 1 .. published
      /\ (ToSet(table) \cup ToSet(pending) \cup ToSet(delivered))
             \cap (buried \cup lost) = {}
      /\ buried \cap lost = {} /\ ToSet(dead) \subseteq buried
  BY <1>2, PlacedParts DEF DataInv
<1>5. delivered = hand \o buffer
  OBVIOUS
<1>6. Len(pending) + room = WriterCapacity
  BY <1>3
<1> HIDE DEF delivered, room
<1>7. /\ taken \in Seq(Nat) /\ rest \in Seq(Nat) /\ Len(taken) <= room
      /\ ToSet(delivered) = ToSet(taken) \cup ToSet(rest)
      /\ Ordered(taken) /\ Below(ToSet(taken), ToSet(rest))
  BY <1>2, <1>3, <1>4, Parts
<1> HIDE DEF taken, rest
<1>8. /\ pending' \in Seq(Nat) /\ Len(pending') <= WriterCapacity
      /\ ToSet(pending') = ToSet(pending) \cup ToSet(taken)
      /\ Ordered(pending') <=> Ordered(pending) /\ Ordered(taken)
                                  /\ Below(ToSet(pending), ToSet(taken))
  <2>1. /\ ToSet(pending \o taken) = ToSet(pending) \cup ToSet(taken)
        /\ Ordered(pending \o taken) <=> Ordered(pending) /\ Ordered(taken)
                                  /\ Below(ToSet(pending), ToSet(taken))
    BY <1>2, <1>7, SetOfConcat, OrderedConcat
  <2>2. pending \o taken \in Seq(Nat) /\ Len(pending \o taken) = Len(pending) + Len(taken)
    BY <1>2, <1>7, ConcatProperties
  <2>3. Len(taken) \in Nat
    BY <1>7, LenProperties
  <2> QED
    BY <1>1, <1>3, <1>6, <1>7, <2>1, <2>2, <2>3
<1>9. /\ dead' \in Seq(Nat)
      /\ buried' = buried \cup ToSet(rest) /\ buried' \subseteq Nat
      /\ ToSet(dead') \subseteq buried'
  BY <1>1, <1>2, <1>4, <1>7, Buried
<1>10. hand' \o buffer' = << >> /\ ToSet(hand' \o buffer') = {} /\ Ordered(hand' \o buffer')
  <2>1. << >> \o << >> = << >>
    BY ConcatEmptySeq, EmptySeq
  <2>2. ToSet(<< >>) = {} /\ Ordered(<< >>)
    BY DEF ToSet, Ordered
  <2> QED
    BY <1>1, <2>1, <2>2
<1>11. DataType' /\ WithinCapacity'
  <2>1. << >> \in Seq(Nat) /\ Len(<< >>) = 0
    BY EmptySeq
  <2> QED
    BY <1>1, <1>2, <1>3, <1>8, <1>9, <2>1 DEF DataType, WithinCapacity
<1> DEFINE T == ToSet(table)
           W == ToSet(pending)
           K == ToSet(taken)
           R == ToSet(rest)
<1> HIDE DEF T, W, K, R
<1>12. /\ Below(T, K) /\ Below(W, K) /\ Below(T, W \cup K)
       /\ T \cup (W \cup K) \cup (buried \cup R) \cup lost = 1 .. published
       /\ \A x \in T \cup W, y \in K \cup R : x < y
  BY <1>4, <1>7 DEF Below, T, W, K, R
<1>13. (T \cup W) \cap R = {} /\ K \cap R = {}
  <2>1. \A x \in K \cup R \cup T \cup W : x \in Nat
    BY <1>4, <1>7 DEF T, W, K, R
  <2>2. \A x \in K, y \in R : x < y
    BY <1>7 DEF Below, K, R
  <2> QED
    BY <1>12, <2>1, <2>2
<1>14. /\ (T \cup (W \cup K)) \cap ((buried \cup R) \cup lost) = {}
       /\ (buried \cup R) \cap lost = {}
  BY <1>4, <1>7, <1>13 DEF T, W, K, R
<1>15. /\ Below(T, {}) /\ Below(W \cup K, {})
  BY DEF Below
<1>16. Placed'
  <2>1. /\ table' = table /\ lost' = lost /\ published' = published
        /\ ToSet(table') = T /\ ToSet(pending') = W \cup K /\ ToSet(hand' \o buffer') = {}
        /\ buried' = buried \cup R /\ Ordered(pending')
    BY <1>1, <1>4, <1>7, <1>8, <1>9, <1>10, <1>12 DEF T, W, K, R
  <2>2. T \cup (W \cup K) \cup {} = T \cup (W \cup K)
    OBVIOUS
  <2> QED
    BY <1>4, <1>9, <1>10, <1>11, <1>12, <1>14, <1>15, <2>1, <2>2, PlacedPartsNext
<1>17. \A e \in ToSet(pending') : e \in ToSet(pending) \/ e \in ToSet(delivered)
  BY <1>7, <1>8
<1> QED
  BY <1>10, <1>11, <1>16, <1>17 DEF DataInv, OnBus, delivered

LEMMA FlushKeepsData ==
    ASSUME DataInv, Flush, UNCHANGED << bus, letters >>
    PROVE  DataInv' /\ OnBus' = OnBus /\ pending' = << >> /\ ToSet(pending') = {}
<1>1. /\ hand' = hand /\ buffer' = buffer /\ published' = published
      /\ dead' = dead /\ buried' = buried
      /\ SaveEvents(pending) /\ pending' = << >>
  BY DEF bus, letters, Flush, Batch
<1>2. DataType /\ table \in Seq(Nat) /\ pending \in Seq(Nat) /\ hand \o buffer \in Seq(Nat)
  BY ConcatProperties DEF DataInv, DataType
<1>3. /\ Ordered(table) /\ Ordered(pending) /\ Ordered(hand \o buffer)
      /\ Below(ToSet(table), ToSet(pending)) /\ Below(ToSet(table), ToSet(hand \o buffer))
      /\ Below(ToSet(pending), ToSet(hand \o buffer))
      /\ ToSet(table) \cup ToSet(pending) \cup ToSet(hand \o buffer)
             \cup buried \cup lost = 1 .. published
      /\ (ToSet(table) \cup ToSet(pending) \cup ToSet(hand \o buffer))
             \cap (buried \cup lost) = {}
      /\ buried \cap lost = {} /\ ToSet(dead) \subseteq buried
  BY <1>2, PlacedParts DEF DataInv
<1>4. PICK w \in Seq(Nat) :
               /\ table' = table \o w /\ Ordered(w) /\ ToSet(w) \subseteq ToSet(pending)
               /\ lost' = lost \cup (ToSet(pending) \ ToSet(w))
  BY <1>1, <1>2, <1>3, SavedPart
<1> DEFINE T == ToSet(table)
           P == ToSet(pending)
           B == ToSet(hand \o buffer)
           K == ToSet(w)
<1>5. ToSet(<< >>) = {} /\ Ordered(<< >>)
  BY DEF ToSet, Ordered
<1>6. /\ ToSet(table \o w) = T \cup K
      /\ Ordered(table \o w) <=> Ordered(table) /\ Ordered(w) /\ Below(T, K)
      /\ table \o w \in Seq(Nat)
  BY <1>2, SetOfConcat, OrderedConcat, ConcatProperties
<1>7. P \subseteq Nat
  BY <1>2, SetOfNat
<1>8. DataType' /\ WithinCapacity'
  <2>1. << >> \in Seq(Nat) /\ Len(<< >>) = 0
    BY EmptySeq
  <2>2. lost' \subseteq Nat
    BY <1>2, <1>4, <1>7 DEF DataType
  <2>3. WriterCapacity \in Nat
    BY PipelineAssumption
  <2> QED
    BY <1>1, <1>2, <1>4, <1>6, <2>1, <2>2, <2>3 DEF DataType, DataInv, WithinCapacity
<1> HIDE DEF T, P, B, K
<1>9. K \subseteq P
  BY <1>4 DEF K, P
<1>10. /\ Below(T, P) /\ Below(T, B) /\ Below(P, B)
       /\ T \cup P \cup B \cup buried \cup lost = 1 .. published
       /\ (T \cup P \cup B) \cap (buried \cup lost) = {}
  BY <1>3 DEF T, P, B
<1>11. /\ Below(T, K) /\ Below(T \cup K, B)
  BY <1>9, <1>10 DEF Below
<1>12. /\ \A x \in T : x \notin P
  <2>1. \A x \in T, y \in P : x < y /\ y \in Nat
    BY <1>7, <1>10 DEF Below
  <2> QED
    BY <2>1
<1>13. \A y \in P : y \notin B
  <2>1. \A x \in P, y \in B : x < y /\ x \in Nat
    BY <1>7, <1>10 DEF Below
  <2> QED
    BY <2>1
<1>14. /\ (T \cup K) \cup {} \cup B \cup buried \cup (lost \cup (P \ K)) = 1 .. published
       /\ ((T \cup K) \cup {} \cup B) \cap (buried \cup (lost \cup (P \ K))) = {}
       /\ buried \cap (lost \cup (P \ K)) = {}
  BY <1>3, <1>9, <1>10, <1>12, <1>13
<1>15. Below(T \cup K, {}) /\ Below({}, B)
  BY DEF Below
<1>16. Placed'
  <2>1. /\ ToSet(table') = T \cup K /\ ToSet(pending') = {} /\ ToSet(hand' \o buffer') = B
        /\ lost' = lost \cup (P \ K) /\ Ordered(table') /\ Ordered(pending')
        /\ Ordered(hand' \o buffer') /\ ToSet(dead') \subseteq buried'
        /\ buried' = buried /\ published' = published
    BY <1>1, <1>3, <1>4, <1>5, <1>6, <1>11 DEF T, P, B, K
  <2> QED
    BY <1>8, <1>11, <1>14, <1>15, <2>1, PlacedPartsNext
<1> QED
  BY <1>1, <1>5, <1>8, <1>16 DEF DataInv, OnBus

LEMMA DataUntouched ==
    ASSUME DataInv, UNCHANGED << bus, pending, sinks, letters >>
    PROVE  DataInv' /\ OnBus' = OnBus /\ hand' \o buffer' = hand \o buffer /\ pending' = pending
<1>1. UNCHANGED << hand, buffer, published, pending, table, lost, dead, buried >>
  BY DEF bus, sinks, letters
<1> QED
  BY <1>1 DEF DataInv, DataType, WithinCapacity, Placed, Line, OnBus

---------------------------------------------------------------------------
(* The turns                                                               *)

\* The run queue once a fiber has published n events in its turn.
LEMMA Awakened ==
    ASSUME PipelineInv, NEW f \in Fibers, f # "dispatcher", Turn(f), NEW n \in Nat
    PROVE  /\ Wait \o Woken(n) \in Seq(Fibers) /\ OneTurnEach(Wait \o Woken(n))
           /\ ToSet(Wait \o Woken(n)) \subseteq (ToSet(ready) \ {f}) \cup {"dispatcher"}
           /\ ToSet(ready) \ {f} \subseteq ToSet(Wait \o Woken(n))
           /\ n > 0 /\ ~ torn => "dispatcher" \in ToSet(Wait \o Woken(n))
           /\ DispatchedFirst(ready) => DispatchedFirst(Wait \o Woken(n))
<1>1. ready \in Seq(Fibers) /\ OneTurnEach(ready)
  BY DEF PipelineInv, PipelineType, Turns
<1>2. /\ Wait \in Seq(Fibers) /\ OneTurnEach(Wait)
      /\ ToSet(Wait) = ToSet(ready) \ {f}
      /\ DispatchedFirst(ready) => DispatchedFirst(Wait)
  BY <1>1, TurnTaken
<1>3. CASE n > 0 /\ Listening
  <2>1. Wait \o Woken(n) = Append(Wait, "dispatcher")
    BY <1>2, <1>3, AppendIsConcat DEF Woken, Fibers
  <2>2. "dispatcher" \in Fibers /\ "dispatcher" \notin ToSet(Wait)
    BY <1>2, <1>3 DEF Fibers, Listening, Waiting
  <2>3. /\ Append(Wait, "dispatcher") \in Seq(Fibers)
        /\ OneTurnEach(Append(Wait, "dispatcher"))
        /\ ToSet(Append(Wait, "dispatcher")) = ToSet(Wait) \cup {"dispatcher"}
        /\ DispatchedFirst(Wait) => DispatchedFirst(Append(Wait, "dispatcher"))
    BY <1>2, <2>2, Queued
  <2> QED
    BY <1>2, <2>1, <2>3
<1>4. CASE ~ (n > 0 /\ Listening)
  <2>1. Wait \o Woken(n) = Wait
    BY <1>2, <1>4, ConcatEmptySeq DEF Woken
  <2>2. n > 0 /\ ~ torn => "dispatcher" \in ToSet(ready) \ {f}
    BY <1>4 DEF Listening, Waiting
  <2> QED
    BY <1>2, <2>1, <2>2
<1> QED
  BY <1>3, <1>4

\* The run queue once a host has published n events and keeps its turn.
LEMMA AwakenedByHost ==
    ASSUME PipelineInv, NEW n \in Nat
    PROVE  /\ ready \o Woken(n) \in Seq(Fibers) /\ OneTurnEach(ready \o Woken(n))
           /\ ToSet(ready \o Woken(n)) \subseteq ToSet(ready) \cup {"dispatcher"}
           /\ ToSet(ready) \subseteq ToSet(ready \o Woken(n))
           /\ n > 0 /\ ~ torn => "dispatcher" \in ToSet(ready \o Woken(n))
           /\ DispatchedFirst(ready) => DispatchedFirst(ready \o Woken(n))
<1>1. ready \in Seq(Fibers) /\ OneTurnEach(ready)
  BY DEF PipelineInv, PipelineType, Turns
<1>2. CASE n > 0 /\ Listening
  <2>1. ready \o Woken(n) = Append(ready, "dispatcher")
    BY <1>1, <1>2, AppendIsConcat DEF Woken, Fibers
  <2>2. "dispatcher" \in Fibers /\ "dispatcher" \notin ToSet(ready)
    BY <1>2 DEF Fibers, Listening, Waiting
  <2>3. /\ Append(ready, "dispatcher") \in Seq(Fibers)
        /\ OneTurnEach(Append(ready, "dispatcher"))
        /\ ToSet(Append(ready, "dispatcher")) = ToSet(ready) \cup {"dispatcher"}
        /\ DispatchedFirst(ready) => DispatchedFirst(Append(ready, "dispatcher"))
    BY <1>1, <2>2, Queued
  <2> QED
    BY <2>1, <2>3
<1>3. CASE ~ (n > 0 /\ Listening)
  <2>1. ready \o Woken(n) = ready
    BY <1>1, <1>3, ConcatEmptySeq DEF Woken
  <2>2. n > 0 /\ ~ torn => "dispatcher" \in ToSet(ready)
    BY <1>3 DEF Listening, Waiting
  <2> QED
    BY <1>1, <2>1, <2>2
<1> QED
  BY <1>2, <1>3

\* A dispatcher that has events to fetch has a turn to come.
LEMMA DispatcherStaysWoken ==
    ASSUME PipelineInv, NEW f \in Fibers, f # "dispatcher", Turn(f), NEW n \in Nat,
           Publish(n), UNCHANGED << pending, table, lost >>
    PROVE  /\ DataInv' /\ published' = published + n
           /\ \A e \in OnBus' : e \in OnBus \/ e > published
           /\ ~ torn /\ hand' \o buffer' # << >> => "dispatcher" \in ToSet(Wait \o Woken(n))
<1>1. DataInv /\ DispatcherWoken
  BY DEF PipelineInv, PipelineType, DataInv, Turns
<1>2. /\ DataInv' /\ published' = published + n
      /\ \A e \in OnBus' : e \in OnBus \/ e > published
      /\ n = 0 => (hand' \o buffer' # << >> => hand \o buffer # << >>)
  BY <1>1, PublishKeepsData
<1>3. /\ ToSet(ready) \ {f} \subseteq ToSet(Wait \o Woken(n))
      /\ n > 0 /\ ~ torn => "dispatcher" \in ToSet(Wait \o Woken(n))
  BY Awakened
<1>4. ASSUME ~ torn, hand' \o buffer' # << >>
      PROVE  "dispatcher" \in ToSet(Wait \o Woken(n))
  <2>1. CASE n > 0
    BY <1>3, <1>4, <2>1
  <2>2. CASE n = 0
    BY <1>1, <1>2, <1>3, <1>4, <2>2 DEF DispatcherWoken, Waiting
  <2> QED
    BY <2>1, <2>2
<1> QED
  BY <1>2, <1>4

\* A publisher's turn, at the end of which a host may keep it.
LEMMA PublisherTurns ==
    ASSUME PipelineInv, NEW p \in Publisher, PublishTurn(p) \/ HostBlocks(p)
    PROVE  PipelineInv'
<1>1. PICK n \in 0 .. MaxBurst :
         Publish(n) /\ (ready' = Wait \o Woken(n) \/ ready' = ready \o Woken(n))
  BY DEF PublishTurn, HostBlocks
<1>2. /\ n \in Nat /\ p \in Fibers /\ p # "dispatcher" /\ p # "closer"
  BY PipelineAssumption DEF Fibers
<1>3. /\ Turn(p)
      /\ UNCHANGED << pending, running, drain, table, lost, phase, before, torn >>
  BY DEF PublishTurn, HostBlocks, writer, sinks, closing
<1>4. /\ Wait \o Woken(n) \in Seq(Fibers) /\ OneTurnEach(Wait \o Woken(n))
      /\ ToSet(Wait \o Woken(n)) \subseteq (ToSet(ready) \ {p}) \cup {"dispatcher"}
      /\ ToSet(ready) \ {p} \subseteq ToSet(Wait \o Woken(n))
      /\ DispatchedFirst(ready) => DispatchedFirst(Wait \o Woken(n))
  BY <1>2, <1>3, Awakened
<1>5. /\ ready \o Woken(n) \in Seq(Fibers) /\ OneTurnEach(ready \o Woken(n))
      /\ ToSet(ready \o Woken(n)) \subseteq ToSet(ready) \cup {"dispatcher"}
      /\ ToSet(ready) \subseteq ToSet(ready \o Woken(n))
      /\ n > 0 /\ ~ torn => "dispatcher" \in ToSet(ready \o Woken(n))
      /\ DispatchedFirst(ready) => DispatchedFirst(ready \o Woken(n))
  BY <1>2, AwakenedByHost
<1>6. /\ DataInv' /\ published' = published + n
      /\ \A e \in OnBus' : e \in OnBus \/ e > published
      /\ ~ torn /\ hand' \o buffer' # << >> => "dispatcher" \in ToSet(ready')
  <2>1. /\ DataInv' /\ published' = published + n
        /\ \A e \in OnBus' : e \in OnBus \/ e > published
        /\ ~ torn /\ hand' \o buffer' # << >> => "dispatcher" \in ToSet(Wait \o Woken(n))
    BY <1>1, <1>2, <1>3, DispatcherStaysWoken
  <2>2. ToSet(Wait \o Woken(n)) \subseteq ToSet(ready')
    <3>1. "dispatcher" \in ToSet(Wait \o Woken(n)) =>
             "dispatcher" \in ToSet(ready \o Woken(n))
      <4>1. ready \in Seq(Fibers) /\ OneTurnEach(ready)
        BY DEF PipelineInv, PipelineType, Turns
      <4>2. CASE n > 0 /\ Listening
        BY <1>5, <4>2 DEF Listening
      <4>3. CASE ~ (n > 0 /\ Listening)
        <5>1. Wait \in Seq(Fibers) /\ ToSet(Wait) = ToSet(ready) \ {p}
          BY <1>2, <1>3, <4>1, TurnTaken
        <5>2. Wait \o Woken(n) = Wait
          BY <4>3, <5>1, ConcatEmptySeq DEF Woken
        <5> QED
          BY <1>5, <5>1, <5>2
      <4> QED
        BY <4>2, <4>3
    <3>2. ToSet(Wait \o Woken(n)) \subseteq ToSet(ready \o Woken(n))
      BY <1>4, <1>5, <3>1
    <3>3. CASE ready' = Wait \o Woken(n)
      BY <3>3
    <3>4. CASE ready' = ready \o Woken(n)
      BY <3>2, <3>4
    <3> QED
      BY <1>1, <3>3, <3>4
  <2> QED
    BY <2>1, <2>2
<1>7. /\ ready' \in Seq(Fibers) /\ OneTurnEach(ready')
      /\ ToSet(ready') \subseteq ToSet(ready) \cup {"dispatcher"}
      /\ ToSet(ready) \ {p} \subseteq ToSet(ready')
      /\ DispatchedFirst(ready) => DispatchedFirst(ready')
  <2>1. CASE ready' = Wait \o Woken(n)
    BY <1>4, <2>1
  <2>2. CASE ready' = ready \o Woken(n)
    BY <1>5, <2>2
  <2> QED
    BY <1>1, <2>1, <2>2
<1>8. PipelineType'
  BY <1>3, <1>6, <1>7 DEF PipelineInv, PipelineType, DataInv
<1>9. OneTurnEach(ready)'
  BY <1>7
<1>10. DispatcherWoken'
  BY <1>3, <1>6 DEF DispatcherWoken, Waiting
<1>11. CloserWaits'
  BY <1>2, <1>3, <1>7 DEF PipelineInv, Turns, CloserWaits, Waiting
<1>12. ClosePasses'
  <2>1. /\ before \in Nat /\ published \in Nat /\ before <= published
        /\ phase = "first" /\ EarlyOnBus => DispatchedFirst(ready)
        /\ phase \in {"second", "closed"} => ~ EarlyOnBus
        /\ phase = "closed" => ~ EarlyWithWriter
    BY DEF PipelineInv, PipelineType, DataType, ClosePasses
  <2>2. before' = before /\ phase' = phase /\ before' <= published'
    BY <1>2, <1>3, <1>6, <2>1
  <2>3. EarlyOnBus' => EarlyOnBus
    <3>1. \A e \in OnBus' : e <= before => e \in OnBus
      <4>1. \A e \in OnBus' : e \in Nat
        BY <1>6, SetOfNat, ConcatProperties DEF OnBus, DataInv, DataType
      <4> QED
        BY <1>6, <2>1, <4>1
    <3> QED
      BY <2>2, <3>1 DEF EarlyOnBus, OnBus
  <2>4. EarlyWithWriter' <=> EarlyWithWriter
    BY <1>3 DEF EarlyWithWriter
  <2>5. phase' = "first" /\ EarlyOnBus' => DispatchedFirst(ready')
    BY <1>7, <2>1, <2>2, <2>3
  <2> QED
    BY <2>1, <2>2, <2>3, <2>4, <2>5 DEF ClosePasses
<1>13. DaemonsLeft'
  BY <1>3, <1>7, PipelineAssumption DEF PipelineInv, Turns, DaemonsLeft
<1> QED
  BY <1>6, <1>8, <1>9, <1>10, <1>11, <1>12, <1>13 DEF PipelineInv, Turns, DataInv

LEMMA DispatcherTurns ==
    ASSUME PipelineInv, DispatcherTurn
    PROVE  PipelineInv'
<1>1. /\ DataInv' /\ OnBus' = {} /\ hand' \o buffer' = << >>
      /\ \A e \in ToSet(pending') : e \in ToSet(pending) \/ e \in OnBus
  BY DispatchKeepsData DEF PipelineInv, PipelineType, DataInv
<1>2. /\ Turn("dispatcher") /\ ready' = Wait
      /\ UNCHANGED << published, running, drain, table, lost, phase, before, torn >>
  BY DEF DispatcherTurn, sinks, closing
<1>3. "dispatcher" \in Fibers
  BY DEF Fibers
<1>4. /\ ready' \in Seq(Fibers) /\ OneTurnEach(ready')
      /\ ToSet(ready') = ToSet(ready) \ {"dispatcher"}
  BY <1>2, <1>3, TurnTaken DEF PipelineInv, PipelineType, Turns
<1>5. PipelineType'
  BY <1>1, <1>2, <1>4 DEF PipelineInv, PipelineType, DataInv
<1>6. OneTurnEach(ready)'
  BY <1>4
<1>7. DispatcherWoken'
  BY <1>1 DEF DispatcherWoken
<1>8. CloserWaits'
  BY <1>2, <1>4 DEF PipelineInv, Turns, CloserWaits, Waiting
<1>9. ClosePasses'
  <2>1. /\ before <= published
        /\ phase \in {"second", "closed"} => ~ EarlyOnBus
        /\ phase = "closed" => ~ EarlyWithWriter
    BY DEF PipelineInv, ClosePasses
  <2>2. ~ EarlyOnBus'
    BY <1>1 DEF EarlyOnBus, OnBus
  <2>3. phase' = "closed" => ~ EarlyWithWriter'
    BY <1>1, <1>2, <2>1 DEF EarlyWithWriter, EarlyOnBus, OnBus
  <2>4. before' <= published'
    BY <1>2, <2>1
  <2> QED
    BY <2>2, <2>3, <2>4 DEF ClosePasses
<1>10. DaemonsLeft'
  BY <1>2, <1>4 DEF PipelineInv, Turns, DaemonsLeft
<1> QED
  BY <1>1, <1>5, <1>6, <1>7, <1>8, <1>9, <1>10 DEF PipelineInv, Turns, DataInv

\* The fiber that calls close, a host that goes on as its fiber included.
LEMMA CloseBegins ==
    ASSUME PipelineInv, CloseStarts
    PROVE  PipelineInv'
<1>1. PICK f \in Closers : Turn(f)
  BY DEF CloseStarts
<1>2. /\ f \in Fibers /\ f # "dispatcher" /\ "closer" \in Fibers
      /\ f \in Publisher \/ f = "closer"
      /\ f # "closer" => "closer" \notin ToSet(ready)
  BY PipelineAssumption DEF Closers, Fibers, Waiting
<1>3. DataInv /\ ready \in Seq(Fibers) /\ OneTurnEach(ready)
  BY DEF PipelineInv, PipelineType, DataInv, Turns
<1>4. f \in ToSet(ready)
  BY <1>1, <1>2, <1>3, TurnTaken
<1>5. ~ torn /\ phase = "open"
  <2>1. phase = "open" /\ torn \in BOOLEAN
    BY DEF CloseStarts, PipelineInv, PipelineType
  <2> QED
    BY <1>2, <1>4, <2>1 DEF PipelineInv, Turns, CloserWaits, DaemonsLeft, Waiting
<1>6. before \in Nat /\ published \in Nat
  BY <1>3 DEF PipelineInv, PipelineType, DataType
<1>7. PICK n \in 0 .. MaxBurst :
         Publish(n) /\ ready' = Append(Wait \o Woken(n), "closer")
  BY DEF CloseStarts, LetOthersRun
<1>8. n \in Nat
  BY PipelineAssumption
<1>9. /\ before' = published' /\ phase' = "first"
      /\ UNCHANGED << pending, running, drain, table, lost, torn >>
  BY DEF CloseStarts, writer, sinks
<1>10. /\ DataInv' /\ published' = published + n
       /\ ~ torn /\ hand' \o buffer' # << >> => "dispatcher" \in ToSet(Wait \o Woken(n))
  BY <1>1, <1>2, <1>7, <1>8, <1>9, DispatcherStaysWoken
<1>11. /\ Wait \o Woken(n) \in Seq(Fibers) /\ OneTurnEach(Wait \o Woken(n))
       /\ ToSet(Wait \o Woken(n)) \subseteq (ToSet(ready) \ {f}) \cup {"dispatcher"}
  BY <1>1, <1>2, <1>8, Awakened
<1>12. "closer" \notin ToSet(Wait \o Woken(n))
  BY <1>2, <1>11
<1>13. /\ ready' \in Seq(Fibers) /\ OneTurnEach(ready')
       /\ ToSet(ready') = ToSet(Wait \o Woken(n)) \cup {"closer"}
       /\ "dispatcher" \in ToSet(Wait \o Woken(n)) => DispatchedFirst(ready')
  BY <1>2, <1>7, <1>11, <1>12, Queued
<1>14. PipelineType'
  BY <1>9, <1>10, <1>13 DEF PipelineInv, PipelineType, DataInv, DataType
<1>15. DispatcherWoken' /\ CloserWaits' /\ DaemonsLeft'
  BY <1>5, <1>9, <1>10, <1>13 DEF DispatcherWoken, CloserWaits, DaemonsLeft, Waiting
<1>16. ClosePasses'
  <2>1. EarlyOnBus' => hand' \o buffer' # << >>
    BY DEF EarlyOnBus, ToSet
  <2>2. EarlyOnBus' => DispatchedFirst(ready')
    BY <1>5, <1>10, <1>13, <2>1
  <2>3. before' \in Nat /\ before' <= published'
    BY <1>6, <1>8, <1>9, <1>10
  <2> QED
    BY <1>9, <2>2, <2>3 DEF ClosePasses
<1>17. OneTurnEach(ready)'
  BY <1>13
<1> QED
  BY <1>10, <1>14, <1>15, <1>16, <1>17 DEF PipelineInv, Turns, DataInv

\* Close has two more turns, then none.
LEMMA CloserTurns ==
    ASSUME PipelineInv, CloseYields \/ CloseEnds
    PROVE  PipelineInv'
<1>0. "closer" \in Fibers /\ Turn("closer")
  BY DEF Fibers, CloseYields, CloseEnds
<1>1. DataInv /\ ready \in Seq(Fibers) /\ OneTurnEach(ready)
  BY DEF PipelineInv, PipelineType, DataInv, Turns
<1>2. /\ Wait \in Seq(Fibers) /\ OneTurnEach(Wait)
      /\ ToSet(Wait) = ToSet(ready) \ {"closer"} /\ "closer" \in ToSet(ready)
      /\ ~ DispatchedFirst(ready)
  BY <1>0, <1>1, TurnTaken
<1>3. ~ torn /\ phase # "closed"
  BY <1>2 DEF PipelineInv, Turns, CloserWaits, Waiting
<1>4. /\ before \in Nat /\ published \in Nat /\ before <= published
      /\ phase = "first" => ~ EarlyOnBus
      /\ phase \in {"second", "closed"} => ~ EarlyOnBus
      /\ phase = "closed" => ~ EarlyWithWriter
  BY <1>2 DEF PipelineInv, PipelineType, DataType, ClosePasses
<1>5. DispatcherWoken
  BY DEF PipelineInv, Turns
<1>7. CASE CloseYields
  <2>1. /\ phase = "first" /\ phase' = "second" /\ ready' = Append(Wait, "closer")
        /\ UNCHANGED << bus, pending, running, drain, sinks, letters, before, torn >>
    BY <1>7 DEF CloseYields, LetOthersRun, writer
  <2>2. DataInv' /\ OnBus' = OnBus /\ hand' \o buffer' = hand \o buffer /\ pending' = pending
    BY <1>1, <2>1, DataUntouched
  <2>3. /\ ready' \in Seq(Fibers) /\ OneTurnEach(ready')
        /\ ToSet(ready') = ToSet(ready)
    <3>1. "closer" \notin ToSet(Wait)
      BY <1>2
    <3>2. /\ Append(Wait, "closer") \in Seq(Fibers) /\ OneTurnEach(Append(Wait, "closer"))
          /\ ToSet(Append(Wait, "closer")) = ToSet(Wait) \cup {"closer"}
      BY <1>0, <1>2, <3>1, Queued
    <3>3. ready' = Append(Wait, "closer")
      BY <2>1
    <3> QED
      BY <1>2, <3>2, <3>3
  <2>4. PipelineType'
    BY <2>1, <2>2, <2>3 DEF PipelineInv, PipelineType, DataInv
  <2>5. DispatcherWoken' /\ CloserWaits' /\ DaemonsLeft'
    BY <1>2, <1>3, <1>5, <2>1, <2>2, <2>3 DEF DispatcherWoken, CloserWaits, DaemonsLeft, Waiting
  <2>6. ClosePasses'
    <3>1. ~ EarlyOnBus'
      BY <1>4, <2>1, <2>2 DEF EarlyOnBus, OnBus
    <3>2. before' <= published' /\ phase' = "second"
      BY <1>4, <2>1 DEF bus
    <3> QED
      BY <3>1, <3>2 DEF ClosePasses
  <2>7. OneTurnEach(ready)'
    BY <2>3
  <2> QED
    BY <2>2, <2>4, <2>5, <2>6, <2>7 DEF PipelineInv, Turns, DataInv
<1>8. CASE CloseEnds
  <2>1. /\ phase = "second" /\ phase' = "closed" /\ ready' = Wait /\ running' = FALSE
        /\ Flush /\ UNCHANGED << bus, drain, letters, before, torn >>
    BY <1>8 DEF CloseEnds
  <2>2. DataInv' /\ OnBus' = OnBus /\ ToSet(pending') = {}
    BY <1>1, <2>1, FlushKeepsData
  <2>3. PipelineType'
    BY <1>2, <2>1, <2>2 DEF PipelineInv, PipelineType, DataInv
  <2>4. DispatcherWoken' /\ CloserWaits' /\ DaemonsLeft'
    BY <1>2, <1>5, <2>1 DEF DispatcherWoken, CloserWaits, DaemonsLeft, Waiting, bus
  <2>5. ClosePasses'
    <3>1. ~ EarlyOnBus' /\ ~ EarlyWithWriter'
      BY <1>4, <2>1, <2>2 DEF EarlyOnBus, EarlyWithWriter, OnBus
    <3>2. before' <= published' /\ phase' = "closed"
      BY <1>4, <2>1 DEF bus
    <3> QED
      BY <3>1, <3>2 DEF ClosePasses
  <2>6. OneTurnEach(ready)'
    BY <1>2, <2>1
  <2> QED
    BY <2>2, <2>3, <2>4, <2>5, <2>6 DEF PipelineInv, Turns, DataInv
<1> QED
  BY <1>7, <1>8

LEMMA DrainTurns ==
    ASSUME PipelineInv, DrainYields \/ DrainTurn \/ DrainCancelled
    PROVE  PipelineInv'
<1>0. "drain" \in Fibers /\ Turn("drain")
  BY DEF Fibers, DrainYields, DrainTurn, DrainCancelled
<1>1. DataInv /\ ready \in Seq(Fibers) /\ OneTurnEach(ready)
  BY DEF PipelineInv, PipelineType, DataInv, Turns
<1>2. /\ Wait \in Seq(Fibers) /\ OneTurnEach(Wait)
      /\ ToSet(Wait) = ToSet(ready) \ {"drain"} /\ "drain" \in ToSet(ready)
      /\ DispatchedFirst(ready) => DispatchedFirst(Wait)
  BY <1>0, <1>1, TurnTaken
<1>3. /\ Append(Wait, "drain") \in Seq(Fibers) /\ OneTurnEach(Append(Wait, "drain"))
      /\ ToSet(Append(Wait, "drain")) = ToSet(ready)
      /\ DispatchedFirst(ready) => DispatchedFirst(Append(Wait, "drain"))
  <2>1. "drain" \notin ToSet(Wait)
    BY <1>2
  <2>2. /\ Append(Wait, "drain") \in Seq(Fibers) /\ OneTurnEach(Append(Wait, "drain"))
        /\ ToSet(Append(Wait, "drain")) = ToSet(Wait) \cup {"drain"}
        /\ DispatchedFirst(Wait) => DispatchedFirst(Append(Wait, "drain"))
    BY <1>0, <1>2, <2>1, Queued
  <2> QED
    BY <1>2, <2>2
<1>4. Yield = Append(Wait, "drain")
  BY <1>0 DEF Yield, Wait, Turn
<1>5. ready' \in {Wait, Append(Wait, "drain")}
  BY <1>4 DEF DrainYields, DrainTurn, DrainCancelled
<1>6. /\ ready' \in Seq(Fibers) /\ OneTurnEach(ready')
      /\ ToSet(ready) \ {"drain"} \subseteq ToSet(ready')
      /\ ToSet(ready') \subseteq ToSet(ready)
      /\ DispatchedFirst(ready) => DispatchedFirst(ready')
  <2>1. CASE ready' = Wait
    BY <1>2, <2>1
  <2>2. CASE ready' = Append(Wait, "drain")
    BY <1>3, <2>2
  <2> QED
    BY <1>5, <2>1, <2>2
<1>7. /\ UNCHANGED << bus, letters, closing >>
      /\ drain' \in {"first", "second", "stopped"} /\ running' \in BOOLEAN /\ torn' \in BOOLEAN
      /\ torn => torn'
      /\ torn' => torn \/ phase = "closed"
  <2>1. drain \in {"first", "second", "stopped"} /\ running \in BOOLEAN /\ torn \in BOOLEAN
    BY DEF PipelineInv, PipelineType
  <2>2. CASE DrainYields
    BY <2>1, <2>2 DEF DrainYields
  <2>3. CASE DrainTurn
    BY <2>1, <2>3 DEF DrainTurn, Raises
  <2>4. CASE DrainCancelled
    BY <2>1, <2>4 DEF DrainCancelled
  <2> QED
    BY <2>2, <2>3, <2>4
<1>8. DataInv' /\ OnBus' = OnBus /\ (pending' = pending \/ ToSet(pending') = {})
  <2>1. CASE Flush
    BY <1>1, <1>7, <2>1, FlushKeepsData
  <2>2. CASE UNCHANGED << pending, sinks >>
    BY <1>1, <1>7, <2>2, DataUntouched
  <2> QED
    BY <2>1, <2>2 DEF DrainYields, DrainTurn, DrainCancelled
<1>9. /\ phase' = phase /\ before' = before /\ published' = published
      /\ hand' = hand /\ buffer' = buffer
  BY <1>7 DEF bus, closing
<1>10. PipelineType'
  BY <1>6, <1>7, <1>8, <1>9 DEF PipelineInv, PipelineType, DataInv
<1>11. DispatcherWoken'
  BY <1>6, <1>7, <1>9 DEF PipelineInv, Turns, DispatcherWoken, Waiting
<1>12. CloserWaits'
  BY <1>6, <1>7, <1>9 DEF PipelineInv, Turns, CloserWaits, Waiting
<1>13. ClosePasses'
  <2>1. /\ before <= published
        /\ phase = "first" /\ EarlyOnBus => DispatchedFirst(ready)
        /\ phase \in {"second", "closed"} => ~ EarlyOnBus
        /\ phase = "closed" => ~ EarlyWithWriter
    BY DEF PipelineInv, ClosePasses
  <2>2. EarlyOnBus' <=> EarlyOnBus
    BY <1>8, <1>9 DEF EarlyOnBus, OnBus
  <2>3. EarlyWithWriter' => EarlyWithWriter
    BY <1>8, <1>9 DEF EarlyWithWriter
  <2> QED
    BY <1>6, <1>9, <2>1, <2>2, <2>3 DEF ClosePasses
<1>14. OneTurnEach(ready)'
  BY <1>6
<1>15. DaemonsLeft'
  BY <1>6, <1>7, <1>9 DEF PipelineInv, Turns, DaemonsLeft
<1> QED
  BY <1>8, <1>10, <1>11, <1>12, <1>13, <1>14, <1>15 DEF PipelineInv, Turns, DataInv

\* Steps that are nobody's turn.
LEMMA OutsideTurns ==
    ASSUME PipelineInv,
           \/ Teardown \/ WorkComes \/ UNCHANGED vars
           \/ \E f \in Publisher \cup {"closer"} : Wake(f)
    PROVE  PipelineInv'
<1>1. DataInv /\ ready \in Seq(Fibers) /\ OneTurnEach(ready)
  BY DEF PipelineInv, PipelineType, DataInv, Turns
<1>2. UNCHANGED << bus, writer, sinks, letters, closing >>
  BY DEF Teardown, WorkComes, Wake, vars
<1>3. /\ UNCHANGED << hand, buffer, pending, phase, before, published, drain, running >>
      /\ UNCHANGED << bus, pending, sinks, letters >>
  BY <1>2 DEF bus, writer, closing
<1>4. DataInv' /\ OnBus' = OnBus
  BY <1>1, <1>3, DataUntouched
<1>5. /\ before <= published
      /\ phase = "first" /\ EarlyOnBus => DispatchedFirst(ready)
      /\ phase \in {"second", "closed"} => ~ EarlyOnBus
      /\ phase = "closed" => ~ EarlyWithWriter
  BY DEF PipelineInv, ClosePasses
<1>6. (EarlyOnBus' <=> EarlyOnBus) /\ (EarlyWithWriter' <=> EarlyWithWriter)
  BY <1>3 DEF EarlyOnBus, EarlyWithWriter
<1>7. CASE Teardown
  <2>1. ready' = ready /\ torn' = TRUE /\ ToSet(ready) \subseteq {"dispatcher", "drain"}
    BY <1>7 DEF Teardown
  <2>2. PipelineType'
    BY <1>3, <1>4, <2>1 DEF PipelineInv, PipelineType, DataInv
  <2>3. OneTurnEach(ready)' /\ DispatcherWoken'
    BY <1>1, <2>1 DEF OneTurnEach, DispatcherWoken
  <2>4. CloserWaits'
    BY <1>3, <2>1 DEF PipelineInv, Turns, CloserWaits, Waiting
  <2>5. ClosePasses'
    BY <1>3, <1>5, <1>6, <2>1 DEF ClosePasses, DispatchedFirst
  <2>6. DaemonsLeft'
    BY <2>1, PipelineAssumption DEF DaemonsLeft
  <2> QED
    BY <1>4, <2>2, <2>3, <2>4, <2>5, <2>6 DEF PipelineInv, Turns, DataInv
<1>8. CASE \E f \in Publisher \cup {"closer"} : Wake(f)
  <2>1. PICK f \in Publisher \cup {"closer"} : Wake(f)
    BY <1>8
  <2>2. /\ f \in Fibers /\ f # "dispatcher" /\ f \notin ToSet(ready)
        /\ ready' = Append(ready, f) /\ ~ torn /\ torn' = torn
        /\ f = "closer" => phase = "open"
    BY <2>1, PipelineAssumption DEF Wake, Waiting, Fibers
  <2>3. /\ ready' \in Seq(Fibers) /\ OneTurnEach(ready')
        /\ ToSet(ready') = ToSet(ready) \cup {f}
        /\ DispatchedFirst(ready) => DispatchedFirst(ready')
    BY <1>1, <2>2, Queued
  <2>4. PipelineType'
    BY <1>3, <1>4, <2>2, <2>3 DEF PipelineInv, PipelineType, DataInv
  <2>5. DispatcherWoken'
    BY <1>3, <2>2, <2>3 DEF PipelineInv, Turns, DispatcherWoken, Waiting
  <2>6. CloserWaits'
    BY <1>3, <2>2, <2>3 DEF PipelineInv, Turns, CloserWaits, Waiting
  <2>7. ClosePasses'
    BY <1>3, <1>5, <1>6, <2>3 DEF ClosePasses
  <2>8. OneTurnEach(ready)'
    BY <2>3
  <2>9. DaemonsLeft'
    BY <2>2 DEF DaemonsLeft
  <2> QED
    BY <1>4, <2>4, <2>5, <2>6, <2>7, <2>8, <2>9 DEF PipelineInv, Turns, DataInv
<1>9. CASE WorkComes \/ UNCHANGED vars
  <2>1. ready' = ready /\ torn' = torn
    BY <1>9 DEF WorkComes, vars
  <2>2. PipelineType'
    BY <1>3, <1>4, <2>1 DEF PipelineInv, PipelineType, DataInv
  <2>3. OneTurnEach(ready)' /\ DispatcherWoken' /\ CloserWaits' /\ DaemonsLeft'
    BY <1>3, <2>1 DEF PipelineInv, Turns, OneTurnEach, DispatcherWoken, CloserWaits,
                      DaemonsLeft, Waiting
  <2>4. ClosePasses'
    BY <1>3, <1>5, <1>6, <2>1 DEF ClosePasses, DispatchedFirst
  <2> QED
    BY <1>4, <2>2, <2>3, <2>4 DEF PipelineInv, Turns, DataInv
<1> QED
  BY <1>7, <1>8, <1>9

LEMMA PipelineStarts == Init => PipelineInv
<1> SUFFICES ASSUME Init PROVE PipelineInv
  OBVIOUS
<1> USE DEF Init
<1>1. << >> \in Seq(Nat) /\ Len(<< >>) = 0 /\ << >> \o << >> = << >>
  BY EmptySeq, ConcatEmptySeq
<1>2. /\ ready \in Seq(Fibers) /\ OneTurnEach(ready)
      /\ ToSet(ready) \subseteq Host \cup {"drain"}
  <2>1. CASE ready = << "drain" >>
    BY <2>1 DEF Fibers, OneTurnEach, ToSet
  <2>2. CASE ready \in {<< h, "drain" >> : h \in Host}
    <3>1. PICK h \in Host : ready = << h, "drain" >>
      BY <2>2
    <3>2. h \in Publisher /\ h # "drain"
      BY PipelineAssumption
    <3> QED
      BY <3>1, <3>2 DEF Fibers, OneTurnEach, ToSet
  <2> QED
    BY <2>1, <2>2
<1>3. ToSet(<< >>) = {} /\ Ordered(<< >>)
  BY DEF ToSet, Ordered
<1>4. PipelineType /\ DataType
  BY <1>1, <1>2 DEF PipelineType, DataType
<1>5. WithinCapacity
  BY <1>1, PipelineAssumption DEF WithinCapacity
<1>6. Turns
  BY <1>1, <1>2, PipelineAssumption
     DEF Turns, DispatcherWoken, CloserWaits, DaemonsLeft, Waiting
<1>7. ClosePasses
  BY DEF ClosePasses
<1>8. Placed
  <2>1. /\ ToSet(table) = {} /\ ToSet(pending) = {} /\ ToSet(hand \o buffer) = {}
        /\ Ordered(table) /\ Ordered(pending) /\ Ordered(hand \o buffer)
        /\ ToSet(dead) = {} /\ 1 .. published = {}
    BY <1>1, <1>3
  <2>2. Below({}, {})
    BY DEF Below
  <2> QED
    BY <1>4, <2>1, <2>2, PlacedParts
<1> QED
  BY <1>4, <1>5, <1>6, <1>7, <1>8 DEF PipelineInv

\* The invariant holds: buffers within their capacities, each fiber at most
\* once in the run queue, the dispatcher in it while the stream holds
\* something, close in it while it yields, and each event in one place.
THEOREM PipelineInvariant == Spec => []PipelineInv
<1>1. ASSUME PipelineInv, [Next]_vars PROVE PipelineInv'
  <2>1. Host \subseteq Publisher
    BY PipelineAssumption
  <2> QED
    BY <1>1, <2>1, PublisherTurns, DispatcherTurns, DrainTurns, CloseBegins, CloserTurns,
       OutsideTurns DEF Next, TakeTurn
<1> QED
  BY <1>1, PipelineStarts, PTL DEF Spec

---------------------------------------------------------------------------
(* Theorems                                                                *)

LEMMA CountOfOrdered ==
    ASSUME NEW s \in Seq(Nat), Ordered(s)
    PROVE  IsFiniteSet(ToSet(s)) /\ Cardinality(ToSet(s)) = Len(s)
<1>1. Len(s) \in Nat /\ s \in [1 .. Len(s) -> Nat]
  OBVIOUS
<1>2. s \in Bijection(1 .. Len(s), ToSet(s))
  <2>1. s \in [1 .. Len(s) -> ToSet(s)] /\ \A y \in ToSet(s) : \E i \in 1 .. Len(s) : s[i] = y
    BY <1>1 DEF ToSet
  <2>2. ASSUME NEW i \in 1 .. Len(s), NEW j \in 1 .. Len(s), s[i] = s[j] PROVE i = j
    <3>1. s[i] \in Nat /\ s[j] \in Nat
      BY <1>1
    <3> QED
      BY <1>1, <2>2, <3>1 DEF Ordered
  <2> QED
    BY <2>1, <2>2 DEF Bijection, Injection, Surjection, IsInjective
<1>3. IsFiniteSet(1 .. Len(s)) /\ Cardinality(1 .. Len(s)) = Len(s)
  <2>1. 1 \in Int /\ Len(s) \in Int
    BY <1>1
  <2>2. /\ IsFiniteSet(1 .. Len(s))
        /\ Cardinality(1 .. Len(s)) = IF 1 > Len(s) THEN 0 ELSE Len(s) - 1 + 1
    BY <2>1, FS_Interval
  <2> QED
    BY <1>1, <2>2
<1> QED
  BY <1>2, <1>3, FS_Bijection DEF ExistsBijection

\* The table events holds the events in the order of their publication, none
\* of them twice: whatever was dropped on the way, whichever inserts failed
\* and whoever flushed, the drain fiber, close or a cancellation
\* (event_bus.ml, event_persistence.ml, Runtime.close).
THEOREM EventsSavedInOrder == Spec => []SavedOnceInOrder
<1>1. PipelineInv => SavedOnceInOrder
  <2>1. PipelineInv => Ordered(table)
    BY PlacedParts DEF PipelineInv, PipelineType
  <2> QED
    BY <2>1 DEF Ordered, SavedOnceInOrder
<1> QED
  BY <1>1, PipelineInvariant, PTL

\* Every event published is in exactly one place: in the bus, in the
\* writer's buffer, in the table, among the dead letters counted, or lost
\* with a failed insert that was logged.  Nothing disappears between the
\* stream, push with its overflow_fn and grab_pending.
THEOREM EventsAccountedFor == Spec => []EverywhereOnce
<1>1. ASSUME PipelineInv PROVE EverywhereOnce
  <2>1. /\ Line \in Seq(Nat) /\ Ordered(Line)
        /\ ToSet(Line) \cup buried \cup lost = 1 .. published
        /\ ToSet(Line) \cap buried = {} /\ ToSet(Line) \cap lost = {}
        /\ buried \cap lost = {} /\ ToSet(dead) \subseteq buried
        /\ published \in Nat
    BY <1>1, LineParts DEF PipelineInv, PipelineType, DataType, Placed, Line
  <2>2. Line = table \o pending \o hand \o buffer
    BY DEF Line
  <2> HIDE DEF Line
  <2>3. IsFiniteSet(ToSet(Line)) /\ Cardinality(ToSet(Line)) = Len(Line)
    BY <2>1, CountOfOrdered
  <2>4. /\ IsFiniteSet(1 .. published) /\ Cardinality(1 .. published) = published
    BY <2>1, FS_Interval
  <2>5. IsFiniteSet(buried) /\ IsFiniteSet(lost)
    <3>1. buried \subseteq 1 .. published /\ lost \subseteq 1 .. published
      BY <2>1
    <3> QED
      BY <2>4, <3>1, FS_Subset
  <2>6. /\ IsFiniteSet(buried \cup lost)
        /\ Cardinality(buried \cup lost) = Cardinality(buried) + Cardinality(lost)
    <3>1. /\ IsFiniteSet(buried \cup lost)
          /\ Cardinality(buried \cup lost)
                = Cardinality(buried) + Cardinality(lost) - Cardinality(buried \cap lost)
      BY <2>5, FS_Union
    <3>2. Cardinality(buried \cap lost) = 0
      BY <2>1, FS_EmptySet
    <3>3. Cardinality(buried) \in Nat /\ Cardinality(lost) \in Nat
      BY <2>5, FS_CardinalityType
    <3> QED
      BY <3>1, <3>2, <3>3
  <2>7. Cardinality(ToSet(Line) \cup (buried \cup lost))
            = Cardinality(ToSet(Line)) + Cardinality(buried \cup lost)
    <3>1. Cardinality(ToSet(Line) \cup (buried \cup lost))
            = Cardinality(ToSet(Line)) + Cardinality(buried \cup lost)
                - Cardinality(ToSet(Line) \cap (buried \cup lost))
      BY <2>3, <2>6, FS_Union
    <3>2. ToSet(Line) \cap (buried \cup lost) = {}
      BY <2>1
    <3>3. Cardinality(ToSet(Line) \cap (buried \cup lost)) = 0
      BY <3>2, FS_EmptySet
    <3>4. Cardinality(ToSet(Line)) \in Nat /\ Cardinality(buried \cup lost) \in Nat
      BY <2>3, <2>6, FS_CardinalityType
    <3> QED
      BY <3>1, <3>3, <3>4
  <2>8. ToSet(Line) \cup (buried \cup lost) = 1 .. published
    BY <2>1
  <2>9. Len(Line) \in Nat /\ Cardinality(buried) \in Nat /\ Cardinality(lost) \in Nat
    BY <2>1, <2>5, FS_CardinalityType, LenProperties
  <2>10. Len(Line) + Cardinality(buried) + Cardinality(lost) = published
    <3>1. Cardinality(1 .. published) = Len(Line) + (Cardinality(buried) + Cardinality(lost))
      BY <2>3, <2>6, <2>7, <2>8
    <3> QED
      BY <2>4, <2>9, <3>1
  <2> QED
    BY <2>1, <2>2, <2>10 DEF EverywhereOnce
<1> QED
  BY <1>1, PipelineInvariant, PTL

\* When close returns, every event published before it first yielded has
\* been written or is accounted for: its two yields let the dispatcher empty
\* the stream, whatever the publishers do, before the last flush
\* (Runtime.close).
THEOREM CloseLosesNothing == Spec => []CleanClose
<1>1. ASSUME PipelineInv PROVE CleanClose
  <2>1. SUFFICES ASSUME phase = "closed", NEW e \in 1 .. before
                 PROVE  e \in ToSet(table) \cup buried \cup lost
    BY DEF CleanClose
  <2>2. /\ before \in Nat /\ published \in Nat /\ before <= published
        /\ ~ EarlyOnBus /\ ~ EarlyWithWriter
    BY <1>1, <2>1 DEF PipelineInv, PipelineType, DataType, ClosePasses
  <2>3. ToSet(table) \cup ToSet(pending) \cup ToSet(hand \o buffer)
           \cup buried \cup lost = 1 .. published
    BY <1>1, PlacedParts DEF PipelineInv, PipelineType
  <2>4. e \in 1 .. published /\ e <= before
    BY <2>2
  <2>5. e \notin ToSet(pending) /\ e \notin ToSet(hand \o buffer)
    BY <2>2, <2>4 DEF EarlyOnBus, EarlyWithWriter
  <2> QED
    BY <2>3, <2>4, <2>5
<1> QED
  BY <1>1, PipelineInvariant, PTL
=============================================================================
