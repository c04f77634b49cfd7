-------------------------- MODULE AgentLoopProofs --------------------------
(***************************************************************************)
(* Theorems about AgentLoop for every set of agents, every quota, every    *)
(* capacity of the steering queue and every choice of the model, the       *)
(* tools, the approver and the compactions.                                *)
(***************************************************************************)
EXTENDS AgentLoop, ConversationLemmas, SequenceTheorems

---------------------------------------------------------------------------
(* The steering queue                                                      *)

\* The queue holds the last messages sent, each told one was sent before
\* those, and only a full queue's oldest message is missing.
SteeringInv ==
    /\ sent \in Nat /\ steering \in Seq(Nat) /\ told \in Seq(Nat)
    /\ Len(steering) <= Capacity /\ Len(steering) <= sent
    /\ \A k \in DOMAIN steering : steering[k] = sent - Len(steering) + k
    /\ \A j, k \in DOMAIN told : j < k => told[j] < told[k]
    /\ \A k \in DOMAIN told : told[k] \in 1 .. sent - Len(steering)
    /\ \A n \in 1 .. sent - Len(steering) : n \in ToSet(told) \/ n + Capacity <= sent

LEMMA LargerOf ==
    ASSUME NEW a \in Int, NEW b \in Int
    PROVE  Max({a, b}) = IF a >= b THEN a ELSE b
BY DEF Max

\* What a step does to the queue.
SteeringStep ==
    \/ Steer
    \/ sent' = 0 /\ steering' = << >> /\ told' = << >>
    \/ sent' = sent /\ told' = told \o steering /\ steering' = << >>
    \/ sent' = sent /\ told' = told /\ steering' = steering

LEMMA NextSteeringStep == [Next]_vars => SteeringStep
<1> SUFFICES ASSUME [Next]_vars PROVE SteeringStep
  OBVIOUS
<1> USE DEF course, batch
<1>1. CASE Invoke
  BY <1>1 DEF Invoke, SteeringStep
<1>2. CASE Steer
  BY <1>2 DEF SteeringStep
<1>3. CASE FollowUp \/ RequestCancel
  BY <1>3 DEF FollowUp, RequestCancel, SteeringStep
<1>4. CASE TimeUp \/ GiveUp \/ AskToClose
  BY <1>4 DEF TimeUp, GiveUp, AskToClose, SteeringStep, Return
<1>5. CASE Close \/ LoopTop \/ Request
  BY <1>5 DEF Close, LoopTop, Request, SteeringStep, Return
<1>6. CASE LLMFails \/ StreamCancelled
  BY <1>6 DEF LLMFails, StreamCancelled, SteeringStep, Return, ContinueLoop, Drain
<1>7. CASE ContextExceeded
  BY <1>7 DEF ContextExceeded, SteeringStep, Return, ContinueLoop, Drain
<1>8. CASE ReplyCalls \/ ReplyAnswer
  BY <1>8 DEF ReplyCalls, ReplyAnswer, SteeringStep, Return
<1>9. CASE ReplyTruncated
  BY <1>9 DEF ReplyTruncated, SteeringStep, Return, ContinueLoop, Drain
<1>10. CASE ReplyContinue \/ Chunk
  BY <1>10 DEF ReplyContinue, Chunk, SteeringStep, Return, EndContinue, AskToContinue
<1>11. CASE \E i \in DOMAIN task : Dispatch(i) \/ ToolReturns(i)
  BY <1>11 DEF Dispatch, ToolReturns, SteeringStep
<1>12. CASE BatchDone \/ BatchRefused
  BY <1>12 DEF BatchDone, BatchRefused, SteeringStep, Return, ContinueLoop, Drain
<1>13. CASE BatchHandsOff
  BY <1>13 DEF BatchHandsOff, HandoffFails, HandOff, HandTask, SteeringStep, Return, Drain
<1>14. CASE BatchSuspends \/ AskApprover
  BY <1>14 DEF BatchSuspends, AskApprover, SteeringStep, Return
<1>15. CASE ApproverDecides \/ ModifiedDone
  BY <1>15 DEF ApproverDecides, ModifiedDone, ContinueAfterApproval, ContinueLoop,
               Drain, SteeringStep
<1>16. CASE ApproverEscalates \/ ApproverModifies
  BY <1>16 DEF ApproverEscalates, ApproverModifies, HandoffFails, HandOff, Return,
               Drain, SteeringStep
<1>17. CASE UNCHANGED vars
  BY <1>17 DEF vars, SteeringStep
<1> QED
  BY <1>1, <1>2, <1>3, <1>4, <1>5, <1>6, <1>7, <1>8, <1>9, <1>10, <1>11, <1>12,
     <1>13, <1>14, <1>15, <1>16, <1>17 DEF Next, Progress

\* A push appends the message, at the cost of the oldest if the queue is full.
LEMMA PushKeepsLast ==
    ASSUME NEW q \in Seq(Nat), NEW m \in Nat, Len(q) <= Capacity
    PROVE  LET cut == IF Len(q) = Capacity THEN 1 ELSE 0
           IN  /\ Push(q, m) \in Seq(Nat) /\ Len(Push(q, m)) = Len(q) + 1 - cut
               /\ \A k \in 1 .. Len(q) - cut : Push(q, m)[k] = q[k + cut]
               /\ Push(q, m)[Len(q) + 1 - cut] = m
<1> DEFINE cut == IF Len(q) = Capacity THEN 1 ELSE 0
           all == Append(q, m)
<1>1. Capacity \in Nat \ {0} /\ Len(q) \in Nat
  BY LoopAssumption
<1>2. /\ all \in Seq(Nat) /\ Len(all) = Len(q) + 1
      /\ \A k \in 1 .. Len(q) : all[k] = q[k]
      /\ all[Len(q) + 1] = m
  OBVIOUS
<1> HIDE DEF all
<1>3. Max({1, Len(all) - Capacity + 1}) = cut + 1
  <2>1. Len(all) - Capacity + 1 \in Int
    BY <1>1, <1>2
  <2>2. Max({1, Len(all) - Capacity + 1})
            = IF 1 >= Len(all) - Capacity + 1 THEN 1 ELSE Len(all) - Capacity + 1
    BY <2>1, LargerOf
  <2> QED
    BY <1>1, <1>2, <2>2
<1>4. Push(q, m) = SubSeq(all, cut + 1, Len(all))
  BY <1>3 DEF Push, all
<1>5. cut \in {0, 1} /\ cut <= Len(q)
  BY <1>1
<1> HIDE DEF cut
<1>6. /\ SubSeq(all, cut + 1, Len(all)) \in Seq(Nat)
      /\ Len(SubSeq(all, cut + 1, Len(all))) = Len(q) + 1 - cut
      /\ \A k \in 1 .. Len(q) + 1 - cut : SubSeq(all, cut + 1, Len(all))[k] = all[k + cut]
  BY <1>1, <1>2, <1>5
<1>7. \A k \in 1 .. Len(q) - cut : k \in 1 .. Len(q) + 1 - cut /\ k + cut \in 1 .. Len(q)
  BY <1>1, <1>5
<1>8. /\ Len(q) + 1 - cut \in 1 .. Len(q) + 1 - cut
      /\ (Len(q) + 1 - cut) + cut = Len(q) + 1
  BY <1>1, <1>5
<1>9. \A k \in 1 .. Len(q) - cut : Push(q, m)[k] = q[k + cut]
  BY <1>2, <1>4, <1>6, <1>7
<1>10. Push(q, m)[Len(q) + 1 - cut] = m
  BY <1>2, <1>4, <1>6, <1>8
<1> QED
  BY <1>4, <1>6, <1>9, <1>10 DEF cut

LEMMA SteeringKept ==
    ASSUME SteeringInv, SteeringStep
    PROVE  SteeringInv'
<1>1. /\ sent \in Nat /\ steering \in Seq(Nat) /\ told \in Seq(Nat)
      /\ Len(steering) \in Nat /\ Len(steering) <= Capacity /\ Len(steering) <= sent
      /\ \A k \in 1 .. Len(steering) : steering[k] = sent - Len(steering) + k
      /\ \A j, k \in DOMAIN told : j < k => told[j] < told[k]
      /\ \A k \in DOMAIN told : told[k] \in 1 .. sent - Len(steering)
      /\ \A n \in 1 .. sent - Len(steering) : n \in ToSet(told) \/ n + Capacity <= sent
      /\ Capacity \in Nat \ {0}
  BY LoopAssumption DEF SteeringInv
<1>2. CASE Steer
  <2>1. sent' = sent + 1 /\ told' = told /\ steering' = Push(steering, sent + 1)
    BY <1>2 DEF Steer
  <2>2. PICK cut \in {0, 1} :
           /\ cut = 1 <=> Len(steering) = Capacity
           /\ steering' \in Seq(Nat) /\ Len(steering') = Len(steering) + 1 - cut
           /\ \A k \in 1 .. Len(steering) - cut : steering'[k] = steering[k + cut]
           /\ steering'[Len(steering) + 1 - cut] = sent + 1
    <3> DEFINE cut == IF Len(steering) = Capacity THEN 1 ELSE 0
               q == Push(steering, sent + 1)
    <3>1. sent + 1 \in Nat
      BY <1>1
    <3>2. /\ q \in Seq(Nat) /\ Len(q) = Len(steering) + 1 - cut
          /\ \A k \in 1 .. Len(steering) - cut : q[k] = steering[k + cut]
          /\ q[Len(steering) + 1 - cut] = sent + 1
      BY <1>1, <3>1, PushKeepsLast
    <3>3. cut \in {0, 1} /\ (cut = 1 <=> Len(steering) = Capacity)
      OBVIOUS
    <3>4. steering' = q
      BY <2>1
    <3> HIDE DEF cut, q
    <3> QED
      BY <3>2, <3>3, <3>4
  <2> DEFINE n0 == Len(steering)
             n1 == Len(steering')
  <2>3. /\ n0 \in Nat /\ n1 = n0 + 1 - cut /\ cut \in {0, 1} /\ (cut = 1 <=> n0 = Capacity)
        /\ n0 <= Capacity /\ n0 <= sent /\ sent \in Nat /\ Capacity \in Nat \ {0}
        /\ sent' = sent + 1
        /\ DOMAIN steering' = 1 .. n1 /\ n1 \in Nat
    BY <1>1, <2>1, <2>2
  <2>4. /\ \A k \in 1 .. n0 - cut : steering'[k] = steering[k + cut]
        /\ steering'[n0 + 1 - cut] = sent + 1
        /\ \A k \in 1 .. n0 : steering[k] = sent - n0 + k
        /\ \A k \in DOMAIN told : told[k] \in 1 .. sent - n0
        /\ \A n \in 1 .. sent - n0 : n \in ToSet(told) \/ n + Capacity <= sent
    BY <1>1, <2>2
  <2> HIDE DEF n0, n1
  <2>5. sent' - n1 = sent - n0 + cut /\ n1 <= Capacity /\ n1 <= sent' /\ sent' \in Nat
    BY <2>3
  <2>6. ASSUME NEW k \in 1 .. n1 PROVE steering'[k] = sent' - n1 + k
    <3>1. CASE k = n0 + 1 - cut
      BY <2>3, <2>4, <3>1
    <3>2. CASE k # n0 + 1 - cut
      <4>1. k \in 1 .. n0 - cut /\ k + cut \in 1 .. n0
        BY <2>3, <3>2
      <4>2. steering'[k] = steering[k + cut] /\ steering[k + cut] = sent - n0 + (k + cut)
        BY <2>4, <4>1
      <4> QED
        BY <2>3, <4>2
    <3> QED
      BY <3>1, <3>2
  <2>7. \A k \in DOMAIN told : told[k] \in 1 .. sent' - n1
    BY <2>3, <2>4, <2>5
  <2>8. ASSUME NEW n \in 1 .. sent' - n1
        PROVE  n \in ToSet(told) \/ n + Capacity <= sent'
    <3>1. CASE n \in 1 .. sent - n0
      BY <2>3, <2>4, <3>1
    <3>2. CASE n \notin 1 .. sent - n0
      <4>1. cut = 1 /\ n = sent - n0 + 1
        BY <2>3, <2>5, <2>8, <3>2
      <4> QED
        BY <2>3, <4>1
    <3> QED
      BY <3>1, <3>2
  <2>9. steering' \in Seq(Nat) /\ told' = told /\ told \in Seq(Nat)
    BY <1>1, <2>1, <2>2
  <2> QED
    BY <1>1, <2>3, <2>5, <2>6, <2>7, <2>8, <2>9 DEF SteeringInv, n1
<1>3. CASE sent' = 0 /\ steering' = << >> /\ told' = << >>
  <2>1. << >> \in Seq(Nat) /\ Len(<< >>) = 0 /\ DOMAIN << >> = {}
    OBVIOUS
  <2> QED
    BY <1>1, <1>3, <2>1 DEF SteeringInv
<1>4. CASE sent' = sent /\ told' = told \o steering /\ steering' = << >>
  <2>1. << >> \in Seq(Nat) /\ Len(<< >>) = 0 /\ DOMAIN << >> = {}
    OBVIOUS
  <2>2. /\ told' \in Seq(Nat) /\ Len(told) \in Nat /\ DOMAIN told = 1 .. Len(told)
        /\ DOMAIN told' = 1 .. Len(told) + Len(steering)
        /\ \A k \in 1 .. Len(told) : told'[k] = told[k]
        /\ \A k \in 1 .. Len(steering) : told'[Len(told) + k] = steering[k]
    BY <1>1, <1>4
  <2>3. ASSUME NEW k \in DOMAIN told'
        PROVE  \/ k \in 1 .. Len(told) /\ told'[k] = told[k]
                     /\ told'[k] \in 1 .. sent - Len(steering)
               \/ /\ k > Len(told)
                  /\ told'[k] = sent - Len(steering) + (k - Len(told))
                  /\ told'[k] \in 1 .. sent
    <3>1. CASE k <= Len(told)
      <4>1. k \in 1 .. Len(told)
        BY <2>2, <2>3, <3>1
      <4> QED
        BY <1>1, <2>2, <4>1
    <3>2. CASE k > Len(told)
      <4>1. k - Len(told) \in 1 .. Len(steering) /\ Len(told) + (k - Len(told)) = k
        BY <1>1, <2>2, <2>3, <3>2
      <4>2. told'[k] = steering[k - Len(told)]
        BY <2>2, <4>1
      <4> QED
        BY <1>1, <3>2, <4>1, <4>2
    <3> QED
      BY <2>2, <2>3, <3>1, <3>2
  <2>4. \A j, k \in DOMAIN told' : j < k => told'[j] < told'[k]
    <3>1. SUFFICES ASSUME NEW j \in DOMAIN told', NEW k \in DOMAIN told', j < k
                   PROVE  told'[j] < told'[k]
      OBVIOUS
    <3>2. j \in Int /\ k \in Int
      BY <2>2
    <3>3. CASE k \in 1 .. Len(told)
      <4>1. j \in 1 .. Len(told)
        BY <2>2, <3>1, <3>2, <3>3
      <4> QED
        BY <1>1, <2>2, <3>1, <3>3, <4>1
    <3>4. CASE k \notin 1 .. Len(told)
      <4>1. k > Len(told) /\ told'[k] = sent - Len(steering) + (k - Len(told))
        BY <2>3, <3>4
      <4>2. CASE j > Len(told)
        <5>1. told'[j] = sent - Len(steering) + (j - Len(told))
          BY <2>2, <2>3, <4>2
        <5> QED
          BY <1>1, <2>2, <3>1, <3>2, <4>1, <5>1
      <4>3. CASE ~ (j > Len(told))
        <5>1. told'[j] \in 1 .. sent - Len(steering)
          BY <2>3, <4>3
        <5> QED
          BY <1>1, <2>2, <3>2, <4>1, <5>1
      <4> QED
        BY <4>2, <4>3
    <3> QED
      BY <3>3, <3>4
  <2>5. \A k \in DOMAIN told' : told'[k] \in 1 .. sent' - Len(steering')
    BY <1>1, <1>4, <2>1, <2>3
  <2>6. ASSUME NEW n \in 1 .. sent
        PROVE  n \in ToSet(told') \/ n + Capacity <= sent
    <3>1. CASE n \in 1 .. sent - Len(steering)
      <4>1. n \in ToSet(told) => n \in ToSet(told')
        BY <2>2 DEF ToSet
      <4> QED
        BY <1>1, <3>1, <4>1
    <3>2. CASE n \notin 1 .. sent - Len(steering)
      <4> DEFINE k == n - (sent - Len(steering))
      <4>1. k \in 1 .. Len(steering) /\ n = sent - Len(steering) + k
        BY <1>1, <3>2
      <4>2. steering[k] = n
        BY <1>1, <4>1
      <4> HIDE DEF k
      <4>3. Len(told) + k \in DOMAIN told' /\ told'[Len(told) + k] = n
        BY <1>1, <2>2, <4>1, <4>2
      <4> QED
        BY <4>3 DEF ToSet
    <3> QED
      BY <3>1, <3>2
  <2>7. /\ sent' = sent /\ sent \in Nat /\ Capacity \in Nat
        /\ steering' \in Seq(Nat) /\ Len(steering') = 0 /\ DOMAIN steering' = {}
        /\ sent - 0 = sent
    BY <1>1, <1>4, <2>1
  <2>8. told' \in Seq(Nat)
    BY <2>2
  <2> QED
    BY <2>4, <2>5, <2>6, <2>7, <2>8 DEF SteeringInv
<1>5. CASE sent' = sent /\ told' = told /\ steering' = steering
  BY <1>5 DEF SteeringInv
<1> QED
  BY <1>2, <1>3, <1>4, <1>5 DEF SteeringStep

LEMMA SteeringHolds == Spec => []SteeringInv
<1>1. Init => SteeringInv
  <2>1. << >> \in Seq(Nat) /\ Len(<< >>) = 0 /\ DOMAIN << >> = {}
    OBVIOUS
  <2> QED
    BY <2>1, LoopAssumption DEF Init, SteeringInv
<1>2. SteeringInv /\ [Next]_vars => SteeringInv'
  BY NextSteeringStep, SteeringKept
<1> QED
  BY <1>1, <1>2, PTL DEF Spec

\* Steering messages reach the conversation once and in the order in which
\* they were sent, however the loop drains the queue, a handoff included that
\* leaves it for later; a message is lost only when a full queue of later ones
\* pushed it out (Steering_queue.enqueue, drain_into_conv).
THEOREM SteeringArrivesInOrder == Spec => []SteeringInOrder
<1>1. ASSUME SteeringInv PROVE SteeringInOrder
  <2> DEFINE all == told \o steering
  <2>1. /\ sent \in Nat /\ steering \in Seq(Nat) /\ told \in Seq(Nat)
        /\ Len(steering) \in Nat /\ Len(steering) <= sent
        /\ Len(told) \in Nat /\ DOMAIN told = 1 .. Len(told)
        /\ \A k \in 1 .. Len(steering) : steering[k] = sent - Len(steering) + k
        /\ \A j, k \in DOMAIN told : j < k => told[j] < told[k]
        /\ \A k \in DOMAIN told : told[k] \in 1 .. sent - Len(steering)
        /\ \A n \in 1 .. sent - Len(steering) : n \in ToSet(told) \/ n + Capacity <= sent
    BY <1>1 DEF SteeringInv
  <2>2. /\ DOMAIN all = 1 .. Len(told) + Len(steering)
        /\ \A k \in 1 .. Len(told) : all[k] = told[k]
        /\ \A k \in 1 .. Len(steering) : all[Len(told) + k] = steering[k]
    BY <2>1
  <2> HIDE DEF all
  <2>3. ASSUME NEW k \in DOMAIN all
        PROVE  /\ k <= Len(told) => k \in 1 .. Len(told) /\ all[k] = told[k]
                                       /\ all[k] \in 1 .. sent - Len(steering)
               /\ k > Len(told) => all[k] = sent - Len(steering) + (k - Len(told))
    <3>1. CASE k <= Len(told)
      <4>1. k \in 1 .. Len(told)
        BY <2>1, <2>2, <2>3, <3>1
      <4> QED
        BY <2>1, <2>2, <3>1, <4>1
    <3>2. CASE ~ (k <= Len(told))
      <4>1. k - Len(told) \in 1 .. Len(steering) /\ Len(told) + (k - Len(told)) = k
        BY <2>1, <2>2, <2>3, <3>2
      <4>2. all[k] = steering[k - Len(told)]
        BY <2>2, <4>1
      <4> QED
        BY <2>1, <3>2, <4>1, <4>2
    <3> QED
      BY <3>1, <3>2
  <2>4. ASSUME NEW j \in DOMAIN all, NEW k \in DOMAIN all, j < k
        PROVE  all[j] < all[k]
    <3>1. j \in Int /\ k \in Int
      BY <2>1, <2>2
    <3>2. CASE k <= Len(told)
      <4>1. j <= Len(told)
        BY <2>1, <2>4, <3>1, <3>2
      <4> QED
        BY <2>1, <2>3, <2>4, <3>2, <4>1
    <3>3. CASE k > Len(told) /\ j > Len(told)
      BY <2>1, <2>3, <2>4, <3>1, <3>3
    <3>4. CASE k > Len(told) /\ j <= Len(told)
      <4>1. all[k] = sent - Len(steering) + (k - Len(told))
        BY <2>3, <3>4
      <4>2. all[j] \in 1 .. sent - Len(steering)
        BY <2>3, <3>4
      <4> QED
        BY <2>1, <3>1, <3>4, <4>1, <4>2
    <3> QED
      BY <2>1, <3>1, <3>2, <3>3, <3>4
  <2>5. ASSUME NEW n \in 1 .. sent
        PROVE  n \in ToSet(all) \/ n + Capacity <= sent
    <3>1. CASE n \in 1 .. sent - Len(steering)
      <4>1. n \in ToSet(told) => n \in ToSet(all)
        BY <2>1, <2>2 DEF ToSet
      <4> QED
        BY <2>1, <3>1, <4>1
    <3>2. CASE n \notin 1 .. sent - Len(steering)
      <4> DEFINE k == n - (sent - Len(steering))
      <4>1. k \in 1 .. Len(steering) /\ n = sent - Len(steering) + k
        BY <2>1, <3>2
      <4>2. steering[k] = n
        BY <2>1, <4>1
      <4> HIDE DEF k
      <4>3. Len(told) + k \in DOMAIN all /\ all[Len(told) + k] = n
        BY <2>1, <2>2, <4>1, <4>2
      <4> QED
        BY <4>3 DEF ToSet
    <3> QED
      BY <3>1, <3>2
  <2> QED
    BY <2>4, <2>5 DEF SteeringInOrder, all
<1> QED
  BY <1>1, SteeringHolds, PTL

---------------------------------------------------------------------------
(* The budget of iterations                                                *)

\* A finite set of naturals has a largest element.
LEMMA LargestOf ==
    ASSUME NEW S, S \subseteq Nat, S # {}, IsFiniteSet(S)
    PROVE  Max(S) \in S /\ \A y \in S : y <= Max(S)
<1> DEFINE HasMax(T) == \E x \in T : \A y \in T : x >= y
           Fails(n) == \E T \in SUBSET Nat : /\ IsFiniteSet(T) /\ Cardinality(T) = n + 1
                                             /\ ~ HasMax(T)
           Bad == {n \in Nat : Fails(n)}
<1>1. Bad = {}
  <2>1. SUFFICES ASSUME Bad # {} PROVE FALSE
    OBVIOUS
  <2>2. PICK n \in Bad : \A m \in Bad : ~ (m < n)
    <3>1. PICK n \in Bad : \A m \in Bad : ~ (<< m, n >> \in OpToRel(<, Nat))
      BY <2>1, NatLessThanWellFounded, WFMin
    <3> QED
      BY <3>1 DEF OpToRel
  <2>3. PICK T \in SUBSET Nat : IsFiniteSet(T) /\ Cardinality(T) = n + 1 /\ ~ HasMax(T)
    BY <2>2
  <2>4. n \in Nat /\ T # {}
    BY <2>2, <2>3, FS_EmptySet
  <2>5. PICK x \in T : TRUE
    BY <2>4
  <2>6. x \in Nat
    BY <2>5
  <2>7. /\ IsFiniteSet(T \ {x}) /\ Cardinality(T \ {x}) = n
    <3> HIDE DEF HasMax, Fails, Bad
    <3>1. IsFiniteSet(T) /\ Cardinality(T) = n + 1 /\ x \in T
      BY <2>3, <2>5
    <3>2. IsFiniteSet(T \ {x}) /\ Cardinality(T \ {x}) = Cardinality(T) - 1
      BY <3>1, FS_RemoveElement
    <3> QED
      BY <2>4, <3>1, <3>2
  <2>8. CASE n = 0
    <3>1. T \ {x} = {}
      BY <2>7, <2>8, FS_EmptySet
    <3>2. \A y \in T : x >= y
      BY <2>6, <3>1
    <3> QED
      BY <2>3, <2>5, <3>2
  <2>9. CASE n # 0
    <3>1. n - 1 \in Nat /\ n - 1 < n /\ (n - 1) + 1 = n
      BY <2>4, <2>9
    <3>2. ~ Fails(n - 1)
      BY <2>2, <3>1
    <3>3. HasMax(T \ {x})
      BY <2>7, <3>1, <3>2
    <3>4. PICK z \in T \ {x} : \A y \in T \ {x} : z >= y
      BY <3>3
    <3>5. z \in Nat
      BY <3>4
    <3>6. CASE z >= x
      <4>1. \A y \in T : z >= y
        BY <3>4, <3>6
      <4> QED
        BY <2>3, <3>4, <4>1
    <3>7. CASE ~ (z >= x)
      <4>1. \A y \in T : x >= y
        <5>1. \A y \in T \ {x} : y \in Nat /\ z >= y
          BY <3>4
        <5> QED
          BY <2>6, <3>5, <3>7, <5>1
      <4> QED
        BY <2>3, <2>5, <4>1
    <3> QED
      BY <3>6, <3>7
  <2> QED
    BY <2>8, <2>9
<1>2. Cardinality(S) \in Nat /\ Cardinality(S) # 0
  BY FS_CardinalityType, FS_EmptySet
<1>3. Cardinality(S) - 1 \in Nat /\ (Cardinality(S) - 1) + 1 = Cardinality(S)
  BY <1>2
<1>4. HasMax(S)
  BY <1>1, <1>3
<1>5. Max(S) \in S /\ \A y \in S : Max(S) >= y
  BY <1>4 DEF Max
<1>6. \A y \in S : y \in Nat
  OBVIOUS
<1> QED
  BY <1>5, <1>6

\* The largest limit of any agent.
Budget == Max({MaxIterations[a] : a \in Agents})

LEMMA BudgetOfAll == Budget \in Nat /\ \A a \in Agents : MaxIterations[a] <= Budget
<1> DEFINE S == {MaxIterations[a] : a \in Agents}
<1>1. S \subseteq Nat /\ S # {} /\ IsFiniteSet(S)
  <2>1. IsFiniteSet(S)
    <3>1. MaxIterations \in Surjection(Agents, S)
      BY LoopAssumption DEF Surjection
    <3> QED
      BY <3>1, LoopAssumption, FS_Surjection
  <2> QED
    BY <2>1, LoopAssumption
<1>2. Max(S) \in S /\ \A y \in S : y <= Max(S)
  BY <1>1, LargestOf
<1> QED
  BY <1>1, <1>2 DEF Budget

Asked == {"asked", "refused", "batch", "approver", "modified"}

LEMMA FinalRequests == Final \in Nat /\ 1 <= Final /\ MaxChunks - 1 <= Final /\ MaxChunks \in Nat
<1>1. MaxChunks \in Nat \ {0}
  BY LoopAssumption
<1>2. Final = IF 1 >= MaxChunks - 1 THEN 1 ELSE MaxChunks - 1
  BY <1>1, LargerOf DEF Final
<1> QED
  BY <1>1, <1>2

\* Each iteration makes one request, and the token is checked at the top of
\* each; what comes beyond the limit, or after the chunks of an answer, is the
\* end of the invocation.
BudgetInv ==
    /\ pc \in Waits \cup {"idle"}
    /\ requests \in Nat /\ iter \in Nat /\ limit \in Nat /\ late \in Nat
    /\ cancelled \in BOOLEAN
    /\ iter <= limit /\ limit <= Budget
    /\ requests <= limit + Final
    /\ late <= 1 + Final
    /\ pc \in {"top", "ready"} => requests <= iter
    /\ pc \in Asked => requests <= iter + 1
    /\ pc \in Asked \cup {"ready", "more"} => iter < limit
    /\ pc = "more" => /\ chunks \in Nat /\ chunks < MaxChunks
                      /\ requests <= iter + 1 + chunks
                      /\ late <= 1 + chunks
    /\ pc \in Asked \cup {"top"} => late <= 1
    /\ late # 0 => cancelled /\ pc # "ready"

\* What a step of the loop does to the count.
Ends == pc' = "idle" /\ iter' = iter /\ limit' = limit

GoesRound == pc \in Asked /\ pc' = "top" /\ iter' = iter + 1 /\ limit' = limit

PassesOn ==
    /\ pc \in Asked /\ pc' = "top" /\ iter' = iter + 1
    /\ \E a \in Agents : limit' = Max({limit, MaxIterations[a]})

Stays ==
    /\ (pc' = pc /\ chunks' = chunks) \/ (pc \in Asked /\ pc' \in Asked)
    /\ iter' = iter /\ limit' = limit

Continues ==
    /\ Ask /\ cancelled' = cancelled /\ iter' = iter /\ limit' = limit
    /\ pc' = "more" /\ chunks' < MaxChunks
    /\ (pc = "asked" /\ chunks' = 1) \/ (pc = "more" /\ chunks' = chunks + 1)

Counted == requests' = requests /\ late' = late /\ cancelled' = cancelled

BudgetStep ==
    \/ Invoke
    \/ Request
    \/ AskToClose
    \/ LoopTop
    \/ RequestCancel
    \/ Continues
    \/ Counted /\ (Ends \/ GoesRound \/ PassesOn \/ Stays)

LEMMA NextBudgetStep == [Next]_vars => BudgetStep
<1> SUFFICES ASSUME [Next]_vars PROVE BudgetStep
  OBVIOUS
<1> USE DEF course, batch, Counted, Ends, GoesRound, PassesOn, Stays, Asked, Continues
<1>1. CASE Invoke \/ Request \/ AskToClose \/ LoopTop \/ RequestCancel
  BY <1>1 DEF BudgetStep
<1>2. CASE Steer \/ FollowUp
  BY <1>2 DEF Steer, FollowUp, BudgetStep
<1>3. CASE TimeUp \/ GiveUp \/ Close
  BY <1>3 DEF TimeUp, GiveUp, Close, BudgetStep, Return
<1>4. CASE LLMFails \/ StreamCancelled
  BY <1>4 DEF LLMFails, StreamCancelled, BudgetStep, Return, ContinueLoop
<1>5. CASE ContextExceeded
  BY <1>5 DEF ContextExceeded, BudgetStep, Return, ContinueLoop
<1>6. CASE ReplyCalls \/ ReplyAnswer
  BY <1>6 DEF ReplyCalls, ReplyAnswer, BudgetStep, Return
<1>7. CASE ReplyTruncated
  BY <1>7 DEF ReplyTruncated, BudgetStep, Return, ContinueLoop
<1>8. CASE ReplyContinue \/ Chunk
  BY <1>8 DEF ReplyContinue, Chunk, BudgetStep, Return, EndContinue, AskToContinue
<1>9. CASE \E i \in DOMAIN task : Dispatch(i) \/ ToolReturns(i)
  BY <1>9 DEF Dispatch, ToolReturns, BudgetStep
<1>10. CASE BatchDone \/ BatchRefused
  BY <1>10 DEF BatchDone, BatchRefused, BatchEnded, BudgetStep, Return, ContinueLoop
<1>11. CASE BatchHandsOff
  BY <1>11 DEF BatchHandsOff, BatchEnded, HandoffFails, HandOff, HandTask, RunTarget,
               BudgetStep, Return
<1>12. CASE BatchSuspends \/ AskApprover
  BY <1>12 DEF BatchSuspends, AskApprover, OneApproval, BatchEnded, BudgetStep, Return
<1>13. CASE ApproverDecides \/ ModifiedDone
  BY <1>13 DEF ApproverDecides, ModifiedDone, ContinueAfterApproval, ContinueLoop, BudgetStep
<1>14. CASE ApproverEscalates \/ ApproverModifies
  BY <1>14 DEF ApproverEscalates, ApproverModifies, HandoffFails, HandOff, RunTarget,
               Return, BudgetStep
<1>15. CASE UNCHANGED vars
  BY <1>15 DEF vars, BudgetStep
<1> QED
  BY <1>1, <1>2, <1>3, <1>4, <1>5, <1>6, <1>7, <1>8, <1>9, <1>10, <1>11, <1>12,
     <1>13, <1>14, <1>15 DEF Next, Progress

LEMMA InvokeStartsBudget ==
    ASSUME Invoke
    PROVE  BudgetInv'
<1>1. PICK a \in Agents : limit' = MaxIterations[a]
  BY DEF Invoke
<1>2. limit' \in Nat /\ limit' <= Budget
  BY <1>1, BudgetOfAll, LoopAssumption
<1>3. pc' = "top" /\ iter' = 0 /\ requests' = 0 /\ late' = 0
  BY DEF Invoke
<1>4. cancelled' \in BOOLEAN
  BY DEF Invoke
<1>5. iter' <= limit' /\ requests' <= limit' + Final /\ requests' <= iter'
  <2>1. limit' \in Nat /\ iter' = 0 /\ requests' = 0
    BY <1>2, <1>3
  <2>2. iter' <= limit'
    BY <2>1
  <2>3. requests' <= limit' + Final
    <3>1. \A n \in Nat : 0 <= n + Final
      BY FinalRequests
    <3>2. 0 <= limit' + Final
      BY <2>1, <3>1
    <3> QED
      BY <2>1, <3>2
  <2>4. requests' <= iter'
    BY <2>1
  <2> QED
    BY <2>2, <2>3, <2>4
<1>6. late' <= 1 + Final /\ late' <= 1 /\ ~ (late' # 0)
  BY <1>3, FinalRequests
<1> QED
  BY <1>2, <1>3, <1>4, <1>5, <1>6 DEF BudgetInv, Waits, Asked

LEMMA BudgetKept ==
    ASSUME BudgetInv, BudgetStep
    PROVE  BudgetInv'
<1> USE BudgetOfAll, FinalRequests DEF BudgetInv, Waits, Asked
<1>1. CASE Invoke
  BY <1>1, InvokeStartsBudget
<1>2. CASE Request
  <2>1. /\ pc = "ready" /\ pc' \in {"asked", "refused"} /\ requests' = requests + 1
        /\ late' = (IF cancelled THEN late + 1 ELSE late)
        /\ UNCHANGED << iter, limit, cancelled >>
    BY <1>2 DEF Request, Ask
  <2> QED
    BY <2>1
<1>3. CASE AskToClose
  <2>1. /\ pc = "top" /\ pc' = "closing" /\ requests' = requests + 1 /\ iter >= limit
        /\ late' = (IF cancelled THEN late + 1 ELSE late)
        /\ UNCHANGED << iter, limit, cancelled >>
    BY <1>3 DEF AskToClose, Ask
  <2> QED
    BY <2>1
<1>4. CASE LoopTop
  BY <1>4 DEF LoopTop, Return, course
<1>5. CASE RequestCancel
  BY <1>5 DEF RequestCancel
<1>9. CASE Continues
  <2>1. /\ pc' = "more" /\ chunks' < MaxChunks /\ requests' = requests + 1
        /\ late' = (IF cancelled THEN late + 1 ELSE late)
        /\ cancelled' = cancelled /\ iter' = iter /\ limit' = limit
    BY <1>9 DEF Continues, Ask
  <2>2. chunks' \in Nat /\ requests' <= iter' + 1 + chunks' /\ late' <= 1 + chunks'
    BY <1>9, <2>1 DEF Continues
  <2>3. iter' < limit' /\ (late' # 0 => cancelled')
    BY <1>9, <2>1 DEF Continues
  <2>4. /\ requests' \in Nat /\ iter' \in Nat /\ limit' \in Nat /\ late' \in Nat
        /\ cancelled' \in BOOLEAN /\ iter' <= limit' /\ limit' <= Budget
    BY <2>1, <2>3
  <2>5. chunks' <= Final
    BY <2>1, <2>2
  <2>6. requests' <= limit' + Final /\ late' <= 1 + Final
    <3> HIDE DEF BudgetInv, Waits, Asked
    <3>1. \A r, i, l, c, f, t \in Nat :
            r <= i + 1 + c /\ i < l /\ c <= f /\ t <= 1 + c => r <= l + f /\ t <= 1 + f
      OBVIOUS
    <3>2. Final \in Nat
      OBVIOUS
    <3> QED
      BY <2>2, <2>3, <2>4, <2>5, <3>1, <3>2
  <2>7. pc' \in Waits
    BY <2>1 DEF Waits
  <2>8. pc' \notin Asked \cup {"top", "ready"}
    BY <2>1
  <2> HIDE DEF BudgetInv
  <2> QED
    BY <2>1, <2>2, <2>3, <2>4, <2>6, <2>7, <2>8 DEF BudgetInv
<1>6. CASE Counted /\ (Ends \/ GoesRound)
  BY <1>6 DEF Counted, Ends, GoesRound
<1>7. CASE Counted /\ Stays
  BY <1>7 DEF Counted, Stays
<1>8. CASE Counted /\ PassesOn
  <2>1. PICK a \in Agents : limit' = Max({limit, MaxIterations[a]})
    BY <1>8 DEF PassesOn
  <2>2. MaxIterations[a] \in Nat /\ MaxIterations[a] <= Budget
    BY LoopAssumption
  <2>3. limit' = IF limit >= MaxIterations[a] THEN limit ELSE MaxIterations[a]
    BY <2>1, <2>2, LargerOf
  <2>4. limit' \in Nat /\ limit <= limit' /\ limit' <= Budget
    BY <2>2, <2>3
  <2> QED
    BY <1>8, <2>4 DEF Counted, PassesOn
<1> QED
  BY <1>1, <1>2, <1>3, <1>4, <1>5, <1>6, <1>7, <1>8, <1>9 DEF BudgetStep

LEMMA BudgetHolds == Spec => []BudgetInv
<1>1. ASSUME Init PROVE BudgetInv
  <2>1. pc = "idle" /\ requests = 0 /\ iter = 0 /\ limit = 0 /\ late = 0
    BY <1>1 DEF Init
  <2>2. cancelled \in BOOLEAN
    BY <1>1 DEF Init
  <2> QED
    BY <2>1, <2>2, BudgetOfAll, FinalRequests DEF BudgetInv, Waits, Asked
<1>2. BudgetInv /\ [Next]_vars => BudgetInv'
  BY NextBudgetStep, BudgetKept
<1> QED
  BY <1>1, <1>2, PTL DEF Spec

\* Beyond the largest limit of any agent, however handoffs alternate between the
\* agents, an invocation makes its final requests only, the closing one or those
\* for the chunks of an answer, and after its cancellation one more than those
\* (run_agent, global_max and the test of the token).
THEOREM RequestsStayBounded == Spec => []RequestsBounded
<1>1. BudgetInv => RequestsBounded
  BY BudgetOfAll, FinalRequests DEF BudgetInv, RequestsBounded, Budget
<1> QED
  BY <1>1, BudgetHolds, PTL

---------------------------------------------------------------------------
(* The quota                                                               *)

Running(t) == {k \in DOMAIN t : t[k] = "running"}

Queueing(t) == {k \in DOMAIN t : t[k] = "waiting"}

\* No call of the batch runs or waits for a permit.
Quiet(t) == \A k \in DOMAIN t : t[k] \notin {"running", "waiting"}

\* The running calls hold the permits that are not free; only in a batch and
\* in the one call of an approver's modification are there any.
QuotaInv ==
    /\ task \in Seq(TaskStates)
    /\ permits \in Nat
    /\ permits + Cardinality(Running(task)) = Quota
    /\ Queueing(task) # {} => permits = 0
    /\ pc \notin {"batch", "modified"} => Quiet(task)
    /\ pc = "modified" => Len(task) = 1

\* A step that starts or ends a batch, or has nothing to do with one.
QuotaStep ==
    \/ \E i \in DOMAIN task : Dispatch(i) \/ ToolReturns(i)
    \/ task' = task /\ permits' = permits /\ pc' = pc
    \/ /\ permits' = permits
       /\ Quiet(task) /\ Quiet(task') /\ task' \in Seq(TaskStates)
       /\ pc' = "modified" => Len(task') = 1

LEMMA EndedIsQuiet ==
    ASSUME QuotaInv, BatchEnded \/ (pc = "modified" /\ task[1] \in {"done", "handoff", "approval"})
    PROVE  Quiet(task)
<1>1. CASE BatchEnded
  BY <1>1 DEF BatchEnded, Quiet
<1>2. CASE pc = "modified" /\ task[1] \in {"done", "handoff", "approval"}
  <2>1. task \in Seq(TaskStates) /\ Len(task) = 1
    BY <1>2 DEF QuotaInv
  <2>2. \A k \in DOMAIN task : k = 1
    BY <2>1
  <2> QED
    BY <1>2, <2>2 DEF Quiet
<1> QED
  BY <1>1, <1>2

LEMMA NextQuotaStep ==
    ASSUME QuotaInv, [Next]_vars
    PROVE  QuotaStep
<1> USE DEF course, batch
<1>0. task \in Seq(TaskStates) /\ (pc \notin {"batch", "modified"} => Quiet(task))
  BY DEF QuotaInv
<1>1. CASE Invoke
  <2>1. << >> \in Seq(TaskStates) /\ Quiet(<< >>)
    BY DEF Quiet
  <2> QED
    BY <1>0, <1>1, <2>1 DEF Invoke, QuotaStep
<1>2. CASE Steer \/ FollowUp \/ RequestCancel
  BY <1>2 DEF Steer, FollowUp, RequestCancel, QuotaStep
<1>3. CASE TimeUp \/ GiveUp \/ AskToClose \/ Close
  BY <1>0, <1>3 DEF TimeUp, GiveUp, AskToClose, Close, Return, QuotaStep
<1>4. CASE LoopTop \/ Request
  BY <1>0, <1>4 DEF LoopTop, Request, Return, QuotaStep
<1>5. CASE LLMFails \/ StreamCancelled
  BY <1>0, <1>5 DEF LLMFails, StreamCancelled, QuotaStep, Return, ContinueLoop
<1>6. CASE ContextExceeded
  BY <1>0, <1>6 DEF ContextExceeded, QuotaStep, Return, ContinueLoop
<1>7. CASE ReplyCalls
  <2>1. PICK n \in 1 .. MaxBatch : task' = [k \in 1 .. n |-> "new"]
    BY <1>7 DEF ReplyCalls
  <2>2. n \in Nat
    BY LoopAssumption
  <2>3. task' \in Seq(TaskStates) /\ Quiet(task')
    <3>1. [k \in 1 .. n |-> "new"] \in [1 .. n -> TaskStates]
      BY DEF TaskStates
    <3> QED
      BY <2>1, <2>2, <3>1, SeqDef DEF Quiet
  <2>4. pc = "asked" /\ pc' = "batch" /\ permits' = permits
    BY <1>7 DEF ReplyCalls
  <2> QED
    BY <1>0, <2>3, <2>4 DEF QuotaStep
<1>8. CASE ReplyAnswer
  BY <1>0, <1>8 DEF ReplyAnswer, QuotaStep, Return
<1>9. CASE ReplyTruncated
  BY <1>0, <1>9 DEF ReplyTruncated, QuotaStep, Return, ContinueLoop
<1>10. CASE ReplyContinue \/ Chunk
  BY <1>0, <1>10 DEF ReplyContinue, Chunk, QuotaStep, Return, EndContinue, AskToContinue
<1>11. CASE \E i \in DOMAIN task : Dispatch(i) \/ ToolReturns(i)
  BY <1>11 DEF QuotaStep
<1>12. CASE BatchDone \/ BatchRefused
  <2>1. Quiet(task)
    BY <1>12, EndedIsQuiet DEF BatchDone, BatchRefused
  <2> QED
    BY <1>0, <1>12, <2>1 DEF BatchDone, BatchRefused, QuotaStep, Return, ContinueLoop
<1>13. CASE BatchHandsOff
  <2>1. Quiet(task)
    BY <1>13, EndedIsQuiet DEF BatchHandsOff
  <2> QED
    BY <1>0, <1>13, <2>1 DEF BatchHandsOff, HandoffFails, HandOff, HandTask, RunTarget,
                              QuotaStep, Return
<1>14. CASE BatchSuspends
  <2>1. Quiet(task)
    BY <1>14, EndedIsQuiet DEF BatchSuspends, OneApproval
  <2> QED
    BY <1>0, <1>14, <2>1 DEF BatchSuspends, QuotaStep, Return
<1>15. CASE AskApprover
  <2>1. Quiet(task)
    BY <1>15, EndedIsQuiet DEF AskApprover, OneApproval
  <2>2. task' = << "approval" >> /\ permits' = permits /\ pc' = "approver"
    BY <1>15 DEF AskApprover
  <2>3. << "approval" >> \in Seq(TaskStates) /\ Quiet(<< "approval" >>)
    BY DEF TaskStates, Quiet
  <2> QED
    BY <2>1, <2>2, <2>3 DEF QuotaStep
<1>16. CASE ApproverDecides
  BY <1>0, <1>16 DEF ApproverDecides, ContinueAfterApproval, ContinueLoop, QuotaStep
<1>17. CASE ApproverEscalates
  BY <1>0, <1>17 DEF ApproverEscalates, HandoffFails, HandOff, RunTarget, Return, QuotaStep
<1>18. CASE ApproverModifies
  <2>1. task' = << "new" >> /\ permits' = permits /\ pc = "approver"
    BY <1>18 DEF ApproverModifies
  <2>2. << "new" >> \in Seq(TaskStates) /\ Quiet(<< "new" >>) /\ Len(<< "new" >>) = 1
    BY DEF TaskStates, Quiet
  <2> QED
    BY <1>0, <2>1, <2>2 DEF QuotaStep
<1>19. CASE ModifiedDone
  <2>1. Quiet(task)
    BY <1>19, EndedIsQuiet DEF ModifiedDone
  <2> QED
    BY <1>0, <1>19, <2>1 DEF ModifiedDone, ContinueAfterApproval, ContinueLoop, QuotaStep
<1>20. CASE UNCHANGED vars
  BY <1>20 DEF vars, QuotaStep
<1> QED
  BY <1>1, <1>2, <1>3, <1>4, <1>5, <1>6, <1>7, <1>8, <1>9, <1>10, <1>11, <1>12, <1>13,
     <1>14, <1>15, <1>16, <1>17, <1>18, <1>19, <1>20 DEF Next, Progress

\* The first of the calls that wait.
LEMMA FirstOf ==
    ASSUME NEW S, S \subseteq Nat, S # {}
    PROVE  Min(S) \in S
<1>1. PICK n \in S : \A m \in S : ~ (<< m, n >> \in OpToRel(<, Nat))
  BY NatLessThanWellFounded, WFMin
<1>2. \A m \in S : n \in Nat /\ m \in Nat /\ ~ (m < n)
  BY <1>1 DEF OpToRel
<1>3. \E x \in S : \A y \in S : x <= y
  BY <1>2
<1> QED
  BY <1>3 DEF Min

LEMMA RunningFinite ==
    ASSUME NEW t \in Seq(TaskStates)
    PROVE  IsFiniteSet(Running(t)) /\ Cardinality(Running(t)) \in Nat
<1>1. Running(t) \subseteq 1 .. Len(t) /\ Len(t) \in Nat
  BY DEF Running
<1>2. IsFiniteSet(1 .. Len(t))
  BY <1>1, FS_Interval
<1>3. IsFiniteSet(Running(t))
  BY <1>1, <1>2, FS_Subset
<1> QED
  BY <1>3, FS_CardinalityType

LEMMA QuotaKeptByStep ==
    ASSUME QuotaInv, QuotaStep
    PROVE  QuotaInv'
<1>1. /\ task \in Seq(TaskStates) /\ permits \in Nat /\ Quota \in Nat
      /\ permits + Cardinality(Running(task)) = Quota
      /\ Queueing(task) # {} => permits = 0
      /\ pc \notin {"batch", "modified"} => Quiet(task)
      /\ pc = "modified" => Len(task) = 1
      /\ IsFiniteSet(Running(task)) /\ Cardinality(Running(task)) \in Nat
  BY RunningFinite, LoopAssumption DEF QuotaInv
<1>2. ASSUME NEW i \in DOMAIN task, NEW s \in TaskStates
      PROVE  /\ [task EXCEPT ![i] = s] \in Seq(TaskStates)
             /\ Len([task EXCEPT ![i] = s]) = Len(task)
             /\ DOMAIN [task EXCEPT ![i] = s] = DOMAIN task
  BY <1>1
<1>3. ASSUME NEW i \in DOMAIN task, Dispatch(i) PROVE QuotaInv'
  <2>1. task[i] = "new" /\ pc' = pc /\ pc \in {"batch", "modified"}
    BY <1>3 DEF Dispatch, MayStart
  <2>2. CASE task' = [task EXCEPT ![i] = "done"] /\ permits' = permits
    <3>1. Running(task') = Running(task) /\ Queueing(task') = Queueing(task)
      BY <1>1, <2>1, <2>2 DEF Running, Queueing
    <3> QED
      BY <1>1, <1>2, <2>1, <2>2, <3>1 DEF QuotaInv, TaskStates
  <2>3. CASE permits > 0 /\ task' = [task EXCEPT ![i] = "running"] /\ permits' = permits - 1
    <3>1. /\ Running(task') = Running(task) \cup {i} /\ i \notin Running(task)
          /\ Queueing(task') = Queueing(task)
      BY <1>1, <2>1, <2>3 DEF Running, Queueing
    <3>2. Cardinality(Running(task')) = Cardinality(Running(task)) + 1
      BY <1>1, <3>1, FS_AddElement
    <3>3. permits' \in Nat /\ permits' + Cardinality(Running(task')) = Quota
      <4>1. /\ permits \in Nat /\ permits > 0 /\ permits' = permits - 1
            /\ Cardinality(Running(task)) \in Nat
            /\ permits + Cardinality(Running(task)) = Quota
        BY <1>1, <2>3
      <4> QED
        BY <3>2, <4>1
    <3>4. Queueing(task') = {}
      BY <1>1, <2>3, <3>1
    <3> QED
      BY <1>1, <1>2, <2>1, <2>3, <3>3, <3>4 DEF QuotaInv, TaskStates
  <2>4. CASE ~ (permits > 0) /\ task' = [task EXCEPT ![i] = "waiting"] /\ permits' = permits
    <3>1. Running(task') = Running(task)
      BY <1>1, <2>1, <2>4 DEF Running
    <3>2. permits' = 0
      BY <1>1, <2>4
    <3> QED
      BY <1>1, <1>2, <2>1, <2>4, <3>1, <3>2 DEF QuotaInv, TaskStates
  <2> QED
    BY <1>3, <2>2, <2>3, <2>4 DEF Dispatch, Acquire
<1>4. ASSUME NEW i \in DOMAIN task, ToolReturns(i) PROVE QuotaInv'
  <2>1. PICK how \in {"done", "handoff", "approval"} : Release(i, how)
    BY <1>4 DEF ToolReturns
  <2>2. task[i] = "running" /\ pc' = pc /\ i \in Running(task)
    BY <1>4 DEF ToolReturns, Running
  <2>3. pc \in {"batch", "modified"}
    BY <1>1, <2>2 DEF Quiet
  <2>4. Waiting = Queueing(task)
    BY DEF Waiting, Queueing
  <2>5. CASE Waiting = {}
    <3>1. task' = [task EXCEPT ![i] = how] /\ permits' = permits + 1
      BY <2>1, <2>5 DEF Release
    <3>2. Running(task') = Running(task) \ {i} /\ Queueing(task') = {}
      BY <1>1, <2>2, <2>4, <2>5, <3>1 DEF Running, Queueing
    <3>3. Cardinality(Running(task')) = Cardinality(Running(task)) - 1
      BY <1>1, <2>2, <3>2, FS_RemoveElement
    <3>4. permits' \in Nat /\ permits' + Cardinality(Running(task')) = Quota
      BY <1>1, <3>1, <3>3
    <3>5. how \in TaskStates
      BY DEF TaskStates
    <3> QED
      BY <1>1, <1>2, <2>2, <2>3, <3>1, <3>2, <3>4, <3>5 DEF QuotaInv
  <2>6. CASE Waiting # {}
    <3> DEFINE w == Min(Waiting)
    <3>1. task' = [task EXCEPT ![i] = how, ![w] = "running"] /\ permits' = permits
      BY <2>1, <2>6 DEF Release
    <3>2. Waiting \subseteq Nat
      BY <1>1 DEF Waiting
    <3>3. w \in Waiting
      BY <2>6, <3>2, FirstOf
    <3> HIDE DEF w
    <3>4. w \in DOMAIN task /\ task[w] = "waiting" /\ w # i
      BY <2>2, <3>3 DEF Waiting
    <3>5. /\ Running(task') = (Running(task) \ {i}) \cup {w} /\ w \notin Running(task) \ {i}
      BY <1>1, <2>2, <3>1, <3>4 DEF Running
    <3>6. /\ IsFiniteSet(Running(task) \ {i})
          /\ Cardinality(Running(task) \ {i}) = Cardinality(Running(task)) - 1
      BY <1>1, <2>2, FS_RemoveElement
    <3>7. Cardinality(Running(task')) = Cardinality(Running(task) \ {i}) + 1
      BY <3>5, <3>6, FS_AddElement
    <3>8. permits' = 0 /\ permits' + Cardinality(Running(task')) = Quota
      BY <1>1, <2>4, <2>6, <3>1, <3>6, <3>7
    <3>9. task' \in Seq(TaskStates) /\ Len(task') = Len(task)
      <4> DEFINE t == [task EXCEPT ![i] = how]
      <4>1. t \in Seq(TaskStates) /\ Len(t) = Len(task) /\ DOMAIN t = DOMAIN task
        BY <1>2 DEF TaskStates
      <4>2. task' = [t EXCEPT ![w] = "running"]
        BY <3>1
      <4> HIDE DEF t
      <4>3. "running" \in TaskStates
        BY DEF TaskStates
      <4> QED
        BY <3>4, <4>1, <4>2, <4>3
    <3> QED
      BY <1>1, <2>2, <2>3, <3>8, <3>9 DEF QuotaInv
  <2> QED
    BY <2>5, <2>6
<1>5. CASE task' = task /\ permits' = permits /\ pc' = pc
  BY <1>1, <1>5 DEF QuotaInv
<1>6. CASE /\ permits' = permits
           /\ Quiet(task) /\ Quiet(task') /\ task' \in Seq(TaskStates)
           /\ pc' = "modified" => Len(task') = 1
  <2>1. Running(task) = {} /\ Running(task') = {} /\ Queueing(task') = {}
    BY <1>6 DEF Quiet, Running, Queueing
  <2> QED
    BY <1>1, <1>6, <2>1 DEF QuotaInv
<1> QED
  BY <1>3, <1>4, <1>5, <1>6 DEF QuotaStep

LEMMA QuotaHolds == Spec => []QuotaInv
<1>1. ASSUME Init PROVE QuotaInv
  <2>1. task = << >> /\ permits = Quota /\ pc = "idle" /\ Quota \in Nat
    BY <1>1, LoopAssumption DEF Init
  <2>2. Running(<< >>) = {} /\ Queueing(<< >>) = {} /\ Quiet(<< >>)
    BY DEF Running, Queueing, Quiet
  <2>3. Cardinality({}) = 0
    BY FS_EmptySet
  <2> QED
    BY <2>1, <2>2, <2>3 DEF QuotaInv
<1>2. QuotaInv /\ [Next]_vars => QuotaInv'
  BY NextQuotaStep, QuotaKeptByStep
<1> QED
  BY <1>1, <1>2, PTL DEF Spec

\* The permits of the task semaphore are exactly those the running tools do
\* not hold, all of them free once the batch is over, whether its tools
\* return, time out, raise, hand off or are cancelled; a call waits only
\* while none is free (invoke_one, Semaphore).
THEOREM PermitsAccountedFor == Spec => []QuotaKept
<1>1. ASSUME QuotaInv PROVE QuotaKept
  <2>1. Waiting = Queueing(task) /\ Running(task) = {k \in DOMAIN task : task[k] = "running"}
    BY DEF Waiting, Queueing, Running
  <2>2. pc \notin {"batch", "modified"} => Running(task) = {}
    BY <1>1 DEF QuotaInv, Quiet, Running
  <2>3. pc \notin {"batch", "modified"} => permits = Quota
    <3>1. permits \in Nat /\ permits + Cardinality(Running(task)) = Quota
      BY <1>1 DEF QuotaInv
    <3>2. Cardinality({}) = 0
      BY FS_EmptySet
    <3>3. Running(task) = {} => permits + 0 = Quota
      BY <3>1, <3>2
    <3> QED
      BY <2>2, <3>1, <3>3
  <2> QED
    BY <1>1, <2>1, <2>3 DEF QuotaInv, QuotaKept
<1> QED
  BY <1>1, QuotaHolds, PTL

---------------------------------------------------------------------------
(* The conversation                                                        *)

\* If the invocation was given a replayable conversation, c is one.
Fine(I, c) == c \in Seq(Messages(I)) /\ (replayable => Validate(c))

\* c is one but for the calls of S, which are open.
OpenAt(I, c, S) ==
    /\ c \in Seq(Messages(I))
    /\ replayable => Replay(c).ok /\ Replay(c).pending = S

\* The calls of a batch are open until its results are there; between batches
\* the conversation, and at any time the reported step, is replayable; so is
\* the part of it a closing request or a Continue sub-loop goes back to.
TalkInv(I) ==
    /\ calls \in Seq(I) /\ Single(calls)
    /\ followups \in {0, 1} /\ mark \in Nat /\ invocation \in Nat /\ replayable \in BOOLEAN
    /\ conv \in Seq(Messages(I))
    /\ Fine(I, reported.conv)
    /\ replayable => pc # "refused"
    /\ pc \in {"top", "ready", "asked", "closing"} => Fine(I, conv)
    /\ pc = "closing" => Fine(I, SubSeq(conv, 1, Len(conv) - 1))
    /\ pc = "more" => mark <= Len(conv) /\ Fine(I, SubSeq(conv, 1, mark))
    /\ pc = "batch" => DOMAIN task = DOMAIN calls
    /\ pc \in {"batch", "approver", "modified"} => OpenAt(I, conv, ToSet(calls))
    /\ ReplayableAfter

LEMMA ResultsAre == \A ids : Results(ids) = Answers(ids, 2)
BY DEF Results, Answers

LEMMA FineAppend ==
    ASSUME NEW I, NEW c, Fine(I, c), NEW m \in Messages(I), Silent(m)
    PROVE  Fine(I, Append(c, m))
<1>1. c \in Seq(Messages(I)) /\ Append(c, m) \in Seq(Messages(I))
  BY DEF Fine
<1>2. Validate(c) => Validate(Append(c, m))
  BY <1>1, SilentKeepsValid
<1> QED
  BY <1>1, <1>2 DEF Fine

LEMMA FineUser ==
    ASSUME NEW I, NEW c, Fine(I, c), NEW text \in Nat
    PROVE  Fine(I, Append(c, UserMessage(text)))
BY SilentMessages, FineAppend

LEMMA FineSilents ==
    ASSUME NEW I, NEW c, Fine(I, c), NEW q \in Seq({m \in Messages(I) : Silent(m)})
    PROVE  Fine(I, c \o q)
<1>1. c \in Seq(Messages(I))
  BY DEF Fine
<1>2. q \in Seq(Messages(I))
  <2>1. \A k \in 1 .. Len(q) : q[k] \in Messages(I)
    OBVIOUS
  <2>2. q = [k \in 1 .. Len(q) |-> q[k]] /\ Len(q) \in Nat
    OBVIOUS
  <2> QED
    BY <2>1, <2>2
<1>3. c \o q \in Seq(Messages(I))
  BY <1>1, <1>2
<1>4. Validate(c) => Validate(c \o q)
  BY <1>1, SilentsKeepValid
<1> QED
  BY <1>3, <1>4 DEF Fine

\* drain_into_conv, for steering messages and for follow-ups.
LEMMA FineDrained ==
    ASSUME NEW I, NEW c, Fine(I, c), steering \in Seq(Nat), followups \in {0, 1}
    PROVE  Fine(I, c \o Steered(steering)) /\ Fine(I, FollowedUp(c))
<1> DEFINE T == {m \in Messages(I) : Silent(m)}
<1>1. \A text \in Nat : UserMessage(text) \in T
  BY SilentMessages
<1> HIDE DEF T
<1>2. Steered(steering) \in Seq(T)
  <2>1. Steered(steering) = [k \in 1 .. Len(steering) |-> UserMessage(steering[k] + 2)]
    BY DEF Steered
  <2>2. \A k \in 1 .. Len(steering) : UserMessage(steering[k] + 2) \in T
    <3>1. \A k \in 1 .. Len(steering) : steering[k] + 2 \in Nat
      OBVIOUS
    <3> QED
      BY <1>1, <3>1
  <2> QED
    BY <2>1, <2>2
<1>3. [k \in 1 .. followups |-> UserMessage(2)] \in Seq(T)
  <2>1. UserMessage(2) \in T /\ followups \in Nat
    BY <1>1
  <2> QED
    BY <2>1
<1> QED
  BY <1>2, <1>3, FineSilents DEF FollowedUp, T

LEMMA FineNormalized ==
    ASSUME NEW I, NEW c, Fine(I, c)
    PROVE  Fine(I, NormalizeArguments(c))
BY NormalizeType, NormalizeKeepsValid DEF Fine

LEMMA FineCompacted ==
    ASSUME NEW I, None \notin I, NEW c, Fine(I, c)
    PROVE  /\ \A d \in Compactions(c) : Fine(I, d)
           /\ \A b \in Budgets : Fine(I, TruncateConversation(c, TRUE, 2, b))
<1>1. c \in Seq(Messages(I)) /\ Budgets \subseteq Nat /\ Recent \in Nat
  BY LoopAssumption, RecentAssumption DEF Fine
<1>2. ASSUME NEW b \in Budgets
      PROVE  /\ Fine(I, TruncateConversation(c, TRUE, 2, b))
             /\ Fine(I, TruncateConversation(c, TRUE, Recent, b))
             /\ Fine(I, SlidingWindow(c, 2, b))
             /\ Fine(I, Summarize(c, b))
  <2>1. b \in Nat /\ 2 \in Nat
    BY <1>1
  <2>2. Fine(I, TruncateConversation(c, TRUE, 2, b))
    BY <1>1, <2>1, TruncationIsReplayable DEF Fine
  <2>3. Fine(I, TruncateConversation(c, TRUE, Recent, b))
    BY <1>1, <2>1, TruncationIsReplayable DEF Fine
  <2>4. Fine(I, SlidingWindow(c, 2, b))
    BY <1>1, <2>1, WindowIsReplayable DEF Fine
  <2>5. Fine(I, Summarize(c, b))
    BY <1>1, <2>1, SummaryIsReplayable DEF Fine
  <2> QED
    BY <2>2, <2>3, <2>4, <2>5
<1>3. ASSUME NEW d \in Compactions(c)
      PROVE  \/ d = c
             \/ \E b \in Budgets : d \in {TruncateConversation(c, TRUE, 2, b),
                     TruncateConversation(c, TRUE, Recent, b), SlidingWindow(c, 2, b),
                     Summarize(c, b)}
  <2>1. CASE d = c
    BY <2>1
  <2>2. CASE d # c
    <3>1. \E s \in Strategies, b \in Budgets : d \in Compacted(s, c, b)
      BY <2>2 DEF Compactions
    <3>2. \A s \in {"truncate", "sliding", "summarize"}, b \in Budgets :
             Compacted(s, c, b) \subseteq {TruncateConversation(c, TRUE, 2, b),
                     TruncateConversation(c, TRUE, Recent, b), SlidingWindow(c, 2, b),
                     Summarize(c, b)}
      BY DEF Compacted
    <3> QED
      BY <3>1, <3>2, LoopAssumption
  <2> QED
    BY <2>1, <2>2
<1> QED
  BY <1>2, <1>3

\* Results for open calls, each given once, close them.
LEMMA OpenAnswered ==
    ASSUME NEW I, None \notin I, NEW c, NEW S, OpenAt(I, c, S),
           NEW ids \in Seq(I), Single(ids), ToSet(ids) \subseteq S
    PROVE  OpenAt(I, c \o Results(ids), S \ ToSet(ids))
<1>1. c \in Seq(Messages(I))
  BY DEF OpenAt
<1>2. 2 \in Nat
  OBVIOUS
<1>3. /\ Answers(ids, 2) \in Seq(Messages(I))
      /\ Replay(c \o Answers(ids, 2)).pending = Replay(c).pending \ ToSet(ids)
      /\ Replay(c).ok /\ Single(ids) /\ ToSet(ids) \subseteq Replay(c).pending
            => Replay(c \o Answers(ids, 2)).ok
  BY <1>1, <1>2, AnswersClose
<1>4. Results(ids) = Answers(ids, 2)
  BY ResultsAre
<1>5. c \o Results(ids) \in Seq(Messages(I))
  BY <1>1, <1>3, <1>4
<1> QED
  BY <1>3, <1>4, <1>5 DEF OpenAt

LEMMA NoneOpen ==
    ASSUME NEW I, NEW c, OpenAt(I, c, {})
    PROVE  Fine(I, c)
<1>1. c \in Seq(Messages(I))
  BY DEF OpenAt
<1>2. Validate(c) <=> Replay(c).ok /\ Replay(c).pending = {}
  BY <1>1, ValidIsFresh
<1> QED
  BY <1>1, <1>2 DEF OpenAt, Fine

LEMMA EndedFacts ==
    ASSUME NEW I, NEW how, task \in Seq(TaskStates), calls \in Seq(I), Single(calls),
           DOMAIN task = DOMAIN calls
    PROVE  /\ Ended(how) \in Seq(I) /\ Single(Ended(how))
           /\ \A k \in DOMAIN calls : calls[k] \in ToSet(Ended(how)) <=> task[k] = how
           /\ ToSet(Ended(how)) \subseteq ToSet(calls)
           /\ Ended(how) = << >> <=> ToSet(Ended(how)) = {}
<1> DEFINE T == DOMAIN calls
           index == [k \in DOMAIN task |-> k]
           S == {k \in DOMAIN task : task[k] = how}
           chosen == Among(index, S)
           e == [k \in DOMAIN chosen |-> calls[chosen[k]]]
<1>1. index \in Seq(T) /\ ToSet(index) = T /\ Single(index)
  <2>1. DOMAIN task = 1 .. Len(task) /\ Len(task) \in Nat
    OBVIOUS
  <2>2. index \in Seq(T)
    BY <2>1
  <2> QED
    BY <2>2 DEF ToSet, Single
<1>2. Ended(how) = e
  BY DEF Ended
<1>3. S \subseteq T /\ \A k \in T : k \in S <=> task[k] = how
  OBVIOUS
<1> HIDE DEF index, S, chosen
<1>4. chosen \in Seq(T) /\ ToSet(chosen) = S /\ Single(chosen)
  <2>1. chosen \in Seq(T) /\ ToSet(chosen) = ToSet(index) \cap S /\ Single(chosen)
    BY <1>1, AmongFacts DEF chosen
  <2>2. T \cap S = S
    BY <1>3
  <2> QED
    BY <1>1, <2>1, <2>2
<1>5. /\ DOMAIN chosen = 1 .. Len(chosen) /\ Len(chosen) \in Nat
      /\ \A j \in DOMAIN chosen : chosen[j] \in T /\ chosen[j] \in S
      /\ \A k \in S : \E j \in DOMAIN chosen : chosen[j] = k
  BY <1>4 DEF ToSet
<1>6. e \in Seq(I)
  <2>1. \A j \in 1 .. Len(chosen) : calls[chosen[j]] \in I
    BY <1>5
  <2> QED
    BY <1>5, <2>1
<1>7. Single(e)
  <2>1. \A j, k \in T : calls[j] = calls[k] => j = k
    BY DEF Single
  <2>2. \A j, k \in DOMAIN chosen : chosen[j] = chosen[k] => j = k
    BY <1>4 DEF Single
  <2> QED
    BY <1>5, <2>1, <2>2 DEF Single
<1>8. \A x \in ToSet(e) : \E j \in DOMAIN chosen : x = calls[chosen[j]]
  BY DEF ToSet
<1>9. \A j \in DOMAIN chosen : calls[chosen[j]] \in ToSet(e)
  BY DEF ToSet
<1> HIDE DEF e, T
<1>10. ASSUME NEW k \in DOMAIN calls PROVE calls[k] \in ToSet(e) <=> task[k] = how
  <2>1. ASSUME calls[k] \in ToSet(e) PROVE task[k] = how
    <3>1. PICK j \in DOMAIN chosen : calls[k] = calls[chosen[j]]
      BY <1>8, <2>1
    <3>2. chosen[j] \in DOMAIN calls /\ chosen[j] \in S
      BY <1>5 DEF T
    <3>3. k = chosen[j]
      BY <3>1, <3>2 DEF Single
    <3> QED
      BY <1>3, <3>2, <3>3 DEF T
  <2>2. ASSUME task[k] = how PROVE calls[k] \in ToSet(e)
    <3>1. k \in S
      BY <1>3, <2>2 DEF T
    <3>2. PICK j \in DOMAIN chosen : chosen[j] = k
      BY <1>5, <3>1
    <3> QED
      BY <1>9, <3>2
  <2> QED
    BY <2>1, <2>2
<1>11. ToSet(e) \subseteq ToSet(calls)
  BY <1>5, <1>8 DEF ToSet, T
<1>12. e = << >> <=> ToSet(e) = {}
  BY <1>6, NoneIn
<1> QED
  BY <1>2, <1>6, <1>7, <1>10, <1>11, <1>12

\* What is open when the results of an ended batch are there.
LEMMA BatchFacts ==
    ASSUME NEW I, None \notin I, TalkInv(I), task \in Seq(TaskStates), BatchEnded
    PROVE  LET D == ToSet(Ended("done"))
               H == ToSet(Ended("handoff"))
               A == ToSet(Ended("approval"))
           IN  /\ \A how : Ended(how) \in Seq(I) /\ Single(Ended(how))
               /\ \A how : Ended(how) = << >> <=> ToSet(Ended(how)) = {}
               /\ OpenAt(I, Folded, H \cup A)
               /\ OpenAt(I, Folded \o Results(Ended("handoff")), A)
               /\ OpenAt(I, Folded \o Results(Ended("approval")), H)
               /\ OpenAt(I, Folded \o Results(Ended("handoff")) \o Results(Ended("approval")), {})
<1> DEFINE D == ToSet(Ended("done"))
           H == ToSet(Ended("handoff"))
           A == ToSet(Ended("approval"))
           S == ToSet(calls)
<1>1. /\ calls \in Seq(I) /\ Single(calls) /\ DOMAIN task = DOMAIN calls
      /\ OpenAt(I, conv, S)
      /\ \A k \in DOMAIN calls : task[k] \in {"done", "handoff", "approval"}
  BY DEF TalkInv, BatchEnded
<1>2. ASSUME NEW how
      PROVE  /\ Ended(how) \in Seq(I) /\ Single(Ended(how))
             /\ \A k \in DOMAIN calls : calls[k] \in ToSet(Ended(how)) <=> task[k] = how
             /\ ToSet(Ended(how)) \subseteq ToSet(calls)
             /\ Ended(how) = << >> <=> ToSet(Ended(how)) = {}
  BY <1>1, EndedFacts
<1>3. D \subseteq S /\ H \subseteq S /\ A \subseteq S
  BY <1>2
<1>4. ASSUME NEW x \in S
      PROVE  \/ x \in D /\ x \notin H /\ x \notin A
             \/ x \notin D /\ x \in H /\ x \notin A
             \/ x \notin D /\ x \notin H /\ x \in A
  <2>1. PICK k \in DOMAIN calls : x = calls[k]
    BY DEF ToSet
  <2>2. (x \in D <=> task[k] = "done") /\ (x \in H <=> task[k] = "handoff")
        /\ (x \in A <=> task[k] = "approval")
    BY <1>2, <2>1
  <2>3. task[k] \in {"done", "handoff", "approval"}
    BY <1>1
  <2> HIDE DEF D, H, A
  <2> QED
    BY <2>2, <2>3
<1>5. OpenAt(I, Folded, S \ D)
  BY <1>1, <1>2, <1>3, OpenAnswered DEF Folded
<1> HIDE DEF D, H, A, S
<1>6. S \ D = H \cup A /\ (H \cup A) \ H = A /\ (H \cup A) \ A = H /\ A \ A = {}
  BY <1>3, <1>4
<1>7. OpenAt(I, Folded, H \cup A)
  BY <1>5, <1>6
<1>8. OpenAt(I, Folded \o Results(Ended("handoff")), A)
  <2>1. H \subseteq H \cup A
    OBVIOUS
  <2>2. OpenAt(I, Folded \o Results(Ended("handoff")), (H \cup A) \ H)
    BY <1>2, <1>7, <2>1, OpenAnswered DEF H
  <2> QED
    BY <1>6, <2>2
<1>9. OpenAt(I, Folded \o Results(Ended("approval")), H)
  <2>1. A \subseteq H \cup A
    OBVIOUS
  <2>2. OpenAt(I, Folded \o Results(Ended("approval")), (H \cup A) \ A)
    BY <1>2, <1>7, <2>1, OpenAnswered DEF A
  <2> QED
    BY <1>6, <2>2
<1>10. OpenAt(I, Folded \o Results(Ended("handoff")) \o Results(Ended("approval")), {})
  <2>1. A \subseteq A
    OBVIOUS
  <2>2. OpenAt(I, Folded \o Results(Ended("handoff")) \o Results(Ended("approval")), A \ A)
    BY <1>2, <1>8, <2>1, OpenAnswered DEF A
  <2> QED
    BY <1>6, <2>2
<1> QED
  BY <1>2, <1>7, <1>8, <1>9, <1>10 DEF H, A

---------------------------------------------------------------------------
(* Its steps                                                               *)

\* Where a step of the loop leads: the run returns, or goes round again.
LEMMA OtherReturnTalk ==
    ASSUME NEW I, TalkInv(I), NEW how \in {"cancelled", "suspended", "mixed"},
           NEW c \in Seq(Messages(I)), Return(how, c),
           UNCHANGED << calls, invocation, replayable, reported >>,
           followups' \in {0, 1}, mark' \in Nat
    PROVE  TalkInv(I)'
<1>1. pc' = "idle" /\ outcome' = how /\ conv' = c
  BY DEF Return
<1> QED
  BY <1>1 DEF TalkInv, Fine, ReplayableAfter

LEMMA FineReturnTalk ==
    ASSUME NEW I, TalkInv(I), NEW how, NEW c, Fine(I, c), Return(how, c),
           UNCHANGED << calls, invocation, replayable, reported >>,
           followups' \in {0, 1}, mark' \in Nat
    PROVE  TalkInv(I)'
<1>1. pc' = "idle" /\ conv' = c
  BY DEF Return
<1> QED
  BY <1>1 DEF TalkInv, Fine, ReplayableAfter

LEMMA TopTalk ==
    ASSUME NEW I, TalkInv(I), pc' = "top", Fine(I, conv'), Fine(I, reported'.conv),
           UNCHANGED << calls, invocation, replayable, mark >>, followups' \in {0, 1}
    PROVE  TalkInv(I)'
BY DEF TalkInv, Fine, ReplayableAfter

\* What leaves the conversation and the place in the loop alone.
LEMMA AsideTalk ==
    ASSUME NEW I, TalkInv(I), DOMAIN task' = DOMAIN task, followups' \in {0, 1},
           UNCHANGED << conv, pc, calls, mark, invocation, replayable, reported, outcome >>
    PROVE  TalkInv(I)'
BY DEF TalkInv, Fine, OpenAt, ReplayableAfter

LEMMA NewCallsFacts ==
    ASSUME NEW I, Nat \X Nat \X Nat \subseteq I, requests \in Nat, invocation \in Nat,
           NEW n \in Nat
    PROVE  /\ NewCalls(n) \in Seq(I) /\ Single(NewCalls(n))
           /\ NewCalls(n) = << >> <=> n = 0
<1> DEFINE ids == NewCalls(n)
<1>1. ids = [k \in 1 .. n |-> << invocation, requests, k >>]
  BY DEF NewCalls
<1>2. \A k \in 1 .. n : << invocation, requests, k >> \in I
  OBVIOUS
<1> HIDE DEF ids
<1>3. ids \in Seq(I) /\ Len(ids) = n
  BY <1>1, <1>2
<1>4. Single(ids)
  BY <1>1 DEF Single
<1>5. ids = << >> <=> n = 0
  BY <1>3
<1> QED
  BY <1>3, <1>4, <1>5 DEF ids

\* The terminal message answers nothing; it makes calls only if they were in
\* the reply and the agent has tools.
LEMMA EgressFacts ==
    ASSUME NEW I, NEW c, Fine(I, c), NEW ids \in Seq(I), NEW text \in Nat
    PROVE  /\ Egress(c, ids, text) \in Seq(Messages(I))
           /\ replayable => \/ Validate(Egress(c, ids, text))
                            \/ CallsOf(Last(Egress(c, ids, text))) # << >>
           /\ agent \notin WithTools \/ ids = << >> => Fine(I, Egress(c, ids, text))
<1> DEFINE kept == IF agent \in WithTools THEN ids ELSE << >>
           m == AssistantMessage(kept, text)
           e == Egress(c, ids, text)
<1>1. e = c \/ e = Append(c, m)
  BY DEF Egress
<1>2. c \in Seq(Messages(I)) /\ << >> \in Seq(I)
  BY DEF Fine
<1>3. kept \in Seq(I)
  BY <1>2
<1> HIDE DEF kept
<1>4. m \in Messages(I) /\ (CallsOf(m) = << >> <=> kept = << >>)
  BY <1>3, CallingMessage
<1>5. kept = << >> => Silent(m)
  BY SilentMessages
<1> HIDE DEF m, e
<1>6. kept = << >> => Fine(I, e)
  BY <1>1, <1>4, <1>5, FineAppend
<1>7. e \in Seq(Messages(I))
  BY <1>1, <1>2, <1>4
<1>8. e = Append(c, m) => Last(e) = m
  BY <1>2, <1>4 DEF Last
<1>9. replayable => Validate(e) \/ CallsOf(Last(e)) # << >>
  BY <1>1, <1>4, <1>6, <1>8 DEF Fine
<1>10. agent \notin WithTools \/ ids = << >> => kept = << >>
  BY DEF kept
<1> QED
  BY <1>6, <1>7, <1>9, <1>10 DEF e

LEMMA EgressTalk ==
    ASSUME NEW I, TalkInv(I), NEW how \in {"closed", "continued"}, NEW c, Fine(I, c),
           NEW ids \in Seq(I), NEW text \in Nat, Return(how, Egress(c, ids, text)),
           UNCHANGED << calls, invocation, replayable, reported >>,
           followups' \in {0, 1}, mark' \in Nat
    PROVE  TalkInv(I)'
<1> DEFINE e == Egress(c, ids, text)
<1>1. /\ e \in Seq(Messages(I))
      /\ replayable => Validate(e) \/ CallsOf(Last(e)) # << >>
  BY EgressFacts
<1>2. Return(how, e)
  OBVIOUS
<1> HIDE DEF e
<1>3. pc' = "idle" /\ conv' = e /\ outcome' = how
  BY <1>2 DEF Return
<1>4. ReplayableAfter'
  BY <1>1, <1>3 DEF ReplayableAfter
<1> QED
  BY <1>1, <1>3, <1>4 DEF TalkInv, Fine

LEMMA PrefixOfAppend ==
    ASSUME NEW T, NEW c \in Seq(T), NEW x \in T, NEW k \in 0 .. Len(c)
    PROVE  SubSeq(Append(c, x), 1, k) = SubSeq(c, 1, k)
OBVIOUS

\* What the steps read, besides TalkInv.
Known ==
    /\ steering \in Seq(Nat) /\ task \in Seq(TaskStates) /\ requests \in Nat
    /\ pc \in Waits \cup {"idle"}

LEMMA ContinueTalk ==
    ASSUME NEW I, TalkInv(I), Known, NEW c, Fine(I, c), ContinueLoop(c),
           \/ reported' = reported
           \/ reported'.conv = c,
           UNCHANGED << calls, invocation, replayable, mark >>, followups' \in {0, 1}
    PROVE  TalkInv(I)'
<1>1. conv' = c \o Steered(steering) /\ pc' = "top"
  BY DEF ContinueLoop, Drain
<1>2. Fine(I, c \o Steered(steering))
  BY FineDrained DEF TalkInv, Known
<1>3. Fine(I, reported'.conv)
  BY DEF TalkInv
<1> QED
  BY <1>1, <1>2, <1>3, TopTalk

LEMMA InvokeTalk ==
    ASSUME NEW I, Stored \subseteq Seq(Messages(I)), TalkInv(I), Invoke
    PROVE  TalkInv(I)'
<1>1. PICK c \in Started, a \in Agents :
         /\ conv' = NormalizeArguments(c)
         /\ replayable' = Validate(conv')
         /\ reported' = [conv |-> conv', agent |-> a, iter |-> 0]
  BY DEF Invoke, Report
<1>2. SystemMessage \in Messages(I) /\ UserMessage(2) \in Messages(I)
  BY SilentMessages
<1>3. c \in Seq(Messages(I))
  <2>1. c = << SystemMessage, UserMessage(2) >>
        \/ \E d \in Stored \cup {conv} : c = Append(d, UserMessage(2))
    BY <1>1 DEF Started
  <2>2. \A d \in Stored \cup {conv} : d \in Seq(Messages(I))
    BY DEF TalkInv
  <2>3. \A d \in Seq(Messages(I)) : Append(d, UserMessage(2)) \in Seq(Messages(I))
    BY <1>2
  <2>4. << SystemMessage, UserMessage(2) >> \in Seq(Messages(I))
    BY <1>2
  <2> QED
    BY <2>1, <2>2, <2>3, <2>4
<1>4. conv' \in Seq(Messages(I))
  BY <1>1, <1>3, NormalizeType
<1>5. replayable' \in BOOLEAN
  BY <1>1 DEF Validate
<1>6. Fine(I, conv)' /\ Fine(I, reported.conv)'
  BY <1>1, <1>4 DEF Fine
<1>7. /\ pc' = "top" /\ calls' = << >> /\ followups' = 0 /\ mark' = 0
      /\ invocation' = invocation + 1
  BY DEF Invoke
<1>8. << >> \in Seq(I) /\ Single(<< >>)
  BY DEF Single
<1> QED
  BY <1>4, <1>5, <1>6, <1>7, <1>8 DEF TalkInv, ReplayableAfter

LEMMA TopStepTalk ==
    ASSUME NEW I, None \notin I, TalkInv(I), TimeUp \/ GiveUp \/ AskToClose \/ LoopTop
    PROVE  TalkInv(I)'
<1>1. Fine(I, conv) /\ conv \in Seq(Messages(I)) /\ pc = "top"
  BY DEF TalkInv, TimeUp, GiveUp, AskToClose, LoopTop
<1>2. followups \in {0, 1} /\ mark \in Nat
  BY DEF TalkInv
<1>3. CASE TimeUp \/ GiveUp
  <2>1. Return("error", conv) /\ UNCHANGED << calls, invocation, replayable, reported,
                                              followups, mark >>
    BY <1>3 DEF TimeUp, GiveUp, batch, course
  <2> QED
    BY <1>1, <1>2, <2>1, FineReturnTalk
<1>4. CASE LoopTop
  <2>1. UNCHANGED << calls, invocation, replayable, reported, followups, mark >>
    BY <1>4 DEF LoopTop, batch, course
  <2>2. CASE Return("cancelled", RecoverOnCancel(conv))
    <3>1. RecoverOnCancel(conv) \in Seq(Messages(I))
      BY <1>1, RecoveredType
    <3> QED
      BY <1>2, <2>1, <2>2, <3>1, OtherReturnTalk
  <2>3. CASE pc' = "ready" /\ conv' = conv
    BY <1>1, <2>1, <2>3 DEF TalkInv, Fine, ReplayableAfter
  <2> QED
    BY <1>4, <2>2, <2>3 DEF LoopTop
<1>5. CASE AskToClose
  <2>1. /\ conv' = Append(conv, UserMessage(1)) /\ pc' = "closing"
        /\ UNCHANGED << calls, invocation, replayable, reported, followups, mark >>
    BY <1>5 DEF AskToClose, batch
  <2>2. UserMessage(1) \in Messages(I)
    BY SilentMessages
  <2>3. Fine(I, conv')
    BY <1>1, <2>1, FineUser
  <2>4. Len(conv') - 1 = Len(conv) /\ Len(conv) \in Nat
    BY <1>1, <2>1, <2>2
  <2>5. SubSeq(conv', 1, Len(conv') - 1) = conv
    BY <1>1, <2>1, <2>2, <2>4, PrefixOfAppend
  <2> QED
    BY <1>1, <2>1, <2>3, <2>5 DEF TalkInv, Fine, ReplayableAfter
<1> QED
  BY <1>3, <1>4, <1>5

LEMMA CloseTalk ==
    ASSUME NEW I, Nat \X Nat \X Nat \subseteq I, TalkInv(I), Known, Close
    PROVE  TalkInv(I)'
<1>1. /\ Fine(I, conv) /\ conv \in Seq(Messages(I))
      /\ Fine(I, SubSeq(conv, 1, Len(conv) - 1))
      /\ followups \in {0, 1} /\ mark \in Nat
  BY DEF TalkInv, Close
<1>2. UNCHANGED << calls, invocation, replayable, reported, followups, mark >>
  BY DEF Close, batch, course
<1>3. CASE \E n \in 0 .. MaxBatch, text \in {0, 2} :
              Return("closed", Egress(conv, NewCalls(n), text))
  <2>1. PICK n \in 0 .. MaxBatch, text \in {0, 2} :
           Return("closed", Egress(conv, NewCalls(n), text))
    BY <1>3
  <2>2. n \in Nat /\ text \in Nat
    OBVIOUS
  <2>3. NewCalls(n) \in Seq(I)
    BY <2>2, NewCallsFacts DEF TalkInv, Known
  <2> QED
    BY <1>1, <1>2, <2>1, <2>2, <2>3, EgressTalk
<1>4. CASE Return("error", SubSeq(conv, 1, Len(conv) - 1))
  BY <1>1, <1>2, <1>4, FineReturnTalk
<1>5. CASE Return("cancelled", conv)
  BY <1>1, <1>2, <1>5, FineReturnTalk
<1> QED
  BY <1>3, <1>4, <1>5 DEF Close

LEMMA RequestTalk ==
    ASSUME NEW I, None \notin I, TalkInv(I), Request \/ LLMFails \/ StreamCancelled
               \/ ContextExceeded, Known
    PROVE  TalkInv(I)'
<1>1. followups \in {0, 1} /\ mark \in Nat /\ Fine(I, conv)
  <2>1. pc = "refused" => Fine(I, conv)
    BY DEF TalkInv, Fine
  <2> QED
    BY <2>1 DEF TalkInv, Request, LLMFails, StreamCancelled, ContextExceeded
<1>2. UNCHANGED << calls, invocation, replayable, reported, followups, mark >>
  BY DEF Request, LLMFails, StreamCancelled, ContextExceeded, batch, course
<1>3. CASE Request
  <2>1. PICK c \in Compactions(conv) : /\ conv' = NormalizeArguments(c)
                                       /\ pc' = IF Validate(conv') THEN "asked" ELSE "refused"
    BY <1>3 DEF Request
  <2>2. Fine(I, conv')
    BY <1>1, <2>1, FineCompacted, FineNormalized
  <2>3. replayable => pc' = "asked"
    BY <2>1, <2>2 DEF Fine
  <2>4. pc' \in {"asked", "refused"}
    BY <2>1
  <2> QED
    BY <1>2, <2>2, <2>3, <2>4 DEF TalkInv, Fine, ReplayableAfter
<1>4. CASE LLMFails
  BY <1>1, <1>2, <1>4, FineReturnTalk, ContinueTalk DEF LLMFails
<1>5. CASE StreamCancelled
  BY <1>1, <1>2, <1>5, FineReturnTalk DEF StreamCancelled
<1>6. CASE ContextExceeded
  <2>1. CASE Return("error", conv)
    BY <1>1, <1>2, <2>1, FineReturnTalk
  <2>2. CASE \E c \in Compactions(conv)
                    \cup {TruncateConversation(conv, TRUE, 2, b) : b \in Budgets} :
                ContinueLoop(c)
    <3>1. PICK c \in Compactions(conv)
                    \cup {TruncateConversation(conv, TRUE, 2, b) : b \in Budgets} :
                ContinueLoop(c)
      BY <2>2
    <3>2. Fine(I, c)
      BY <1>1, FineCompacted
    <3> QED
      BY <1>1, <1>2, <3>1, <3>2, ContinueTalk
  <2> QED
    BY <1>6, <2>1, <2>2 DEF ContextExceeded
<1> QED
  BY <1>3, <1>4, <1>5, <1>6

LEMMA ReplyTalk ==
    ASSUME NEW I, Nat \X Nat \X Nat \subseteq I, TalkInv(I), Known,
           ReplyCalls \/ ReplyAnswer \/ ReplyTruncated
    PROVE  TalkInv(I)'
<1>1. /\ Fine(I, conv) /\ conv \in Seq(Messages(I))
      /\ followups \in {0, 1} /\ mark \in Nat
      /\ requests \in Nat /\ invocation \in Nat
  BY DEF TalkInv, Known, ReplyCalls, ReplyAnswer, ReplyTruncated
<1>2. Fine(I, FollowedUp(conv))
  BY <1>1, FineDrained DEF Known
<1>3. CASE ReplyCalls
  <2>1. PICK n \in 1 .. MaxBatch :
           /\ conv' = Append(conv, AssistantMessage(NewCalls(n), 2))
           /\ calls' = NewCalls(n)
           /\ task' = [k \in 1 .. n |-> "new"]
    BY <1>3 DEF ReplyCalls
  <2>2. /\ pc' = "batch"
        /\ UNCHANGED << invocation, replayable, reported, followups, mark >>
    BY <1>3 DEF ReplyCalls, course
  <2>3. n \in Nat /\ n # 0 /\ 2 \in Nat
    OBVIOUS
  <2>4. NewCalls(n) \in Seq(I) /\ Single(NewCalls(n)) /\ NewCalls(n) # << >>
    BY <1>1, <2>3, NewCallsFacts
  <2>5. DOMAIN task' = 1 .. n /\ DOMAIN calls' = 1 .. n
    BY <2>1 DEF NewCalls
  <2> DEFINE ids == NewCalls(n)
             d == Append(conv, AssistantMessage(ids, 2))
  <2>6. AssistantMessage(ids, 2) \in Messages(I)
    BY <2>3, <2>4, CallingMessage
  <2>7. d \in Seq(Messages(I))
    BY <1>1, <2>6
  <2>8. Validate(conv) => Replay(d).ok /\ Replay(d).pending = ToSet(ids)
    BY <1>1, <2>3, <2>4, CallsOpen
  <2>9. conv' = d /\ calls' = ids
    BY <2>1
  <2>10. ids \in Seq(I) /\ Single(ids)
    BY <2>4
  <2> HIDE DEF d, ids
  <2>11. OpenAt(I, conv, ToSet(calls))'
    BY <1>1, <2>2, <2>7, <2>8, <2>9 DEF OpenAt, Fine
  <2> QED
    BY <1>1, <2>2, <2>5, <2>7, <2>9, <2>10, <2>11 DEF TalkInv, Fine, ReplayableAfter
<1>4. CASE ReplyAnswer
  <2>1. PICK n \in Undispatched, text \in {0, 2} :
          Return("answered", Egress(FollowedUp(conv), NewCalls(n), text))
    BY <1>4 DEF ReplyAnswer
  <2>2. followups' = 0 /\ UNCHANGED << calls, invocation, replayable, reported, mark >>
    BY <1>4 DEF ReplyAnswer, batch, course
  <2>3. n \in Nat /\ text \in Nat /\ (agent \in WithTools => n = 0)
    BY DEF Undispatched
  <2>4. NewCalls(n) \in Seq(I) /\ (NewCalls(n) = << >> <=> n = 0)
    BY <1>1, <2>3, NewCallsFacts
  <2>5. Fine(I, Egress(FollowedUp(conv), NewCalls(n), text))
    BY <1>2, <2>3, <2>4, EgressFacts
  <2> QED
    BY <1>1, <2>1, <2>2, <2>5, FineReturnTalk
<1>5. CASE ReplyTruncated
  <2>1. PICK retry \in BOOLEAN :
           LET c == IF retry THEN FollowedUp(conv) ELSE conv
           IN  /\ followups' = IF retry THEN 0 ELSE followups
               /\ IF iter + 1 >= limit THEN Return("error", c) ELSE ContinueLoop(c)
    BY <1>5 DEF ReplyTruncated
  <2> DEFINE c == IF retry THEN FollowedUp(conv) ELSE conv
  <2>2. /\ followups' \in {0, 1}
        /\ UNCHANGED << calls, invocation, replayable, reported, mark >>
    BY <1>1, <1>5, <2>1 DEF ReplyTruncated, batch, course
  <2>3. Fine(I, c)
    BY <1>1, <1>2
  <2>4. Return("error", c) \/ ContinueLoop(c)
    BY <2>1
  <2> HIDE DEF c
  <2> QED
    BY <1>1, <2>2, <2>3, <2>4, FineReturnTalk, ContinueTalk
<1> QED
  BY <1>3, <1>4, <1>5

\* One more chunk is asked for: what comes before the sub-loop stays.
LEMMA MoreTalk ==
    ASSUME NEW I, Nat \X Nat \X Nat \subseteq I, TalkInv(I), Known, NEW n \in 0 .. 1,
           NEW k, AskToContinue(Append(conv, AssistantMessage(NewCalls(n), 2)), k),
           mark' \in 0 .. Len(conv), Fine(I, SubSeq(conv, 1, mark')),
           UNCHANGED << calls, invocation, replayable, reported >>
    PROVE  TalkInv(I)'
<1> DEFINE m == AssistantMessage(NewCalls(n), 2)
           u == UserMessage(1)
           d == Append(conv, m)
<1>1. conv \in Seq(Messages(I)) /\ requests \in Nat /\ invocation \in Nat /\ n \in Nat
      /\ 2 \in Nat /\ followups \in {0, 1} /\ Len(conv) \in Nat
  BY DEF TalkInv, Known
<1>2. NewCalls(n) \in Seq(I)
  BY <1>1, NewCallsFacts
<1>3. m \in Messages(I) /\ u \in Messages(I)
  BY <1>1, <1>2, CallingMessage, SilentMessages
<1>4. conv' = Append(d, u) /\ pc' = "more" /\ followups' = followups
  BY DEF AskToContinue
<1> HIDE DEF m, u
<1>5. d \in Seq(Messages(I)) /\ Len(d) = Len(conv) + 1
  BY <1>1, <1>3
<1>6. SubSeq(d, 1, mark') = SubSeq(conv, 1, mark')
  BY <1>1, <1>3, PrefixOfAppend
<1> HIDE DEF d
<1>7. conv' \in Seq(Messages(I)) /\ Len(conv') = Len(d) + 1
  BY <1>3, <1>4, <1>5
<1>8. mark' \in 0 .. Len(d) /\ mark' \in Nat /\ mark' <= Len(conv')
  BY <1>1, <1>5, <1>7
<1>9. SubSeq(conv', 1, mark') = SubSeq(conv, 1, mark')
  BY <1>3, <1>4, <1>5, <1>6, <1>8, PrefixOfAppend
<1>10. Fine(I, SubSeq(conv, 1, mark))'
  BY <1>9 DEF Fine
<1> QED
  BY <1>1, <1>4, <1>7, <1>8, <1>10 DEF TalkInv, Fine, ReplayableAfter

\* The sub-loop collapses into one message.
LEMMA EndTalk ==
    ASSUME NEW I, Nat \X Nat \X Nat \subseteq I, TalkInv(I), Known, NEW n \in 0 .. 1,
           NEW before, Fine(I, SubSeq(conv, 1, before)),
           EndContinue(before, NewCalls(n)) \/ EndContinue(before, << >>),
           mark' \in Nat, UNCHANGED << calls, invocation, replayable, reported >>
    PROVE  TalkInv(I)'
<1> DEFINE c == Append(SubSeq(conv, 1, before), AssistantMessage(<< >>, 2))
<1>1. requests \in Nat /\ invocation \in Nat /\ n \in Nat /\ 2 \in Nat
      /\ followups \in {0, 1} /\ << >> \in Seq(I)
  BY DEF TalkInv, Known
<1>2. NewCalls(n) \in Seq(I)
  BY <1>1, NewCallsFacts
<1>3. Fine(I, c)
  BY <1>1, SilentMessages, FineAppend
<1>4. PICK ids \in Seq(I) : EndContinue(before, ids)
  BY <1>1, <1>2
<1>5. Return("continued", Egress(FollowedUp(c), ids, 2)) /\ followups' = 0
  BY <1>4 DEF EndContinue
<1> HIDE DEF c
<1>6. Fine(I, FollowedUp(c))
  BY <1>1, <1>3, FineDrained DEF Known
<1> QED
  BY <1>1, <1>5, <1>6, EgressTalk

LEMMA ContinuesTalk ==
    ASSUME NEW I, Nat \X Nat \X Nat \subseteq I, TalkInv(I), Known, ReplyContinue \/ Chunk
    PROVE  TalkInv(I)'
<1>1. conv \in Seq(Messages(I)) /\ Len(conv) \in Nat /\ mark \in Nat /\ 0 \in 0 .. 1
  BY DEF TalkInv
<1>2. UNCHANGED << calls, invocation, replayable, reported >>
  BY DEF ReplyContinue, Chunk, batch, course
<1>3. CASE ReplyContinue
  <2>1. mark' = Len(conv) /\ Fine(I, conv) /\ SubSeq(conv, 1, Len(conv)) = conv
    BY <1>1, <1>3 DEF ReplyContinue, TalkInv
  <2>2. CASE EndContinue(Len(conv), << >>)
    BY <1>1, <1>2, <2>1, <2>2, EndTalk
  <2>3. CASE \E n \in Undispatched :
                AskToContinue(Append(conv, AssistantMessage(NewCalls(n), 2)), 1)
    <3>1. PICK n \in 0 .. 1 : AskToContinue(Append(conv, AssistantMessage(NewCalls(n), 2)), 1)
      BY <2>3 DEF Undispatched
    <3>2. mark' \in 0 .. Len(conv)
      BY <1>1, <2>1
    <3>3. SubSeq(conv, 1, mark') = conv
      BY <2>1
    <3>4. Fine(I, SubSeq(conv, 1, mark'))
      BY <2>1, <3>3
    <3> QED
      BY <1>2, <3>1, <3>2, <3>4, MoreTalk
  <2> QED
    BY <1>3, <2>2, <2>3 DEF ReplyContinue
<1>4. CASE Chunk
  <2>1. mark' = mark /\ mark \in 0 .. Len(conv) /\ Fine(I, SubSeq(conv, 1, mark))
    BY <1>1, <1>4 DEF Chunk, TalkInv
  <2>2. CASE EndContinue(mark, << >>)
    BY <1>1, <1>2, <2>1, <2>2, EndTalk
  <2>3. CASE \E n \in 0 .. 1 : \/ EndContinue(mark, NewCalls(n))
                               \/ AskToContinue(Append(conv, AssistantMessage(NewCalls(n), 2)),
                                                chunks + 1)
    <3>1. PICK n \in 0 .. 1 : \/ EndContinue(mark, NewCalls(n))
                              \/ AskToContinue(Append(conv, AssistantMessage(NewCalls(n), 2)),
                                               chunks + 1)
      BY <2>3
    <3>2. mark' \in 0 .. Len(conv) /\ mark' \in Nat /\ Fine(I, SubSeq(conv, 1, mark'))
      BY <1>1, <2>1
    <3>3. CASE EndContinue(mark, NewCalls(n))
      BY <1>2, <2>1, <3>2, <3>3, EndTalk
    <3>4. CASE AskToContinue(Append(conv, AssistantMessage(NewCalls(n), 2)), chunks + 1)
      BY <1>2, <3>2, <3>4, MoreTalk
    <3> QED
      BY <3>1, <3>3, <3>4
  <2> QED
    BY <1>4, <2>2, <2>3 DEF Chunk
<1> QED
  BY <1>3, <1>4

LEMMA AsidesTalk ==
    ASSUME NEW I, TalkInv(I), Known,
           \/ Steer
           \/ FollowUp
           \/ RequestCancel
           \/ \E i \in DOMAIN task : Dispatch(i) \/ ToolReturns(i)
           \/ UNCHANGED vars
    PROVE  TalkInv(I)'
<1> USE DEF batch, course
<1>1. followups \in {0, 1}
  BY DEF TalkInv
<1>2. CASE Steer
  BY <1>1, <1>2, AsideTalk DEF Steer
<1>3. CASE FollowUp \/ RequestCancel
  BY <1>1, <1>3, AsideTalk DEF FollowUp, RequestCancel
<1>4. CASE \E i \in DOMAIN task : Dispatch(i)
  <2>1. PICK i \in DOMAIN task : Dispatch(i)
    BY <1>4
  <2>2. /\ UNCHANGED << conv, pc, calls, mark, invocation, replayable, reported, outcome >>
        /\ followups' = followups
    BY <2>1 DEF Dispatch
  <2>3. DOMAIN task' = DOMAIN task
    BY <2>1 DEF Dispatch, Acquire
  <2> QED
    BY <1>1, <2>2, <2>3, AsideTalk
<1>5. CASE \E i \in DOMAIN task : ToolReturns(i)
  <2>1. PICK i \in DOMAIN task : ToolReturns(i)
    BY <1>5
  <2>2. /\ UNCHANGED << conv, pc, calls, mark, invocation, replayable, reported, outcome >>
        /\ followups' = followups
    BY <2>1 DEF ToolReturns
  <2>3. DOMAIN task' = DOMAIN task
    BY <2>1 DEF ToolReturns, Release
  <2> QED
    BY <1>1, <2>2, <2>3, AsideTalk
<1>6. CASE UNCHANGED vars
  BY <1>1, <1>6, AsideTalk DEF vars
<1> QED
  BY <1>2, <1>3, <1>4, <1>5, <1>6

LEMMA HandOffTalk ==
    ASSUME NEW I, TalkInv(I), Known, NEW c, Fine(I, c), NEW target, HandOff(c, target),
           UNCHANGED << calls, invocation, replayable, mark >>, followups' \in {0, 1}
    PROVE  TalkInv(I)'
<1>1. /\ conv' = CarriedOver(c) \o Steered(steering) /\ pc' = "top"
      /\ reported'.conv = conv'
  BY DEF HandOff, Drain, ReportTarget, Report, RunTarget
<1>2. Fine(I, CarriedOver(c))
  BY CarriedIsReplayable DEF Fine, CarriedOver
<1>3. Fine(I, CarriedOver(c) \o Steered(steering))
  BY <1>2, FineDrained DEF TalkInv, Known
<1>4. Fine(I, conv')
  BY <1>1, <1>3
<1>5. Fine(I, reported'.conv)
  BY <1>1, <1>4
<1> QED
  BY <1>1, <1>4, <1>5, TopTalk

LEMMA BatchTalk ==
    ASSUME NEW I, None \notin I, TalkInv(I), Known,
           BatchDone \/ BatchRefused \/ BatchHandsOff \/ BatchSuspends \/ AskApprover
    PROVE  TalkInv(I)'
<1> DEFINE D == ToSet(Ended("done"))
           H == ToSet(Ended("handoff"))
           A == ToSet(Ended("approval"))
           handoffs == Results(Ended("handoff"))
           approvals == Results(Ended("approval"))
<1>1. /\ \A how : Ended(how) \in Seq(I) /\ Single(Ended(how))
      /\ \A how : Ended(how) = << >> <=> ToSet(Ended(how)) = {}
      /\ OpenAt(I, Folded, H \cup A)
      /\ OpenAt(I, Folded \o handoffs, A)
      /\ OpenAt(I, Folded \o approvals, H)
      /\ OpenAt(I, Folded \o handoffs \o approvals, {})
  <2>1. task \in Seq(TaskStates) /\ BatchEnded
    BY DEF Known, BatchDone, BatchRefused, BatchHandsOff, BatchSuspends, AskApprover,
           OneApproval
  <2> QED
    BY <2>1, BatchFacts
<1>2. Ended("handoff") = << >> => H = {}
  BY <1>1
<1>3. Ended("approval") = << >> => A = {}
  BY <1>1
<1> HIDE DEF H, A, handoffs, approvals
<1>4. /\ H = {} /\ A = {} => Fine(I, Folded)
      /\ A = {} => Fine(I, Folded \o handoffs)
      /\ H = {} => Fine(I, Folded \o approvals)
      /\ Fine(I, Folded \o handoffs \o approvals)
  <2>1. H = {} /\ A = {} => H \cup A = {}
    OBVIOUS
  <2> QED
    BY <1>1, <2>1, NoneOpen
<1>5. followups \in {0, 1} /\ mark \in Nat
  BY DEF TalkInv
<1>6. CASE BatchDone
  <2>1. Fine(I, Folded)
    BY <1>2, <1>3, <1>4, <1>6 DEF BatchDone
  <2>2. reported'.conv = Folded /\ ContinueLoop(Folded)
    BY <1>6 DEF BatchDone, Report
  <2>3. UNCHANGED << calls, invocation, replayable, mark, followups >>
    BY <1>6 DEF BatchDone, batch, course
  <2> QED
    BY <1>5, <2>1, <2>2, <2>3, ContinueTalk
<1>7. CASE BatchRefused
  <2>1. UNCHANGED << calls, invocation, replayable, reported, mark, followups >>
    BY <1>7 DEF BatchRefused, batch, course
  <2>2. CASE Ended("handoff") = << >> /\ Return("error", Folded \o approvals)
    <3>1. Fine(I, Folded \o approvals)
      BY <1>2, <1>4, <2>2
    <3> QED
      BY <1>5, <2>1, <2>2, <3>1, FineReturnTalk
  <2>3. CASE Return("error", Folded \o handoffs \o approvals)
    BY <1>4, <1>5, <2>1, <2>3, FineReturnTalk
  <2>4. CASE Ended("approval") = << >> /\ Return("error", Folded \o handoffs)
    <3>1. Fine(I, Folded \o handoffs)
      BY <1>3, <1>4, <2>4
    <3> QED
      BY <1>5, <2>1, <2>4, <3>1, FineReturnTalk
  <2>5. CASE Return("mixed", Folded \o handoffs)
    <3>1. Folded \o handoffs \in Seq(Messages(I))
      BY <1>1 DEF OpenAt
    <3> QED
      BY <1>5, <2>1, <2>5, <3>1, OtherReturnTalk
  <2> QED
    BY <1>7, <2>2, <2>3, <2>4, <2>5 DEF BatchRefused, handoffs, approvals
<1>8. CASE BatchHandsOff
  <2>1. UNCHANGED << calls, invocation, replayable, mark, followups >>
    BY <1>8 DEF BatchHandsOff, batch, course
  <2> DEFINE c == Folded \o handoffs
  <2>2. Fine(I, c)
    BY <1>3, <1>4, <1>8 DEF BatchHandsOff
  <2>3. HandoffFails(c) \/ \E target \in Agents : HandOff(c, target) \/ HandTask(target)
    BY <1>8 DEF BatchHandsOff, handoffs
  <2> HIDE DEF c
  <2>4. CASE HandoffFails(c)
    BY <1>5, <2>1, <2>2, <2>4, FineReturnTalk DEF HandoffFails
  <2>5. CASE \E target \in Agents : HandOff(c, target)
    BY <1>5, <2>1, <2>2, <2>5, HandOffTalk
  <2>6. CASE \E target \in Agents : HandTask(target)
    <3>1. PICK target \in Agents : HandTask(target)
      BY <2>6
    <3>2. /\ conv' = << SystemMessage, UserMessage(2) >> /\ pc' = "top"
          /\ reported'.conv = conv'
      BY <3>1 DEF HandTask, ReportTarget, Report, RunTarget
    <3> DEFINE d == << SystemMessage, UserMessage(2) >>
    <3>3. Fine(I, d)
      <4>1. SystemMessage \in Messages(I) /\ Silent(SystemMessage)
            /\ UserMessage(2) \in Messages(I) /\ Silent(UserMessage(2))
        BY SilentMessages
      <4>2. Fine(I, << >>)
        <5>1. << >> \in Seq(Messages(I))
          OBVIOUS
        <5>2. Validate(<< >>)
          BY <5>1, ReplayEmpty, ValidIsFresh
        <5> QED
          BY <5>1, <5>2 DEF Fine
      <4>3. d \in Seq({m \in Messages(I) : Silent(m)})
        BY <4>1
      <4>4. Fine(I, << >> \o d)
        BY <4>2, <4>3, FineSilents
      <4>5. << >> \o d = d
        BY <4>3
      <4> QED
        BY <4>4, <4>5
    <3>4. conv' = d
      BY <3>2
    <3> HIDE DEF d
    <3>5. Fine(I, conv')
      BY <3>3, <3>4
    <3>6. Fine(I, reported'.conv)
      BY <3>2, <3>5
    <3> QED
      BY <1>5, <2>1, <3>2, <3>5, <3>6, TopTalk
  <2> QED
    BY <2>3, <2>4, <2>5, <2>6
<1>9. CASE BatchSuspends
  <2>1. UNCHANGED << calls, invocation, replayable, reported, mark, followups >>
    BY <1>9 DEF BatchSuspends, batch, course
  <2>2. CASE Return("error", Folded \o approvals)
    <3>1. Fine(I, Folded \o approvals)
      BY <1>2, <1>4, <1>9 DEF BatchSuspends, OneApproval
    <3> QED
      BY <1>5, <2>1, <2>2, <3>1, FineReturnTalk
  <2>3. CASE Return("suspended", Folded)
    <3>1. Folded \in Seq(Messages(I))
      BY <1>1 DEF OpenAt
    <3> QED
      BY <1>5, <2>1, <2>3, <3>1, OtherReturnTalk
  <2> QED
    BY <1>9, <2>2, <2>3 DEF BatchSuspends, approvals
<1>10. CASE AskApprover
  <2>1. /\ conv' = Folded /\ calls' = Ended("approval") /\ pc' = "approver"
        /\ UNCHANGED << invocation, replayable, reported, mark, followups >>
    BY <1>10 DEF AskApprover, course
  <2>2. H = {}
    BY <1>2, <1>10 DEF AskApprover, OneApproval
  <2>3. OpenAt(I, Folded, A)
    BY <1>1, <2>2
  <2>4. Folded \in Seq(Messages(I)) /\ (replayable => Replay(Folded).ok
                                                     /\ Replay(Folded).pending = A)
    BY <2>3 DEF OpenAt
  <2>5. OpenAt(I, conv, ToSet(calls))'
    BY <2>1, <2>4 DEF OpenAt, A
  <2>6. calls' \in Seq(I) /\ Single(calls')
    BY <1>1, <2>1
  <2>7. conv' \in Seq(Messages(I))
    BY <2>1, <2>4
  <2> QED
    BY <1>5, <2>1, <2>5, <2>6, <2>7 DEF TalkInv, Fine, ReplayableAfter
<1> QED
  BY <1>6, <1>7, <1>8, <1>9, <1>10

LEMMA ApprovalTalk ==
    ASSUME NEW I, None \notin I, TalkInv(I), Known,
           ApproverDecides \/ ApproverEscalates \/ ApproverModifies \/ ModifiedDone
    PROVE  TalkInv(I)'
<1> DEFINE c == conv \o Results(calls)
<1>1. /\ calls \in Seq(I) /\ Single(calls) /\ OpenAt(I, conv, ToSet(calls))
      /\ followups \in {0, 1} /\ mark \in Nat
  BY DEF TalkInv, ApproverDecides, ApproverEscalates, ApproverModifies, ModifiedDone
<1>2. Fine(I, c)
  <2> DEFINE S == ToSet(calls)
  <2>1. OpenAt(I, conv, S) /\ S \subseteq S /\ S \ S = {}
    BY <1>1
  <2>2. OpenAt(I, c, S \ S)
    BY <1>1, <2>1, OpenAnswered
  <2>3. OpenAt(I, c, {})
    BY <2>1, <2>2
  <2> QED
    BY <2>3, NoneOpen
<1>3. CASE ApproverDecides \/ ModifiedDone
  <2>1. reported'.conv = c /\ ContinueLoop(c)
    BY <1>3 DEF ApproverDecides, ModifiedDone, ContinueAfterApproval, Report
  <2>2. UNCHANGED << calls, invocation, replayable, mark, followups >>
    BY <1>3 DEF ApproverDecides, ModifiedDone, batch, course
  <2> HIDE DEF c
  <2> QED
    BY <1>1, <1>2, <2>1, <2>2, ContinueTalk
<1>4. CASE ApproverEscalates
  <2>1. HandoffFails(c) \/ \E target \in Agents : HandOff(c, target)
    BY <1>4 DEF ApproverEscalates
  <2>2. UNCHANGED << calls, invocation, replayable, mark, followups >>
    BY <1>4 DEF ApproverEscalates, batch, course
  <2> HIDE DEF c
  <2> QED
    BY <1>1, <1>2, <2>1, <2>2, FineReturnTalk, HandOffTalk DEF HandoffFails
<1>5. CASE ApproverModifies
  <2>1. /\ pc' = "modified"
        /\ UNCHANGED << conv, calls, invocation, replayable, reported, mark, followups >>
    BY <1>5 DEF ApproverModifies, course
  <2> QED
    BY <1>1, <2>1 DEF TalkInv, Fine, OpenAt, ReplayableAfter
<1> QED
  BY <1>3, <1>4, <1>5

LEMMA TalkKept ==
    ASSUME NEW I, None \notin I, Nat \X Nat \X Nat \subseteq I,
           Stored \subseteq Seq(Messages(I)), TalkInv(I), Known, [Next]_vars
    PROVE  TalkInv(I)'
<1>1. CASE Invoke
  BY <1>1, InvokeTalk
<1>2. CASE TimeUp \/ GiveUp \/ AskToClose \/ LoopTop
  BY <1>2, TopStepTalk
<1>3. CASE Close
  BY <1>3, CloseTalk
<1>4. CASE Request \/ LLMFails \/ StreamCancelled \/ ContextExceeded
  BY <1>4, RequestTalk
<1>5. CASE ReplyCalls \/ ReplyAnswer \/ ReplyTruncated
  BY <1>5, ReplyTalk
<1>6. CASE ReplyContinue \/ Chunk
  BY <1>6, ContinuesTalk
<1>7. CASE BatchDone \/ BatchRefused \/ BatchHandsOff \/ BatchSuspends \/ AskApprover
  BY <1>7, BatchTalk
<1>8. CASE ApproverDecides \/ ApproverEscalates \/ ApproverModifies \/ ModifiedDone
  BY <1>8, ApprovalTalk
<1>9. CASE Steer \/ FollowUp \/ RequestCancel
           \/ (\E i \in DOMAIN task : Dispatch(i) \/ ToolReturns(i)) \/ UNCHANGED vars
  BY <1>9, AsidesTalk
<1> QED
  BY <1>1, <1>2, <1>3, <1>4, <1>5, <1>6, <1>7, <1>8, <1>9 DEF Next, Progress

LEMMA TalkHolds ==
    ASSUME NEW CONSTANT I, None \notin I, Nat \X Nat \X Nat \subseteq I,
           Stored \subseteq Seq(Messages(I))
    PROVE  Spec => []TalkInv(I)
<1>1. ASSUME Init PROVE TalkInv(I)
  <2>1. << >> \in Seq(Messages(I)) /\ << >> \in Seq(I) /\ Single(<< >>)
    BY DEF Single
  <2>2. Validate(<< >>)
    BY <2>1, ReplayEmpty, ValidIsFresh
  <2>3. /\ conv = << >> /\ pc = "idle" /\ calls = << >> /\ mark = 0 /\ followups = 0
        /\ invocation = 0 /\ replayable = TRUE /\ reported.conv = << >>
        /\ outcome = "none"
    BY <1>1 DEF Init
  <2> QED
    BY <2>1, <2>2, <2>3 DEF TalkInv, Fine, ReplayableAfter
<1>2. SteeringInv /\ BudgetInv /\ QuotaInv => Known
  BY DEF SteeringInv, BudgetInv, QuotaInv, Known
<1>3. TalkInv(I) /\ Known /\ [Next]_vars => TalkInv(I)'
  BY TalkKept
<1> QED
  BY <1>1, <1>2, <1>3, SteeringHolds, BudgetHolds, QuotaHolds, PTL DEF Spec

\* No request of a run is refused by validate, whatever the model replies, the
\* tools and the approver return, the strategies cut away and the callers
\* steer, if the conversation it was given is replayable.  The ids of calls are
\* any set that holds those the model gives and not the missing id.
THEOREM NoRequestRefused ==
    ASSUME NEW CONSTANT I, None \notin I, Nat \X Nat \X Nat \subseteq I,
           Stored \subseteq Seq(Messages(I))
    PROVE  Spec => []NeverRefused
<1>1. TalkInv(I) => NeverRefused
  BY DEF TalkInv, NeverRefused
<1> QED
  BY <1>1, TalkHolds, PTL

\* What an answered or failed run returns can be continued (run_agent, and
\* execute_handoff on every way out).
THEOREM ReturnsAreReplayable ==
    ASSUME NEW CONSTANT I, None \notin I, Nat \X Nat \X Nat \subseteq I,
           Stored \subseteq Seq(Messages(I))
    PROVE  Spec => []ReplayableAfter
<1>1. TalkInv(I) => ReplayableAfter
  BY DEF TalkInv
<1> QED
  BY <1>1, TalkHolds, PTL

\* The reported step names the agent that runs.
OriginInv ==
    /\ reported.iter \in Nat
    /\ pc # "idle" => reported.agent = agent /\ reported.iter <= iter

OriginStep ==
    \/ pc' = "idle" /\ reported' = reported
    \/ /\ reported' = reported /\ agent' = agent /\ iter' \in {iter, iter + 1}
       /\ pc = "idle" => pc' = "idle"
    \/ reported'.agent = agent' /\ reported'.iter = iter'

LEMMA NextOriginStep == [Next]_vars => OriginStep
<1> SUFFICES ASSUME [Next]_vars PROVE OriginStep
  OBVIOUS
<1> USE DEF course, batch, OriginStep
<1>0. /\ \A c, target : HandOff(c, target) => OriginStep
      /\ \A target : HandTask(target) => OriginStep
  BY DEF HandOff, HandTask, ReportTarget, Report, RunTarget
<1>1. CASE Invoke
  BY <1>1 DEF Invoke, Report
<1>2. CASE Steer \/ FollowUp \/ RequestCancel
  BY <1>2 DEF Steer, FollowUp, RequestCancel
<1>3. CASE TimeUp \/ GiveUp \/ AskToClose \/ Close
  BY <1>3 DEF TimeUp, GiveUp, AskToClose, Close, Return
<1>4. CASE LoopTop \/ Request \/ StreamCancelled
  BY <1>4 DEF LoopTop, Request, StreamCancelled, Return
<1>5. CASE LLMFails \/ ContextExceeded
  BY <1>5 DEF LLMFails, ContextExceeded, Return, ContinueLoop
<1>6. CASE ReplyCalls \/ ReplyAnswer \/ ReplyTruncated
  BY <1>6 DEF ReplyCalls, ReplyAnswer, ReplyTruncated, Return, ContinueLoop
<1>7. CASE ReplyContinue \/ Chunk
  BY <1>7 DEF ReplyContinue, Chunk, EndContinue, AskToContinue, Return
<1>8. CASE \E i \in DOMAIN task : Dispatch(i) \/ ToolReturns(i)
  BY <1>8 DEF Dispatch, ToolReturns
<1>9. CASE BatchDone
  BY <1>9 DEF BatchDone, Report, ContinueLoop
<1>10. CASE BatchRefused \/ BatchSuspends \/ AskApprover
  BY <1>10 DEF BatchRefused, BatchSuspends, AskApprover, OneApproval, BatchEnded, Return
<1>11. CASE BatchHandsOff
  <2>1. \/ \E c : HandoffFails(c)
        \/ \E c, target : HandOff(c, target)
        \/ \E target : HandTask(target)
    BY <1>11 DEF BatchHandsOff
  <2> QED
    BY <1>0, <2>1 DEF HandoffFails, Return
<1>12. CASE ApproverDecides \/ ModifiedDone
  BY <1>12 DEF ApproverDecides, ModifiedDone, ContinueAfterApproval, Report, ContinueLoop
<1>13. CASE ApproverEscalates \/ ApproverModifies
  <2>1. CASE ApproverEscalates
    <3>1. (\E c : HandoffFails(c)) \/ \E c, target : HandOff(c, target)
      BY <2>1 DEF ApproverEscalates
    <3> QED
      BY <1>0, <3>1 DEF HandoffFails, Return
  <2>2. CASE ApproverModifies
    BY <2>2 DEF ApproverModifies
  <2> QED
    BY <1>13, <2>1, <2>2
<1>14. CASE UNCHANGED vars
  BY <1>14 DEF vars
<1> QED
  BY <1>1, <1>2, <1>3, <1>4, <1>5, <1>6, <1>7, <1>8, <1>9, <1>10, <1>11, <1>12, <1>13,
     <1>14 DEF Next, Progress

LEMMA OriginKept ==
    ASSUME OriginInv, iter \in Nat, iter' \in Nat, OriginStep
    PROVE  OriginInv'
<1>1. reported'.iter \in Nat
  BY DEF OriginInv, OriginStep
<1>2. CASE pc' = "idle"
  BY <1>1, <1>2 DEF OriginInv
<1>3. CASE reported' = reported /\ agent' = agent /\ iter' \in {iter, iter + 1}
           /\ (pc = "idle" => pc' = "idle")
  <2>1. pc' # "idle" => reported.agent = agent /\ reported.iter <= iter
    BY <1>3 DEF OriginInv
  <2>2. reported.iter \in Nat
    BY DEF OriginInv
  <2>3. reported.iter <= iter => reported.iter <= iter'
    BY <1>3, <2>2
  <2> QED
    BY <1>1, <1>3, <2>1, <2>3 DEF OriginInv
<1>4. CASE reported'.agent = agent' /\ reported'.iter = iter'
  BY <1>1, <1>4 DEF OriginInv
<1> QED
  BY <1>2, <1>3, <1>4 DEF OriginStep

\* The step a durable invocation resumes from is one a request can be made of,
\* and names the agent that runs the loop, a handoff's target included.
THEOREM ReportsAreReplayable ==
    ASSUME NEW CONSTANT I, None \notin I, Nat \X Nat \X Nat \subseteq I,
           Stored \subseteq Seq(Messages(I))
    PROVE  Spec => []CheckpointReplayable
<1>1. Init => OriginInv
  BY DEF Init, OriginInv
<1>2. OriginInv /\ BudgetInv /\ BudgetInv' /\ [Next]_vars => OriginInv'
  BY NextOriginStep, OriginKept DEF BudgetInv
<1>3. TalkInv(I) /\ OriginInv => CheckpointReplayable
  BY DEF TalkInv, Fine, OriginInv, CheckpointReplayable
<1> QED
  BY <1>1, <1>2, <1>3, TalkHolds, BudgetHolds, PTL DEF Spec
=============================================================================
