-------------------------- MODULE ConversationProofs --------------------------
(***************************************************************************)
(* The properties of MCConversation, for conversations of any length: what *)
(* a repair keeps, what it leaves alone, and what cuts and summaries make  *)
(* of a valid conversation.                                                *)
(***************************************************************************)
EXTENDS MCConversation, ConversationLemmas

---------------------------------------------------------------------------
(* Parts of sequences *)

LEMMA AmongAll ==
    ASSUME NEW T, NEW S
    PROVE  /\ \A s \in Seq(T) : (\A x \in ToSet(s) : x \in S) => Among(s, S) = s
           /\ \A s \in Seq(T) : (\A x \in ToSet(s) : x \notin S) => Among(s, S) = << >>
<1> DEFINE All(s) == \A x \in ToSet(s) : x \in S
           No(s) == \A x \in ToSet(s) : x \notin S
           P == {s \in Seq(T) : (All(s) => Among(s, S) = s) /\ (No(s) => Among(s, S) = << >>)}
<1>1. << >> \in P
  BY AmongEmpty
<1>2. ASSUME NEW s \in Seq(T), NEW x \in T, s \in P PROVE Append(s, x) \in P
  <2> DEFINE u == Append(s, x)
  <2>1. u \in Seq(T) /\ ToSet(u) = ToSet(s) \cup {x}
    BY AppendedTo
  <2>2. Among(u, S) = IF x \in S THEN Append(Among(s, S), x) ELSE Among(s, S)
    BY AmongAppend
  <2>3. (All(s) => Among(s, S) = s) /\ (No(s) => Among(s, S) = << >>)
    BY <1>2
  <2>4. All(u) => Among(u, S) = u
    <3>1. All(u) => All(s) /\ x \in S
      BY <2>1
    <3> HIDE DEF All, No
    <3> QED
      BY <2>2, <2>3, <3>1
  <2>5. No(u) => Among(u, S) = << >>
    <3>1. No(u) => No(s) /\ x \notin S
      BY <2>1
    <3> HIDE DEF All, No, u
    <3> QED
      BY <2>2, <2>3, <3>1
  <2> HIDE DEF All, No, u
  <2> QED
    BY <2>1, <2>4, <2>5 DEF u
<1> HIDE DEF P
<1>3. Seq(T) \subseteq P
  BY <1>1, <1>2, SequencesGrow
<1> QED
  BY <1>3 DEF P

LEMMA AmongJoined ==
    ASSUME NEW T, NEW S, NEW s \in Seq(T)
    PROVE  \A t \in Seq(T) : Among(s \o t, S) = Among(s, S) \o Among(t, S)
<1> DEFINE P == {t \in Seq(T) : Among(s \o t, S) = Among(s, S) \o Among(t, S)}
<1>1. << >> \in P
  <2>1. Among(s, S) \in Seq(T)
    BY AmongFacts
  <2>2. s \o << >> = s /\ Among(s, S) \o << >> = Among(s, S) /\ Among(<< >>, S) = << >>
    BY <2>1, AmongEmpty
  <2> QED
    BY <2>2, OfNone
<1>2. ASSUME NEW t \in Seq(T), NEW x \in T, t \in P PROVE Append(t, x) \in P
  <2>1. /\ s \o t \in Seq(T) /\ Append(t, x) \in Seq(T)
        /\ s \o Append(t, x) = Append(s \o t, x)
    OBVIOUS
  <2>2. /\ Among(Append(t, x), S) = (IF x \in S THEN Append(Among(t, S), x) ELSE Among(t, S))
        /\ Among(Append(s \o t, x), S)
              = (IF x \in S THEN Append(Among(s \o t, S), x) ELSE Among(s \o t, S))
    BY <2>1, AmongAppend
  <2>3. Among(s, S) \in Seq(T) /\ Among(t, S) \in Seq(T)
    BY AmongFacts
  <2>4. Among(s, S) \o Append(Among(t, S), x) = Append(Among(s, S) \o Among(t, S), x)
    BY <2>3
  <2>5. Among(s \o t, S) = Among(s, S) \o Among(t, S)
    BY <1>2
  <2> QED
    BY <2>1, <2>2, <2>4, <2>5
<1> HIDE DEF P
<1>3. Seq(T) \subseteq P
  BY <1>1, <1>2, SequencesGrow
<1> QED
  BY <1>3 DEF P

\* A sequence of elements of T is one of elements of S when they all are in S.
LEMMA SequencesOf ==
    ASSUME NEW T, NEW S, NEW s \in Seq(T), \A x \in ToSet(s) : x \in S
    PROVE  s \in Seq(S)
<1>1. s = [k \in 1 .. Len(s) |-> s[k]] /\ Len(s) \in Nat /\ DOMAIN s = 1 .. Len(s)
  OBVIOUS
<1>2. \A k \in 1 .. Len(s) : s[k] \in S
  BY <1>1 DEF ToSet
<1> QED
  BY <1>1, <1>2

\* A sequence is what comes up to a place and what comes after it.
LEMMA SplitAt ==
    ASSUME NEW T, NEW s \in Seq(T), NEW n \in 0 .. Len(s)
    PROVE  /\ SubSeq(s, 1, n) \in Seq(T) /\ SubSeq(s, n + 1, Len(s)) \in Seq(T)
           /\ Len(SubSeq(s, n + 1, Len(s))) = Len(s) - n
           /\ s = SubSeq(s, 1, n) \o SubSeq(s, n + 1, Len(s))
<1> DEFINE a == SubSeq(s, 1, n)
           b == SubSeq(s, n + 1, Len(s))
           w == a \o b
<1>1. n \in Nat /\ Len(s) \in Nat /\ n <= Len(s)
  OBVIOUS
<1>2. /\ a \in Seq(T) /\ Len(a) = n /\ \A k \in 1 .. n : a[k] = s[k]
  BY <1>1
<1>3. /\ b \in Seq(T) /\ Len(b) = Len(s) - n
      /\ \A k \in 1 .. Len(s) - n : b[k] = s[n + k]
  BY <1>1
<1> HIDE DEF a, b
<1>4. /\ w \in Seq(T) /\ Len(w) = Len(s)
      /\ \A k \in 1 .. n : w[k] = a[k]
      /\ \A k \in 1 .. Len(s) - n : w[n + k] = b[k]
  BY <1>1, <1>2, <1>3
<1> HIDE DEF w
<1>5. ASSUME NEW k \in 1 .. Len(s) PROVE w[k] = s[k]
  <2>1. CASE k <= n
    BY <1>2, <1>4, <2>1
  <2>2. CASE ~ (k <= n)
    <3>1. k - n \in 1 .. Len(s) - n /\ n + (k - n) = k
      BY <1>1, <2>2
    <3> QED
      BY <1>3, <1>4, <3>1
  <2> QED
    BY <2>1, <2>2
<1>6. w = s
  <2>1. w = [k \in 1 .. Len(s) |-> w[k]] /\ s = [k \in 1 .. Len(s) |-> s[k]]
    BY <1>4
  <2> QED
    BY <1>5, <2>1
<1> QED
  BY <1>2, <1>3, <1>6 DEF a, b, w

LEMMA EndsWith ==
    ASSUME NEW T, NEW s \in Seq(T), NEW t \in Seq(T)
    PROVE  IsSuffix(t, s \o t)
<1> DEFINE w == s \o t
           a == Reverse(t)
           b == Reverse(w)
           n == Len(t)
           x == SubSeq(a, 1, n)
           y == SubSeq(b, 1, n)
<1>1. /\ w \in Seq(T) /\ Len(w) = Len(s) + n /\ Len(s) \in Nat /\ n \in Nat
      /\ \A k \in 1 .. n : w[Len(s) + k] = t[k]
  OBVIOUS
<1> HIDE DEF w, n
<1>2. a \in Seq(T) /\ Len(a) = n /\ \A k \in 1 .. n : a[k] = t[(n - k) + 1]
  BY <1>1 DEF Reverse, n
<1>3. b \in Seq(T) /\ Len(b) = Len(w) /\ \A k \in 1 .. Len(w) : b[k] = w[(Len(w) - k) + 1]
  BY <1>1 DEF Reverse
<1> HIDE DEF a, b
<1>4. \A k \in 1 .. n : a[k] = b[k]
  <2> SUFFICES ASSUME NEW k \in 1 .. n PROVE a[k] = b[k]
    OBVIOUS
  <2>1. (n - k) + 1 \in 1 .. n /\ k \in 1 .. Len(w)
        /\ (Len(w) - k) + 1 = Len(s) + ((n - k) + 1)
    BY <1>1
  <2> QED
    BY <1>1, <1>2, <1>3, <2>1
<1>5. /\ x \in Seq(T) /\ Len(x) = n /\ \A k \in 1 .. n : x[k] = a[k]
      /\ y \in Seq(T) /\ Len(y) = n /\ \A k \in 1 .. n : y[k] = b[k]
  BY <1>1, <1>2, <1>3
<1> HIDE DEF x, y
<1>6. x = y
  <2>1. x = [k \in 1 .. n |-> x[k]] /\ y = [k \in 1 .. n |-> y[k]]
    BY <1>5
  <2> QED
    BY <1>4, <1>5, <2>1
<1>7. IsPrefix(a, b)
  BY <1>1, <1>2, <1>3, <1>6 DEF IsPrefix, x, y
<1> QED
  BY <1>7 DEF IsSuffix, a, b, w

---------------------------------------------------------------------------
(* A step of the repair *)

\* The results of a message that answer a pending call.
Matched(s, m) == ToSet(ResultsOf(m)) \cap ToSet(s.pending)

\* The message with these results only.
KeptOf(s, m) == [m EXCEPT !.results = Among(@, Matched(s, m))]

\* The messages so far with a synthetic result for every pending call.
Closed(s) == s.out \o Answers(s.pending, 1)

LEMMA RepairStepIs ==
    ASSUME NEW I, None \notin I, NEW s \in Repairs(I), NEW message \in Messages(I)
    PROVE  LET m == StripRoleInvalidBlocks(message)
               r == RepairStep(s, message)
               valid == Matched(s, m)
               open == Without(s.pending, valid)
           IN  /\ m.role = "tool" /\ ~ KeepsTool(m, valid) => r = s
               /\ (m.role = "tool" /\ KeepsTool(m, valid)) \/ (m.role # "tool" /\ valid # {})
                     => r.pending = open /\ r.out = Append(s.out, KeptOf(s, m))
               /\ m.role # "tool" /\ valid = {} =>
                     /\ r.pending = CallsOf(m)
                     /\ CallsOf(m) = << >> /\ IsEmpty(KeptOf(s, m)) => r.out = Closed(s)
                     /\ ~ (CallsOf(m) = << >> /\ IsEmpty(KeptOf(s, m)))
                           => r.out = Append(Closed(s), KeptOf(s, m))
<1> DEFINE m == StripRoleInvalidBlocks(message)
           r == RepairStep(s, message)
           valid == Matched(s, m)
           calls == CallsOf(m)
           kept == KeptOf(s, m)
           rest == Answered(s, valid)
           open == Without(s.pending, valid)
<1>1. /\ m.role = "tool" /\ KeepsTool(m, valid) => r = Emit(rest, kept)
      /\ m.role = "tool" /\ ~ KeepsTool(m, valid) => r = s
      /\ m.role # "tool" /\ valid # {} => r = Emit(rest, kept)
      /\ m.role # "tool" /\ valid = {} /\ calls # << >> =>
            r = Remember(Emit(FlushPending(rest), kept), calls)
      /\ m.role # "tool" /\ valid = {} /\ calls = << >> =>
            r = IF IsEmpty(kept) THEN FlushPending(rest) ELSE Emit(FlushPending(rest), kept)
  BY DEF RepairStep, Matched, KeptOf
<1>2. s = [pending |-> s.pending, out |-> s.out] /\ s.pending \in Seq(I)
      /\ s.out \in Seq(Messages(I))
  BY DEF Repairs
<1>3. rest = [pending |-> open, out |-> s.out]
  BY <1>2, AnsweredIsSound
<1>4. m \in Messages(I)
  BY StripFacts
<1>5. calls \in Seq(I)
  BY <1>4, CallsOfMessage
<1>6. valid = {} => open = s.pending
  BY <1>2, WithoutNothing
<1>7. Closed(s) = s.out \o Answers(s.pending, 1)
  BY DEF Closed
<1> HIDE DEF m, r, valid, calls, kept, rest, open
<1>8. Emit(rest, kept) = [pending |-> open, out |-> Append(s.out, kept)]
  BY <1>3, EmitIs
<1>9. valid = {} => FlushPending(rest) = [pending |-> << >>, out |-> Closed(s)]
  BY <1>3, <1>6, <1>7, FlushedIs
<1>10. valid = {} => Emit(FlushPending(rest), kept)
                        = [pending |-> << >>, out |-> Append(Closed(s), kept)]
  BY <1>9, EmitIs
<1>11. ASSUME valid = {}
       PROVE  Remember(Emit(FlushPending(rest), kept), calls)
                 = [pending |-> calls, out |-> Append(Closed(s), kept)]
  <2> DEFINE e == Emit(FlushPending(rest), kept)
             o == Append(Closed(s), kept)
             p == << >>
             v == e.pending \o Without(calls, ToSet(e.pending))
  <2>1. e = [pending |-> p, out |-> o]
    BY <1>10, <1>11
  <2>2. Remember(e, calls) = [e EXCEPT !.pending = v]
    BY DEF Remember
  <2>3. Without(calls, ToSet(<< >>)) = calls /\ << >> \o calls = calls
    <3>1. Without(calls, {}) = calls
      BY <1>5, WithoutNothing
    <3>2. ToSet(<< >>) = {}
      BY OfNone
    <3>3. << >> \o calls = calls
      BY <1>5
    <3> QED
      BY <3>1, <3>2, <3>3
  <2> HIDE DEF e, o, p
  <2>4. e.pending = p
    BY <2>1
  <2>5. v = calls
    BY <2>3, <2>4 DEF p
  <2> HIDE DEF v
  <2>6. [e EXCEPT !.pending = v] = [pending |-> v, out |-> o]
    BY <2>1
  <2> QED
    BY <2>2, <2>5, <2>6 DEF e, o
<1>12. ASSUME (m.role = "tool" /\ KeepsTool(m, valid)) \/ (m.role # "tool" /\ valid # {})
       PROVE  r.pending = open /\ r.out = Append(s.out, kept)
  BY <1>1, <1>8, <1>12
<1>13. ASSUME m.role # "tool", valid = {}, calls # << >>
       PROVE  r.pending = calls /\ r.out = Append(Closed(s), kept)
  BY <1>1, <1>11, <1>13
<1>14. ASSUME m.role # "tool", valid = {}, calls = << >>
       PROVE  /\ r.pending = calls
              /\ IsEmpty(kept) => r.out = Closed(s)
              /\ ~ IsEmpty(kept) => r.out = Append(Closed(s), kept)
  BY <1>1, <1>9, <1>10, <1>14
<1>15. m.role = "tool" /\ ~ KeepsTool(m, valid) => r = s
  BY <1>1
<1>16. ASSUME m.role # "tool", valid = {}
       PROVE  /\ r.pending = calls
              /\ calls = << >> /\ IsEmpty(kept) => r.out = Closed(s)
              /\ ~ (calls = << >> /\ IsEmpty(kept)) => r.out = Append(Closed(s), kept)
  <2>1. CASE calls = << >>
    BY <1>14, <1>16, <2>1
  <2>2. CASE calls # << >>
    BY <1>13, <1>16, <2>2
  <2> QED
    BY <2>1, <2>2
<1>17. /\ m.role = "tool" /\ ~ KeepsTool(m, valid) => r = s
       /\ (m.role = "tool" /\ KeepsTool(m, valid)) \/ (m.role # "tool" /\ valid # {})
             => r.pending = open /\ r.out = Append(s.out, kept)
       /\ m.role # "tool" /\ valid = {} =>
             /\ r.pending = calls
             /\ calls = << >> /\ IsEmpty(kept) => r.out = Closed(s)
             /\ ~ (calls = << >> /\ IsEmpty(kept)) => r.out = Append(Closed(s), kept)
  BY <1>12, <1>15, <1>16
<1> QED
  BY <1>17 DEF m, r, valid, calls, kept, open

\* Nothing is stripped from a message whose blocks fit its role.
LEMMA StripFits ==
    ASSUME NEW I, NEW m \in Messages(I), BlocksFitRole(m)
    PROVE  StripRoleInvalidBlocks(m) = m
<1> DEFINE u == IF m.role = "assistant" THEN m.uses ELSE << >>
           r == IF m.role \in {"user", "tool"} THEN m.results ELSE << >>
<1>1. u = m.uses /\ r = m.results
  BY DEF BlocksFitRole
<1>2. StripRoleInvalidBlocks(m) = [m EXCEPT !.uses = u, !.results = r]
  BY DEF StripRoleInvalidBlocks
<1>3. m = [role |-> m.role, calls |-> m.calls, uses |-> m.uses, answer |-> m.answer,
           results |-> m.results, text |-> m.text]
  BY DEF Messages
<1> DEFINE n == StripRoleInvalidBlocks(m)
<1>4. n = [m EXCEPT !.uses = u, !.results = r]
  BY <1>2
<1> HIDE DEF n, u, r
<1>5. n = [role |-> m.role, calls |-> m.calls, uses |-> u, answer |-> m.answer,
           results |-> r, text |-> m.text]
  BY <1>3, <1>4
<1>6. n = m
  BY <1>1, <1>3, <1>5
<1> QED
  BY <1>6 DEF n

\* A message keeps all its results when each answers a pending call.
LEMMA KeptWhole ==
    ASSUME NEW I, NEW s \in Repairs(I), NEW m \in Messages(I), BlocksFitRole(m),
           ToSet(m.results) \subseteq ToSet(s.pending)
    PROVE  KeptOf(s, m) = m
<1> DEFINE valid == Matched(s, m)
           r == Among(m.results, valid)
<1>1. m.results \in Seq(I)
  BY DEF Messages
<1>2. m.results # << >> => m.role \in {"user", "tool"}
  BY DEF BlocksFitRole
<1>3. ToSet(ResultsOf(m)) =
            (IF m.role = "tool" /\ m.answer # None THEN {m.answer} ELSE {})
            \cup (IF m.role \in {"user", "tool"} THEN ToSet(m.results) ELSE {})
  BY ResultsOfMessage
<1>4. \A x \in ToSet(m.results) : x \in valid
  BY <1>1, <1>2, <1>3, NoneIn DEF Matched
<1> HIDE DEF valid
<1>5. r = m.results
  BY <1>1, <1>4, AmongAll
<1>6. KeptOf(s, m) = [m EXCEPT !.results = r]
  BY DEF KeptOf, valid
<1> HIDE DEF r
<1> QED
  BY <1>5, <1>6 DEF Messages

\* The repair follows the check: what is pending is open.
LEMMA SyncedStep ==
    ASSUME NEW I, None \notin I, NEW s \in Repairs(I), NEW v \in Checks(I),
           ToSet(s.pending) = v.pending, NEW m \in Messages(I), ValidateStep(v, m).ok
    PROVE  /\ v.ok
           /\ ToSet(RepairStep(s, m).pending) = ValidateStep(v, m).pending
           /\ \/ RepairStep(s, m).out = Append(s.out, m)
              \/ IsEmpty(m) /\ RepairStep(s, m).out = s.out
<1> DEFINE results == ToSet(ResultsOf(m))
           calls == ToSet(CallsOf(m))
           r == RepairStep(s, m)
           w == ValidateStep(v, m)
<1>1. w = [pending |-> IF calls = {} THEN v.pending \ results ELSE calls,
           ok |-> /\ v.ok /\ BlocksFitRole(m) /\ results \subseteq v.pending
                  /\ calls # {} \/ results = {} => v.pending \ results = {}
                  /\ calls = {} /\ results = {} => m.role # "tool"]
  BY ValidateStepIs
<1>2. /\ v.ok /\ BlocksFitRole(m) /\ results \subseteq v.pending
      /\ calls # {} \/ results = {} => v.pending \ results = {}
      /\ calls = {} /\ results = {} => m.role # "tool"
  BY <1>1
<1>3. w.pending = IF calls = {} THEN v.pending \ results ELSE calls
  BY <1>1
<1>4. StripRoleInvalidBlocks(m) = m
  BY <1>2, StripFits
<1>5. /\ results = (IF m.role = "tool" /\ m.answer # None THEN {m.answer} ELSE {})
                   \cup (IF m.role \in {"user", "tool"} THEN ToSet(m.results) ELSE {})
      /\ m.results \in Seq(I)
      /\ m.results # << >> => m.role \in {"user", "tool"}
      /\ m.results = << >> <=> ToSet(m.results) = {}
  BY <1>2, ResultsOfMessage, NoneIn DEF Messages, BlocksFitRole
<1>6. /\ calls = ToSet(m.calls) \cup (IF m.role = "assistant" THEN ToSet(m.uses) ELSE {})
      /\ CallsOf(m) = << >> <=> calls = {}
      /\ m.role \in {"system", "tool"} \/ (m.role = "user" /\ m.results # << >>)
            => m.calls = << >>
  BY CallsOfMessage DEF Messages
<1>7. Matched(s, m) = results
  BY <1>2 DEF Matched
<1>8. KeptOf(s, m) = m
  BY <1>2, <1>5, KeptWhole
<1>9. s.pending \in Seq(I) /\ s.out \in Seq(Messages(I))
  BY DEF Repairs
<1>10. ToSet(Without(s.pending, results)) = ToSet(s.pending) \ results
  BY <1>9, WithoutFacts
<1>11. /\ (m.role = "tool" /\ KeepsTool(m, results)) \/ (m.role # "tool" /\ results # {})
                     => r.pending = Without(s.pending, results) /\ r.out = Append(s.out, m)
       /\ m.role # "tool" /\ results = {} =>
             /\ r.pending = CallsOf(m)
             /\ CallsOf(m) = << >> /\ IsEmpty(m) => r.out = Closed(s)
             /\ ~ (CallsOf(m) = << >> /\ IsEmpty(m)) => r.out = Append(Closed(s), m)
  BY <1>4, <1>7, <1>8, RepairStepIs
<1> HIDE DEF results, calls, r, w
<1>12. results # {} => calls = {}
  BY <1>5, <1>6, OfNone
<1>13. m.role = "tool" => results # {}
  <2>1. m.role = "tool" => calls = {}
    BY <1>6, OfNone
  <2> QED
    BY <1>2, <2>1
<1>14. m.role = "tool" => KeepsTool(m, results)
  BY <1>5, <1>13 DEF KeepsTool
<1>15. CASE results # {}
  <2>1. (m.role = "tool" /\ KeepsTool(m, results)) \/ (m.role # "tool" /\ results # {})
    BY <1>14, <1>15
  <2>2. r.pending = Without(s.pending, results) /\ r.out = Append(s.out, m)
    BY <1>11, <2>1
  <2>3. w.pending = v.pending \ results
    BY <1>3, <1>12, <1>15
  <2> QED
    BY <1>2, <1>10, <2>2, <2>3 DEF r, w
<1>16. CASE results = {}
  <2>1. v.pending = {} /\ m.role # "tool"
    BY <1>2, <1>13, <1>16
  <2>2. s.pending = << >>
    BY <1>9, <2>1, NoneIn
  <2>3. Closed(s) = s.out
    BY <1>9, <2>2 DEF Closed, Answers
  <2>4. w.pending = calls
    BY <1>3, <1>16, <2>1
  <2> QED
    BY <1>2, <1>11, <1>16, <2>1, <2>3, <2>4 DEF r, w, calls
<1> QED
  BY <1>15, <1>16

---------------------------------------------------------------------------
(* A repair of what the check accepts *)

\* Messages that say something.
Spoken(I) == {m \in Messages(I) : ~ IsEmpty(m)}

\* Messages in normal form.
Normals(I) == {m \in Messages(I) : Normalized(m) = m}

LEMMA NormalForm ==
    ASSUME NEW I
    PROVE  /\ \A m \in Messages(I) : Normalized(m) \in Normals(I)
           /\ \A c \in Seq(Messages(I)) : NormalizeArguments(c) \in Seq(Normals(I))
           /\ \A c \in Seq(Normals(I)) : NormalizeArguments(c) = c
<1>1. ASSUME NEW m \in Messages(I) PROVE Normalized(m) \in Normals(I)
  <2> DEFINE gone == ToSet(m.calls)
             u == Without(m.uses, gone)
             w == Without(u, gone)
             n == Normalized(m)
  <2>1. m.uses \in Seq(I)
    BY DEF Messages
  <2>2. u \in Seq(I) /\ ToSet(u) = ToSet(m.uses) \ gone
    BY <2>1, WithoutFacts
  <2>3. w = u
    <3> DEFINE chosen == ToSet(u) \ gone
    <3>1. w = Among(u, chosen)
      BY DEF Without
    <3>2. \A x \in ToSet(u) : x \in chosen
      BY <2>2
    <3> HIDE DEF chosen, u, w
    <3> QED
      BY <2>2, <3>1, <3>2, AmongAll
  <2>4. n = [m EXCEPT !.uses = u]
    BY DEF Normalized
  <2>5. Normalized(n) = [n EXCEPT !.uses = Without(n.uses, ToSet(n.calls))]
    BY DEF Normalized
  <2>6. n \in Messages(I)
    BY NormalizedFacts
  <2> HIDE DEF n, u
  <2>7. n.uses = u /\ n.calls = m.calls
    BY <2>4 DEF Messages
  <2> DEFINE x == Without(n.uses, ToSet(n.calls))
  <2>8. x = n.uses
    BY <2>3, <2>7 DEF w, gone
  <2> HIDE DEF x
  <2>9. [n EXCEPT !.uses = x] = n
    BY <2>6, <2>8 DEF Messages
  <2>10. Normalized(n) = n
    BY <2>5, <2>9 DEF x
  <2> QED
    BY <2>6, <2>10 DEF Normals, n
<1>2. ASSUME NEW c \in Seq(Messages(I)) PROVE NormalizeArguments(c) \in Seq(Normals(I))
  <2>1. NormalizeArguments(c) = [i \in 1 .. Len(c) |-> Normalized(c[i])]
    BY DEF NormalizeArguments, Normalized
  <2>2. \A i \in 1 .. Len(c) : Normalized(c[i]) \in Normals(I)
    BY <1>1
  <2> QED
    BY <2>1, <2>2
<1>3. ASSUME NEW c \in Seq(Normals(I)) PROVE NormalizeArguments(c) = c
  <2>1. NormalizeArguments(c) = [i \in 1 .. Len(c) |-> Normalized(c[i])]
    BY DEF NormalizeArguments, Normalized
  <2>2. \A i \in 1 .. Len(c) : Normalized(c[i]) = c[i]
    BY DEF Normals
  <2>3. c = [i \in 1 .. Len(c) |-> c[i]]
    OBVIOUS
  <2> QED
    BY <2>1, <2>2, <2>3
<1> QED
  BY <1>1, <1>2, <1>3

\* As long as the check accepts, the repair has pending what the check has open
\* and has written what says something; it writes no message of its own.
LEMMA RepairFollows ==
    ASSUME NEW I, None \notin I, NEW G, \A m \in G : m \in Messages(I)
    PROVE  \A c \in Seq(G) :
              Replay(c).ok =>
                 /\ ToSet(Repairing(c).pending) = Replay(c).pending
                 /\ Repairing(c).out \in Seq(G)
                 /\ Among(Repairing(c).out, Spoken(I)) = Among(c, Spoken(I))
<1> DEFINE S == Spoken(I)
           Good(c) == Replay(c).ok =>
                 /\ ToSet(Repairing(c).pending) = Replay(c).pending
                 /\ Repairing(c).out \in Seq(G)
                 /\ Among(Repairing(c).out, S) = Among(c, S)
           P == {c \in Seq(G) : Good(c)}
<1>0. ASSUME NEW c \in Seq(G) PROVE c \in Seq(Messages(I))
  <2>1. \A m \in ToSet(c) : m \in Messages(I)
    BY DEF ToSet
  <2> QED
    BY <2>1, SequencesOf
<1>1. << >> \in P
  <2>1. Repairing(<< >>).pending = << >> /\ Repairing(<< >>).out = << >>
    BY RepairingEmpty DEF Start
  <2>2. Replay(<< >>).pending = {}
    BY ReplayEmpty DEF Fresh
  <2> QED
    BY <2>1, <2>2, OfNone
<1>2. ASSUME NEW c \in Seq(G), NEW m \in G, c \in P PROVE Append(c, m) \in P
  <2> DEFINE u == Append(c, m)
             s == Repairing(c)
             r == Repairing(u)
  <2>1. c \in Seq(Messages(I)) /\ m \in Messages(I) /\ u \in Seq(G)
    BY <1>0
  <2>2. r = RepairStep(s, m) /\ s \in Repairs(I)
    BY <2>1, RepairingAppend
  <2>3. Replay(u) = ValidateStep(Replay(c), m) /\ Replay(c) \in Checks(I)
    BY <2>1, ReplayAppend
  <2>4. Good(c)
    BY <1>2
  <2>5. Replay(u).ok => Replay(c).ok
    BY <2>3 DEF ValidateStep
  <2>6. ASSUME Replay(u).ok
        PROVE  /\ ToSet(r.pending) = Replay(u).pending
               /\ r.out \in Seq(G)
               /\ Among(r.out, S) = Among(u, S)
    <3>1. /\ ToSet(s.pending) = Replay(c).pending /\ s.out \in Seq(G)
          /\ Among(s.out, S) = Among(c, S)
      BY <2>4, <2>5, <2>6
    <3>2. /\ ToSet(r.pending) = Replay(u).pending
          /\ r.out = Append(s.out, m) \/ (IsEmpty(m) /\ r.out = s.out)
      BY <2>1, <2>2, <2>3, <2>6, <3>1, SyncedStep
    <3>3. Among(u, S) = IF m \in S THEN Append(Among(c, S), m) ELSE Among(c, S)
      BY AmongAppend
    <3> HIDE DEF S, s, r, u
    <3>4. CASE r.out = Append(s.out, m)
      <4> DEFINE o == s.out
      <4>0. o \in Seq(G)
        BY <3>1
      <4> HIDE DEF o
      <4>1. Among(Append(o, m), S) = IF m \in S THEN Append(Among(o, S), m) ELSE Among(o, S)
        BY <4>0, AmongAppend
      <4> USE DEF o
      <4> QED
        BY <3>1, <3>2, <3>3, <3>4, <4>1
    <3>5. CASE IsEmpty(m) /\ r.out = s.out
      <4>1. m \notin S
        BY <3>5 DEF S, Spoken
      <4> QED
        BY <3>1, <3>2, <3>3, <3>5, <4>1
    <3> QED
      BY <3>2, <3>4, <3>5
  <2> QED
    BY <2>1, <2>6
<1> HIDE DEF P
<1>3. Seq(G) \subseteq P
  BY <1>1, <1>2, SequencesGrow
<1> QED
  BY <1>3 DEF P

\* The repair of a valid conversation writes messages of it only, the ones that
\* say something all and in their order.
LEMMA ValidIsKept ==
    ASSUME NEW I, None \notin I, NEW G, \A m \in G : m \in Messages(I),
           NEW c \in Seq(Messages(I)), Validate(c), NormalizeArguments(c) \in Seq(G)
    PROVE  /\ RepairToolPairs(c) \in Seq(G)
           /\ Among(RepairToolPairs(c), Spoken(I)) = Among(NormalizeArguments(c), Spoken(I))
<1> DEFINE d == NormalizeArguments(c)
           s == Repairing(d)
<1>1. Replay(d).ok /\ Replay(d).pending = {}
  BY NormalizeKeepsValid, ValidIsFresh
<1>2. d \in Seq(G) /\ d \in Seq(Messages(I))
  BY NormalizeType
<1>3. /\ ToSet(s.pending) = {} /\ s.out \in Seq(G)
      /\ Among(s.out, Spoken(I)) = Among(d, Spoken(I))
  BY <1>1, <1>2, RepairFollows
<1>4. RepairToolPairs(c) = s.out \o Answers(s.pending, 1)
  BY RepairToolPairsIs, FlushedIs
<1>5. s \in Repairs(I)
  BY <1>2, RepairingIsSound DEF Sound
<1> HIDE DEF s
<1>6. s.pending \in Seq(I)
  BY <1>5 DEF Repairs
<1>7. s.pending = << >>
  BY <1>3, <1>6, NoneIn
<1>8. RepairToolPairs(c) = s.out
  BY <1>3, <1>4, <1>7 DEF Answers
<1> QED
  BY <1>3, <1>8

LEMMA SaidIs ==
    ASSUME NEW I, NEW c \in Seq(Messages(I))
    PROVE  /\ NormalizeArguments(c) \in Seq(Messages(I))
           /\ Said(c) = Among(NormalizeArguments(c), Spoken(I))
<1> DEFINE n == NormalizeArguments(c)
           W == {m \in ToSet(n) : ~ IsEmpty(m)}
<1>1. n \in Seq(Messages(I))
  BY NormalizeType
<1>2. Said(c) = Among(n, W)
  BY DEF Said
<1> HIDE DEF n
<1>3. \A m \in ToSet(n) : m \in W <=> m \in Spoken(I)
  BY <1>1 DEF Spoken, ToSet
<1> HIDE DEF W
<1>4. Among(n, W) = Among(n, Spoken(I))
  BY <1>1, <1>3, AmongMeets
<1> QED
  BY <1>1, <1>2, <1>4 DEF n

\* What a valid conversation says is what its repair says.
LEMMA RepairSaysTheSame ==
    ASSUME NEW I, None \notin I, NEW c \in Seq(Messages(I)), Validate(c)
    PROVE  Said(RepairToolPairs(c)) = Said(c)
<1> DEFINE d == RepairToolPairs(c)
           n == NormalizeArguments(c)
<1>1. n \in Seq(Normals(I))
  BY NormalForm
<1>2. \A m \in Normals(I) : m \in Messages(I)
  BY DEF Normals
<1>3. d \in Seq(Normals(I)) /\ Among(d, Spoken(I)) = Among(n, Spoken(I))
  BY <1>1, <1>2, ValidIsKept
<1>4. NormalizeArguments(d) = d
  BY <1>3, NormalForm
<1>5. d \in Seq(Messages(I))
  BY RepairIsReplayable
<1> QED
  BY <1>3, <1>4, <1>5, SaidIs

---------------------------------------------------------------------------
(* A repair of what is left of a valid conversation *)

\* Messages other than results that PAR wrote itself.
Genuine(I) == {m \in Messages(I) : m.role = "tool" => m.text # 1}

Systems(I) == {m \in Genuine(I) : IsSystem(m)}

LEMMA GenuineKept ==
    ASSUME NEW I, NEW m \in Genuine(I), NEW s
    PROVE  LET n == StripRoleInvalidBlocks(m)
           IN  /\ KeptOf(s, n) \in Genuine(I)
               /\ Normalized(m) \in Genuine(I)
               /\ IsSystem(m) => Normalized(m) \in Systems(I)
<1> DEFINE n == StripRoleInvalidBlocks(m)
           k == KeptOf(s, n)
           u == IF m.role = "assistant" THEN m.uses ELSE << >>
           q == IF m.role \in {"user", "tool"} THEN m.results ELSE << >>
           x == Among(n.results, Matched(s, n))
           y == Without(m.uses, ToSet(m.calls))
<1>1. m \in Messages(I) /\ (m.role = "tool" => m.text # 1)
  BY DEF Genuine
<1>2. n \in Messages(I) /\ BlocksFitRole(n) /\ n.role = m.role
  BY <1>1, StripFacts
<1>3. k \in Messages(I) /\ k.role = n.role
  <2> DEFINE valid == Matched(s, n)
  <2>1. valid \subseteq ToSet(ResultsOf(n))
    BY DEF Matched
  <2>2. k = [n EXCEPT !.results = Among(@, valid)]
    BY DEF KeptOf
  <2> HIDE DEF n, valid, k
  <2> QED
    BY <1>2, <2>1, <2>2, KeptFacts
<1>4. n = [m EXCEPT !.uses = u, !.results = q]
  BY DEF StripRoleInvalidBlocks
<1>5. k = [n EXCEPT !.results = x]
  BY DEF KeptOf
<1>6. Normalized(m) = [m EXCEPT !.uses = y] /\ Normalized(m) \in Messages(I)
      /\ Normalized(m).role = m.role
  BY <1>1, NormalizedFacts DEF Normalized
<1> HIDE DEF n, k, u, q, x, y
<1>7. n.text = m.text /\ Normalized(m).text = m.text
  BY <1>1, <1>4, <1>6 DEF Messages
<1>8. k.text = n.text
  BY <1>2, <1>5 DEF Messages
<1>9. k \in Genuine(I) /\ Normalized(m) \in Genuine(I)
  BY <1>1, <1>2, <1>3, <1>6, <1>7, <1>8 DEF Genuine
<1>10. IsSystem(m) => Normalized(m) \in Systems(I)
  BY <1>6, <1>9 DEF Systems, IsSystem
<1> QED
  BY <1>9, <1>10 DEF n, k

\* With nothing pending a step writes the message or nothing, and has the calls of
\* the message pending.
LEMMA FromNothing ==
    ASSUME NEW I, None \notin I, NEW s \in Repairs(I), s.pending = << >>,
           NEW m \in Messages(I)
    PROVE  LET n == StripRoleInvalidBlocks(m)
               r == RepairStep(s, m)
           IN  /\ r.pending = << >> \/ r.pending = CallsOf(n)
               /\ r.out = s.out \/ r.out = Append(s.out, KeptOf(s, n))
<1> DEFINE n == StripRoleInvalidBlocks(m)
           r == RepairStep(s, m)
           valid == Matched(s, n)
<1>1. valid = {}
  BY OfNone DEF Matched
<1>2. Closed(s) = s.out
  <2>1. s.out \in Seq(Messages(I))
    BY DEF Repairs
  <2> QED
    BY <2>1 DEF Closed, Answers
<1>3. ~ KeepsTool(n, valid)
  BY <1>1 DEF KeepsTool
<1>4. /\ n.role = "tool" /\ ~ KeepsTool(n, valid) => r = s
      /\ n.role # "tool" /\ valid = {} =>
            /\ r.pending = CallsOf(n)
            /\ CallsOf(n) = << >> /\ IsEmpty(KeptOf(s, n)) => r.out = Closed(s)
            /\ ~ (CallsOf(n) = << >> /\ IsEmpty(KeptOf(s, n)))
                  => r.out = Append(Closed(s), KeptOf(s, n))
  BY RepairStepIs
<1> HIDE DEF n, r, valid
<1>5. CASE n.role = "tool"
  BY <1>3, <1>4, <1>5 DEF n, r
<1>6. CASE n.role # "tool"
  BY <1>1, <1>2, <1>4, <1>6 DEF n, r
<1> QED
  BY <1>5, <1>6

LEMMA Widen ==
    ASSUME NEW I
    PROVE  /\ \A c \in Seq(Genuine(I)) : c \in Seq(Messages(I))
           /\ \A c \in Seq(Systems(I)) : c \in Seq(Genuine(I)) /\ c \in Seq(Messages(I))
<1>1. ASSUME NEW S, NEW T, \A x \in S : x \in T, NEW c \in Seq(S) PROVE c \in Seq(T)
  <2>1. \A x \in ToSet(c) : x \in T
    BY <1>1 DEF ToSet
  <2> QED
    BY <2>1, SequencesOf
<1>2. (\A m \in Genuine(I) : m \in Messages(I)) /\ (\A m \in Systems(I) : m \in Genuine(I))
  BY DEF Genuine, Systems
<1> QED
  BY <1>1, <1>2

\* System messages leave nothing pending.
LEMMA SystemsRepaired ==
    ASSUME NEW I, None \notin I
    PROVE  \A h \in Seq(Systems(I)) :
              Repairing(h).pending = << >> /\ Repairing(h).out \in Seq(Genuine(I))
<1> DEFINE Y == Systems(I)
           P == {h \in Seq(Y) :
                    Repairing(h).pending = << >> /\ Repairing(h).out \in Seq(Genuine(I))}
<1>1. << >> \in P
  <2>1. Repairing(<< >>).pending = << >> /\ Repairing(<< >>).out = << >>
    BY RepairingEmpty DEF Start
  <2> QED
    BY <2>1, OfNone
<1>2. ASSUME NEW h \in Seq(Y), NEW m \in Y, h \in P PROVE Append(h, m) \in P
  <2> DEFINE s == Repairing(h)
             n == StripRoleInvalidBlocks(m)
             r == RepairStep(s, m)
             k == KeptOf(s, n)
  <2>1. m \in Messages(I) /\ m \in Genuine(I) /\ m.role = "system" /\ h \in Seq(Messages(I))
        /\ Append(h, m) \in Seq(Y)
    BY Widen DEF Systems, Genuine, IsSystem
  <2>2. Repairing(Append(h, m)) = r /\ s \in Repairs(I)
    BY <2>1, RepairingAppend
  <2>3. s.pending = << >> /\ s.out \in Seq(Genuine(I))
    BY <1>2
  <2>4. /\ r.pending = << >> \/ r.pending = CallsOf(n)
        /\ r.out = s.out \/ r.out = Append(s.out, k)
    BY <2>1, <2>2, <2>3, FromNothing
  <2>5. n \in Messages(I) /\ n.role = "system"
    BY <2>1, StripFacts
  <2>6. CallsOf(n) = << >>
    <3>1. n.calls = << >>
      BY <2>5 DEF Messages
    <3> QED
      BY <2>5, <3>1, CallsOfMessage, OfNone
  <2>7. k \in Genuine(I)
    BY <2>1, GenuineKept
  <2> HIDE DEF s, n, r, k
  <2>8. r.pending = << >> /\ r.out \in Seq(Genuine(I))
    BY <2>3, <2>4, <2>6, <2>7
  <2> QED
    BY <2>1, <2>2, <2>8
<1> HIDE DEF P, Y
<1>3. Seq(Y) \subseteq P
  BY <1>1, <1>2, SequencesGrow
<1> QED
  BY <1>3 DEF P, Y

\* The repair of the tail of a conversation that the check accepts, after system
\* messages: its pending calls are those open, or it has none because the call
\* was cut off. It writes no result of its own.
LEMMA TailIsFollowed ==
    ASSUME NEW I, None \notin I, NEW head \in Seq(Systems(I)), NEW front \in Seq(Messages(I))
    PROVE  \A t \in Seq(Genuine(I)) :
              Replay(front \o t).ok =>
                 /\ \/ Repairing(head \o t).pending = << >>
                    \/ ToSet(Repairing(head \o t).pending) = Replay(front \o t).pending
                 /\ Repairing(head \o t).out \in Seq(Genuine(I))
<1> DEFINE G == Genuine(I)
           Good(t) == Replay(front \o t).ok =>
                 /\ \/ Repairing(head \o t).pending = << >>
                    \/ ToSet(Repairing(head \o t).pending) = Replay(front \o t).pending
                 /\ Repairing(head \o t).out \in Seq(G)
           P == {t \in Seq(G) : Good(t)}
<1>1. << >> \in P
  <2>1. head \o << >> = head
    OBVIOUS
  <2>2. Repairing(head).pending = << >> /\ Repairing(head).out \in Seq(G)
    BY SystemsRepaired
  <2>3. Good(<< >>)
    BY <2>1, <2>2
  <2> QED
    BY <2>3, OfNone
<1>2. ASSUME NEW t \in Seq(G), NEW m \in G, t \in P PROVE Append(t, m) \in P
  <2> DEFINE u == Append(t, m)
             x == head \o t
             y == front \o t
             s == Repairing(x)
             r == Repairing(head \o u)
             v == Replay(y)
             w == Replay(front \o u)
             n == StripRoleInvalidBlocks(m)
  <2>1. /\ m \in Messages(I) /\ t \in Seq(Messages(I)) /\ head \in Seq(Messages(I))
        /\ u \in Seq(G)
    BY Widen DEF Genuine
  <2>2. /\ x \in Seq(Messages(I)) /\ y \in Seq(Messages(I))
        /\ head \o u = Append(x, m) /\ front \o u = Append(y, m)
    BY <2>1
  <2>3. r = RepairStep(s, m) /\ s \in Repairs(I)
    BY <2>1, <2>2, RepairingAppend
  <2>4. w = ValidateStep(v, m) /\ v \in Checks(I)
    BY <2>1, <2>2, ReplayAppend
  <2>5. v.ok => /\ s.pending = << >> \/ ToSet(s.pending) = v.pending
                /\ s.out \in Seq(G)
    BY <1>2
  <2>6. ASSUME w.ok
        PROVE  /\ r.pending = << >> \/ ToSet(r.pending) = w.pending
               /\ r.out \in Seq(G)
    <3>1. v.ok /\ BlocksFitRole(m)
          /\ (ToSet(CallsOf(m)) # {} => w.pending = ToSet(CallsOf(m)))
      BY <2>4, <2>6 DEF ValidateStep
    <3>2. s.out \in Seq(G)
      BY <2>5, <3>1
    <3>3. CASE s.pending = << >>
      <4>1. n = m
        BY <2>1, <3>1, StripFits
      <4>2. /\ r.pending = << >> \/ r.pending = CallsOf(n)
            /\ r.out = s.out \/ r.out = Append(s.out, KeptOf(s, n))
        BY <2>1, <2>3, <3>3, FromNothing
      <4>3. KeptOf(s, n) \in G
        BY GenuineKept
      <4>4. CallsOf(m) = << >> <=> ToSet(CallsOf(m)) = {}
        BY <2>1, CallsOfMessage
      <4>5. r.out \in Seq(G)
        <5> DEFINE o == s.out
                   k == KeptOf(s, n)
                   e == r.out
        <5>1. o \in Seq(G) /\ k \in G /\ (e = o \/ e = Append(o, k))
          BY <3>2, <4>2, <4>3
        <5> HIDE DEF o, k, e, G
        <5>2. e \in Seq(G)
          BY <5>1, AppendedTo
        <5> QED
          BY <5>2 DEF e
      <4> HIDE DEF s, r, v, w, n, G
      <4>6. r.pending = << >> \/ ToSet(r.pending) = w.pending
        BY <3>1, <4>1, <4>2, <4>4
      <4> QED
        BY <4>5, <4>6
    <3>4. CASE s.pending # << >>
      <4>1. ToSet(s.pending) = v.pending
        BY <2>5, <3>1, <3>4
      <4>2. ValidateStep(v, m).ok
        BY <2>4, <2>6
      <4>3. /\ ToSet(RepairStep(s, m).pending) = ValidateStep(v, m).pending
            /\ RepairStep(s, m).out = Append(s.out, m) \/ RepairStep(s, m).out = s.out
        BY <2>1, <2>3, <2>4, <4>1, <4>2, SyncedStep
      <4>4. r.out \in Seq(G)
        <5> DEFINE o == s.out
                   e == r.out
        <5>1. o \in Seq(G) /\ m \in G /\ (e = o \/ e = Append(o, m))
          BY <2>3, <3>2, <4>3
        <5> HIDE DEF o, e, G
        <5>2. Append(o, m) \in Seq(G)
          BY <5>1, AppendedTo
        <5>3. e \in Seq(G)
          BY <5>1, <5>2
        <5> QED
          BY <5>3 DEF e
      <4> HIDE DEF s, r, v, w, G
      <4> QED
        BY <2>3, <2>4, <4>3, <4>4
    <3> QED
      BY <3>3, <3>4
  <2>7. Good(u)
    BY <2>6
  <2> HIDE DEF Good
  <2> QED
    BY <2>1, <2>7
<1> HIDE DEF P, G
<1>3. Seq(G) \subseteq P
  BY <1>1, <1>2, SequencesGrow
<1> QED
  BY <1>3 DEF P, G

LEMMA NormalizeJoined ==
    ASSUME NEW I, NEW s \in Seq(Messages(I)), NEW t \in Seq(Messages(I))
    PROVE  NormalizeArguments(s \o t) = NormalizeArguments(s) \o NormalizeArguments(t)
<1> DEFINE w == s \o t
           a == NormalizeArguments(s)
           b == NormalizeArguments(t)
           x == NormalizeArguments(w)
           y == a \o b
<1>1. \A e : NormalizeArguments(e) = [i \in DOMAIN e |-> Normalized(e[i])]
  BY DEF NormalizeArguments, Normalized
<1>2. /\ w \in Seq(Messages(I)) /\ Len(w) = Len(s) + Len(t) /\ Len(s) \in Nat /\ Len(t) \in Nat
      /\ \A k \in 1 .. Len(s) : w[k] = s[k]
      /\ \A k \in 1 .. Len(t) : w[Len(s) + k] = t[k]
  OBVIOUS
<1> HIDE DEF w
<1>3. a \in Seq(Messages(I)) /\ Len(a) = Len(s) /\ \A k \in 1 .. Len(s) : a[k] = Normalized(s[k])
  <2>1. a = [i \in 1 .. Len(s) |-> Normalized(s[i])] /\ a \in Seq(Messages(I))
    BY <1>1, NormalizeType
  <2> HIDE DEF a
  <2> QED
    BY <1>2, <2>1
<1>4. b \in Seq(Messages(I)) /\ Len(b) = Len(t) /\ \A k \in 1 .. Len(t) : b[k] = Normalized(t[k])
  <2>1. b = [i \in 1 .. Len(t) |-> Normalized(t[i])] /\ b \in Seq(Messages(I))
    BY <1>1, NormalizeType
  <2> HIDE DEF b
  <2> QED
    BY <1>2, <2>1
<1>5. x = [i \in 1 .. Len(w) |-> Normalized(w[i])]
  BY <1>1, <1>2
<1> HIDE DEF a, b, x
<1>6. /\ y \in Seq(Messages(I)) /\ Len(y) = Len(w)
      /\ \A k \in 1 .. Len(s) : y[k] = a[k]
      /\ \A k \in 1 .. Len(t) : y[Len(s) + k] = b[k]
  BY <1>2, <1>3, <1>4
<1> HIDE DEF y
<1>7. ASSUME NEW k \in 1 .. Len(w) PROVE y[k] = Normalized(w[k])
  <2>1. CASE k <= Len(s)
    <3>1. k \in 1 .. Len(s)
      BY <1>2, <2>1
    <3> QED
      BY <1>2, <1>3, <1>6, <3>1
  <2>2. CASE ~ (k <= Len(s))
    <3> DEFINE j == k - Len(s)
    <3>1. j \in 1 .. Len(t) /\ Len(s) + j = k
      BY <1>2, <2>2
    <3> HIDE DEF j
    <3>2. y[k] = b[j] /\ w[k] = t[j]
      <4>1. y[Len(s) + j] = b[j]
        BY <1>6, <3>1
      <4>2. w[Len(s) + j] = t[j]
        BY <1>2, <3>1
      <4> QED
        BY <3>1, <4>1, <4>2
    <3>3. b[j] = Normalized(t[j])
      BY <1>4, <3>1
    <3> QED
      BY <3>2, <3>3
  <2> QED
    BY <2>1, <2>2
<1>8. y = [i \in 1 .. Len(w) |-> y[i]]
  BY <1>6
<1>9. y = x
  BY <1>5, <1>7, <1>8
<1> QED
  BY <1>9 DEF w, a, b, x, y

LEMMA TailIsGenuine ==
    ASSUME NEW I, None \notin I, NEW head \in Seq(Systems(I)), NEW front \in Seq(Messages(I)),
           NEW t \in Seq(Genuine(I)), Validate(front \o t)
    PROVE  RepairToolPairs(head \o t) \in Seq(Genuine(I))
<1> DEFINE h == NormalizeArguments(head)
           f == NormalizeArguments(front)
           u == NormalizeArguments(t)
           s == Repairing(h \o u)
<1>1. head \in Seq(Messages(I)) /\ t \in Seq(Messages(I)) /\ front \o t \in Seq(Messages(I))
  <2>1. head \in Seq(Messages(I)) /\ t \in Seq(Messages(I))
    BY Widen
  <2> QED
    BY <2>1
<1>2. NormalizeArguments(head \o t) = h \o u /\ NormalizeArguments(front \o t) = f \o u
  BY <1>1, NormalizeJoined
<1>3. \A c \in Seq(Messages(I)) :
          NormalizeArguments(c) = [i \in 1 .. Len(c) |-> Normalized(c[i])]
  BY DEF NormalizeArguments, Normalized
<1>4. h \in Seq(Systems(I))
  <2>1. \A i \in 1 .. Len(head) : Normalized(head[i]) \in Systems(I)
    <3> SUFFICES ASSUME NEW i \in 1 .. Len(head) PROVE Normalized(head[i]) \in Systems(I)
      OBVIOUS
    <3>1. head[i] \in Systems(I)
      OBVIOUS
    <3>2. head[i] \in Genuine(I) /\ IsSystem(head[i])
      BY <3>1 DEF Systems
    <3> QED
      BY <3>2, GenuineKept
  <2>2. h = [i \in 1 .. Len(head) |-> Normalized(head[i])]
    BY <1>1, <1>3
  <2> QED
    BY <2>1, <2>2
<1>5. u \in Seq(Genuine(I)) /\ f \in Seq(Messages(I))
  <2>1. \A i \in 1 .. Len(t) : Normalized(t[i]) \in Genuine(I)
    BY GenuineKept
  <2>2. u = [i \in 1 .. Len(t) |-> Normalized(t[i])]
    BY <1>1, <1>3
  <2>3. u \in Seq(Genuine(I))
    BY <2>1, <2>2
  <2> QED
    BY <2>3, NormalizeType
<1>6. Validate(f \o u)
  BY <1>1, <1>2, NormalizeKeepsValid
<1>7. RepairToolPairs(head \o t) = s.out \o Answers(s.pending, 1)
  BY <1>2, RepairToolPairsIs, FlushedIs
<1> HIDE DEF h, f, u
<1>8. f \o u \in Seq(Messages(I)) /\ h \o u \in Seq(Messages(I))
  <2>1. u \in Seq(Messages(I)) /\ h \in Seq(Messages(I))
    BY <1>4, <1>5, Widen
  <2> QED
    BY <1>5, <2>1
<1>9. Replay(f \o u).ok /\ Replay(f \o u).pending = {}
  BY <1>6, <1>8, ValidIsFresh
<1>10. /\ s.pending = << >> \/ ToSet(s.pending) = {}
       /\ s.out \in Seq(Genuine(I))
  BY <1>4, <1>5, <1>9, TailIsFollowed
<1>11. s \in Repairs(I)
  BY <1>8, RepairingIsSound DEF Sound
<1> HIDE DEF s
<1>12. s.pending \in Seq(I)
  BY <1>11 DEF Repairs
<1>13. s.pending = << >>
  BY <1>10, <1>12, NoneIn
<1>14. RepairToolPairs(head \o t) = s.out
  BY <1>7, <1>10, <1>13 DEF Answers
<1> QED
  BY <1>10, <1>14

---------------------------------------------------------------------------
(* Cuts *)

\* What the check makes of the rest depends only on where it stands.
LEMMA SamePrefix ==
    ASSUME NEW I, NEW a \in Seq(Messages(I)), NEW b \in Seq(Messages(I)), Replay(a) = Replay(b)
    PROVE  \A t \in Seq(Messages(I)) : Replay(a \o t) = Replay(b \o t)
<1> DEFINE T == Messages(I)
           P == {t \in Seq(T) : Replay(a \o t) = Replay(b \o t)}
<1>1. << >> \in P
  <2>1. a \o << >> = a /\ b \o << >> = b
    OBVIOUS
  <2> QED
    BY <2>1, OfNone
<1>2. ASSUME NEW t \in Seq(T), NEW m \in T, t \in P PROVE Append(t, m) \in P
  <2>1. /\ a \o t \in Seq(T) /\ b \o t \in Seq(T) /\ Append(t, m) \in Seq(T)
        /\ a \o Append(t, m) = Append(a \o t, m)
        /\ b \o Append(t, m) = Append(b \o t, m)
    OBVIOUS
  <2>2. /\ Replay(Append(a \o t, m)) = ValidateStep(Replay(a \o t), m)
        /\ Replay(Append(b \o t, m)) = ValidateStep(Replay(b \o t), m)
    BY <2>1, ReplayAppend
  <2> QED
    BY <1>2, <2>1, <2>2
<1> HIDE DEF P, T
<1>3. Seq(T) \subseteq P
  BY <1>1, <1>2, SequencesGrow
<1> QED
  BY <1>3 DEF P, T

LEMMA LastIsTail ==
    ASSUME NEW T, NEW s \in Seq(T), NEW n \in 0 .. Len(s)
    PROVE  /\ LastMessages(s, n) \in Seq(T)
           /\ SubSeq(s, 1, Len(s) - n) \in Seq(T)
           /\ s = SubSeq(s, 1, Len(s) - n) \o LastMessages(s, n)
<1> DEFINE k == Len(s) - n
<1>1. k \in 0 .. Len(s) /\ LastMessages(s, n) = SubSeq(s, k + 1, Len(s))
  BY DEF LastMessages
<1> HIDE DEF k
<1>2. /\ SubSeq(s, 1, k) \in Seq(T) /\ SubSeq(s, k + 1, Len(s)) \in Seq(T)
      /\ s = SubSeq(s, 1, k) \o SubSeq(s, k + 1, Len(s))
  BY <1>1, SplitAt
<1> QED
  BY <1>1, <1>2 DEF k

\* What a cut leaves: everything, or the last messages after the system ones.
LEMMA CutLeaves ==
    ASSUME NEW T, NEW c \in Seq(T), NEW keep \in BOOLEAN, NEW least \in Nat, NEW budget \in Nat
    PROVE  \/ Cut(c, keep, least, budget) = c
           \/ \E n \in 0 .. Len(OtherMessages(c)), head \in {SystemMessages(c), << >>} :
                 Cut(c, keep, least, budget) = head \o LastMessages(OtherMessages(c), n)
<1> DEFINE kept == IF keep THEN SystemMessages(c) ELSE << >>
           others == OtherMessages(c)
           Fits(n) == Len(kept) + n <= budget \/ n <= least
           X == {n \in 0 .. Len(others) - 1 : n >= least /\ Fits(n)}
           left == Max(X)
           cut == Cut(c, keep, least, budget)
<1>1. kept \in Seq(T) /\ others \in Seq(T) /\ Len(others) \in Nat
  BY SystemsType
<1>2. cut = CASE Len(others) <= least -> kept \o others
              [] Len(others) > least /\ Len(c) <= budget -> c
              [] OTHER -> kept \o LastMessages(others, left)
  BY DEF Cut
<1>3. kept \in {SystemMessages(c), << >>}
  OBVIOUS
<1> HIDE DEF kept, others, cut
<1>4. ASSUME ~ (Len(others) <= least)
      PROVE  left \in 0 .. Len(others)
  <2>1. least \in X
    BY <1>1, <1>4
  <2>2. Len(others) - 1 \in Nat /\ X \in SUBSET (0 .. Len(others) - 1)
    BY <1>1, <1>4
  <2> HIDE DEF X
  <2>3. left \in X
    BY <2>1, <2>2, LargestUnder
  <2> HIDE DEF left
  <2>4. left \in 0 .. Len(others) - 1
    BY <2>2, <2>3
  <2> QED
    BY <1>1, <2>4
<1>5. LastMessages(others, Len(others)) = others
  BY <1>1 DEF LastMessages
<1> HIDE DEF left
<1>6. CASE Len(others) <= least
  <2>1. cut = kept \o LastMessages(others, Len(others)) /\ Len(others) \in 0 .. Len(others)
    BY <1>1, <1>2, <1>5, <1>6
  <2> QED
    BY <1>3, <2>1 DEF others, cut
<1>7. CASE ~ (Len(others) <= least)
  <2>1. Len(others) > least
    BY <1>1, <1>7
  <2>2. cut = c \/ cut = kept \o LastMessages(others, left)
    BY <1>2, <1>7, <2>1
  <2>3. left \in 0 .. Len(others)
    BY <1>4, <1>7
  <2> QED
    BY <1>3, <2>2, <2>3 DEF others, cut
<1> QED
  BY <1>6, <1>7

LEMMA PartsAreGenuine ==
    ASSUME NEW I, NEW c \in Seq(Genuine(I))
    PROVE  SystemMessages(c) \in Seq(Systems(I)) /\ OtherMessages(c) \in Seq(Genuine(I))
<1>1. SystemMessages(c) \in Seq(Genuine(I)) /\ OtherMessages(c) \in Seq(Genuine(I))
  BY SystemsType
<1>2. \A m \in ToSet(SystemMessages(c)) : m \in Systems(I)
  <2> DEFINE W == {m \in ToSet(c) : IsSystem(m)}
  <2>1. ToSet(SystemMessages(c)) = ToSet(c) \cap W
    BY AmongFacts DEF SystemMessages
  <2>2. \A m \in ToSet(c) : m \in Genuine(I)
    BY DEF ToSet
  <2> QED
    BY <2>1, <2>2 DEF Systems
<1> QED
  BY <1>1, <1>2, SequencesOf

\* Without its system messages a valid conversation is still valid.
LEMMA OthersAreValid ==
    ASSUME NEW I, NEW c \in Seq(Messages(I)), Validate(c)
    PROVE  OtherMessages(c) \in Seq(Messages(I)) /\ Validate(OtherMessages(c))
<1> DEFINE h == << SystemMessage >>
           o == OtherMessages(c)
<1>1. o \in Seq(Messages(I))
  BY SystemsType
<1>2. h \in Seq(Messages(I)) /\ Replay(h) = Fresh
  <2>1. 1 \in Nat /\ h = << >> \o h
    OBVIOUS
  <2>2. SystemMessage \in Messages(I) /\ Silent(SystemMessage)
    BY <2>1, SilentMessages
  <2>3. << >> \in Seq(Messages(I)) /\ h = Append(<< >>, SystemMessage)
    BY <2>2
  <2>4. Replay(h) = ValidateStep(Fresh, SystemMessage) /\ Fresh \in Checks(I)
    BY <2>2, <2>3, ReplayAppend, ReplayEmpty
  <2> QED
    BY <2>2, <2>4, SilentStep
<1>3. Replay(h \o o) = Fresh
  <2>1. h \o o \in Seq(Messages(I)) /\ Validate(h \o o)
    BY CarriedIsReplayable
  <2> QED
    BY <2>1, ValidIsFresh
<1> HIDE DEF h, o
<1>4. Replay(h \o o) = Replay(<< >> \o o)
  <2>1. Replay(h) = Replay(<< >>) /\ << >> \in Seq(Messages(I))
    BY <1>2, ReplayEmpty
  <2> QED
    BY <1>1, <1>2, <2>1, SamePrefix
<1>5. << >> \o o = o
  BY <1>1
<1>6. Replay(o) = Fresh
  BY <1>3, <1>4, <1>5
<1> QED
  BY <1>1, <1>6, ValidIsFresh DEF o

LEMMA TruncationInventsNothing ==
    ASSUME NEW I, None \notin I, NEW c \in Seq(Genuine(I)), NEW front \in Seq(Messages(I)),
           Validate(front \o OtherMessages(c)), RepairToolPairs(c) \in Seq(Genuine(I)),
           NEW keep \in BOOLEAN, NEW least \in Nat, NEW budget \in Nat
    PROVE  TruncateConversation(c, keep, least, budget) \in Seq(Genuine(I))
<1> DEFINE others == OtherMessages(c)
           cut == Cut(c, keep, least, budget)
<1>1. TruncateConversation(c, keep, least, budget) = RepairToolPairs(cut)
  BY DEF TruncateConversation
<1>2. \/ cut = c
      \/ \E n \in 0 .. Len(others), head \in {SystemMessages(c), << >>} :
            cut = head \o LastMessages(others, n)
  BY CutLeaves
<1>3. others \in Seq(Genuine(I)) /\ SystemMessages(c) \in Seq(Systems(I))
      /\ Validate(front \o others)
  BY PartsAreGenuine
<1> HIDE DEF others, cut
<1>4. CASE cut = c
  BY <1>1, <1>4
<1>5. ASSUME NEW n \in 0 .. Len(others), NEW head \in {SystemMessages(c), << >>},
             cut = head \o LastMessages(others, n)
      PROVE  RepairToolPairs(cut) \in Seq(Genuine(I))
  <2> DEFINE f == SubSeq(others, 1, Len(others) - n)
             t == LastMessages(others, n)
             g == front \o f
  <2>1. f \in Seq(Genuine(I)) /\ t \in Seq(Genuine(I)) /\ others = f \o t
    BY <1>3, LastIsTail
  <2>2. f \in Seq(Messages(I)) /\ t \in Seq(Messages(I))
    BY <2>1, Widen
  <2> HIDE DEF f, t
  <2>3. g \in Seq(Messages(I)) /\ front \o others = g \o t
    BY <2>1, <2>2
  <2> HIDE DEF g
  <2>4. Validate(g \o t)
    BY <1>3, <2>3
  <2>5. head \in Seq(Systems(I))
    BY <1>3, OfNone
  <2>6. RepairToolPairs(head \o t) \in Seq(Genuine(I))
    BY <2>1, <2>3, <2>4, <2>5, TailIsGenuine
  <2> QED
    BY <1>5, <2>6 DEF t
<1> QED
  BY <1>1, <1>2, <1>4, <1>5

\* The repair of a valid conversation invents nothing.
LEMMA ValidIsGenuine ==
    ASSUME NEW I, None \notin I, NEW c \in Seq(Genuine(I)), Validate(c)
    PROVE  RepairToolPairs(c) \in Seq(Genuine(I))
<1> DEFINE none == << >>
<1>1. none \in Seq(Systems(I)) /\ none \in Seq(Messages(I)) /\ none \o c = c
  OBVIOUS
<1> HIDE DEF none
<1>2. RepairToolPairs(none \o c) \in Seq(Genuine(I))
  BY <1>1, TailIsGenuine
<1> QED
  BY <1>1, <1>2

LEMMA WindowInventsNothing ==
    ASSUME NEW I, None \notin I, NEW c \in Seq(Genuine(I)), Validate(c),
           NEW most \in Nat, NEW budget \in Nat
    PROVE  SlidingWindow(c, most, budget) \in Seq(Genuine(I))
<1> DEFINE systems == SystemMessages(c)
           others  == OtherMessages(c)
           n == Min({Len(others), most})
           f == SubSeq(others, 1, Len(others) - n)
           t == LastMessages(others, n)
           window  == systems \o t
           least == Max({2, Len(systems)})
           cut == TruncateConversation(window, TRUE, least, budget)
           x == IF Len(window) <= budget THEN window ELSE cut
<1>1. systems \in Seq(Systems(I)) /\ others \in Seq(Genuine(I)) /\ Len(others) \in Nat
      /\ Len(systems) \in Nat
  BY PartsAreGenuine
<1>2. c \in Seq(Messages(I))
  BY Widen
<1>3. Validate(others)
  BY <1>2, OthersAreValid
<1>4. SlidingWindow(c, most, budget) = RepairToolPairs(x)
  BY DEF SlidingWindow
<1>5. least \in Nat
  <2> DEFINE e == {2, Len(systems)}
  <2>1. e \in SUBSET (0 .. 2 + Len(systems)) /\ e # {} /\ 2 + Len(systems) \in Nat
    BY <1>1
  <2> HIDE DEF e
  <2>2. Max(e) \in e
    BY <2>1, LargestUnder
  <2> QED
    BY <1>1, <2>2 DEF e
<1>6. \A m \in ToSet(others) : ~ IsSystem(m)
  <2> DEFINE W == {m \in ToSet(c) : ~ IsSystem(m)}
  <2>1. ToSet(others) = ToSet(c) \cap W
    BY AmongFacts DEF OtherMessages
  <2> QED
    BY <2>1
<1> HIDE DEF systems, others, least
<1>7. n \in 0 .. Len(others)
  <2>1. n \in Nat /\ n <= Len(others)
    BY <1>1, SmallerOf
  <2> HIDE DEF n
  <2> QED
    BY <1>1, <2>1
<1> HIDE DEF n
<1>8. f \in Seq(Genuine(I)) /\ t \in Seq(Genuine(I)) /\ others = f \o t
  BY <1>1, <1>7, LastIsTail
<1>9. /\ f \in Seq(Messages(I)) /\ systems \in Seq(Genuine(I))
      /\ systems \in Seq(Messages(I)) /\ t \in Seq(Messages(I))
  BY <1>1, <1>8, Widen
<1> HIDE DEF f, t
<1>10. window \in Seq(Genuine(I)) /\ window \in Seq(Messages(I))
  BY <1>8, <1>9
<1>11. Validate(f \o t)
  BY <1>3, <1>8
<1>12. RepairToolPairs(window) \in Seq(Genuine(I))
  BY <1>1, <1>8, <1>9, <1>11, TailIsGenuine
<1>13. OtherMessages(window) = t
  <2> DEFINE N == {m \in Messages(I) : ~ IsSystem(m)}
  <2>1. OtherMessages(window) = Among(window, N)
    BY <1>10, OthersAre
  <2>2. Among(window, N) = Among(systems, N) \o Among(t, N)
    BY <1>9, AmongJoined
  <2>3. \A m \in ToSet(systems) : m \notin N
    BY <1>1 DEF Systems, ToSet
  <2>4. \A m \in ToSet(t) : m \in N
    <3>1. ToSet(others) = ToSet(f) \cup ToSet(t)
      BY <1>8, <1>9, Joined
    <3>2. \A m \in ToSet(t) : m \in Messages(I)
      BY <1>9 DEF ToSet
    <3> QED
      BY <1>6, <3>1, <3>2
  <2> HIDE DEF N, window
  <2>5. Among(systems, N) = << >> /\ Among(t, N) = t
    BY <1>9, <2>3, <2>4, AmongAll
  <2> QED
    BY <1>9, <2>1, <2>2, <2>5
<1> HIDE DEF window
<1>14. cut \in Seq(Genuine(I))
  BY <1>5, <1>9, <1>10, <1>11, <1>12, <1>13, TruncationInventsNothing
<1>15. Validate(cut)
  BY <1>5, <1>10, TruncationIsReplayable
<1>16. RepairToolPairs(cut) \in Seq(Genuine(I))
  BY <1>14, <1>15, ValidIsGenuine
<1> HIDE DEF cut
<1> QED
  BY <1>4, <1>12, <1>16

---------------------------------------------------------------------------
(* Summaries *)

LEMMA BoundaryIs ==
    ASSUME NEW T, NEW c \in Seq(T)
    PROVE  /\ Boundary(c) \in 0 .. Len(c)
           /\ Boundary(c) # 0 => /\ Boundary(c) + Recent <= Len(c)
                                 /\ Boundary(c) + 1 \in 1 .. Len(c)
                                 /\ ~ CarriesResult(c[Boundary(c) + 1])
<1> DEFINE n == Boundary(c)
           t == {0} \cup {k \in 1 .. Len(c) - Recent : ~ CarriesResult(c[k + 1])}
<1>1. t \in SUBSET (0 .. Len(c)) /\ t # {} /\ Len(c) \in Nat
  BY RecentAssumption
<1>2. n = Max(t)
  BY DEF Boundary
<1>3. n \in t
  <2> HIDE DEF t, n
  <2>1. Max(t) \in t
    BY <1>1, LargestUnder
  <2> QED
    BY <1>2, <2>1
<1> HIDE DEF n
<1>4. n # 0 => n \in 1 .. Len(c) - Recent /\ ~ CarriesResult(c[n + 1])
  BY <1>3
<1>5. n \in 0 .. Len(c)
  BY <1>1, <1>3
<1>6. n # 0 => n + Recent <= Len(c) /\ n + 1 \in 1 .. Len(c)
  BY <1>1, <1>4, RecentAssumption
<1> QED
  BY <1>4, <1>5, <1>6 DEF n

\* What a summary is repaired from, and why it is valid before that: no call is
\* open at the boundary.
LEMMA SummaryIsFresh ==
    ASSUME NEW I, NEW c \in Seq(Messages(I)), Validate(c), Boundary(c) # 0
    PROVE  LET front == SubSeq(c, 1, Boundary(c))
               tail == SubSeq(c, Boundary(c) + 1, Len(c))
           IN  /\ front \in Seq(Messages(I)) /\ tail \in Seq(Messages(I)) /\ c = front \o tail
               /\ Len(tail) = Len(c) - Boundary(c)
               /\ << SystemMessage >> \in Seq(Messages(I))
               /\ Validate(<< SystemMessage >> \o tail)
<1> DEFINE n == Boundary(c)
           front == SubSeq(c, 1, n)
           tail == SubSeq(c, n + 1, Len(c))
           upto == SubSeq(c, 1, n + 1)
           rest == SubSeq(c, n + 2, Len(c))
           m == c[n + 1]
           h == << SystemMessage >>
           v == Replay(front)
<1>1. n \in 0 .. Len(c) /\ n + 1 \in 1 .. Len(c) /\ ~ CarriesResult(m)
  BY BoundaryIs
<1> HIDE DEF n
<1>2. /\ front \in Seq(Messages(I)) /\ tail \in Seq(Messages(I)) /\ c = front \o tail
      /\ Len(tail) = Len(c) - n
  BY <1>1, SplitAt
<1>3. /\ m \in Messages(I) /\ n + 1 \in 0 .. Len(c)
      /\ upto = Append(front, m)
  BY <1>1
<1>4. upto \in Seq(Messages(I)) /\ rest \in Seq(Messages(I)) /\ c = upto \o rest
  <2> DEFINE j == n + 1
  <2>1. j \in 0 .. Len(c) /\ j + 1 = n + 2
    BY <1>1
  <2> HIDE DEF j
  <2>2. SubSeq(c, 1, j) \in Seq(Messages(I)) /\ SubSeq(c, j + 1, Len(c)) \in Seq(Messages(I))
        /\ c = SubSeq(c, 1, j) \o SubSeq(c, j + 1, Len(c))
    BY <2>1, SplitAt
  <2> QED
    BY <2>1, <2>2 DEF j
<1> HIDE DEF front, tail, upto, rest, m
<1>5. Replay(c) = Fresh
  BY ValidIsFresh
<1>6. Replay(upto).ok
  <2> DEFINE P == {t \in Seq(Messages(I)) : Replay(upto \o t).ok => Replay(upto).ok}
  <2>1. << >> \in P
    <3>1. upto \o << >> = upto
      BY <1>4
    <3> QED
      BY <3>1, OfNone
  <2>2. ASSUME NEW t \in Seq(Messages(I)), NEW x \in Messages(I), t \in P
        PROVE  Append(t, x) \in P
    <3>1. /\ upto \o t \in Seq(Messages(I)) /\ Append(t, x) \in Seq(Messages(I))
          /\ upto \o Append(t, x) = Append(upto \o t, x)
      BY <1>4
    <3>2. Replay(Append(upto \o t, x)) = ValidateStep(Replay(upto \o t), x)
      BY <3>1, ReplayAppend
    <3>3. Replay(Append(upto \o t, x)).ok => Replay(upto \o t).ok
      BY <3>2 DEF ValidateStep
    <3> QED
      BY <2>2, <3>1, <3>3
  <2> HIDE DEF P
  <2>3. Seq(Messages(I)) \subseteq P
    BY <2>1, <2>2, SequencesGrow
  <2>4. Replay(upto \o rest).ok
    BY <1>4, <1>5 DEF Fresh
  <2> QED
    BY <1>4, <2>3, <2>4 DEF P
<1>7. Replay(upto) = ValidateStep(v, m) /\ v \in Checks(I)
  BY <1>2, <1>3, ReplayAppend
<1>8. ToSet(ResultsOf(m)) = {}
  <2>1. m.role # "tool" /\ m.results = << >>
    BY <1>1 DEF CarriesResult
  <2> QED
    BY <1>3, <2>1, ResultsOfMessage, OfNone
<1>9. v.ok /\ v.pending = {}
  BY <1>6, <1>7, <1>8 DEF ValidateStep
<1>10. Replay(front) = Fresh
  BY <1>2, <1>9, ValidIsFresh
<1>11. h \in Seq(Messages(I)) /\ Replay(h) = Fresh
  <2>1. 1 \in Nat
    OBVIOUS
  <2>2. SystemMessage \in Messages(I) /\ Silent(SystemMessage)
    BY <2>1, SilentMessages
  <2>3. << >> \in Seq(Messages(I)) /\ h = Append(<< >>, SystemMessage)
    BY <2>2
  <2>4. Replay(h) = ValidateStep(Fresh, SystemMessage) /\ Fresh \in Checks(I)
    BY <2>2, <2>3, ReplayAppend, ReplayEmpty
  <2> QED
    BY <2>2, <2>3, <2>4, SilentStep
<1> HIDE DEF h
<1>12. Replay(h \o tail) = Replay(front \o tail)
  BY <1>2, <1>10, <1>11, SamePrefix
<1>13. Replay(h \o tail) = Fresh /\ h \o tail \in Seq(Messages(I))
  BY <1>2, <1>5, <1>11, <1>12
<1>14. Validate(h \o tail)
  BY <1>13, ValidIsFresh
<1> QED
  BY <1>2, <1>11, <1>14 DEF front, tail, n, h

LEMMA SummaryInventsNothing ==
    ASSUME NEW I, None \notin I, NEW c \in Seq(Genuine(I)), Validate(c), NEW budget
    PROVE  Summarize(c, budget) \in Seq(Genuine(I))
<1> DEFINE n == Boundary(c)
           front == SubSeq(c, 1, n)
           tail == SubSeq(c, n + 1, Len(c))
           h == << SystemMessage >>
<1>1. Summarize(c, budget) = c \/ (n # 0 /\ Summarize(c, budget) = RepairToolPairs(h \o tail))
  BY DEF Summarize
<1>2. CASE n # 0
  <2>1. c \in Seq(Messages(I))
    BY Widen
  <2>2. front \in Seq(Messages(I)) /\ c = front \o tail
    BY <1>2, <2>1, SummaryIsFresh
  <2>3. tail \in Seq(Genuine(I))
    <3>1. n \in 0 .. Len(c)
      BY BoundaryIs
    <3> QED
      BY <3>1, SplitAt
  <2>4. h \in Seq(Systems(I))
    <3>1. 1 \in Nat
      OBVIOUS
    <3>2. SystemMessage \in Messages(I)
      BY <3>1, SilentMessages
    <3>3. SystemMessage.role = "system"
      BY DEF SystemMessage, Plain
    <3>4. SystemMessage \in Systems(I)
      BY <3>2, <3>3 DEF Systems, Genuine, IsSystem
    <3> QED
      BY <3>4
  <2> HIDE DEF front, tail, h
  <2>5. RepairToolPairs(h \o tail) \in Seq(Genuine(I))
    BY <2>2, <2>3, <2>4, TailIsGenuine
  <2> QED
    BY <1>1, <2>5 DEF h, tail
<1> QED
  BY <1>1, <1>2

LEMMA SaidJoined ==
    ASSUME NEW I, NEW s \in Seq(Messages(I)), NEW t \in Seq(Messages(I))
    PROVE  /\ Said(s) \in Seq(Messages(I)) /\ Said(t) \in Seq(Messages(I))
           /\ Said(s \o t) = Said(s) \o Said(t)
<1> DEFINE a == NormalizeArguments(s)
           b == NormalizeArguments(t)
<1>1. s \o t \in Seq(Messages(I))
  OBVIOUS
<1>2. /\ a \in Seq(Messages(I)) /\ Said(s) = Among(a, Spoken(I))
      /\ b \in Seq(Messages(I)) /\ Said(t) = Among(b, Spoken(I))
      /\ Said(s \o t) = Among(NormalizeArguments(s \o t), Spoken(I))
  BY <1>1, SaidIs
<1>3. NormalizeArguments(s \o t) = a \o b
  BY NormalizeJoined
<1> HIDE DEF a, b
<1>4. Among(a \o b, Spoken(I)) = Among(a, Spoken(I)) \o Among(b, Spoken(I))
  BY <1>2, AmongJoined
<1>5. Among(a, Spoken(I)) \in Seq(Messages(I)) /\ Among(b, Spoken(I)) \in Seq(Messages(I))
  BY <1>2, AmongFacts
<1> QED
  BY <1>2, <1>3, <1>4, <1>5

LEMMA SummaryEndsWithRecent ==
    ASSUME NEW I, None \notin I, NEW c \in Seq(Messages(I)), Validate(c), NEW budget
    PROVE  IsSuffix(Said(LastMessages(c, Min({Recent, Len(c)}))), Said(Summarize(c, budget)))
<1> DEFINE k == Min({Recent, Len(c)})
           last == LastMessages(c, k)
           n == Boundary(c)
           tail == SubSeq(c, n + 1, Len(c))
           h == << SystemMessage >>
<1>1. k \in Nat /\ k <= Recent /\ k <= Len(c) /\ Recent \in Nat /\ Len(c) \in Nat
  <2>1. Recent \in Nat /\ Len(c) \in Nat
    BY RecentAssumption
  <2> HIDE DEF k
  <2> QED
    BY <2>1, SmallerOf DEF k
<1> HIDE DEF k
<1>2. ASSUME NEW s \in Seq(Messages(I)), k <= Len(s)
      PROVE  IsSuffix(Said(LastMessages(s, k)), Said(s))
  <2> DEFINE f == SubSeq(s, 1, Len(s) - k)
             t == LastMessages(s, k)
  <2>1. f \in Seq(Messages(I)) /\ t \in Seq(Messages(I)) /\ s = f \o t
    <3>1. k \in 0 .. Len(s)
      BY <1>1, <1>2
    <3> QED
      BY <3>1, LastIsTail
  <2> HIDE DEF f, t
  <2>2. Said(f) \in Seq(Messages(I)) /\ Said(t) \in Seq(Messages(I)) /\ Said(s) = Said(f) \o Said(t)
    BY <2>1, SaidJoined
  <2>3. IsSuffix(Said(t), Said(s))
    BY <2>2, EndsWith
  <2> QED
    BY <2>3 DEF t
<1>3. Summarize(c, budget) = c \/ (n # 0 /\ Summarize(c, budget) = RepairToolPairs(h \o tail))
  BY DEF Summarize
<1>4. ASSUME n # 0 PROVE IsSuffix(Said(last), Said(RepairToolPairs(h \o tail)))
  <2>1. /\ tail \in Seq(Messages(I)) /\ Len(tail) = Len(c) - n
        /\ h \in Seq(Messages(I)) /\ Validate(h \o tail)
    BY <1>4, SummaryIsFresh
  <2>2. n + Recent <= Len(c) /\ n \in 0 .. Len(c)
    BY <1>4, BoundaryIs
  <2>3. LastMessages(h \o tail, k) = last /\ k <= Len(h \o tail)
    <3> DEFINE w == h \o tail
               a == LastMessages(w, k)
    <3>1. /\ w \in Seq(Messages(I)) /\ Len(w) = 1 + Len(tail)
          /\ \A i \in 1 .. Len(tail) : w[1 + i] = tail[i]
      BY <2>1
    <3>2. \A i \in 1 .. Len(tail) : tail[i] = c[n + i]
      BY <2>2
    <3> HIDE DEF w, tail, h, n
    <3>3. Len(w) = 1 + Len(c) - n /\ k <= Len(tail) /\ n \in Nat /\ Len(tail) \in Nat
      BY <1>1, <2>1, <2>2, <3>1
    <3>4. /\ a \in Seq(Messages(I)) /\ Len(a) = k
          /\ \A i \in 1 .. k : a[i] = w[Len(w) - k + i]
      BY <1>1, <3>1, <3>3 DEF LastMessages
    <3>5. /\ last \in Seq(Messages(I)) /\ Len(last) = k
          /\ \A i \in 1 .. k : last[i] = c[Len(c) - k + i]
      BY <1>1 DEF LastMessages
    <3> HIDE DEF a, last
    <3>6. ASSUME NEW i \in 1 .. k PROVE a[i] = last[i]
      <4> DEFINE j == Len(tail) - k + i
      <4>1. /\ j \in 1 .. Len(tail) /\ 1 + j = Len(w) - k + i
            /\ n + j = Len(c) - k + i
        BY <1>1, <2>1, <3>1, <3>3
      <4> HIDE DEF j
      <4> QED
        BY <3>1, <3>2, <3>4, <3>5, <4>1
    <3>7. a = [i \in 1 .. k |-> a[i]] /\ last = [i \in 1 .. k |-> last[i]]
      BY <3>4, <3>5
    <3>8. a = last
      BY <3>6, <3>7
    <3> QED
      BY <1>1, <3>1, <3>3, <3>8 DEF a, w
  <2> HIDE DEF h, tail, last
  <2>4. h \o tail \in Seq(Messages(I))
    BY <2>1
  <2>5. IsSuffix(Said(last), Said(h \o tail))
    BY <1>2, <2>3, <2>4
  <2>6. Said(RepairToolPairs(h \o tail)) = Said(h \o tail)
    BY <2>1, <2>4, RepairSaysTheSame
  <2> QED
    BY <2>5, <2>6
<1>5. IsSuffix(Said(last), Said(c))
  BY <1>1, <1>2
<1> HIDE DEF h, tail, last
<1>6. IsSuffix(Said(last), Said(Summarize(c, budget)))
  BY <1>3, <1>4, <1>5
<1> QED
  BY <1>6 DEF last, k

---------------------------------------------------------------------------
(* What the repair keeps *)

\* Messages as they are handed in or loaded: a tool message calls no tool, and
\* a text does not come with results unless it is a tool's.
Loaded(I) ==
    {m \in Genuine(I) :
        /\ m.role = "tool" => m.uses = << >>
        /\ m.role # "tool" /\ m.text > 0 => m.results = << >>}

\* Messages with a text that is not a tool's.
Worded(I) == {m \in Messages(I) : m.role # "tool" /\ m.text > 0}

\* The form in which the repair takes a message.
Cleaned(m) == StripRoleInvalidBlocks(Normalized(m))

LEMMA CleanedFacts ==
    ASSUME NEW I, NEW m \in Messages(I)
    PROVE  /\ Cleaned(m) \in Messages(I) /\ BlocksFitRole(Cleaned(m))
           /\ Cleaned(m).role = m.role /\ Cleaned(m).text = m.text
           /\ m.results = << >> => Cleaned(m).results = << >>
           /\ ToSet(CallsOf(Cleaned(m))) = ToSet(CallsOf(m))
           /\ ToSet(ResultsOf(Cleaned(m))) = ToSet(ResultsOf(m))
<1> DEFINE q == Normalized(m)
           n == StripRoleInvalidBlocks(q)
           y == Without(m.uses, ToSet(m.calls))
           u == IF q.role = "assistant" THEN q.uses ELSE << >>
           x == IF q.role \in {"user", "tool"} THEN q.results ELSE << >>
<1>1. /\ q \in Messages(I) /\ q.role = m.role /\ ToSet(CallsOf(q)) = ToSet(CallsOf(m))
      /\ ToSet(ResultsOf(q)) = ToSet(ResultsOf(m))
  BY NormalizedFacts
<1>2. q = [m EXCEPT !.uses = y]
  BY DEF Normalized
<1>3. n \in Messages(I) /\ BlocksFitRole(n) /\ n.role = q.role
  BY <1>1, StripFacts
<1>4. n = [q EXCEPT !.uses = u, !.results = x]
  BY DEF StripRoleInvalidBlocks
<1>5. Cleaned(m) = n
  BY DEF Cleaned
<1>6. u = (IF q.role = "assistant" THEN q.uses ELSE << >>)
      /\ x = (IF q.role \in {"user", "tool"} THEN q.results ELSE << >>)
  OBVIOUS
<1> HIDE DEF q, n, y, u, x
<1>7. q.text = m.text /\ q.results = m.results
  BY <1>2 DEF Messages
<1>8. n.text = q.text /\ n.calls = q.calls /\ n.answer = q.answer /\ n.uses = u /\ n.results = x
  BY <1>1, <1>4 DEF Messages
<1>9. ToSet(CallsOf(n)) = ToSet(CallsOf(q))
  <2>1. ToSet(CallsOf(n)) = ToSet(n.calls) \cup
                            (IF n.role = "assistant" THEN ToSet(n.uses) ELSE {})
    BY <1>3, CallsOfMessage
  <2>2. ToSet(CallsOf(q)) = ToSet(q.calls) \cup
                            (IF q.role = "assistant" THEN ToSet(q.uses) ELSE {})
    BY <1>1, CallsOfMessage
  <2> QED
    BY <1>3, <1>6, <1>8, <2>1, <2>2
<1>10. ToSet(ResultsOf(n)) = ToSet(ResultsOf(q))
  <2>1. ToSet(ResultsOf(n)) =
            (IF n.role = "tool" /\ n.answer # None THEN {n.answer} ELSE {})
            \cup (IF n.role \in {"user", "tool"} THEN ToSet(n.results) ELSE {})
    BY <1>3, ResultsOfMessage
  <2>2. ToSet(ResultsOf(q)) =
            (IF q.role = "tool" /\ q.answer # None THEN {q.answer} ELSE {})
            \cup (IF q.role \in {"user", "tool"} THEN ToSet(q.results) ELSE {})
    BY <1>1, ResultsOfMessage
  <2> QED
    BY <1>3, <1>6, <1>8, <2>1, <2>2
<1>11. m.results = << >> => n.results = << >>
  BY <1>6, <1>7, <1>8
<1> QED
  BY <1>1, <1>3, <1>5, <1>7, <1>8, <1>9, <1>10, <1>11

LEMMA NormalizeAppend ==
    ASSUME NEW I, NEW c \in Seq(Messages(I)), NEW m \in Messages(I)
    PROVE  NormalizeArguments(Append(c, m)) = Append(NormalizeArguments(c), Normalized(m))
<1> DEFINE one == << m >>
           d == NormalizeArguments(c)
           q == Normalized(m)
<1>1. one \in Seq(Messages(I)) /\ Append(c, m) = c \o one /\ Len(one) = 1 /\ one[1] = m
  OBVIOUS
<1>2. d \in Seq(Messages(I)) /\ q \in Messages(I)
  BY NormalizeType, NormalizedFacts
<1>3. NormalizeArguments(c \o one) = d \o NormalizeArguments(one)
  BY <1>1, NormalizeJoined
<1>4. NormalizeArguments(one) = << q >>
  <2>1. NormalizeArguments(one) = [i \in 1 .. 1 |-> Normalized(one[i])]
    BY DEF NormalizeArguments, Normalized
  <2>2. \A i \in 1 .. 1 : Normalized(one[i]) = q
    BY <1>1
  <2> HIDE DEF q, one
  <2> QED
    BY <2>1, <2>2
<1> HIDE DEF d, q, one
<1>5. d \o << q >> = Append(d, q)
  BY <1>2
<1> QED
  BY <1>1, <1>3, <1>4, <1>5 DEF d, q

\* Synthetic results are tool messages.
LEMMA AnswersAreTools ==
    ASSUME NEW I, None \notin I, NEW s \in Repairs(I), NEW S, \A m \in S : m.role # "tool"
    PROVE  /\ Closed(s) \in Seq(Messages(I))
           /\ Among(Closed(s), S) = Among(s.out, S)
           /\ \A m \in ToSet(s.out) : m \in ToSet(Closed(s))
<1> DEFINE a == Answers(s.pending, 1)
           o == s.out
<1>1. s.pending \in Seq(I) /\ o \in Seq(Messages(I)) /\ Closed(s) = o \o a
  BY DEF Repairs, Closed
<1>2. a \in Seq(Messages(I))
  BY <1>1, AnswersClose
<1>3. \A m \in ToSet(a) : m.role = "tool"
  <2>1. \A id : ToolMessage(id, 1).role = "tool"
    BY DEF ToolMessage, Plain
  <2> QED
    BY <2>1 DEF ToSet, Answers
<1> HIDE DEF a, o
<1>4. \A m \in ToSet(a) : m \notin S
  BY <1>3
<1>5. Among(a, S) = << >>
  BY <1>2, <1>4, AmongAll
<1>6. Among(o \o a, S) = Among(o, S) \o Among(a, S)
  BY <1>1, <1>2, AmongJoined
<1>7. Among(o \o a, S) = Among(o, S)
  <2>1. Among(o, S) \in Seq(Messages(I))
    BY <1>1, AmongFacts
  <2> QED
    BY <1>5, <1>6, <2>1
<1>8. o \o a \in Seq(Messages(I)) /\ ToSet(o \o a) = ToSet(o) \cup ToSet(a)
  BY <1>1, <1>2, Joined
<1> QED
  BY <1>1, <1>7, <1>8 DEF o

\* Nothing that was written goes away, and a step writes at most the message
\* it is given, as it is kept.
LEMMA StepWrites ==
    ASSUME NEW I, None \notin I, NEW s \in Repairs(I), NEW m \in Messages(I)
    PROVE  LET k == KeptOf(s, Cleaned(m))
               r == RepairStep(s, Normalized(m))
           IN  /\ k \in Messages(I) /\ k.role = m.role /\ k.text = m.text
               /\ \E o \in {s.out, Closed(s)} :
                     \/ r.out = Append(o, k)
                     \/ r.out = o /\ (m.role = "tool" \/ IsEmpty(k))
<1> DEFINE n == Cleaned(m)
           k == KeptOf(s, n)
           q == Normalized(m)
           r == RepairStep(s, q)
           valid == Matched(s, n)
           e == Among(n.results, valid)
<1>1. n \in Messages(I) /\ BlocksFitRole(n) /\ n.role = m.role /\ n.text = m.text
      /\ q \in Messages(I) /\ n = StripRoleInvalidBlocks(q)
  BY CleanedFacts, NormalizedFacts DEF Cleaned
<1>2. k \in Messages(I) /\ k.role = n.role
  <2>1. valid \subseteq ToSet(ResultsOf(n))
    BY DEF Matched
  <2>2. k = [n EXCEPT !.results = Among(@, valid)]
    BY DEF KeptOf
  <2> HIDE DEF n, valid, k
  <2> QED
    BY <1>1, <2>1, <2>2, KeptFacts
<1>3. k.text = n.text
  <2>1. k = [n EXCEPT !.results = e]
    BY DEF KeptOf
  <2> HIDE DEF k, e, n
  <2> QED
    BY <1>1, <2>1 DEF Messages
<1>4. /\ n.role = "tool" /\ ~ KeepsTool(n, valid) => r = s
      /\ (n.role = "tool" /\ KeepsTool(n, valid)) \/ (n.role # "tool" /\ valid # {})
            => r.out = Append(s.out, k)
      /\ n.role # "tool" /\ valid = {} =>
            /\ CallsOf(n) = << >> /\ IsEmpty(k) => r.out = Closed(s)
            /\ ~ (CallsOf(n) = << >> /\ IsEmpty(k)) => r.out = Append(Closed(s), k)
  <2> HIDE DEF q
  <2>1. n = StripRoleInvalidBlocks(q) /\ q \in Messages(I)
    BY <1>1
  <2> QED
    BY <2>1, RepairStepIs
<1> HIDE DEF n, k, q, r, valid, e
<1>5. \E o \in {s.out, Closed(s)} :
         \/ r.out = Append(o, k)
         \/ r.out = o /\ (m.role = "tool" \/ IsEmpty(k))
  <2>1. CASE n.role = "tool" /\ KeepsTool(n, valid)
    BY <1>4, <2>1
  <2>2. CASE n.role = "tool" /\ ~ KeepsTool(n, valid)
    BY <1>1, <1>4, <2>2
  <2>3. CASE n.role # "tool" /\ valid # {}
    BY <1>4, <2>3
  <2>4. CASE n.role # "tool" /\ valid = {} /\ CallsOf(n) = << >> /\ IsEmpty(k)
    BY <1>4, <2>4
  <2>5. CASE n.role # "tool" /\ valid = {} /\ ~ (CallsOf(n) = << >> /\ IsEmpty(k))
    BY <1>4, <2>5
  <2> QED
    BY <2>1, <2>2, <2>3, <2>4, <2>5
<1> QED
  BY <1>1, <1>2, <1>3, <1>5 DEF n, k, q, r

LEMMA WordedIsKept ==
    ASSUME NEW I, NEW s \in Repairs(I), NEW m \in Loaded(I), m \in Worded(I)
    PROVE  KeptOf(s, Cleaned(m)) = Cleaned(m)
<1> DEFINE n == Cleaned(m)
<1>1. m \in Messages(I) /\ m.results = << >>
  BY DEF Loaded, Worded
<1>2. n \in Messages(I) /\ BlocksFitRole(n) /\ n.results = << >>
  BY <1>1, CleanedFacts
<1> HIDE DEF n
<1>3. ToSet(n.results) = {}
  BY <1>2, OfNone
<1>4. KeptOf(s, n) = n
  BY <1>2, <1>3, KeptWhole
<1> QED
  BY <1>4 DEF n

CleanedAll(t) == [i \in DOMAIN t |-> Cleaned(t[i])]

LEMMA CleanedAppend ==
    ASSUME NEW I, NEW t \in Seq(Messages(I)), NEW m \in Messages(I)
    PROVE  /\ CleanedAll(t) \in Seq(Messages(I))
           /\ CleanedAll(Append(t, m)) = Append(CleanedAll(t), Cleaned(m))
<1> DEFINE a == CleanedAll(t)
           n == Cleaned(m)
           u == Append(t, m)
           e == Append(a, n)
           b == CleanedAll(u)
<1>1. a = [i \in 1 .. Len(t) |-> Cleaned(t[i])]
  BY DEF CleanedAll
<1>2. a \in Seq(Messages(I)) /\ n \in Messages(I)
  BY <1>1, CleanedFacts
<1>3. u \in Seq(Messages(I)) /\ Len(u) = Len(t) + 1 /\ Len(t) \in Nat
      /\ u[Len(t) + 1] = m /\ \A k \in 1 .. Len(t) : u[k] = t[k]
  OBVIOUS
<1> HIDE DEF u
<1>4. b = [i \in 1 .. Len(t) + 1 |-> Cleaned(u[i])]
  BY <1>3 DEF CleanedAll
<1> HIDE DEF a, b
<1>5. Len(a) = Len(t) /\ \A k \in 1 .. Len(t) : a[k] = Cleaned(t[k])
  BY <1>1, <1>2, <1>3
<1>6. n = Cleaned(m)
  OBVIOUS
<1> HIDE DEF n
<1>7. /\ e \in Seq(Messages(I)) /\ Len(e) = Len(t) + 1 /\ e[Len(t) + 1] = n
      /\ \A k \in 1 .. Len(t) : e[k] = a[k]
  BY <1>2, <1>5
<1> HIDE DEF e
<1>8. e = [k \in 1 .. Len(t) + 1 |-> e[k]]
  BY <1>7
<1>9. ASSUME NEW k \in 1 .. Len(t) + 1 PROVE e[k] = Cleaned(u[k])
  <2>1. CASE k = Len(t) + 1
    BY <1>3, <1>6, <1>7, <2>1
  <2>2. CASE k # Len(t) + 1
    <3>1. k \in 1 .. Len(t)
      BY <1>3, <2>2
    <3> QED
      BY <1>3, <1>5, <1>7, <3>1
  <2> QED
    BY <2>1, <2>2
<1>10. e = b
  BY <1>4, <1>8, <1>9
<1> QED
  BY <1>2, <1>10 DEF a, b, e, n, u

\* The texts come out of the repair in their order.
LEMMA RepairingKeepsTexts ==
    ASSUME NEW I, None \notin I
    PROVE  \A c \in Seq(Loaded(I)) :
              Among(Repairing(NormalizeArguments(c)).out, Worded(I))
                 = CleanedAll(Among(c, Worded(I)))
<1> DEFINE T == Loaded(I)
           X == Worded(I)
           St(c) == Repairing(NormalizeArguments(c))
           P == {c \in Seq(T) : Among(St(c).out, X) = CleanedAll(Among(c, X))}
<1>1. << >> \in P
  <2>1. NormalizeArguments(<< >>) = << >> /\ CleanedAll(<< >>) = << >>
    BY DEF NormalizeArguments, CleanedAll
  <2>2. St(<< >>).out = << >>
    BY <2>1, RepairingEmpty DEF Start
  <2> QED
    BY <2>1, <2>2, AmongEmpty, OfNone
<1>2. ASSUME NEW c \in Seq(T), NEW m \in T, c \in P PROVE Append(c, m) \in P
  <2> DEFINE u == Append(c, m)
             s == St(c)
             k == KeptOf(s, Cleaned(m))
             r == St(u)
             t == Among(c, X)
             out == s.out
  <2>1. m \in Messages(I) /\ c \in Seq(Messages(I)) /\ u \in Seq(T)
    <3>1. \A x \in ToSet(c) : x \in Messages(I)
      BY DEF ToSet, Loaded, Genuine
    <3>2. m \in Messages(I)
      BY DEF Loaded, Genuine
    <3> QED
      BY <3>1, <3>2, SequencesOf
  <2>2. NormalizeArguments(u) = Append(NormalizeArguments(c), Normalized(m))
        /\ NormalizeArguments(c) \in Seq(Messages(I)) /\ Normalized(m) \in Messages(I)
    BY <2>1, NormalizeAppend, NormalizeType, NormalizedFacts
  <2>3. r = RepairStep(s, Normalized(m)) /\ s \in Repairs(I)
    BY <2>2, RepairingAppend
  <2>4. /\ k \in Messages(I) /\ k.role = m.role /\ k.text = m.text
        /\ \E o \in {s.out, Closed(s)} :
              r.out = Append(o, k) \/ (r.out = o /\ (m.role = "tool" \/ IsEmpty(k)))
    BY <2>1, <2>3, StepWrites
  <2>5. /\ out \in Seq(Messages(I)) /\ Closed(s) \in Seq(Messages(I))
        /\ Among(Closed(s), X) = Among(out, X)
    <3>1. \A x \in X : x.role # "tool"
      BY DEF Worded
    <3> QED
      BY <2>3, <3>1, AnswersAreTools DEF Repairs
  <2>6. Among(u, X) = IF m \in X THEN Append(t, m) ELSE t
    BY AmongAppend
  <2>7. Among(out, X) = CleanedAll(t) /\ t \in Seq(Messages(I))
    <3>1. t \in Seq(Messages(I))
      BY <2>1, AmongFacts
    <3> QED
      BY <1>2, <3>1
  <2>8. m \in X <=> k \in X
    BY <2>1, <2>4 DEF Worded
  <2>9. PICK o \in {out, Closed(s)} :
              r.out = Append(o, k) \/ (r.out = o /\ (m.role = "tool" \/ IsEmpty(k)))
    BY <2>4
  <2>10. o \in Seq(Messages(I)) /\ Among(o, X) = Among(out, X)
    BY <2>5, <2>9
  <2>11. Among(Append(o, k), X) = IF k \in X THEN Append(Among(o, X), k) ELSE Among(o, X)
    BY <2>4, <2>10, AmongAppend
  <2>12. CASE m \in X
    <3>1. k = Cleaned(m)
      BY <2>3, <2>12, WordedIsKept
    <3>2. m.role # "tool" /\ ~ IsEmpty(k)
      <4>1. m.role # "tool" /\ m.text > 0 /\ m.text \in Nat
        BY <2>1, <2>12 DEF Worded, Messages
      <4> QED
        BY <2>4, <4>1 DEF IsEmpty
    <3>3. r.out = Append(o, k)
      BY <2>9, <3>2
    <3>4. Among(r.out, X) = Append(CleanedAll(t), k)
      BY <2>7, <2>8, <2>10, <2>11, <2>12, <3>3
    <3>5. CleanedAll(Append(t, m)) = Append(CleanedAll(t), Cleaned(m))
      BY <2>1, <2>7, CleanedAppend
    <3>6. Among(r.out, X) = CleanedAll(Among(u, X))
      BY <2>6, <2>12, <3>1, <3>4, <3>5
    <3> QED
      BY <2>1, <3>6
  <2>13. CASE m \notin X
    <3>1. Among(r.out, X) = Among(out, X)
      BY <2>8, <2>9, <2>10, <2>11, <2>13
    <3>2. Among(r.out, X) = CleanedAll(Among(u, X))
      BY <2>6, <2>7, <2>13, <3>1
    <3> QED
      BY <2>1, <3>2
  <2> QED
    BY <2>12, <2>13
<1> HIDE DEF P, T
<1>3. Seq(T) \subseteq P
  BY <1>1, <1>2, SequencesGrow
<1> QED
  BY <1>3 DEF P, T

LEMMA RepairKeepsTexts ==
    ASSUME NEW I, None \notin I, NEW c \in Seq(Loaded(I))
    PROVE  Texts(RepairToolPairs(c)) =
              [i \in DOMAIN Texts(c) |-> StripRoleInvalidBlocks(NormalizeArguments(Texts(c))[i])]
<1> DEFINE X == Worded(I)
           s == Repairing(NormalizeArguments(c))
           d == RepairToolPairs(c)
           t == Among(c, X)
<1>1. c \in Seq(Messages(I))
  <2>1. \A x \in ToSet(c) : x \in Messages(I)
    BY DEF ToSet, Loaded, Genuine
  <2> QED
    BY <2>1, SequencesOf
<1>2. ASSUME NEW e \in Seq(Messages(I)) PROVE Texts(e) = Among(e, X)
  <2> DEFINE W == {m \in ToSet(e) : m.role # "tool" /\ m.text > 0}
  <2>1. \A m \in ToSet(e) : m \in W <=> m \in X
    BY DEF Worded, ToSet
  <2>2. Texts(e) = Among(e, W)
    BY DEF Texts
  <2> HIDE DEF W, X
  <2> QED
    BY <2>1, <2>2, AmongMeets
<1>3. d \in Seq(Messages(I))
  BY <1>1, RepairIsReplayable
<1>4. s \in Repairs(I)
  BY <1>1, NormalizeType, RepairingIsSound DEF Sound
<1>5. d = Closed(s)
  BY RepairToolPairsIs, FlushedIs DEF Closed
<1>6. Among(d, X) = CleanedAll(t)
  <2>1. \A x \in X : x.role # "tool"
    BY DEF Worded
  <2>2. Among(Closed(s), X) = Among(s.out, X)
    BY <1>4, <2>1, AnswersAreTools
  <2> QED
    BY <1>5, <2>2, RepairingKeepsTexts
<1>7. t \in Seq(Messages(I))
  BY <1>1, AmongFacts
<1> HIDE DEF X, d, t
<1>8. CleanedAll(t) = [i \in DOMAIN t |-> StripRoleInvalidBlocks(NormalizeArguments(t)[i])]
  <2>1. NormalizeArguments(t) = [i \in DOMAIN t |-> Normalized(t[i])]
    BY DEF NormalizeArguments, Normalized
  <2> QED
    BY <2>1 DEF CleanedAll, Cleaned
<1>9. Texts(d) = CleanedAll(t) /\ Texts(c) = t
  BY <1>1, <1>2, <1>3, <1>6 DEF t
<1> QED
  BY <1>8, <1>9 DEF d

\* Calls are pending after the message that makes them.
LEMMA CallStep ==
    ASSUME NEW I, None \notin I, NEW s \in Repairs(I), NEW m \in Messages(I),
           NEW id \in ToSet(CallsOf(m)), ToSet(ResultsOf(m)) = {}
    PROVE  id \in ToSet(RepairStep(s, Normalized(m)).pending)
<1> DEFINE n == Cleaned(m)
           q == Normalized(m)
           valid == Matched(s, n)
<1>1. /\ n \in Messages(I) /\ n.role = m.role /\ ToSet(CallsOf(n)) = ToSet(CallsOf(m))
      /\ ToSet(ResultsOf(n)) = ToSet(ResultsOf(m))
      /\ q \in Messages(I) /\ n = StripRoleInvalidBlocks(q)
  BY CleanedFacts, NormalizedFacts DEF Cleaned
<1>2. valid = {}
  BY <1>1 DEF Matched
<1>3. m.role # "tool"
  <2>1. ToSet(CallsOf(m)) = ToSet(m.calls) \cup
                            (IF m.role = "assistant" THEN ToSet(m.uses) ELSE {})
    BY CallsOfMessage
  <2>2. m.role = "tool" => m.calls = << >>
    BY DEF Messages
  <2> QED
    BY <2>1, <2>2, OfNone
<1> HIDE DEF n, q, valid
<1>4. RepairStep(s, q).pending = CallsOf(n)
  BY <1>1, <1>2, <1>3, RepairStepIs DEF valid
<1> QED
  BY <1>1, <1>4 DEF q

\* A tool message takes away no call that it does not answer.
LEMMA HoldStep ==
    ASSUME NEW I, None \notin I, NEW s \in Repairs(I), NEW m \in Messages(I),
           m.role = "tool", NEW id \in ToSet(s.pending), id \notin ToSet(ResultsOf(m))
    PROVE  id \in ToSet(RepairStep(s, Normalized(m)).pending)
<1> DEFINE n == Cleaned(m)
           q == Normalized(m)
           r == RepairStep(s, q)
           valid == Matched(s, n)
           open == Without(s.pending, valid)
<1>1. /\ n \in Messages(I) /\ n.role = m.role
      /\ ToSet(ResultsOf(n)) = ToSet(ResultsOf(m))
      /\ q \in Messages(I) /\ n = StripRoleInvalidBlocks(q)
  BY CleanedFacts, NormalizedFacts DEF Cleaned
<1>2. id \notin valid
  BY <1>1 DEF Matched
<1>3. id \in ToSet(open)
  <2>1. s.pending \in Seq(I)
    BY DEF Repairs
  <2> DEFINE W == ToSet(s.pending) \ valid
  <2>2. open = Among(s.pending, W)
    BY DEF Without
  <2>3. id \in W
    BY <1>2
  <2> HIDE DEF W, open
  <2>4. ToSet(Among(s.pending, W)) = ToSet(s.pending) \cap W
    BY <2>1, AmongFacts
  <2> QED
    BY <2>2, <2>3, <2>4
<1> HIDE DEF n, q, r, valid, open
<1>4. r = s \/ r.pending = open
  BY <1>1, RepairStepIs DEF r, valid, open
<1> QED
  BY <1>3, <1>4 DEF r, q

\* The answer to a pending call is kept as it is.
LEMMA AnswerStep ==
    ASSUME NEW I, None \notin I, NEW s \in Repairs(I), NEW m \in Messages(I),
           m.role = "tool", m.answer # None, m.results = << >>, m.uses = << >>,
           m.answer \in ToSet(s.pending)
    PROVE  m \in ToSet(RepairStep(s, Normalized(m)).out)
<1> DEFINE y == Without(m.uses, ToSet(m.calls))
           q == Normalized(m)
<1>1. y = m.uses
  BY AmongEmpty DEF Without
<1>2. q = [m EXCEPT !.uses = y]
  BY DEF Normalized
<1> HIDE DEF y, q
<1>3. q = m
  <2>1. m = [role |-> m.role, calls |-> m.calls, uses |-> m.uses, answer |-> m.answer,
             results |-> m.results, text |-> m.text]
    BY DEF Messages
  <2> QED
    BY <1>1, <1>2, <2>1
<1>4. BlocksFitRole(m)
  BY DEF BlocksFitRole
<1>5. StripRoleInvalidBlocks(m) = m
  BY <1>4, StripFits
<1>6. KeptOf(s, m) = m
  BY <1>4, OfNone, KeptWhole
<1>7. KeepsTool(m, Matched(s, m))
  <2>1. m.answer \in ToSet(ResultsOf(m))
    BY ResultsOfMessage
  <2> QED
    BY <2>1 DEF KeepsTool, Matched
<1>8. RepairStep(s, m).out = Append(s.out, m)
  BY <1>5, <1>6, <1>7, RepairStepIs
<1>9. s.out \in Seq(Messages(I))
  BY DEF Repairs
<1> DEFINE o == s.out
<1>10. m \in ToSet(Append(o, m))
  <2> HIDE DEF o
  <2> QED
    BY <1>9, AppendedTo DEF o
<1> QED
  BY <1>3, <1>8, <1>10 DEF q

\* What was written stays.
LEMMA WrittenStays ==
    ASSUME NEW I, None \notin I, NEW s \in Repairs(I), NEW m \in Messages(I),
           NEW x \in ToSet(s.out)
    PROVE  x \in ToSet(RepairStep(s, Normalized(m)).out)
<1> DEFINE k == KeptOf(s, Cleaned(m))
           r == RepairStep(s, Normalized(m))
<1>1. /\ k \in Messages(I)
      /\ \E o \in {s.out, Closed(s)} :
            r.out = Append(o, k) \/ (r.out = o /\ (m.role = "tool" \/ IsEmpty(k)))
  BY StepWrites
<1> HIDE DEF k, r
<1>2. PICK o \in {s.out, Closed(s)} : r.out = Append(o, k) \/ r.out = o
  BY <1>1
<1>3. s.out \in Seq(Messages(I))
  BY DEF Repairs
<1>4. Closed(s) \in Seq(Messages(I)) /\ x \in ToSet(Closed(s))
  <2> DEFINE none == {}
  <2>1. \A z \in none : z.role # "tool"
    OBVIOUS
  <2> HIDE DEF none
  <2> QED
    BY <2>1, AnswersAreTools
<1>5. o \in Seq(Messages(I)) /\ x \in ToSet(o)
  BY <1>2, <1>3, <1>4
<1>6. ToSet(Append(o, k)) = ToSet(o) \cup {k}
  BY <1>1, <1>5, AppendedTo
<1>7. x \in ToSet(r.out)
  BY <1>2, <1>5, <1>6
<1> QED
  BY <1>7 DEF r

\* The repair of the first k messages of a conversation.
Progress(c, k) == Repairing(NormalizeArguments(SubSeq(c, 1, k)))

LEMMA ProgressIs ==
    ASSUME NEW I, None \notin I, NEW c \in Seq(Messages(I))
    PROVE  /\ Progress(c, Len(c)) = Repairing(NormalizeArguments(c))
           /\ \A k \in 1 .. Len(c) :
                 /\ c[k] \in Messages(I)
                 /\ Progress(c, k - 1) \in Repairs(I)
                 /\ Progress(c, k) = RepairStep(Progress(c, k - 1), Normalized(c[k]))
<1>1. SubSeq(c, 1, Len(c)) = c
  OBVIOUS
<1>2. ASSUME NEW k \in 1 .. Len(c)
      PROVE  /\ c[k] \in Messages(I)
             /\ Progress(c, k - 1) \in Repairs(I)
             /\ Progress(c, k) = RepairStep(Progress(c, k - 1), Normalized(c[k]))
  <2> DEFINE p == SubSeq(c, 1, k - 1)
             m == c[k]
             d == NormalizeArguments(p)
             q == Normalized(m)
  <2>1. k - 1 \in Nat /\ k - 1 <= Len(c) /\ m \in Messages(I)
    OBVIOUS
  <2>2. p \in Seq(Messages(I)) /\ SubSeq(c, 1, k) = Append(p, m)
    BY <2>1
  <2> HIDE DEF p, m
  <2>3. d \in Seq(Messages(I)) /\ q \in Messages(I)
    BY <2>1, <2>2, NormalizeType, NormalizedFacts
  <2>4. NormalizeArguments(Append(p, m)) = Append(d, q)
    BY <2>1, <2>2, NormalizeAppend
  <2> HIDE DEF d, q
  <2>5. Repairing(Append(d, q)) = RepairStep(Repairing(d), q) /\ Repairing(d) \in Repairs(I)
    BY <2>3, RepairingAppend
  <2>6. Progress(c, k) = Repairing(Append(d, q)) /\ Progress(c, k - 1) = Repairing(d)
    BY <2>2, <2>4 DEF Progress, d, p
  <2> QED
    BY <2>1, <2>5, <2>6 DEF q, m
<1> QED
  BY <1>1, <1>2 DEF Progress

\* A result whose call was made by the turn before its run is kept.
LEMMA RepairKeepsResults ==
    ASSUME NEW I, None \notin I, NEW c \in Seq(Loaded(I)), NEW i \in DOMAIN c,
           c[i].role = "tool", c[i].answer # None, c[i].results = << >>, Stands(c, i)
    PROVE  Contains(RepairToolPairs(c), c[i])
<1> DEFINE m == c[i]
           id == m.answer
           j == Turn(c, i)
           turns == {0} \cup {h \in 1 .. i - 1 : ResultsOf(c[h]) = << >>}
           n == Len(c)
<1>1. c \in Seq(Messages(I)) /\ n \in Nat /\ i \in 1 .. n /\ m \in Loaded(I)
  <2>1. \A x \in ToSet(c) : x \in Messages(I)
    BY DEF ToSet, Loaded, Genuine
  <2> QED
    BY <2>1, SequencesOf
<1>2. m.uses = << >>
  BY <1>1 DEF Loaded
<1>3. j \in turns
  <2>1. turns \in SUBSET (0 .. i - 1) /\ turns # {} /\ i - 1 \in Nat
    BY <1>1
  <2>2. j = Max(turns)
    BY DEF Turn
  <2> HIDE DEF turns, j
  <2> QED
    BY <2>1, <2>2, LargestUnder
<1>4. /\ j > 0 /\ id \in ToSet(CallsOf(c[j]))
      /\ \A k \in j + 1 .. i - 1 : c[k].role = "tool" /\ id \notin ToSet(ResultsOf(c[k]))
  BY DEF Stands
<1>5. j \in 1 .. i - 1 /\ ResultsOf(c[j]) = << >>
  BY <1>3, <1>4
<1> HIDE DEF j
<1>6. j \in Nat /\ i \in Nat /\ j < i /\ i <= n /\ j \in 1 .. n
  BY <1>1, <1>5
<1>7. \A k \in 1 .. n :
         /\ c[k] \in Messages(I)
         /\ Progress(c, k - 1) \in Repairs(I)
         /\ Progress(c, k) = RepairStep(Progress(c, k - 1), Normalized(c[k]))
  BY <1>1, ProgressIs
<1> DEFINE Open(k) == id \in ToSet(Progress(c, k).pending)
<1>8. Open(j)
  <2>1. ToSet(ResultsOf(c[j])) = {}
    BY <1>5, OfNone
  <2>2. id \in ToSet(RepairStep(Progress(c, j - 1), Normalized(c[j])).pending)
    BY <1>4, <1>6, <1>7, <2>1, CallStep
  <2> QED
    BY <1>6, <1>7, <2>2
<1>9. Open(i - 1)
  <2> DEFINE z == (i - 1) - j
             P == {d \in 0 .. z : Open(j + d)}
  <2>1. z \in Nat /\ j + z = i - 1 /\ j + 0 = j
    BY <1>6
  <2>2. 0 \in P
    <3>1. 0 \in 0 .. z
      BY <2>1
    <3> HIDE DEF z, id
    <3> QED
      BY <1>8, <2>1, <3>1
  <2>3. ASSUME NEW d \in 1 .. z, d - 1 \in P PROVE d \in P
    <3> DEFINE k == j + d
    <3>1. k \in j + 1 .. i - 1 /\ k \in 1 .. n /\ k - 1 = j + (d - 1) /\ d \in 0 .. z
      BY <1>6, <2>1
    <3>2. Open(k - 1)
      BY <2>3, <3>1
    <3>3. c[k].role = "tool" /\ id \notin ToSet(ResultsOf(c[k]))
      BY <1>4, <3>1
    <3> HIDE DEF k, z, id
    <3>4. id \in ToSet(RepairStep(Progress(c, k - 1), Normalized(c[k])).pending)
      BY <1>7, <3>1, <3>2, <3>3, HoldStep
    <3>5. Open(k)
      BY <1>7, <3>1, <3>4
    <3> QED
      BY <3>1, <3>5 DEF k
  <2> HIDE DEF P
  <2>4. \A d \in 0 .. z : d \in P
    BY <2>1, <2>2, <2>3, NumbersUpTo
  <2>5. z \in 0 .. z
    BY <2>1
  <2>6. z \in P
    BY <2>4, <2>5
  <2>7. Open(j + z)
    BY <2>6 DEF P
  <2> QED
    BY <2>1, <2>7
<1> DEFINE Written(k) == m \in ToSet(Progress(c, k).out)
<1>10. Written(i)
  <2>1. Progress(c, i - 1) \in Repairs(I) /\ m \in Messages(I)
        /\ Progress(c, i) = RepairStep(Progress(c, i - 1), Normalized(m))
    BY <1>1, <1>7
  <2>2. m.role = "tool" /\ m.answer # None /\ m.results = << >>
    OBVIOUS
  <2> HIDE DEF m
  <2>3. m \in ToSet(RepairStep(Progress(c, i - 1), Normalized(m)).out)
    BY <1>2, <1>9, <2>1, <2>2, AnswerStep
  <2> QED
    BY <2>1, <2>3
<1> HIDE DEF m
<1>11. Written(n)
  <2> DEFINE z == n - i
             P == {d \in 0 .. z : Written(i + d)}
  <2>1. z \in Nat /\ i + z = n /\ i + 0 = i
    BY <1>1
  <2>2. 0 \in P
    <3>1. 0 \in 0 .. z
      BY <2>1
    <3> HIDE DEF z
    <3> QED
      BY <1>10, <2>1, <3>1
  <2>3. ASSUME NEW d \in 1 .. z, d - 1 \in P PROVE d \in P
    <3> DEFINE k == i + d
    <3>1. k \in 1 .. n /\ k - 1 = i + (d - 1) /\ d \in 0 .. z
      BY <1>1, <2>1
    <3>2. Written(k - 1)
      BY <2>3, <3>1
    <3> HIDE DEF k, z
    <3>3. m \in ToSet(RepairStep(Progress(c, k - 1), Normalized(c[k])).out)
      BY <1>7, <3>1, <3>2, WrittenStays
    <3>4. Written(k)
      BY <1>7, <3>1, <3>3
    <3> QED
      BY <3>1, <3>4 DEF k
  <2> HIDE DEF P
  <2>4. \A d \in 0 .. z : d \in P
    BY <2>1, <2>2, <2>3, NumbersUpTo
  <2>5. z \in 0 .. z
    BY <2>1
  <2>6. z \in P
    BY <2>4, <2>5
  <2>7. Written(i + z)
    BY <2>6 DEF P
  <2> QED
    BY <2>1, <2>7
<1> DEFINE s == Repairing(NormalizeArguments(c))
<1>12. s = Progress(c, n) /\ m \in ToSet(s.out)
  BY <1>1, <1>11, ProgressIs
<1>13. s \in Repairs(I)
  BY <1>1, NormalizeType, RepairingIsSound DEF Sound
<1>14. RepairToolPairs(c) = Closed(s)
  BY RepairToolPairsIs, FlushedIs DEF Closed
<1> HIDE DEF s
<1>15. Closed(s) \in Seq(Messages(I)) /\ m \in ToSet(Closed(s))
  <2> DEFINE none == {}
  <2>1. \A y \in none : y.role # "tool"
    OBVIOUS
  <2> HIDE DEF none
  <2> QED
    BY <1>12, <1>13, <2>1, AnswersAreTools
<1>16. Contains(RepairToolPairs(c), m)
  BY <1>14, <1>15, ContainsIsMember
<1> QED
  BY <1>16 DEF m

---------------------------------------------------------------------------
(* The shapes of MCConversation *)

\* A message by its fields.
Shape(role, calls, uses, answer, results, text) ==
    [role |-> role, calls |-> calls, uses |-> uses, answer |-> answer,
     results |-> results, text |-> text]

LEMMA ShapeOf ==
    \A role, calls, uses, answer, results, text, new :
       /\ [Shape(role, calls, uses, answer, results, text) EXCEPT !.results = new]
             = Shape(role, calls, uses, answer, new, text)
       /\ [Shape(role, calls, uses, answer, results, text) EXCEPT !.uses = new]
             = Shape(role, calls, new, answer, results, text)
       /\ [Shape(role, calls, uses, answer, results, text) EXCEPT !.calls = new]
             = Shape(role, new, uses, answer, results, text)
       /\ [Shape(role, calls, uses, answer, results, text) EXCEPT !.answer = new]
             = Shape(role, calls, uses, new, results, text)
BY DEF Shape

LEMMA ShapeIsLoaded ==
    ASSUME NEW I, NEW role \in {"system", "user", "assistant", "tool"},
           NEW calls \in Seq(I), NEW uses \in Seq(I), NEW answer \in I \cup {None},
           NEW results \in Seq(I), NEW text \in {0, 1, 2}, role # "assistant" => calls = << >>,
           role = "tool" => text = 2 /\ uses = << >>,
           role # "tool" /\ text > 0 => results = << >>
    PROVE  Shape(role, calls, uses, answer, results, text) \in Loaded(I)
<1> DEFINE m == Shape(role, calls, uses, answer, results, text)
<1>1. m \in Messages(I)
  BY DEF Shape, Messages
<1>2. m.role = role /\ m.text = text /\ m.uses = uses /\ m.results = results
  BY DEF Shape
<1> HIDE DEF m
<1>3. m \in Loaded(I)
  BY <1>1, <1>2 DEF Loaded, Genuine
<1> QED
  BY <1>3 DEF m

LEMMA ShapesAreLoaded == Shapes \subseteq Loaded({A, B})
<1> DEFINE I == {A, B}
           AB == << A, B >>
           one == << A >>
           two == << B >>
           no == << >>
<1>1. no = << >> /\ no \in Seq(I) /\ one \in Seq(I) /\ two \in Seq(I) /\ AB \in Seq(I)
  OBVIOUS
<1>2. A \in I \cup {None} /\ B \in I \cup {None} /\ None \in I \cup {None}
  OBVIOUS
<1> HIDE DEF I, one, two, AB, no
<1>3. \A role, t : Plain(role, t) = Shape(role, no, no, None, no, t)
  BY DEF Plain, Shape, no
<1>4. /\ SystemMessage = Shape("system", no, no, None, no, 1)
      /\ \A t : UserMessage(t) = Shape("user", no, no, None, no, t)
      /\ \A c, t : AssistantMessage(c, t) = Shape("assistant", c, no, None, no, t)
      /\ \A id, t : ToolMessage(id, t) = Shape("tool", no, no, id, no, t)
  BY <1>3, ShapeOf DEF SystemMessage, UserMessage, AssistantMessage, ToolMessage
<1>5. /\ SystemMessage \in Loaded(I) /\ UserMessage(2) \in Loaded(I)
      /\ AssistantMessage(no, 2) \in Loaded(I) /\ AssistantMessage(no, 0) \in Loaded(I)
      /\ AssistantMessage(AB, 2) \in Loaded(I)
      /\ ToolMessage(A, 2) \in Loaded(I) /\ ToolMessage(B, 2) \in Loaded(I)
      /\ ToolMessage(None, 2) \in Loaded(I)
  BY <1>1, <1>2, <1>4, ShapeIsLoaded
<1>6. [UserMessage(0) EXCEPT !.results = one] \in Loaded(I)
  <2>1. [UserMessage(0) EXCEPT !.results = one] = Shape("user", no, no, None, one, 0)
    BY <1>4, ShapeOf
  <2>2. Shape("user", no, no, None, one, 0) \in Loaded(I)
    <3>1. "user" # "tool" /\ "user" # "assistant" /\ ~ (0 > 0) /\ 0 \in {0, 1, 2}
      OBVIOUS
    <3> QED
      BY <1>1, <1>2, <3>1, ShapeIsLoaded
  <2> QED
    BY <2>1, <2>2
<1>7. [UserMessage(2) EXCEPT !.uses = two] \in Loaded(I)
  <2>1. [UserMessage(2) EXCEPT !.uses = two] = Shape("user", no, two, None, no, 2)
    BY <1>4, ShapeOf
  <2>2. Shape("user", no, two, None, no, 2) \in Loaded(I)
    BY <1>1, <1>2, ShapeIsLoaded
  <2> QED
    BY <2>1, <2>2
<1>8. [AssistantMessage(one, 0) EXCEPT !.uses = AB] \in Loaded(I)
  <2>1. [AssistantMessage(one, 0) EXCEPT !.uses = AB] = Shape("assistant", one, AB, None, no, 0)
    BY <1>4, ShapeOf
  <2>2. Shape("assistant", one, AB, None, no, 0) \in Loaded(I)
    BY <1>1, <1>2, ShapeIsLoaded
  <2> QED
    BY <2>1, <2>2
<1>9. [AssistantMessage(no, 2) EXCEPT !.uses = two] \in Loaded(I)
  <2>1. [AssistantMessage(no, 2) EXCEPT !.uses = two] = Shape("assistant", no, two, None, no, 2)
    BY <1>4, ShapeOf
  <2>2. Shape("assistant", no, two, None, no, 2) \in Loaded(I)
    BY <1>1, <1>2, ShapeIsLoaded
  <2> QED
    BY <2>1, <2>2
<1>10. [ToolMessage(A, 2) EXCEPT !.results = two] \in Loaded(I)
  <2>1. [ToolMessage(A, 2) EXCEPT !.results = two] = Shape("tool", no, no, A, two, 2)
    BY <1>4, ShapeOf
  <2>2. Shape("tool", no, no, A, two, 2) \in Loaded(I)
    BY <1>1, <1>2, ShapeIsLoaded
  <2> QED
    BY <2>1, <2>2
<1>11. [ToolMessage(None, 2) EXCEPT !.results = AB] \in Loaded(I)
  <2>1. [ToolMessage(None, 2) EXCEPT !.results = AB] = Shape("tool", no, no, None, AB, 2)
    BY <1>4, ShapeOf
  <2>2. Shape("tool", no, no, None, AB, 2) \in Loaded(I)
    BY <1>1, <1>2, ShapeIsLoaded
  <2> QED
    BY <2>1, <2>2
<1> QED
  BY <1>5, <1>6, <1>7, <1>8, <1>9, <1>10, <1>11 DEF Shapes, I, one, two, AB, no

\* Conversations built from the shapes are built from such messages.
LEMMA GivenIsLoaded == Spec => [](given \in Seq(Loaded({A, B})))
<1> DEFINE T == Loaded({A, B})
           Inv == given \in Seq(T)
<1>1. Init => Inv
  BY DEF Init
<1>2. ASSUME Inv, [Next]_given PROVE Inv'
  <2>1. given' = given \/ \E m \in T : given' = Append(given, m)
    BY <1>2, ShapesAreLoaded DEF Next
  <2> HIDE DEF T
  <2> QED
    BY <1>2, <2>1
<1> QED
  BY <1>1, <1>2, PTL DEF Spec

LEMMA LoadedWidens ==
    ASSUME NEW I, NEW c \in Seq(Loaded(I))
    PROVE  c \in Seq(Genuine(I)) /\ c \in Seq(Messages(I))
<1>1. \A x \in ToSet(c) : x \in Genuine(I) /\ x \in Messages(I)
  BY DEF ToSet, Loaded, Genuine
<1> QED
  BY <1>1, SequencesOf

\* Whatever conversation was built from the shapes, however long, its repair
\* passes the check that runs before every request (repair_tool_pairs against
\* validate).
THEOREM RepairsAreReplayable == Spec => []RepairedIsReplayable
<1> DEFINE I == {A, B}
<1>1. None \notin I
  BY IdsAssumption
<1>2. given \in Seq(Loaded(I)) => RepairedIsReplayable
  <2> HIDE DEF I
  <2> QED
    BY <1>1, LoadedWidens, RepairIsReplayable DEF RepairedIsReplayable
<1> QED
  BY <1>2, GivenIsLoaded, PTL

\* However long, a conversation built from the shapes that passes the check
\* comes out of repair_tool_pairs with the messages it went in with, in their
\* order, calls that are in both shapes written once.
THEOREM ValidStaysAsItIs == Spec => []ValidIsLeftAlone
<1> DEFINE I == {A, B}
<1>1. None \notin I
  BY IdsAssumption
<1>2. given \in Seq(Loaded(I)) => ValidIsLeftAlone
  <2> HIDE DEF I
  <2> QED
    BY <1>1, LoadedWidens, RepairSaysTheSame DEF ValidIsLeftAlone
<1> QED
  BY <1>2, GivenIsLoaded, PTL

\* However long the conversation, repair_tool_pairs keeps its texts in their
\* order and every result that the turn before its run asked for.
THEOREM RepairsKeepWhatCounts == Spec => []RepairKeepsWhatCounts
<1> DEFINE I == {A, B}
<1>1. None \notin I
  BY IdsAssumption
<1>2. given \in Seq(Loaded(I)) => RepairKeepsWhatCounts
  <2> HIDE DEF I
  <2> SUFFICES ASSUME given \in Seq(Loaded(I)) PROVE RepairKeepsWhatCounts
    OBVIOUS
  <2>1. Texts(RepairToolPairs(given)) =
           [i \in DOMAIN Texts(given) |->
               StripRoleInvalidBlocks(NormalizeArguments(Texts(given))[i])]
    BY <1>1, RepairKeepsTexts
  <2>2. ASSUME NEW i \in DOMAIN given, given[i].role = "tool", given[i].answer # None,
               given[i].results = << >>, Stands(given, i)
        PROVE  Contains(RepairToolPairs(given), given[i])
    BY <1>1, <2>2, RepairKeepsResults
  <2> QED
    BY <2>1, <2>2 DEF RepairKeepsWhatCounts
<1> QED
  BY <1>2, GivenIsLoaded, PTL

\* A message that PAR wrote for a call without a result is not genuine.
LEMMA GenuineIsNotInvented ==
    ASSUME NEW I, NEW c \in Seq(Genuine(I))
    PROVE  ~ Invented(c)
<1>1. \A i \in DOMAIN c : c[i] \in Genuine(I)
  OBVIOUS
<1> QED
  BY <1>1 DEF Invented, Genuine

\* However long the conversation and wherever truncate_conversation,
\* apply_sliding_window or apply_summarize cut it, what is left of a valid one
\* is valid, and no result in it was made up.
THEOREM CutsStayReplayable == Spec => []CutsAreReplayable
<1> DEFINE I == {A, B}
<1>1. None \notin I
  BY IdsAssumption
<1>2. given \in Seq(Loaded(I)) => CutsAreReplayable
  <2> HIDE DEF I
  <2> SUFFICES ASSUME given \in Seq(Loaded(I)), Validate(given),
                      NEW c \in Cuts(given) \cup Summaries(given)
               PROVE  Validate(c) /\ ~ Invented(c)
    BY DEF CutsAreReplayable
  <2>1. given \in Seq(Genuine(I)) /\ given \in Seq(Messages(I))
    BY LoadedWidens
  <2>2. ASSUME NEW keep \in BOOLEAN, NEW least \in 0 .. 2, NEW budget \in 0 .. MaxLen,
               c = TruncateConversation(given, keep, least, budget)
        PROVE  Validate(c) /\ c \in Seq(Genuine(I))
    <3>1. least \in Nat /\ budget \in Nat
      BY MaxLenAssumption
    <3>2. Validate(c)
      BY <1>1, <2>1, <2>2, <3>1, CompactionIsReplayable
    <3>3. OtherMessages(given) \in Seq(Messages(I)) /\ Validate(OtherMessages(given))
      BY <2>1, OthersAreValid
    <3> DEFINE front == << >>
    <3>4. front \in Seq(Messages(I)) /\ front \o OtherMessages(given) = OtherMessages(given)
      BY <3>3
    <3> HIDE DEF front
    <3>5. Validate(front \o OtherMessages(given))
      BY <3>3, <3>4
    <3>6. RepairToolPairs(given) \in Seq(Genuine(I))
      BY <1>1, <2>1, ValidIsGenuine
    <3>7. c \in Seq(Genuine(I))
      BY <1>1, <2>1, <2>2, <3>1, <3>4, <3>5, <3>6, TruncationInventsNothing
    <3> QED
      BY <3>2, <3>7
  <2>3. ASSUME NEW most \in 0 .. 3, NEW budget \in 0 .. MaxLen,
               c = SlidingWindow(given, most, budget)
        PROVE  Validate(c) /\ c \in Seq(Genuine(I))
    <3>1. most \in Nat /\ budget \in Nat
      BY MaxLenAssumption
    <3>2. Validate(SlidingWindow(given, most, budget))
      BY <1>1, <2>1, <3>1, WindowIsReplayable
    <3>3. SlidingWindow(given, most, budget) \in Seq(Genuine(I))
      BY <1>1, <2>1, <3>1, WindowInventsNothing
    <3> QED
      BY <2>3, <3>2, <3>3
  <2>4. ASSUME NEW budget \in 0 .. MaxLen, c = Summarize(given, budget)
        PROVE  Validate(c) /\ c \in Seq(Genuine(I))
    <3>1. budget \in Nat
      BY MaxLenAssumption
    <3>2. Validate(c)
      BY <1>1, <2>1, <2>4, <3>1, SummaryIsReplayable
    <3>3. c \in Seq(Genuine(I))
      BY <1>1, <2>1, <2>4, SummaryInventsNothing
    <3> QED
      BY <3>2, <3>3
  <2>5. Validate(c) /\ c \in Seq(Genuine(I))
    <3>1. \/ \E keep \in BOOLEAN, least \in 0 .. 2, budget \in 0 .. MaxLen :
                c = TruncateConversation(given, keep, least, budget)
          \/ \E most \in 0 .. 3, budget \in 0 .. MaxLen : c = SlidingWindow(given, most, budget)
          \/ \E budget \in 0 .. MaxLen : c = Summarize(given, budget)
      BY DEF Cuts, Summaries
    <3> QED
      BY <2>2, <2>3, <2>4, <3>1
  <2> QED
    BY <2>5, GenuineIsNotInvented
<1> QED
  BY <1>2, GivenIsLoaded, PTL

\* However long the conversation, and whatever its budget, a summary of a
\* valid one (apply_summarize) ends with its recent messages as they were.
THEOREM SummariesKeepTheRecent == Spec => []SummaryKeepsTheRecent
<1> DEFINE I == {A, B}
<1>1. None \notin I
  BY IdsAssumption
<1>2. given \in Seq(Loaded(I)) => SummaryKeepsTheRecent
  <2> HIDE DEF I
  <2> SUFFICES ASSUME given \in Seq(Loaded(I)), Validate(given), NEW c \in Summaries(given)
               PROVE  IsSuffix(Said(LastMessages(given, Min({Recent, Len(given)}))), Said(c))
    BY DEF SummaryKeepsTheRecent
  <2>1. PICK budget \in 0 .. MaxLen : c = Summarize(given, budget)
    BY DEF Summaries
  <2>2. given \in Seq(Messages(I))
    BY LoadedWidens
  <2> QED
    BY <1>1, <2>1, <2>2, SummaryEndsWithRecent
<1> QED
  BY <1>2, GivenIsLoaded, PTL
=============================================================================
