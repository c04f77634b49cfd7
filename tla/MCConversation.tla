--------------------------- MODULE MCConversation ---------------------------
(***************************************************************************)
(* Every conversation of at most MaxLen messages built from the shapes     *)
(* below, as loaded from disk or handed in by a caller: the repair, the    *)
(* validation and the compactions of Conversation on all of them.          *)
(***************************************************************************)
EXTENDS Conversation

CONSTANTS
    A, B,    \* ids of tool calls
    MaxLen   \* messages a conversation has at most

ASSUME IdsAssumption == None \notin {A, B}

ASSUME MaxLenAssumption == MaxLen \in Nat

VARIABLE given

Shapes ==
    { SystemMessage, UserMessage(2),
      [UserMessage(0) EXCEPT !.results = << A >>],
      [UserMessage(2) EXCEPT !.uses = << B >>],
      AssistantMessage(<< >>, 2), AssistantMessage(<< >>, 0),
      AssistantMessage(<< A, B >>, 2),
      [AssistantMessage(<< A >>, 0) EXCEPT !.uses = << A, B >>],
      [AssistantMessage(<< >>, 2) EXCEPT !.uses = << B >>],
      ToolMessage(A, 2), ToolMessage(B, 2),
      [ToolMessage(A, 2) EXCEPT !.results = << B >>],
      [ToolMessage(None, 2) EXCEPT !.results = << A, B >>],
      ToolMessage(None, 2) }

Init == given = << >>

Next == Len(given) < MaxLen /\ \E m \in Shapes : given' = Append(given, m)

Spec == Init /\ [][Next]_given

---------------------------------------------------------------------------
(* What the repair and the compactions promise. *)

Said(c) ==
    LET n == NormalizeArguments(c) IN Among(n, {m \in ToSet(n) : ~ IsEmpty(m)})

Texts(c) == Among(c, {m \in ToSet(c) : m.role # "tool" /\ m.text > 0})

\* A result counts when the assistant turn right before its run of results
\* made the call and the run, tool messages so far, has not answered it yet.
Turn(c, i) == Max({0} \cup {j \in 1 .. i - 1 : ResultsOf(c[j]) = << >>})

Stands(c, i) ==
    LET j == Turn(c, i)
    IN  /\ j > 0
        /\ c[i].answer \in ToSet(CallsOf(c[j]))
        /\ \A k \in j + 1 .. i - 1 :
              c[k].role = "tool" /\ c[i].answer \notin ToSet(ResultsOf(c[k]))

Invented(c) == \E i \in DOMAIN c : c[i].role = "tool" /\ c[i].text = 1

Cuts(c) ==
    {TruncateConversation(c, keep, least, budget) :
        keep \in BOOLEAN, least \in 0 .. 2, budget \in 0 .. MaxLen}
    \cup {SlidingWindow(c, most, budget) : most \in 0 .. 3, budget \in 0 .. MaxLen}

Summaries(c) == {Summarize(c, budget) : budget \in 0 .. MaxLen}

\* Whatever was loaded, the repaired conversation passes the check that runs
\* before every request: no orphan result, no unanswered call, in the field
\* or in the blocks (repair_tool_pairs against validate).
RepairedIsReplayable == Validate(RepairToolPairs(given))

\* A conversation that passes the check is not rewritten, but for calls that
\* are in both shapes.
ValidIsLeftAlone ==
    Validate(given) =>
        Said(RepairToolPairs(given)) = Said(given)

\* The repair drops no message that says something, keeps every result whose
\* call was made by the turn before it, and keeps both in their order.
RepairKeepsWhatCounts ==
    /\ Texts(RepairToolPairs(given)) =
          [i \in DOMAIN Texts(given) |->
              StripRoleInvalidBlocks(NormalizeArguments(Texts(given))[i])]
    /\ \A i \in DOMAIN given :
          /\ given[i].role = "tool"
          /\ given[i].answer # None
          /\ given[i].results = << >>
          /\ Stands(given, i)
          => Contains(RepairToolPairs(given), given[i])

\* Truncation, sliding windows and summaries cut a replayable conversation
\* anywhere their limits say and return one that is still replayable, with no
\* result invented for a call whose real one was there.
CutsAreReplayable ==
    Validate(given) =>
        \A c \in Cuts(given) \cup Summaries(given) : Validate(c) /\ ~ Invented(c)

\* A summary stands for the old messages only: the recent ones, and the batch
\* of calls the count would have cut in two, are still there as they were.
SummaryKeepsTheRecent ==
    Validate(given) =>
        \A c \in Summaries(given) :
            IsSuffix(Said(LastMessages(given, Min({Recent, Len(given)}))), Said(c))
=============================================================================
