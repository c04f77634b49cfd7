---------------------------- MODULE Conversation ----------------------------
(***************************************************************************)
(* Conversations and the pure functions over them: validation before a     *)
(* request and repair (Conversation_repair), truncation, sliding windows   *)
(* and summaries (Context_manager), and recovery on cancellation           *)
(* (Engine.recover_on_cancel).                                             *)
(*                                                                         *)
(* A message keeps what pairing depends on: its role, the ids of the tool  *)
(* calls in its tool_calls field (calls) and in its Tool_use blocks (uses),*)
(* the tool_call_id it answers (answer) and the ids of its Tool_result     *)
(* blocks (results), and its other content as a number: 0 when it has none,*)
(* 1 for what PAR writes itself, more for what users, models and tools say.*)
(* Arguments and names are left out. A message weighs one token, so that   *)
(* every cut a budget could make is made by some budget.                   *)
(***************************************************************************)
EXTENDS Naturals, Sequences, SequencesExt, FiniteSetsExt

CONSTANTS
    None,    \* no tool_call_id
    Recent   \* messages a summary leaves in place (4 in the code)

ASSUME RecentAssumption == Recent \in Nat \ {0}

Plain(role, text) == [role |-> role, calls |-> << >>, uses |-> << >>,
                      answer |-> None, results |-> << >>, text |-> text]

SystemMessage == Plain("system", 1)

UserMessage(text) == Plain("user", text)

AssistantMessage(calls, text) == [Plain("assistant", text) EXCEPT !.calls = calls]

ToolMessage(id, text) == [Plain("tool", text) EXCEPT !.answer = id]

\* Keep the first of equal ids.
Distinct(ids) ==
    FoldLeft(LAMBDA kept, id : IF Contains(kept, id) THEN kept ELSE Append(kept, id),
             << >>, ids)

\* The elements that are in chosen, in their order.
Among(s, chosen) ==
    FoldLeft(LAMBDA kept, x : IF x \in chosen THEN Append(kept, x) ELSE kept, << >>, s)

Without(ids, gone) == Among(ids, ToSet(ids) \ gone)

\* calls_of_message
CallsOf(m) ==
    Distinct(m.calls \o (IF m.role = "assistant" THEN m.uses ELSE << >>))

\* results_of_message
ResultsOf(m) ==
    Distinct((IF m.role = "tool" /\ m.answer # None THEN << m.answer >> ELSE << >>)
             \o (IF m.role \in {"user", "tool"} THEN m.results ELSE << >>))

---------------------------------------------------------------------------
(* Conversation_repair *)

\* normalize_arguments: a call in both shapes keeps the one of the field.
NormalizeArguments(c) ==
    [i \in DOMAIN c |-> [c[i] EXCEPT !.uses = Without(@, ToSet(c[i].calls))]]

StripRoleInvalidBlocks(m) ==
    [m EXCEPT !.uses    = IF m.role = "assistant" THEN @ ELSE << >>,
              !.results = IF m.role \in {"user", "tool"} THEN @ ELSE << >>]

\* A repair in progress: the messages so far and the calls not answered yet.

\* Mutant: the first result closes the batch.
AnsweredAtOnce(s, ids) == IF ids = {} THEN s ELSE [s EXCEPT !.pending = << >>]

Answered(s, ids) == [s EXCEPT !.pending = Without(@, ids)]

Emit(s, m) == [s EXCEPT !.out = Append(@, m)]

Remember(s, calls) == [s EXCEPT !.pending = @ \o Without(calls, ToSet(@))]

\* Mutant: unanswered calls are forgotten.
ForgetPending(s) == [s EXCEPT !.pending = << >>]

\* flush_pending: a synthetic result for every unanswered call.
FlushPending(s) ==
    [pending |-> << >>,
     out |-> s.out \o [i \in DOMAIN s.pending |-> ToolMessage(s.pending[i], 1)]]

IsEmpty(m) == m.text = 0 /\ m.uses = << >> /\ m.results = << >> /\ m.calls = << >>

\* Mutant: a tool message without a tool_call_id is dropped.
KeepsByIdAlone(m, valid) == m.answer \in valid

\* A tool message is kept for its tool_call_id, or without one for its blocks.
KeepsTool(m, valid) == IF m.answer = None THEN valid # {} ELSE m.answer \in valid

RepairStep(s, message) ==
    LET m     == StripRoleInvalidBlocks(message)
        valid == ToSet(ResultsOf(m)) \cap ToSet(s.pending)
        calls == CallsOf(m)
        kept  == [m EXCEPT !.results = Among(@, valid)]
        rest  == Answered(s, valid)
    IN  CASE m.role = "tool" /\ KeepsTool(m, valid) -> Emit(rest, kept)
          [] m.role = "tool" /\ ~ KeepsTool(m, valid) -> s
          [] m.role # "tool" /\ valid # {} -> Emit(rest, kept)
          [] m.role # "tool" /\ valid = {} /\ calls # << >> ->
                Remember(Emit(FlushPending(rest), kept), calls)
          [] OTHER -> IF IsEmpty(kept) THEN FlushPending(rest)
                      ELSE Emit(FlushPending(rest), kept)

RepairToolPairs(c) ==
    FlushPending(FoldLeft(RepairStep, [pending |-> << >>, out |-> << >>],
                          NormalizeArguments(c))).out

BlocksFitRole(m) ==
    /\ m.uses # << >> => m.role = "assistant"
    /\ m.results # << >> => m.role \in {"user", "tool"}

\* The calls not answered yet, and whether nothing failed.
ValidateStep(s, m) ==
    LET results == ToSet(ResultsOf(m))
        calls   == ToSet(CallsOf(m))
        open    == s.pending \ results
    IN  [pending |-> IF calls = {} THEN open ELSE calls,
         ok |-> /\ s.ok
                /\ BlocksFitRole(m)
                /\ results \subseteq s.pending
                /\ calls # {} \/ results = {} => open = {}
                /\ calls = {} /\ results = {} => m.role # "tool"]

\* validate: the conversation can be replayed to a provider.
Validate(c) ==
    LET end == FoldLeft(ValidateStep, [pending |-> {}, ok |-> TRUE], c)
    IN  end.ok /\ end.pending = {}

---------------------------------------------------------------------------
(* Context_manager *)

IsSystem(m) == m.role = "system"

SystemMessages(c) == Among(c, {m \in ToSet(c) : IsSystem(m)})

OtherMessages(c) == Among(c, {m \in ToSet(c) : ~ IsSystem(m)})

LastMessages(s, n) == SubSeq(s, Len(s) - n + 1, Len(s))

\* truncate_conversation before its repair: drop the oldest until the rest
\* fits the budget or only min_messages are left.
Cut(c, keepSystem, minMessages, maxTokens) ==
    LET kept   == IF keepSystem THEN SystemMessages(c) ELSE << >>
        others == OtherMessages(c)
        Fits(n) == Len(kept) + n <= maxTokens \/ n <= minMessages
        left   == Max({n \in 0 .. Len(others) - 1 : n >= minMessages /\ Fits(n)})
    IN  CASE Len(others) <= minMessages -> kept \o others
          [] Len(others) > minMessages /\ Len(c) <= maxTokens -> c
          [] OTHER -> kept \o LastMessages(others, left)

\* Mutant: the cut is not repaired.
Shorten(c, keepSystem, minMessages, maxTokens) == Cut(c, keepSystem, minMessages, maxTokens)

TruncateConversation(c, keepSystem, minMessages, maxTokens) ==
    RepairToolPairs(Cut(c, keepSystem, minMessages, maxTokens))

\* apply_sliding_window
SlidingWindow(c, maxMessages, maxTokens) ==
    LET systems == SystemMessages(c)
        others  == OtherMessages(c)
        window  == systems \o LastMessages(others, Min({Len(others), maxMessages}))
        minKeep == Max({2, Len(systems)})
    IN  RepairToolPairs(IF Len(window) <= maxTokens THEN window
                        ELSE TruncateConversation(window, TRUE, minKeep, maxTokens))

CarriesResult(m) == m.role = "tool" \/ m.results # << >>

\* Mutant: the boundary is left where the count puts it.
CountBoundary(c) == Max({0, Len(c) - Recent})

\* Where apply_summarize splits: not between a call and its results.
Boundary(c) == Max({0} \cup {n \in 1 .. Len(c) - Recent : ~ CarriesResult(c[n + 1])})

\* apply_summarize with a model that answers; the summary replaces the rest.
Summarize(c, maxTokens) ==
    IF Len(c) <= maxTokens \/ Boundary(c) = 0
    THEN c
    ELSE RepairToolPairs(<< SystemMessage >> \o SubSeq(c, Boundary(c) + 1, Len(c)))

---------------------------------------------------------------------------
(* Engine.recover_on_cancel *)

\* The calls of an assistant message that no tool message before it answers.
RecoverStep(s, m) ==
    [seen |-> s.seen \cup (IF m.role = "tool" THEN {m.answer} ELSE {}),
     collected |-> IF m.role = "assistant"
                   THEN s.collected \o Without(m.calls, s.seen)
                   ELSE s.collected]

\* A synthetic result for each of them, at the end of the conversation.
RecoverOnCancel(c) ==
    LET ids == FoldLeft(RecoverStep, [seen |-> {}, collected |-> << >>], c).collected
    IN  c \o [i \in DOMAIN ids |-> ToolMessage(ids[i], 1)]
=============================================================================
