----------------------------- MODULE AgentLoop -----------------------------
(***************************************************************************)
(* Engine.run_agent: the ReAct loop of one invocation, and invocations     *)
(* that continue the conversation the last one returned.  The loop asks    *)
(* the model, runs the batch of tool calls it replies with in fibers that  *)
(* share a quota, appends the results, reports the step, drains the        *)
(* steering queue and goes round again, until an answer, an error, a       *)
(* cancellation, a handoff to another agent or an approval.                *)
(*                                                                         *)
(* An action runs from one wait of the loop to the next: the yield at the  *)
(* top, the model, the tools, an approver.  A setting that only one branch *)
(* reads (early_stopping_method, on_max_tokens, an approval handler) is    *)
(* chosen where it is read.  What another fiber or a handler does to the   *)
(* run, a steering message or a request to cancel, comes at any wait.      *)
(***************************************************************************)
EXTENDS Conversation

CONSTANTS
    Agents,        \* ids of the registered agents
    WithTools,     \* the agents whose tools are not empty
    MaxIterations, \* max_iterations of each agent
    Stored,        \* conversations a caller may continue
    Strategies,    \* context strategies in use: truncate, sliding, summarize
    Budgets,       \* token budgets those strategies cut to
    Quota,         \* permits of the task semaphore (max_concurrent_tasks)
    Parallel,      \* parallel_tool_execution
    Capacity,      \* capacity of the steering queue (100 in the code)
    MaxReactive,   \* retries after a context overflow (2 in the code)
    MaxChunks,     \* max_continuation_chunks
    MaxBatch,      \* bound: tool calls in one reply
    MaxSteered,    \* bound: steering messages sent to one invocation
    MaxInvocations \* bound: invocations on the conversation

ASSUME LoopAssumption ==
    /\ Agents # {} /\ IsFiniteSet(Agents)
    /\ WithTools \subseteq Agents
    /\ MaxIterations \in [Agents -> Nat]
    /\ Strategies \subseteq {"truncate", "sliding", "summarize"}
    /\ Budgets \subseteq Nat
    /\ {Quota, Capacity, MaxChunks, MaxBatch} \subseteq Nat \ {0}
    /\ {MaxReactive, MaxSteered, MaxInvocations} \subseteq Nat
    /\ Parallel \in BOOLEAN

VARIABLES
    conv,       \* the conversation of the loop, or the one returned
    pc,         \* what the invocation waits for; "idle" if none runs
    agent,      \* the agent the loop runs
    iter,       \* iterations
    limit,      \* global_max
    attempts,   \* reactive_attempts
    calls,      \* ids of the batch of tool calls
    task,       \* where each call of the batch is
    mark,       \* messages before a Continue sub-loop
    chunks,     \* replies of the sub-loop so far
    permits,    \* free permits of the quota
    cancelled,  \* the cancellation token
    steering,   \* the steering queue
    followups,  \* the follow-up queue: how many messages
    outcome,    \* how the last invocation ended
    reported,   \* the step on_step_complete got last
    invocation, \* history: invocations so far
    requests,   \* history: requests of this invocation to the model
    late,       \* history: those made after the cancellation
    replayable, \* history: this invocation started from a replayable conversation
    sent,       \* history: steering messages sent to this invocation
    told        \* history: those drained into the conversation

batch  == << calls, task, permits >>
course == << mark, chunks, cancelled, invocation, requests, late, replayable, sent >>

vars == << conv, pc, agent, iter, limit, attempts, batch, course, steering,
           followups, outcome, reported, told >>

Waits == {"top", "ready", "asked", "refused", "closing", "more", "batch",
          "approver", "modified"}

Outcomes == {"none", "answered", "closed", "continued", "error", "mixed",
             "cancelled", "suspended"}

TaskStates == {"new", "waiting", "running", "done", "handoff", "approval"}

---------------------------------------------------------------------------
(* Messages and queues *)

Results(ids) == [k \in DOMAIN ids |-> ToolMessage(ids[k], 2)]

\* Ids the model gives the calls of its next reply.
NewCalls(n) == [k \in 1 .. n |-> << invocation, requests, k >>]

\* Steered messages have texts of their own: 3, 4, ...
Steered(queue) == [k \in DOMAIN queue |-> UserMessage(queue[k] + 2)]

\* drain_into_conv for follow-ups
FollowedUp(c) == c \o [k \in 1 .. followups |-> UserMessage(2)]

\* Mutant: the terminal message keeps the calls it came with.
EgressWithCalls(c, ids, text) == Append(c, AssistantMessage(ids, text))

\* The egress of run_agent: append the terminal message unless the Continue
\* sub-loop has, without calls if the agent has no tools.
Egress(c, ids, text) ==
    LET last == c[Len(c)]
        there == /\ c # << >>
                 /\ last = AssistantMessage(<< >>, text)
        m == AssistantMessage(IF agent \in WithTools THEN ids ELSE << >>, text)
    IN  IF there \/ (ids # m.calls /\ IsEmpty(m)) THEN c ELSE Append(c, m)

\* What a context strategy may make of the conversation; a summary that fails
\* is a truncation.
Compacted(strategy, c, b) ==
    CASE strategy = "truncate"  -> {TruncateConversation(c, TRUE, 2, b)}
      [] strategy = "sliding"   -> {SlidingWindow(c, 2, b)}
      [] strategy = "summarize" -> {Summarize(c, b), TruncateConversation(c, TRUE, Recent, b)}

Compactions(c) ==
    {c} \cup UNION {Compacted(s, c, b) : s \in Strategies, b \in Budgets}

---------------------------------------------------------------------------
(* Ways on from a step of the loop *)

Return(how, c) ==
    /\ pc' = "idle"
    /\ outcome' = how
    /\ conv' = c
    /\ UNCHANGED << agent, iter, limit, steering, told >>

\* on_step_complete: what a durable invocation resumes from.
Report(c, who, i) == reported' = [conv |-> c, agent |-> who, iter |-> i]

\* Mutant: the queue is emptied from its end.
DrainNewestFirst(c) ==
    /\ conv' = c \o Steered(Reverse(steering))
    /\ told' = told \o Reverse(steering)
    /\ steering' = << >>

\* drain_into_conv for steering messages
Drain(c) ==
    /\ conv' = c \o Steered(steering)
    /\ told' = told \o steering
    /\ steering' = << >>

\* continue_loop
ContinueLoop(c) ==
    /\ Drain(c)
    /\ iter' = iter + 1
    /\ pc' = "top"
    /\ UNCHANGED << agent, limit, outcome >>

---------------------------------------------------------------------------
(* Invocation *)

\* A new conversation, or one more user message for one that was stored or
\* returned last.
Started ==
    {<< SystemMessage, UserMessage(2) >>}
    \cup {Append(c, UserMessage(2)) :
            c \in Stored \cup (IF invocation = 0 THEN {} ELSE {conv})}

Invoke ==
    /\ pc = "idle"
    /\ invocation < MaxInvocations
    /\ \E c \in Started, a \in Agents :
          /\ conv' = NormalizeArguments(c)
          /\ agent' = a
          /\ limit' = MaxIterations[a]
          /\ replayable' = Validate(conv')
          /\ Report(conv', a, 0)
    /\ pc' = "top"
    /\ iter' = 0
    /\ attempts' = 0
    /\ requests' = 0
    /\ late' = 0
    /\ cancelled' = FALSE
    /\ steering' = << >>
    /\ followups' = 0
    /\ sent' = 0
    /\ told' = << >>
    /\ outcome' = "none"
    /\ invocation' = invocation + 1
    /\ calls' = << >>
    /\ task' = << >>
    /\ mark' = 0
    /\ chunks' = 0
    /\ UNCHANGED permits

---------------------------------------------------------------------------
(* The top of the loop *)

\* A request to the model, made whether the token is cancelled or not.
Ask ==
    /\ requests' = requests + 1
    /\ late' = IF cancelled THEN late + 1 ELSE late

\* max_execution_time has passed.
TimeUp ==
    /\ pc = "top"
    /\ Return("error", conv)
    /\ UNCHANGED << attempts, batch, course, followups, reported >>

\* iterations >= global_max under Force
GiveUp ==
    /\ pc = "top"
    /\ iter >= limit
    /\ Return("error", conv)
    /\ UNCHANGED << attempts, batch, course, followups, reported >>

\* iterations >= global_max under Generate: one last request, before the token
\* is looked at.
AskToClose ==
    /\ pc = "top"
    /\ iter >= limit
    /\ conv' = Append(conv, UserMessage(1))
    /\ pc' = "closing"
    /\ Ask
    /\ UNCHANGED << agent, iter, limit, attempts, batch, mark, chunks, cancelled,
                    invocation, replayable, sent, steering, followups, outcome,
                    reported, told >>

\* Its reply, made with the tools still on offer, is not dispatched.
Close ==
    /\ pc = "closing"
    /\ \/ /\ Validate(conv)
          /\ \E n \in 0 .. MaxBatch, text \in {0, 2} :
                Return("closed", Egress(conv, NewCalls(n), text))
       \/ Return("error", SubSeq(conv, 1, Len(conv) - 1))
       \/ cancelled /\ Return("cancelled", conv)
    /\ UNCHANGED << attempts, batch, course, followups, reported >>

\* The token is checked, then the loop yields.
LoopTop ==
    /\ pc = "top"
    /\ iter < limit
    /\ \/ cancelled /\ Return("cancelled", RecoverOnCancel(conv))
       \/ /\ ~ cancelled
          /\ pc' = "ready"
          /\ UNCHANGED << conv, agent, iter, limit, steering, told, outcome >>
    /\ UNCHANGED << attempts, batch, course, followups, reported >>

\* Compaction, normalize_arguments and validate, then the model is asked.
Request ==
    /\ pc = "ready"
    /\ \E c \in Compactions(conv) :
          /\ conv' = NormalizeArguments(c)
          /\ pc' = IF Validate(conv') THEN "asked" ELSE "refused"
    /\ Ask
    /\ UNCHANGED << agent, iter, limit, attempts, batch, mark, chunks, cancelled,
                    invocation, replayable, sent, steering, followups, outcome,
                    reported, told >>

---------------------------------------------------------------------------
(* Errors of the model *)

\* An error, or the refusal of the conversation, that on_error may retry.
LLMFails ==
    /\ pc \in {"asked", "refused"}
    /\ Return("error", conv) \/ ContinueLoop(conv)
    /\ UNCHANGED << attempts, batch, course, followups, reported >>

\* The streaming accumulator found the token cancelled.
StreamCancelled ==
    /\ pc = "asked"
    /\ cancelled
    /\ Return("cancelled", conv)
    /\ UNCHANGED << attempts, batch, course, followups, reported >>

\* Context length exceeded: compact and try again, so many times.
ContextExceeded ==
    /\ pc = "asked"
    /\ attempts' = attempts + 1
    /\ IF attempts' > MaxReactive
       THEN Return("error", conv)
       ELSE \E c \in Compactions(conv)
                      \cup {TruncateConversation(conv, TRUE, 2, b) : b \in Budgets} :
               ContinueLoop(c)
    /\ UNCHANGED << batch, course, followups, reported >>

---------------------------------------------------------------------------
(* Replies of the model *)

\* Tool calls for an agent with tools are a batch.
ReplyCalls ==
    /\ pc = "asked"
    /\ agent \in WithTools
    /\ \E n \in 1 .. MaxBatch :
          /\ conv' = Append(conv, AssistantMessage(NewCalls(n), 2))
          /\ calls' = NewCalls(n)
          /\ task' = [k \in 1 .. n |-> "new"]
    /\ pc' = "batch"
    /\ attempts' = 0
    /\ UNCHANGED << agent, iter, limit, permits, course, steering, followups,
                    outcome, reported, told >>

\* Calls in the reply to an agent without tools are not dispatched.
Undispatched == IF agent \in WithTools THEN {0} ELSE {0, 1}

\* Stop, Content_filter, or Max_tokens under Return_partial: follow-ups are
\* appended, and not asked.
ReplyAnswer ==
    /\ pc = "asked"
    /\ \E n \in Undispatched, text \in {0, 2} :
          Return("answered", Egress(FollowedUp(conv), NewCalls(n), text))
    /\ attempts' = 0
    /\ followups' = 0
    /\ UNCHANGED << batch, course, reported >>

\* Max_tokens without content, or under Retry, which drains the follow-ups.
ReplyTruncated ==
    /\ pc = "asked"
    /\ \E retry \in BOOLEAN :
          LET c == IF retry THEN FollowedUp(conv) ELSE conv
          IN  /\ followups' = IF retry THEN 0 ELSE followups
              /\ IF iter + 1 >= limit THEN Return("error", c) ELSE ContinueLoop(c)
    /\ attempts' = 0
    /\ UNCHANGED << batch, course, reported >>

\* The Continue sub-loop collapses into one assistant message.
EndContinue(before, ids) ==
    LET c == Append(SubSeq(conv, 1, before), AssistantMessage(<< >>, 2))
    IN  /\ Return("continued", Egress(FollowedUp(c), ids, 2))
        /\ followups' = 0
        /\ UNCHANGED << chunks, requests, late >>

\* continue_chunks asks for the next chunk, without a look at the token.
AskToContinue(c, n) ==
    /\ n < MaxChunks
    /\ conv' = Append(c, UserMessage(1))
    /\ Ask
    /\ pc' = "more"
    /\ chunks' = n
    /\ UNCHANGED << agent, iter, limit, steering, told, outcome, followups >>

\* Max_tokens under Continue
ReplyContinue ==
    /\ pc = "asked"
    /\ mark' = Len(conv)
    /\ \/ EndContinue(Len(conv), << >>)
       \/ \E n \in Undispatched :
             AskToContinue(Append(conv, AssistantMessage(NewCalls(n), 2)), 1)
    /\ attempts' = 0
    /\ UNCHANGED << batch, cancelled, invocation, replayable, sent, reported >>

\* A chunk, the end of the chunks, or a request that is refused or fails.
Chunk ==
    /\ pc = "more"
    /\ \/ EndContinue(mark, << >>)
       \/ /\ Validate(conv)
          /\ \E n \in 0 .. 1 :
                \/ EndContinue(mark, NewCalls(n))
                \/ AskToContinue(Append(conv, AssistantMessage(NewCalls(n), 2)),
                                 chunks + 1)
    /\ UNCHANGED << attempts, batch, mark, cancelled, invocation, replayable, sent,
                    reported >>
---------------------------------------------------------------------------
(* The batch of tool calls *)

Waiting == {k \in DOMAIN task : task[k] = "waiting"}

\* Fibers start in the order of the calls; in series a call also waits for
\* the one before it to end.
MayStart(i) ==
    /\ pc \in {"batch", "modified"}
    /\ task[i] = "new"
    /\ \A k \in 1 .. i - 1 :
          task[k] \notin (IF Parallel THEN {"new"} ELSE {"new", "waiting", "running"})

\* Mutant: the call starts without a permit.
StartAtOnce(i) == task' = [task EXCEPT ![i] = "running"] /\ UNCHANGED permits

\* Semaphore.acquire
Acquire(i) ==
    IF permits > 0
    THEN /\ task' = [task EXCEPT ![i] = "running"]
         /\ permits' = permits - 1
    ELSE /\ task' = [task EXCEPT ![i] = "waiting"]
         /\ UNCHANGED permits

\* invoke_one: a cancelled call or one a hook blocks gets its result at once,
\* any other a permit or a place in the queue for one.
Dispatch(i) ==
    /\ MayStart(i)
    /\ \/ /\ task' = [task EXCEPT ![i] = "done"]
          /\ UNCHANGED permits
       \/ ~ cancelled /\ Acquire(i)
    /\ UNCHANGED << conv, pc, agent, iter, limit, attempts, calls, course, steering,
                    followups, outcome, reported, told >>

\* Mutant: the permit is not released.
KeepPermit(i, how) == task' = [task EXCEPT ![i] = how] /\ UNCHANGED permits

\* Semaphore.release hands the permit to the call that waits longest.
Release(i, how) ==
    IF Waiting = {}
    THEN /\ task' = [task EXCEPT ![i] = how]
         /\ permits' = permits + 1
    ELSE /\ task' = [task EXCEPT ![i] = how, ![Min(Waiting)] = "running"]
         /\ UNCHANGED permits

\* A handler returns Success or Error, times out, raises, or asks for a
\* handoff or an approval.
ToolReturns(i) ==
    /\ task[i] = "running"
    /\ \E how \in {"done", "handoff", "approval"} : Release(i, how)
    /\ UNCHANGED << conv, pc, agent, iter, limit, attempts, calls, course, steering,
                    followups, outcome, reported, told >>

\* The calls of the batch that ended like this, in their order.
Ended(how) ==
    LET chosen == Among([k \in DOMAIN task |-> k], {k \in DOMAIN task : task[k] = how})
    IN  [k \in DOMAIN chosen |-> calls[chosen[k]]]

\* The conversation with the plain results.
Folded == conv \o Results(Ended("done"))

BatchEnded == pc = "batch" /\ \A k \in DOMAIN task :
                                  task[k] \in {"done", "handoff", "approval"}

\* No handoff and no approval: report the step and go on.
BatchDone ==
    /\ BatchEnded
    /\ Ended("handoff") = << >>
    /\ Ended("approval") = << >>
    /\ Report(Folded, agent, iter + 1)
    /\ ContinueLoop(Folded)
    /\ UNCHANGED << attempts, batch, course, followups >>

\* Special results that cannot be followed: several approvals, both kinds, a
\* handoff while enable_handoff is false, several handoffs.  The last two
\* answer the handoffs only.
BatchRefused ==
    /\ BatchEnded
    /\ LET handoffs  == Ended("handoff")
           approvals == Ended("approval")
       IN  \/ /\ handoffs = << >>
              /\ Len(approvals) > 1
              /\ Return("error", Folded \o Results(approvals))
           \/ /\ Len(handoffs) = 1
              /\ approvals # << >>
              /\ Return("error", Folded \o Results(handoffs) \o Results(approvals))
           \/ /\ handoffs # << >>
              /\ Return(IF approvals = << >> THEN "error" ELSE "mixed",
                        Folded \o Results(handoffs))
    /\ UNCHANGED << attempts, batch, course, followups, reported >>

---------------------------------------------------------------------------
(* Handoff *)

\* Mutant: the result of the handoff is left out.
CarriedWithoutResult(c) == << SystemMessage >> \o Front(OtherMessages(c))

\* The conversation the target goes on with.
CarriedOver(c) == << SystemMessage >> \o OtherMessages(c)

\* Mutant: the step is reported for the source agent.
ReportSource(c, target) == Report(c, agent, iter + 1)

ReportTarget(c, target) == Report(c, target, iter + 1)

\* Mutant: the target starts with iterations of its own.
RunAfresh(target) ==
    /\ agent' = target
    /\ limit' = Max({limit, MaxIterations[target]})
    /\ iter' = 0
    /\ pc' = "top"

\* The target's share of the budget is the larger of both limits.
RunTarget(target) ==
    /\ agent' = target
    /\ limit' = Max({limit, MaxIterations[target]})
    /\ iter' = iter + 1
    /\ pc' = "top"

\* execute_handoff: the target is unknown, or a task is missing.
HandoffFails(c) == Return("error", c) /\ UNCHANGED reported

\* With carry_context the target goes on with the conversation, which holds a
\* result for the call.
HandOff(c, target) ==
    /\ Drain(CarriedOver(c))
    /\ ReportTarget(conv', target)
    /\ RunTarget(target)
    /\ UNCHANGED outcome

\* Without it the target starts from the task; steering waits.
HandTask(target) ==
    /\ conv' = << SystemMessage, UserMessage(2) >>
    /\ ReportTarget(conv', target)
    /\ RunTarget(target)
    /\ UNCHANGED << outcome, steering, told >>

BatchHandsOff ==
    /\ BatchEnded
    /\ Len(Ended("handoff")) = 1
    /\ Ended("approval") = << >>
    /\ LET c == Folded \o Results(Ended("handoff"))
       IN  \/ HandoffFails(c)
           \/ \E target \in Agents : HandOff(c, target) \/ HandTask(target)
    /\ UNCHANGED << attempts, batch, course, followups >>

---------------------------------------------------------------------------
(* Approval *)

OneApproval ==
    /\ BatchEnded
    /\ Ended("handoff") = << >>
    /\ Len(Ended("approval")) = 1

\* No approval_handler, or one that answers later: Approval_pending.
BatchSuspends ==
    /\ OneApproval
    /\ \/ Return("error", Folded \o Results(Ended("approval")))
       \/ Return("suspended", Folded)
    /\ UNCHANGED << attempts, batch, course, followups, reported >>

\* A Sync_local handler or a webhook is asked.
AskApprover ==
    /\ OneApproval
    /\ conv' = Folded
    /\ calls' = Ended("approval")
    /\ task' = << "approval" >>
    /\ pc' = "approver"
    /\ UNCHANGED << agent, iter, limit, attempts, permits, course, steering,
                    followups, outcome, reported, told >>

\* continue_after_approval
ContinueAfterApproval ==
    LET c == conv \o Results(calls)
    IN  Report(c, agent, iter + 1) /\ ContinueLoop(c)

\* Approved, Rejected or Timeout: a result without the tool.
ApproverDecides ==
    /\ pc = "approver"
    /\ ContinueAfterApproval
    /\ UNCHANGED << attempts, batch, course, followups >>

\* Escalated: a handoff to the target, whatever enable_handoff says.
ApproverEscalates ==
    /\ pc = "approver"
    /\ LET c == conv \o Results(calls)
       IN  HandoffFails(c) \/ \E target \in Agents : HandOff(c, target)
    /\ UNCHANGED << attempts, batch, course, followups >>

\* Modified: the call is dispatched again with the new input.
ApproverModifies ==
    /\ pc = "approver"
    /\ task' = << "new" >>
    /\ pc' = "modified"
    /\ UNCHANGED << conv, agent, iter, limit, attempts, calls, permits, course,
                    steering, followups, outcome, reported, told >>

\* Whatever it returns is its result.
ModifiedDone ==
    /\ pc = "modified"
    /\ task[1] \in {"done", "handoff", "approval"}
    /\ ContinueAfterApproval
    /\ UNCHANGED << attempts, batch, course, followups >>

---------------------------------------------------------------------------
(* What comes from outside *)

\* Steering_queue.enqueue: a full queue drops its oldest message.
Push(queue, m) ==
    LET all == Append(queue, m)
    IN  SubSeq(all, Max({1, Len(all) - Capacity + 1}), Len(all))

Steer ==
    /\ pc # "idle"
    /\ sent < MaxSteered
    /\ sent' = sent + 1
    /\ steering' = Push(steering, sent')
    /\ UNCHANGED << conv, pc, agent, iter, limit, attempts, batch, mark, chunks,
                    cancelled, invocation, requests, late, replayable,
                    followups, outcome, reported, told >>

FollowUp ==
    /\ pc # "idle"
    /\ followups = 0
    /\ followups' = 1
    /\ UNCHANGED << conv, pc, agent, iter, limit, attempts, batch, course, steering,
                    outcome, reported, told >>

RequestCancel ==
    /\ pc # "idle"
    /\ ~ cancelled
    /\ cancelled' = TRUE
    /\ UNCHANGED << conv, pc, agent, iter, limit, attempts, batch, mark, chunks,
                    invocation, requests, late, replayable, sent, steering,
                    followups, outcome, reported, told >>

---------------------------------------------------------------------------
Init ==
    /\ conv = << >>
    /\ pc = "idle"
    /\ agent = CHOOSE a \in Agents : TRUE
    /\ iter = 0
    /\ limit = 0
    /\ attempts = 0
    /\ calls = << >>
    /\ task = << >>
    /\ mark = 0
    /\ chunks = 0
    /\ permits = Quota
    /\ cancelled = FALSE
    /\ steering = << >>
    /\ followups = 0
    /\ outcome = "none"
    /\ reported = [conv |-> << >>, agent |-> agent, iter |-> 0]
    /\ invocation = 0
    /\ requests = 0
    /\ late = 0
    /\ replayable = TRUE
    /\ sent = 0
    /\ told = << >>

\* Steps of the loop, the model, the tools and the approver.
Progress ==
    \/ TimeUp
    \/ GiveUp
    \/ AskToClose
    \/ Close
    \/ LoopTop
    \/ Request
    \/ LLMFails
    \/ StreamCancelled
    \/ ContextExceeded
    \/ ReplyCalls
    \/ ReplyAnswer
    \/ ReplyTruncated
    \/ ReplyContinue
    \/ Chunk
    \/ \E i \in DOMAIN task : Dispatch(i) \/ ToolReturns(i)
    \/ BatchDone
    \/ BatchRefused
    \/ BatchHandsOff
    \/ BatchSuspends
    \/ AskApprover
    \/ ApproverDecides
    \/ ApproverEscalates
    \/ ApproverModifies
    \/ ModifiedDone

Next == Invoke \/ Steer \/ FollowUp \/ RequestCancel \/ Progress

\* What the invocation waits for can come: always, but for a batch whose
\* calls all wait for a permit nobody holds.
Able ==
    \/ pc \notin {"idle", "batch", "modified"}
    \/ pc = "batch" /\ BatchEnded
    \/ pc = "modified" /\ task[1] \in {"done", "handoff", "approval"}
    \/ \E i \in DOMAIN task : MayStart(i) \/ task[i] = "running"

\* The loop takes its steps; the model, the tools and the approver answer.
\* This is weak fairness of Progress, whose enabling condition is Able.
Fair == []<>(~ Able) \/ []<><<Progress>>_vars

Spec == Init /\ [][Next]_vars /\ Fair

---------------------------------------------------------------------------
(* Properties *)

CallId == (0 .. MaxInvocations) \X Nat \X (1 .. MaxBatch)

Message == [role : {"system", "user", "assistant", "tool"}, calls : Seq(CallId),
            uses : {<< >>}, answer : CallId \cup {None}, results : {<< >>},
            text : 0 .. MaxSteered + 2]

TypeOK ==
    /\ conv \in Seq(Message)
    /\ pc \in Waits \cup {"idle"}
    /\ agent \in Agents
    /\ {iter, limit, attempts, mark, chunks, requests, late} \subseteq Nat
    /\ calls \in Seq(CallId)
    /\ task \in Seq(TaskStates)
    /\ permits \in 0 .. Quota
    /\ cancelled \in BOOLEAN
    /\ steering \in Seq(1 .. MaxSteered)
    /\ followups \in 0 .. 1
    /\ outcome \in Outcomes
    /\ reported \in [conv : Seq(Message), agent : Agents, iter : Nat]
    /\ invocation \in 0 .. MaxInvocations
    /\ replayable \in BOOLEAN
    /\ sent \in 0 .. MaxSteered
    /\ told \in Seq(1 .. MaxSteered)

\* Whatever the model, the tools, the approver, the compactions and the
\* steering queue do, no request the loop makes is refused by validate, unless
\* the invocation was given a conversation that is not replayable.
NeverRefused == pc = "refused" => ~ replayable

\* What an answered or failed invocation returns can be continued: every call
\* in it has its result.  Left out are a cancellation, a suspension, a batch of
\* handoffs with approvals, and a closing or continued reply that makes calls.
ReplayableAfter ==
    pc = "idle" /\ replayable /\ outcome \in {"answered", "closed", "continued", "error"}
        => \/ Validate(conv)
           \/ outcome \in {"closed", "continued"} /\ CallsOf(Last(conv)) # << >>

\* The step a durable invocation resumes from is one a request can be made
\* of, and names the agent that runs the loop, a handoff's target included.
CheckpointReplayable ==
    /\ replayable => Validate(reported.conv)
    /\ pc # "idle" => reported.agent = agent /\ reported.iter <= iter

\* Steering messages reach the conversation once and in the order they were
\* sent; one is lost only when a full queue of later ones pushed it out.
SteeringInOrder ==
    LET all == told \o steering
    IN  /\ \A j, k \in DOMAIN all : j < k => all[j] < all[k]
        /\ \A n \in 1 .. sent : n \in ToSet(all) \/ n + Capacity <= sent

\* Requests that end an invocation without a test of the token: the closing one,
\* or those for the chunks of a continued answer.
Final == Max({1, MaxChunks - 1})

\* Handoffs share one budget of iterations, the largest of any agent, however
\* they alternate: beyond it an invocation makes its final requests only.  Of
\* those after its cancellation one is made past the yield at the top, and
\* again only the final ones.  (A request validate refuses counts as made; what
\* a summary asks the model does not.)
RequestsBounded ==
    /\ requests <= Max({MaxIterations[a] : a \in Agents}) + Final
    /\ late <= 1 + Final

\* A permit for every running tool, none left out when the batch is over, and
\* no call waits while a permit is free.
QuotaKept ==
    /\ permits + Cardinality({k \in DOMAIN task : task[k] = "running"}) = Quota
    /\ pc \notin {"batch", "modified"} => permits = Quota
    /\ Waiting # {} => permits = 0

\* Every invocation returns.
RunReturns == pc # "idle" ~> pc = "idle"

\* docs/sdk/agent.md: what a cancelled run returns is always replayable.
CancelledReplayable ==
    pc = "idle" /\ outcome = "cancelled" /\ replayable => Validate(conv)
=============================================================================
