# Verification of the PAR agent runtime

PAR is an agent runtime in OCaml 5 (`src/lib`, one domain, Eio fibers) with a C
interface (`src/lib/ffi`) and a Python binding (`src/bindings/python`). This
directory holds TLA+ models of its core, the TLC configurations that check them on
small instances, and machine-checked proofs.

Paths below are relative to `src/`; line numbers of each definition are in
`PROJECT.json` under `map`.

1. [The system](#1-the-system)
2. [Plan](#2-plan)
3. [The modules and the code](#3-the-modules-and-the-code)
4. [Runs, bounds and what they show](#4-runs-bounds-and-what-they-show)
5. [Fairness](#5-fairness)
6. [Proofs](#6-proofs)
7. [Disagreements found](#7-disagreements-found)
8. [What is abstracted and what is not modelled](#8-what-is-abstracted-and-what-is-not-modelled)

## 1. The system

**Concurrency.** A runtime is one OCaml domain. Its invokes, workflows, event
dispatcher and event writer are Eio fibers. A fiber gives way only where it waits:
`Eio.Fiber.yield`, a request to a model, a tool, a promise, stream or semaphore. The
`htbl_*` tables and the SQLite calls are synchronous, so the code between two waits
is atomic for other fibers. It is not atomic for the death of the process, which can
fall between any two database writes. The C interface adds real threads: callers
push work items to a queue and block on a slot.

| Component | State it keeps | Operations | Interacts with |
|---|---|---|---|
| Durable invoke (`core/runtime.ml`) | `active_invokes`, `orphaned_invokes`, `recovering_invokes`, `agents`; table `invoke_checkpoints` | `invoke` with an id, `recover_invoke`, `list_orphaned_invokes`, rehydration in `create` | calls the agent loop, which reports each finished step back; SQLite |
| Agent loop (`core/engine.ml`) | conversation, iteration count, `global_max`, reactive attempts, batch of tool calls | `run_agent` and its exits | providers, tools, semaphore, steering queues, token, repair, context manager |
| Conversation repair, context manager | none (pure) | `repair_tool_pairs`, `validate`, `normalize`, `truncate`, `sliding_window`, `summarize` | before each request of the loop |
| Workflow runs (`core/runtime.ml`) | `workflows`, `workflow_defs`, `orphaned_workflow_runs`, `recovering_workflow_runs`; table `workflow_states` | `submit_workflow[_async]`, `approve_workflow`, `resume_workflow`, `recover_workflow`, `cancel_workflow` | workflow engine, SQLite, event bus |
| Workflow engine (`core/workflow_engine.ml`) | step path, bindings, `Approval_deadline.table` | `execute_step`, `resume_step` | tools, agents |
| Steering queues, cancellation tokens | a bounded list; two atomics | `enqueue`, `drain_all`; `request_cancel`, `with_timeout` | the loop |
| Approvals | table `approvals` | `save_pending_approval`, `resume_approval` | suspends an invoke, later runs the agent again |
| Event bus, persistence writer | bounded stream, dead letters; batch buffer; table `events` | `publish`, dispatcher fiber; `push`, drain fiber, `flush_sync` | everything publishes; `close` flushes |
| C interface and work loop (`ffi/par_capi.ml`, `ffi/par_ffi.c`) | `work_queue`, result slots, stream handles with their chunk queue and state, `invoke_handles`, `python_handler_table` | `dispatch`, `dispatch_async`, `work_loop`, `do_shutdown`, `par_stream_*`, `par_invoke_*` | runs all of the above in the domain of `do_init`; called by other threads |
| Python binding (`bindings/python/par_runtime`) | `_handle`, `_callbacks`, `_callback_ids`, `_callback_counter`; the stream readers' `_handle`, `_completed`, `_cancel_called` and generator | `Runtime` and its methods, `_StreamReader`, the content constructors | C interface; the garbage collector and other threads call `cancel` |
| MCP client and server, middleware, tools, vector store, skills, documents | see `PROJECT.json` | | |

**Hard behaviours.** The full list with its lines is `hazards` in `PROJECT.json`. In
short: the process dies between a tool batch and its checkpoint; two callers use one
invoke id or one workflow run; a provider fallback or recovery repeats finished
work; a write fails after memory has moved on; a build of another schema version
opens the database; cancellation arrives at any wait; a conversation is cut,
repaired, handed off or returned with a tool call and its result apart; a semaphore
permit is lost; a deadline is never armed; `close` races the event pipeline; a
stream's handle is shared by the work loop, the reader, a thread that cancels it and
the garbage collector; a reply fits none of the forms a method of the binding looks
for.

**What makes each part correct.**

- *Durable invoke*: claims are exactly the live runs; an id is never run twice; at
  every instant the row is the last completed batch of the agent in charge; a row
  means "in flight"; a finished job never runs again; a completed batch is never
  dispatched again; a newer writer's row is preserved; invokes return.
- *Agent loop*: no request is refused for a dangling call or an orphan result; what
  is returned or reported can be continued; requests past the limit and past a
  cancellation are bounded across handoffs; permits are conserved; steering keeps
  its order; the run returns.
- *Repair and compaction*: any input becomes valid; a valid one is not altered;
  answers and texts survive; no cut separates a call from its result.
- *Workflow runs*: one executor; approvals gate; checkpointed steps do not repeat;
  database and memory agree; a running row has an owner; executions end.
- *Event pipeline*: an event is saved at most once and in order; each event is
  waiting, saved or accounted for; `close` saves what was published before it;
  events leave the buffers as long as the host lets the domain run.
- *Work loop and Python binding*: a reader yields the events of its stream in order
  and completely; a handle is not freed under the work loop; an answer belongs to
  its invoke and the registry loses no slot; no failure is returned as a result, but
  for five replies that are misread (section 7); a callback outlives every call of
  it; `close` leaves nothing running and every call returns; a configuration that
  leaves fields out still decodes; a payload becomes an image block only within the
  limit.
- *Approvals, workflow paths*: see the plan.

## 2. Plan

| # | Module | Subject | State |
|---|---|---|---|
| 1 | `DurableJob` | abstract: a job that survives crashes, phase and step per id | done |
| 2 | `DurableInvoke` | invokes, claims, checkpoints, recovery; implements 1 | done |
| 3 | `DurableInvokeProofs`, `DurableRowProofs` | TLAPS proofs of every safety property of 2 and of the refinement | done |
| 4 | `WorkflowRun`, `WorkflowRunProofs` | life of workflow runs, and TLAPS proofs of its safety properties | done |
| 5 | `Conversation`, `ConversationLemmas`, `ConversationProofs` | repair, validation, compaction as pure operators; TLAPS proofs about them for any length | done |
| 6 | `AgentLoop`, `AgentLoopProofs` | the loop on conversations of 5; TLAPS proofs of its safety properties | done |
| 7 | `EventPipeline`, `EventPipelineProofs` | bus, dead letters, dispatcher, writer, drain fiber, `close`; TLAPS proofs of its safety properties | done |
| 8 | `WorkLoop` | work queue, slots, shutdown, stream and invoke handles | done |
| 9 | `PythonReplies`, `RuntimeConfig`, `ImageBlocks` | the binding's pure functions: replies, configuration, content | done |
| 10 | `PythonBinding` | a program with one `Runtime`: composes 8 and 9 with readers, invokes, handlers, `close` | done |
| 11 | `PythonProofs` | TLAPS proofs of every safety property of 10 and of the functions of 9 | done |
| 12 | `WorkflowResume` | step trees and the path arithmetic of `resume_step` against running through | open |
| 13 | `ApprovalResume` | `resume_approval`: row, re-dispatch, stored outcome | open |
| 14 | middleware tables, MCP stdio matching, `apply_patch`, chunking, index | | open |

Runs that only show a violation may be folded or retired when a later module needs
the room. Every safety property of every passing run is proved, under the
assumptions that section 6 names; theorems left to state belong to the modules still
open.

## 3. The modules and the code

### DurableInvoke

Models `Runtime.invoke_content_internal`, `recover_invoke`, the rehydration in
`create`, and the part of `Engine.run_agent` that decides when a step is reported.

- `rows` and `approvals` are the two tables. `active`, `orphaned` and `recovering`
  are the runtime's tables of the same name, per process. `run[p][f]` is what a
  fiber running an invoke has on its stack. A conversation is the number of
  completed tool batches in it.
- One action per stretch between two waits: `InvokeFresh`, `InvokeUnknownAgent` and
  `RecoverInvoke` start a run; `TimeOut`, `ForceStop`, `GenerateStop`,
  `ObserveCancel`, `CallLlm` happen at the loop's top; `FinalAnswer`, `LlmError`,
  `LlmRetry`, `LlmCancelled`, `ToolCalls` after the model; `BatchDone`, `Handoff`,
  `BatchError`, `Suspend` after the tools. `Suspended` is a step of its own after
  `Suspend` because a crash can fall between its two writes.
- `Fail` is `try_providers`: a transient error falls back to the next provider and
  starts `Begin` again from `origin`.
- `Crash` empties everything that lives in memory. `Create` opens the database again
  with some schema version and lists orphans by `Listed`.
- `Faults` names the failures to inject: each of the three writes, a stray
  exception, an Eio cancellation.

`DurableJob` is the abstract specification: each id is absent, running at a step, or
interrupted at a step. `JobOf` maps rows and runs to it, `jobBar` is the refinement
mapping, and `ImplementsDurableJob` the abstract specification under it.

### WorkflowRun

Models the seven runtime functions on workflow runs over a `Sequential` of `work`
and `approval` steps.

- `status`, `rows`, `def`, `orphaned`, `recovering` are `workflows`, the table
  `workflow_states`, `workflow_defs`, `orphaned_workflow_runs`,
  `recovering_workflow_runs`. `deadlines` and `armed` are `Approval_deadline.table`
  and the timeout fibers forked from it.
- `fiber[f]` is an execution between waits: before a step, in it, or in the
  conclusion and callback. `entered` says by which function: `submit_workflow`,
  `submit_workflow_async`, or one that starts at a checkpoint.
- An exception of a step or of `on_complete` is recorded as a failure by the
  handlers around asynchronous and re-entered runs (`StepRaised`, `CallBack`).
  `submit_workflow` handles `Workflow_suspended` alone: `RunDeserted` ends its
  execution and leaves status and row as they are (section 7). `deserted` remembers
  such runs until they are cancelled or the process dies.
- `Save` may fail when `"save"` is a fault; memory moves on, as in the code.
- `deserted`, `recorded`, `granted`, `ran`, `called` are history for the properties.

### Conversation and AgentLoop

`Conversation` translates `conversation_repair.ml` and the strategies of
`context_manager.ml` as folds over messages. A message carries calls in the field,
calls and results in its blocks, the id it answers, and a token for its text. A
token count is a count of messages. `Among` is the filter of the code
(`List.filter`, `filter_map`) as a fold. `Compacted`, in `AgentLoop`, is the
manager's choice of a strategy for a conversation over its budget.

`AgentLoop` extends it with `run_agent`. `pc` names the wait the loop is in. `task`
holds the fibers of a tool batch and `permits` the semaphore; `Acquire` and
`Release` bracket a tool as `invoke_with_quota` does. `LoopTop`, `Request`,
`ContextExceeded`, `ReplyCalls`, `ReplyAnswer`, `ReplyTruncated`, `ReplyContinue`,
`Chunk`, `BatchDone`, `BatchRefused`, `BatchHandsOff`, `BatchSuspends`,
`AskApprover`, `Close` and the rest are the branches of `loop`. `Ask` counts a
request wherever the engine makes one: at the top of the loop, to close a run at its
limit (which tests no token), and for each chunk of a continued answer. `Report` is
`report_step`; `Egress` is the wrapper that appends the final message. `Steer`,
`FollowUp` and `RequestCancel` are other fibers and may come at any wait. Settings
read by one branch only (`early_stopping_method`, `on_max_tokens`, whether a handler
exists) are chosen where they are read, so a run covers every configuration.

### EventPipeline

Models `event_bus.ml` and `persistence_writer.ml` as `Runtime.create` wires them,
with `Runtime.close`. Here the order of turns matters: `close` relies on two yields
to let the dispatcher run. So `ready` is Eio's run queue, an action is the whole
turn of the fiber at its head, and a turn ends where the code waits.

- `buffer` is the bus's `Eio.Stream`, and `hand` the item an `add` gives straight to
  a dispatcher that waits in `take`. `dead` is `dead_letters`.
- `pending` is the writer's `buffer`, oldest event first, and `running` its flag.
  `drain` is the yield the drain fiber is in, `phase` the one `close` is in.
- `torn` says that the switch is cancelled: `Teardown` ends it when only the two
  daemons are left, and a batch for a closed database raises and fails it.
- `Host` are the publishers that block the domain between their jobs, as `work_loop`
  does in `Condition.wait`: after `HostBlocks` no fiber has a turn until
  `WorkComes`. A host also calls `create` and may call `close`, as `do_init` and
  `do_shutdown` have the work loop do.
- `PublishTurn` publishes a burst without waiting; `DispatcherTurn` delivers all
  there is, because its subscriber, the writer, does not wait; `DrainYields`,
  `DrainTurn` and `DrainCancelled` are the loop of `start_drain_fiber`;
  `CloseStarts`, `CloseYields`, `CloseEnds` are `close`.
- `published`, `before`, `buried` and `lost` are history.

`CleanClose` speaks of events published before `close` first yields. What another
fiber publishes while `close` waits, or after it, can be left in the stream or fail
on the closed database; `EverywhereOnce` counts these, and
`docs/explanation/persistence-and-durability.md:127` does not mention them.
`docs/sdk/observability.md:182` speaks of publishers that block on a full buffer and
of redelivery; the code does neither, and the model follows the code.

### WorkLoop

Models `par_capi.ml`'s `dispatch`, `dispatch_async`, `work_loop` and `do_shutdown`
and the handles of `par_ffi.c`.

- `queue` is `work_queue`, `running` the item the loop executes, `slot` the result
  slot the calling thread waits for. One slot is enough: the methods are called by
  one thread, and each waits before the next.
- `state`, `chunks` and `final` are a handle's `state`, `q_head` list and
  `final_json`. Each C function on a handle holds its mutex or is one atomic store,
  so each is one action: `StartJob`, `TakeChunk`, `IsDone`, `CancelHandle`,
  `FreeStream`, `FreeInvoke`, `OnChunk`, `Finish`.
- What an invoke does inside OCaml is the chunks it sends and how it ends
  (`Finals`): the other modules are about that.
- Using a handle after `free` is undefined. `touched` records that it happened and
  the model stops there.

### PythonBinding and the functions of the binding

`PythonBinding` extends `WorkLoop` with one action per step of a Python program:

- `rt` and `main` say whether the `Runtime` is open and which call its thread waits
  in. `Open` normalizes the configuration and decodes it; `CloseRuntime` and
  `CloseReturns` are `close`, split where it waits for the domain; `CallMethod` and
  `CallReturns` stand for any blocking method, with the replies and outcomes of
  `PythonReplies`.
- `reader[s]` is where the generator of a stream stands: `InvokeStream`,
  `NextEvent`, `Yield`, `Complete`, `End` follow `_gen_body`. `CancelCheck` and
  `CancelStore` are `cancel`, in two steps because another thread may run it.
  `CollectFresh`, `Collect` and `Drain` are the garbage collector: `__del__` on a
  reader that was never iterated, or the generator's `finally` clause.
- `table` and `answer` are `invoke_handles` and what `invoke_poll` said.
- `counter`, `callbacks`, `owned`, `stored`, `known` are `_callback_counter`,
  `_callbacks`, `_callback_ids`, `python_handler_table` and the handlers the runtime
  was told of.

`PythonReplies` gives each of the 43 blocking methods as a relation of replies and
outcomes: which replies the C interface can give, which of them report a failure,
and whether the method raises and what; `Misread` names the five that a method does
not tell as it documents (section 7); and `_decode_event` as a function of both
encodings of a chunk. `RuntimeConfig` is `_normalize_config` on the shape of a
configuration, and the part of `runtime_config_of_yojson` that decides whether it
decodes. Of a provider it looks at `prompt_cache_key` alone, the field
`_normalize_config` fills in. `ImageBlocks` is `content.py` on sizes.

## 4. Runs, bounds and what they show

| Run | Bounds | Shows |
|---|---|---|
| `durable_clean` | 1 process, 2 fibers, 1 id, 2 agents, 2 schema versions, 3 jobs, 2 crashes, 2 iterations each | all properties of the durable invoke and the refinement of `DurableJob`, with handoffs, approvals, cancellation, restarts by older and newer builds |
| `durable_faulty` | the same with 1 agent, 1 version, 2 jobs, a provider chain of 2, all faults | invokes return, whatever fails |
| `durable_fallback` | `durable_clean` with a chain of 2 | `CompletedBatchesDoNotRerun` fails |
| `workflow_run` | 2 fibers, 1 run of work, approval, work; three failure policies; failing writes and raising steps; 2 crashes; submitted synchronously and asynchronously | the seven properties of workflow runs |
| `workflow_recover_twice` | a caller may recover again; 1 crash | `OneExecutor` fails |
| `workflow_deadline` | no faults | `DeadlineArmed` fails |
| `conversation` | all conversations of at most 5 messages over 14 shapes and 2 call ids (579 195 states), every budget, window and limit up to 5 | the five properties of repair and compaction |
| `agent_loop` | 2 agents (2 and 1 iterations), batches of 2, 1 permit, queue of 2, 3 steering messages, 3 chunks, budget 5, a new conversation and a stored one with an answered batch (834 265 states) | the seven properties of the loop |
| `event_pipeline` | 2 publishers, one of them a host, bursts of at most 3, 5 events, bus and writer of capacity 2, 1 dead letter kept, failing inserts, `close`, end of the switch | the four properties of the pipeline |
| `agent_cancel` | `agent_loop` without compaction | `CancelledReplayable` fails |
| `python_binding` | 2 streams and 2 invokes of which 2 are started, 2 chunks each, 2 handlers, a registry and a handler table of 1, all 43 methods (1 013 816 states) | the eight properties of the binding; its assumptions check `RuntimeConfig`, `ImageBlocks` and `_decode_event` on small inputs |
| `stream_cancel` | the same | `FreedOnlyWhenDone` fails |

Why these bounds are enough for the interesting cases. Two fibers are needed and
enough for a race on one id, since the claims are per id. Two crashes allow a
recovery that is interrupted itself. Three jobs allow an id to be used, finished,
used again and once more by a newer build. Two agents give handoffs that alternate.
An iteration limit of two allows one completed batch before a handoff, fallback or
crash. Two calls on one permit make one wait for the other; a queue of two holds two
messages to be drained in order and overflows at the third. A third chunk asks twice
for the rest of an answer. Five messages hold a call in each carrier, its results
split over two messages, an orphan and a duplicate. Work, approval, work has a
checkpoint before, at and after the suspension. A burst of three fills a bus of two
after the first event is handed over, two bursts fill a writer of two, and two
publishers let one publish while `close` waits or before the other blocks the
domain. Two jobs let one wait in the queue while the other runs, is cancelled or
dropped; two chunks let one be queued while another is read; one slot is full at the
second invoke, and one entry of the handler table is exceeded by the second handler.
The theorems of section 6 lift these bounds.

`CHECK_DEADLOCK FALSE` is set throughout: a system in which no invoke or run is
active and every bound is used up has nothing left to do.

What the bounds of `RequestsBounded` say. The largest limit of any agent counts the
requests of iterations. `Final` counts those that may come after it without a test
of the token: one that closes the run, or `MaxChunks - 1` that ask for the rest of
an answer. After a cancellation there is at most one more than `Final`: the token is
tested at the top of an iteration, before a yield, and not again before the request.

Each property of a passing run has a mutant in `PROJECT.json`: the named definition,
replaced as a plausible mistake would, makes TLC find a violation.

Left out of properties on purpose: `ReplayableAfter` excludes cancellations (section
7) and a batch that mixes handoffs with approvals, whose approval the code leaves
open (`engine.ml:1475-1514`), and allows dangling calls in the last message of a
closing or continued reply, which the code returns unrepaired (`engine.ml:848`,
`1588-1606`). `OneExecutor` is checked with `RecoverAgain = FALSE`, the way a caller
that recovers an orphan once behaves. `StatusDurable` and `RunningIsOwned` say less
of a run that an exception of `submit_workflow` left (section 7): memory and
database may differ about it, and a row "running" of it must have the checkpoint the
next process can recover it from. `FailuresRaise` exempts the five replies in
`Misread`. That an invocation of a conversation that is not replayable still bounds
its requests, keeps its permits and its steering order is left to the theorems.
`ExclusiveRun` assumes one live runtime per database, the model supported by
`docs/explanation/persistence-and-durability.md:135`.

## 5. Fairness

- `DurableInvoke!FairSpec`: weak fairness of `EngineStep(p, f)` for every fiber. Eio
  runs every ready fiber, and model and tool calls end, since they carry timeouts.
  New calls, crashes, faults and approvals are not fair.
- `WorkflowRun!FairSpec`: weak fairness of `Execute(f)`; the same reason. An
  approval need not ever come.
- `AgentLoop!Spec`: weak fairness of `Progress`. It is written out with the enabling
  condition `Able`, because TLC's own test for ENABLED tries every branch of the
  folds and takes exponential time. `Able` is the disjunction of the guards of
  `Progress`.
- `EventPipeline!Spec`: weak fairness of `TakeTurn`: the scheduler runs the fiber at
  the head of the run queue, unless a host blocks the domain there. Input, `close`,
  the end of the switch and the next work item are not fair. Nothing makes a blocked
  host go on, so `EventuallySettled` has a premise: each host again and again waits
  inside a job, where Eio runs the other fibers. Without it the property is false,
  and an idle `work_loop` (`par_capi.ml:141`) shows it: what its last job published
  stays in memory until the next item comes (section 7).
- `PythonBinding!FairSpec`: weak fairness of the work loop (`Take`, `PutSlot`,
  `Finish`): it takes the next item while there is one, and each invoke comes to an
  end, which `InvokeReturns` and `RunReturns` are about. And weak fairness of
  `Return`: a thread whose slot is filled, or whose poll finds something, goes on.
  New calls, cancellations and collections are not fair.

## 6. Proofs

`DurableInvokeProofs` proves, for every value of the constants:

- `TypeCorrect`: `Spec => []TypeOK`, by one lemma per group of actions.
- `ClaimsNeverLeak`: `Spec => []ClaimsMatchRuns`. The property speaks of sets of ids
  that runs of a process hold; it becomes inductive with the fact that two fibers of
  one process never run one id, because releasing a claim when a second fiber still
  runs the id would break it. So the invariant proved is claims and distinct ids per
  process together with `TypeOK`: a start needs a free claim, which by the first
  part means no fiber runs the id; an end releases the claim, which by the second
  means nobody else holds it.
- `NothingRunsTwice`: `ExclusiveRun` under `Shared = FALSE`. It adds that at most
  one process is up and that a process that is down runs nothing.

No assumption on the fault set, the chain, the number of processes, fibers, ids,
jobs or crashes is used beyond `ConstantsAssumption`.

`DurableRowProofs` proves the properties that relate rows and runs. A step changes a
job in one of nine ways (`RowStep`: it moves, restarts, completes a batch, starts,
resumes, ends, lapses, crashes, creates) or leaves it alone; one lemma sorts the
actions into them and each invariant is then proved once per way.

| Theorem | Property | Hypotheses besides `Shared = FALSE` |
|---|---|---|
| `RowsAreCurrent` | `CheckpointCurrent` | `Chain = 1`, `"save" \notin Faults` |
| `RowsMeanInFlight` | `RowMeansInFlight` | `Faults \subseteq {"save", "approval"}`, `NewerDecodes` |
| `FinishedJobsStay` | `FinishedStaysFinished` | `"delete" \notin Faults` |
| `BatchesDoNotRerun` | `CompletedBatchesDoNotRerun` | `Chain = 1` |
| `NewerRowsSurvive` | `NewerRowPreserved` | `NewerDecodes` |
| `DurableJobImplemented` | `ImplementsDurableJob` | `Chain = 1`, `Faults \subseteq {"approval"}`, `NewerDecodes` |

The hypotheses are what the code needs, not what the prover needs. With a chain of
two a fallback repeats finished batches and moves a run behind its row (section 7).
A checkpoint that is not written leaves an older row, which is still enough for
`BatchesDoNotRerun`. A failed delete keeps the row of a job whose outcome the caller
has. An escaping exception or Eio cancellation frees the claim and keeps the row,
and only the next `create` lists it. A newer row that does not decode is not listed
and can be overwritten (section 7).

`JobsKeepTheirId` (no hypothesis) says that a job number stands for one id. The
invariants are `Ahead` (a run and the row it left are at least as far as the
furthest checkpoint of the job), `AllInFlight` (which adds to `RowMeansInFlight`
that exactly the recoveries run listed ids) and `NewerIsListed` (a running build
lists every newer row and runs none of them).

`EventPipelineProofs` proves every safety property of `event_pipeline` for any
number of publishers, hosts and events, any burst and all capacities:
`EventsSavedInOrder`, `EventsAccountedFor`, `CloseLosesNothing`. Their common
invariant is `PipelineInv` (theorem `PipelineInvariant`). `Turns` says that a fiber
is at most once in the run queue and that the dispatcher is in it while there is
something to take; `DaemonsLeft`, a part of it, that a runtime that ended without
`close` has no turn of a host left, which could close it. `ClosePasses` follows
`close` through its two yields: at the first, if an early event is still on the bus,
the dispatcher's turn comes before that of `close`; at the second there is none on
the bus; at the end there is none with the writer. `Placed` says that table, writer
and bus, in this order, are one increasing sequence, which with the dead letters and
losses has each number once.

`AgentLoopProofs` proves every safety property of `agent_loop` for any agents,
limits, quota, capacity and conversation. Three are about counts.
`SteeringArrivesInOrder`: the queue holds the last messages sent, and whoever is
missing was pushed out by a full queue of later ones. `RequestsStayBounded`: an
iteration makes one request; past the limit come the closing request alone or those
that continue the last answer, and each of these leads to the end of the run; the
limit never exceeds the largest of any agent, and the token is checked at the top of
each iteration. `PermitsAccountedFor`: running tools hold the permits that are not
free, a call waits only while none is, and only a batch or the call of a modified
approval has tools. Each proof first says what a step may do to the part of the
state it is about. They use `LoopAssumption`, in which `Agents` is finite and not
empty, as a runtime's table of agents is when an agent of it is invoked.

The other three are about conversations: `NoRequestRefused` (`NeverRefused`),
`ReturnsAreReplayable` (`ReplayableAfter`) and `ReportsAreReplayable`
(`CheckpointReplayable`). They rest on `ConversationLemmas`, which proves for a
conversation of any length that

- a repaired conversation passes `Validate` (`RepairIsReplayable`): the calls not
  answered yet by the repair are exactly those that `Validate` has open after the
  messages written so far;
- truncating, sliding a window over and summarizing a valid conversation give a
  valid one (`CompactionIsReplayable`), and so does what a finished agent hands to
  the next (`CarriedIsReplayable`);
- a tool result for each open call closes the batch, and a message without calls and
  results keeps a conversation valid wherever nothing is open.

`ConversationProofs` proves the five properties of `conversation` for sequences of
its shapes of any length, and with any `Recent`:

- `RepairsAreReplayable` (`RepairedIsReplayable`) from `RepairIsReplayable`.
- `ValidStaysAsItIs` (`ValidIsLeftAlone`): on a valid conversation the repair
  follows the check message by message (`SyncedStep`): its pending calls are those
  `Validate` has open, so every message is written as it comes, or says nothing and
  is left out, and no synthetic result is written.
- `RepairsKeepWhatCounts` (`RepairKeepsWhatCounts`): a step of the repair writes at
  most the message it is given, and what it adds itself are tool messages
  (`StepWrites`), so the texts come out in their order; a call is pending after its
  turn (`CallStep`), stays so over the tool messages that do not answer it
  (`HoldStep`) and its result is then written as it is and stays (`AnswerStep`,
  `WrittenStays`).
- `CutsStayReplayable` (`CutsAreReplayable`): validity from
  `CompactionIsReplayable`. That no result is made up needs more, since a cut may
  fall between a call and its results: while the repair goes over the tail of a
  valid conversation, its pending calls are none or exactly those open in the whole
  (`TailIsFollowed`); so whenever it closes a batch the whole conversation has none
  open, and nothing is made up.
- `SummariesKeepTheRecent` (`SummaryKeepsTheRecent`): no call is open at the
  boundary `apply_summarize` moves to (`SummaryIsFresh`), so the messages after it
  are a valid conversation of their own and the argument of `ValidStaysAsItIs`
  applies.

The lemmas are about all messages of `Loaded(I)` or wider sets (a result PAR wrote
itself left out where a made-up one is to be told apart); `Shapes` is a part of
`Loaded({A, B})`. They use `IdsAssumption` and `MaxLenAssumption`.

The operators are folds, and a fold of the library is a function chosen by its
recursive equation, so each proof about a fold first shows that such a function
exists for the sequence at hand and that it goes step by step (`FoldExistsOn`,
`StepsFromEquation`, and per fold a pair like `ReplayEmpty`, `ReplayAppend`). The
library's induction theorems cannot be instantiated by the prover; `NumbersUpTo` and
`SequencesGrow` state induction with a set in place of the predicate and are proved
by the least counterexample.

Two hypotheses. The sequences are of `Messages(I)` for some set `I` of ids without
`None`. It leaves out calls in the field of a system or tool message, and of a user
message that also gives results: only assistant messages get calls, and the repair
would keep such a user message for its results without asking for its calls. For the
loop, `I` holds the ids a model gives to its calls, and what was stored in the
session is made of such messages (`Stored \subseteq Seq(Messages(I))`). The
inductive invariant is `TalkInv`, which TLC also checked on the instance of
`agent_loop`: within a batch the open calls are exactly those of the batch without a
result; between batches the conversation, and at all times the last step reported,
is valid and open for a user message; the same holds of the part of the conversation
a closing request or a continued reply goes back to. `OriginInv` adds what was
reported for which agent.

`PythonProofs` proves, for any number of streams, invokes, handlers, chunks, slots
and configurations:

- every safety property of `python_binding`: `EventsAreInOrder`, `QuietIsComplete`,
  `OnlyCancelFreesEarly`, `OnlyCancelTouchesFreed`, `AnswersAreTheirOwn`,
  `HandlersStayAlive`, `ClosedRuntimeIsQuiet`, and `FailuresAlwaysRaise`, whichever
  methods the program calls;
- about the functions: `NormalizedDecodes` and `NormalizedKeeps`,
  `PayloadsWithinLimit`, `NoOversizedPayload`, `FilesLikePayloads`,
  `EncodingsAgree`, and `FailuresAreTold`, that every reply of every method is told
  as what it is but for the five in `Misread`, from which `FailuresAlwaysRaise`
  follows.

The inductive invariant `Inv` of the binding is `TypeOK` with nine parts. None of
the properties is inductive alone. `LoopInv` says what the queue may hold given what
the thread waits in (one call or the two items of `close`, behind the jobs, each at
most once), which is what makes a filled slot mean an exited loop with an empty
queue. `JobInv` ties a job's place (queue, loop, done) to its handle's state and
final result. `HandleInv` and `ReaderInv` tie a handle's state to its reader or
table entry: only the reader that ended or was dropped frees it, so a freed handle
without a result was cancelled. `EventInv` is the equation of `EventsInOrder` plus
"what was sent after a handle was freed does not count". `TableInv` and `HandlerInv`
do the same for the registry and for the callbacks: a handler being registered is
alive and the loop is up until `close` has joined it. The step lemma has one case
per action; most actions leave most parts alone, which `Elsewhere` and its like say
once.

`WorkflowRunProofs` proves, for every sequence of steps, policy, fault set and
number of fibers, runs and crashes:

- `RunTypes`: `Spec => []TypeOK`, with `Place` (where a step is under way and that a
  suspended run names a step), which the types of the next state need.
- every safety property of `workflow_run`: `OneExecutor`, `ApprovalGates`,
  `CompletedStepsDoNotRerun`, `AgainOnlyAfterCrash`, `StatusDurable` and
  `RunningIsOwned`, each under `RecoverAgain = FALSE`: no caller recovers a run
  whose recovery has ended. The code does not enforce this; without it `OneExecutor`
  fails (run `workflow_recover_twice`).

The inductive invariant is `RunInv`, said of one run at a time. `OwnerRun` makes
`OneExecutor` inductive: a suspended run and an orphan still to be recovered
(`Waits`) have no executor, so whoever enters finds the run free. `PathRun` carries
the granted approvals and the furthest checkpoint through every place a run can go
on from: its fiber, its row "running" or "suspended", its status "suspended".
`CountRun` says which steps have not been started since the last crash at each of
these places, and a crash raises the bound it is measured by. `DurableRun` adds to
`StatusDurable` what the pending callback of a concluded run relies on. The runs in
`deserted` are those memory has as running without an executor, an orphan entry or a
row that must agree. The proof first says what a step changes, run by run
(`StepShape`: every action of a fiber has one of seven shapes); a run a step does
not touch keeps its invariant by one lemma (`Frame`), and the one it touches by
`GoingKeeps`, `LeavingKeeps` or `EntersKeeps`. Besides `ConstantsAssumption` it uses
`IdleAssumption`, that `Idle` is not an execution.

Only model-checked: liveness under fairness (`InvokeReturns`, `RunSettles`,
`RunReturns`, `EventuallySettled`, `CallsReturn`), which is out of the prover's
reach.

## 7. Disagreements found

Each of these is a run with `expect: violation` and an entry in `findings`.

1. A provider fallback runs completed batches again (`runtime.ml:1403`).
2. A recovered run can be recovered a second time while it is live
   (`runtime.ml:2525`).
3. The deadline of a `Human_approval` is never armed (`workflow_engine.ml:298`).
4. A cancelled run's conversation has a second result for every answered call
   (`engine.ml:632`).
5. A stream reader that is dropped before its end frees its handle while the work
   loop may still run the stream (`bindings/python/par_runtime/runtime.py:196`).

These were met while modelling, are in the modules as the code has them, and have no
run of their own:

- A newer row that does not decode can be overwritten (`sqlite_persistence.ml:778`):
  `NewerRowPreserved` with `NewerDecodes = FALSE`.
- A tool call that waits for a permit is dispatched after the cancellation
  (`engine.ml:1077`, against `docs/sdk/agent.md:956`).
- An exception of a step or of `on_complete` escapes the synchronous
  `submit_workflow` (`runtime.ml:2078-2119` handles `Workflow_suspended` alone),
  where the comment on its wrapper says "[Error] on failure"
  (`runtime.ml:2234-2237`). Memory keeps `Wf_running`, no event ends the run, and
  the row says running, or is missing before the first checkpoint; the run is not in
  `orphaned_workflow_runs`, so this process cannot recover it. The next one can, if
  there is a row. `submit_workflow_async` records the failure.
- What the last job of an idle work loop published is neither delivered nor written
  until another work item comes, because the loop waits for it inside the Eio domain
  (`par_capi.ml:141-167`).
- At the iteration limit the closing request is sent without a look at the token
  (`engine.ml:826-848`; the test is at 858), and so are the requests that continue a
  truncated answer (`engine.ml:1573-1575`): `RequestsBounded` counts both.
- `invoke_structured` decodes a value that is no object once more
  (`runtime.py:1019`): a list, number, Boolean or null raises `TypeError`, and a
  string that is no JSON text `PARInvokeError`, although the invoke succeeded.
- `embed` raises `JSONDecodeError` instead of `PARError` for a failure whose text
  holds quotes, which the interface pastes as it is (`par_capi.ml:1804-1806`,
  `runtime.py:816`).
- `invoke_with_rag` returns a failure's text as the answer: the interface puts
  quoted JSON into quotes (`par_capi.ml:1951`), and the method ignores text that
  does not parse (`runtime.py:932`).
- `resume_workflow` returns the error object; its docstring says it raises
  `PARWorkflowError` (`runtime.py:1251`).
- The example in `Runtime`'s docstring, `{"persistence": {"sqlite": "par.db"}}`
  (`runtime.py:219`), does not decode: `_normalize_config` only rewrites an object
  with `tag` and `contents`.
- Through this interface `workflow_cancel` always fails and `workflow_status` always
  answers for an unknown run.
- The 257th handler of a process is registered but never stored (`par_ffi.c:97`).

## 8. What is abstracted and what is not modelled

- Contents of messages, arguments, results and events: tokens that only tell apart
  what the properties compare.
- Token estimates: message counts.
- Time: a timeout may happen wherever the code can see one.
- Middleware: only the verdict of `on_error`.
- `resume_approval`: only the removal of the row. Nested step trees: only
  `Sequential`.
- Event bus: a bus supplied by the caller, further subscribers and exceptions of
  their handlers, the session tag, pruning of old events.
- C interface: the bodies of the `do_` functions beyond what they queue, report and
  return, the marshalling of values, allocation failures, and the streaming API with
  one global callback (`par_invoke_stream`, `cancel_stream`).
- Python binding: methods called from several threads at once (the documentation
  asks for one), handlers that call back into the runtime, invoke ids used again
  after their answer (the slot may then be another invoke's), several runtimes in
  one process (apart from the shared handler numbers), the declarations and the
  library search of `_ffi.py`, `version` and `__repr__`.
- MCP, tools and sandbox, vector store, skills, documents, JSON validation: not
  modelled; the reasons and plans are under `components` in `PROJECT.json`.
- Type invariants are theorems for `DurableInvoke`, `WorkflowRun`, `PythonBinding`
  and, as part of `PipelineInv`, `EventPipeline`; those of the other modules
  document the variables.
