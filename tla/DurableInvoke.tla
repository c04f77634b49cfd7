--------------------------- MODULE DurableInvoke ---------------------------
(***************************************************************************)
(* Durable invokes: an agent run named by an invoke id is checkpointed     *)
(* into the table invoke_checkpoints after iteration zero and after every  *)
(* completed tool batch.  The row means "in flight"; a row that outlives   *)
(* its process is found by the next Runtime.create and may be resumed with *)
(* recover_invoke.  The module models Runtime.invoke_content_internal,     *)
(* recover_invoke and the rehydration of create, the loop of               *)
(* Engine.run_agent they drive, and the rows they read and write.          *)
(*                                                                         *)
(* A process runs its invokes as fibers of one domain.  A fiber gives way  *)
(* only where it waits (the yield at the loop top, an LLM call, a tool     *)
(* batch), so the code between two waits is one action; the two database   *)
(* writes of a suspension are two actions because a crash can fall between *)
(* them.  A conversation is abstracted to the number of tool batches whose *)
(* results it holds.                                                       *)
(***************************************************************************)
EXTENDS Integers, FiniteSets

CONSTANTS
    Proc,           \* runtimes opened on one database file
    Fiber,          \* fibers of a process that call invoke or recover_invoke
    Id,             \* invoke ids
    Agent,          \* agent ids
    Version,        \* checkpoint schema versions runtimes are built with
    MaxIterations,  \* [Agent -> Nat \ {0}]: agent_config.max_iterations
    Chain,          \* length of the provider chain (default, then fallbacks)
    Shared,         \* may a runtime be created while another one is up?
    NewerDecodes,   \* does a row of a newer schema still decode here?
    Faults,         \* failures the environment may inject
    MaxJobs,        \* bound: invokes ever started
    MaxCrashes,     \* bound: crashes
    NoRow,          \* "the table holds no row"
    NoRun           \* "the fiber runs no invoke"

\* "save", "delete", "approval": that database write returns Error.
\* "exception": something other than a tool raises.  "eio_cancel": the
\* fiber is cancelled by its switch.
Fault == {"save", "delete", "approval", "exception", "eio_cancel"}

Job == 1 .. MaxJobs

Place == {"top", "llm", "tools", "generate", "suspending"}

\* Where a run (re)starts: agent, batches in the conversation, iteration.
Origin == [agent : Agent, step : Nat, iter : Nat]

\* What a fiber that runs an invoke remembers.
Run == [pc : Place, id : Id, job : Job, agent : Agent, step : Nat, iter : Nat,
        budget : Nat, left : Nat, resumed : BOOLEAN, cancelled : BOOLEAN,
        origin : Origin]

\* A row of invoke_checkpoints.
Row == [job : Job, agent : Agent, step : Nat, iter : Nat, version : Version]

ASSUME ConstantsAssumption ==
    /\ Version \subseteq Nat
    /\ MaxIterations \in [Agent -> Nat \ {0}]
    /\ Chain \in Nat \ {0}
    /\ Shared \in BOOLEAN /\ NewerDecodes \in BOOLEAN
    /\ Faults \subseteq Fault
    /\ MaxJobs \in Nat /\ MaxCrashes \in Nat
    /\ NoRow \notin Row /\ NoRun \notin Run

VARIABLES
    rows,        \* table invoke_checkpoints
    approvals,   \* table approvals: the jobs suspended in it
    up,          \* processes whose runtime exists
    version,     \* schema version each process is built with
    agents,      \* runtime.agents: registered agents
    active,      \* runtime.active_invokes
    orphaned,    \* runtime.orphaned_invokes
    recovering,  \* runtime.recovering_invokes
    run,         \* what each fiber runs
    jobs,        \* history: invokes started so far
    crashes,     \* history: crashes so far
    saved,       \* history: furthest batch a job's checkpoints have recorded
    finished     \* history: jobs whose terminal outcome the caller has

vars == << rows, approvals, up, version, agents, active, orphaned, recovering,
           run, jobs, crashes, saved, finished >>

db     == << rows, approvals >>
claims == << active, orphaned, recovering >>
life   == << up, version, agents, crashes >>

---------------------------------------------------------------------------
Larger(a, b) == IF a >= b THEN a ELSE b

\* The ids process p runs, and those it runs as a recovery.
RunningIn(p)    == { run[p][f].id : f \in {g \in Fiber : run[p][g] # NoRun} }
RecoveringIn(p) == { run[p][f].id :
                       f \in {g \in Fiber : run[p][g] # NoRun /\ run[p][g].resumed} }

\* Mutant: the checkpoint names the agent the caller named, not the running one.
CheckpointOfCaller(p, r) == [job |-> r.job, agent |-> r.origin.agent, step |-> r.step,
                             iter |-> r.iter, version |-> version[p]]

\* The checkpoint that run r of process p stands at.
Checkpoint(p, r) == [job |-> r.job, agent |-> r.agent, step |-> r.step,
                     iter |-> r.iter, version |-> version[p]]

\* on_step_complete: write the checkpoint; on a failed write the run goes on.
ReportStep(p, r) ==
    \/ /\ rows'  = [rows EXCEPT ![r.id] = Checkpoint(p, r)]
       /\ saved' = [saved EXCEPT ![r.job] = Larger(@, r.step)]
    \/ /\ "save" \in Faults
       /\ UNCHANGED << rows, saved >>

\* Mutant: the terminal outcome forgets the row.
DeleteNothing(i) == UNCHANGED rows

\* delete_checkpoint: a failed delete is only logged.
DeleteRow(i) ==
    \/ rows' = [rows EXCEPT ![i] = NoRow]
    \/ "delete" \in Faults /\ UNCHANGED rows

\* Mutant: recovering_invokes keeps the id.
ReleaseActiveOnly(p, f) ==
    /\ run'    = [run EXCEPT ![p][f] = NoRun]
    /\ active' = [active EXCEPT ![p] = @ \ {run[p][f].id}]
    /\ UNCHANGED recovering

\* Fun.protect's finalisers: the fiber is free, its claims are released.
Release(p, f) ==
    LET r == run[p][f] IN
    /\ run'        = [run EXCEPT ![p][f] = NoRun]
    /\ active'     = [active EXCEPT ![p] = @ \ {r.id}]
    /\ recovering' = IF r.resumed THEN [recovering EXCEPT ![p] = @ \ {r.id}]
                                  ELSE recovering

\* Mutant: every failed invoke keeps its row.
RetainsFailures(r, outcome) == outcome = "error"

\* A recovery that fails keeps its row and its orphan entry, to be retried.
Retains(r, outcome) == outcome = "error" /\ r.resumed

\* The invoke returns: unless the row is retained, it goes, and the orphan
\* entry of a recovery with it.
Finish(p, f, outcome) ==
    LET r == run[p][f]
    IN  /\ IF Retains(r, outcome)
           THEN UNCHANGED << rows, finished, orphaned >>
           ELSE /\ DeleteRow(r.id)
                /\ finished' = finished \cup {r.job}
                /\ orphaned' = IF r.resumed
                               THEN [orphaned EXCEPT ![p] = @ \ {r.id}]
                               ELSE orphaned
        /\ Release(p, f)
        /\ UNCHANGED << approvals, life, jobs, saved >>

\* try_providers with the rest of the chain: the engine starts over from the
\* conversation the invoke was called with, or from its resume point.
Fallback(p, f) ==
    LET r == run[p][f]
        again == [r EXCEPT !.pc = "top", !.agent = r.origin.agent,
                           !.step = r.origin.step, !.iter = r.origin.iter,
                           !.budget = 0, !.left = r.left - 1]
    IN  /\ run' = [run EXCEPT ![p][f] = again]
        /\ IF r.resumed THEN UNCHANGED << rows, saved >> ELSE ReportStep(p, again)
        /\ UNCHANGED << approvals, claims, life, jobs, finished >>

\* The engine returned an error of the given kind.  Only "transient" ones
\* (rate limit, external failure, timeout) go to the next provider.
Fail(p, f, kind) ==
    IF kind = "transient" /\ run[p][f].left > 0
    THEN Fallback(p, f)
    ELSE Finish(p, f, IF kind = "cancelled" THEN "cancelled" ELSE "error")

At(p, f, place) == run[p][f] # NoRun /\ run[p][f].pc = place

\* A step inside the engine: only the run's own record moves.
Local(p, f, r) ==
    /\ run' = [run EXCEPT ![p][f] = r]
    /\ UNCHANGED << db, claims, life, jobs, saved, finished >>

\* A completed batch: the conversation grows, the checkpoint is written.
Advance(p, f, a) ==
    LET r == [run[p][f] EXCEPT !.pc = "top", !.agent = a,
                               !.step = @ + 1, !.iter = @ + 1]
    IN  /\ run' = [run EXCEPT ![p][f] = r]
        /\ ReportStep(p, r)
        /\ UNCHANGED << approvals, claims, life, jobs, finished >>

---------------------------------------------------------------------------
(* The invoke and its recovery *)

Idle(p, f) == up[p] /\ run[p][f] = NoRun

\* Mutant: htbl_claim always succeeds.
NotClaimedIgnored(p, i) == TRUE

\* htbl_claim on active_invokes succeeds.
NotClaimed(p, i) == i \notin active[p]

\* Mutant: an orphan's id may be used again.
NotOrphanIgnored(p, i) == TRUE

\* is_startup_orphan is false.
NotOrphan(p, i) == i \notin orphaned[p]

\* Mutant: a recovery starts over instead of from its checkpoint.
BeginFromScratch(i, j, o, resumed) ==
    [pc |-> "top", id |-> i, job |-> j, agent |-> o.agent, step |-> 0,
     iter |-> 0, budget |-> 0, left |-> Chain - 1, resumed |-> resumed,
     cancelled |-> FALSE, origin |-> o]

\* A new run at its origin, before its first loop top.
Begin(i, j, o, resumed) ==
    [pc |-> "top", id |-> i, job |-> j, agent |-> o.agent, step |-> o.step,
     iter |-> o.iter, budget |-> 0, left |-> Chain - 1, resumed |-> resumed,
     cancelled |-> FALSE, origin |-> o]

\* invoke ~invoke_id:i on registered agent a: refused for an orphan and for an
\* id in flight here, else claimed and checkpointed at iteration zero.
InvokeFresh(p, f, i, a) ==
    /\ Idle(p, f) /\ jobs < MaxJobs
    /\ NotOrphan(p, i)
    /\ NotClaimed(p, i)
    /\ a \in agents[p]
    /\ LET r == Begin(i, jobs + 1, [agent |-> a, step |-> 0, iter |-> 0], FALSE)
       IN  run' = [run EXCEPT ![p][f] = r] /\ ReportStep(p, r)
    /\ active' = [active EXCEPT ![p] = @ \cup {i}]
    /\ jobs' = jobs + 1
    /\ UNCHANGED << approvals, orphaned, recovering, life, finished >>

\* The same call for an agent that is not registered fails at once, and the
\* failure removes the row of that id like any other terminal outcome.
InvokeUnknownAgent(p, f, i) ==
    /\ Idle(p, f)
    /\ NotOrphan(p, i)
    /\ NotClaimed(p, i)
    /\ agents[p] # Agent
    /\ DeleteRow(i)
    /\ UNCHANGED << approvals, claims, life, run, jobs, saved, finished >>

\* recover_invoke: only a startup orphan that does not run here, whose row
\* this build understands and whose agent is registered.
RecoverInvoke(p, f, i) ==
    /\ Idle(p, f)
    /\ i \notin recovering[p]
    /\ NotClaimed(p, i)
    /\ rows[i] # NoRow
    /\ rows[i].version <= version[p]
    /\ i \in orphaned[p]
    /\ rows[i].agent \in agents[p]
    /\ run' = [run EXCEPT ![p][f] =
                 Begin(i, rows[i].job,
                       [agent |-> rows[i].agent, step |-> rows[i].step,
                        iter |-> rows[i].iter], TRUE)]
    /\ active'     = [active EXCEPT ![p] = @ \cup {i}]
    /\ recovering' = [recovering EXCEPT ![p] = @ \cup {i}]
    /\ UNCHANGED << db, orphaned, life, jobs, saved, finished >>

---------------------------------------------------------------------------
(* The loop of Engine.run_agent *)

Budget(r) == Larger(r.budget, MaxIterations[r.agent])

\* Loop top, elapsed > max_execution_time.
TimeOut(p, f) == At(p, f, "top") /\ Fail(p, f, "transient")

\* Loop top, iterations >= global_max: early_stopping_method Force ...
ForceStop(p, f) ==
    /\ At(p, f, "top") /\ run[p][f].iter >= Budget(run[p][f])
    /\ Fail(p, f, "fatal")

\* ... or Generate, which asks for one last answer.
GenerateStop(p, f) ==
    /\ At(p, f, "top") /\ run[p][f].iter >= Budget(run[p][f])
    /\ Local(p, f, [run[p][f] EXCEPT !.pc = "generate"])

\* Loop top with a cancelled token.
ObserveCancel(p, f) ==
    /\ At(p, f, "top") /\ run[p][f].iter < Budget(run[p][f])
    /\ run[p][f].cancelled
    /\ Fail(p, f, "cancelled")

CallLlm(p, f) ==
    /\ At(p, f, "top") /\ run[p][f].iter < Budget(run[p][f])
    /\ ~ run[p][f].cancelled
    /\ Local(p, f, [run[p][f] EXCEPT !.pc = "llm", !.budget = Budget(run[p][f])])

\* The model answered, in the loop or after Generate: the invoke returns Ok.
FinalAnswer(p, f) ==
    /\ At(p, f, "llm") \/ At(p, f, "generate")
    /\ Finish(p, f, "ok")

\* The LLM call failed and no retry applies.
LlmError(p, f) ==
    \/ At(p, f, "llm") /\ \E kind \in {"transient", "fatal"} : Fail(p, f, kind)
    \/ At(p, f, "generate") /\ Fail(p, f, "fatal")

LlmCancelled(p, f) ==
    /\ At(p, f, "llm") \/ At(p, f, "generate")
    /\ run[p][f].cancelled
    /\ Fail(p, f, "cancelled")

\* Mutant: a retry does not count as an iteration.
LlmRetryUncounted(p, f) ==
    /\ At(p, f, "llm")
    /\ Local(p, f, [run[p][f] EXCEPT !.pc = "top"])

\* A compressed conversation, a retryable error or a truncated answer sends
\* the loop round without a checkpoint.
LlmRetry(p, f) ==
    /\ At(p, f, "llm")
    /\ Local(p, f, [run[p][f] EXCEPT !.pc = "top", !.iter = @ + 1])

ToolCalls(p, f) ==
    /\ At(p, f, "llm")
    /\ Local(p, f, [run[p][f] EXCEPT !.pc = "tools"])

BatchDone(p, f) == At(p, f, "tools") /\ Advance(p, f, run[p][f].agent)

\* The batch handed over to another registered agent.
Handoff(p, f) ==
    /\ At(p, f, "tools")
    /\ \E a \in agents[p] \ {run[p][f].agent} : Advance(p, f, a)

\* Two approvals in a batch, a handoff to nobody, a refused mix of both.
BatchError(p, f) == At(p, f, "tools") /\ Fail(p, f, "fatal")

\* Approval_pending, first write: the approvals row (a failure is logged) ...
Suspend(p, f) ==
    /\ At(p, f, "tools")
    /\ run' = [run EXCEPT ![p][f].pc = "suspending"]
    /\ \/ approvals' = approvals \cup {run[p][f].job}
       \/ "approval" \in Faults /\ UNCHANGED approvals
    /\ UNCHANGED << rows, claims, life, jobs, saved, finished >>

\* ... second write: the checkpoint goes, the invoke returns Ok (suspended).
Suspended(p, f) == At(p, f, "suspending") /\ Finish(p, f, "ok")

---------------------------------------------------------------------------
(* The environment *)

RequestCancel(p, f) ==
    /\ run[p][f] # NoRun /\ ~ run[p][f].cancelled
    /\ Local(p, f, [run[p][f] EXCEPT !.cancelled = TRUE])

\* Eio.Cancel.Cancelled unwinds the invoke at a wait: the row is deleted and
\* the claims released, but recover_invoke's match on results is skipped.
EioCancel(p, f) ==
    /\ "eio_cancel" \in Faults
    /\ run[p][f] # NoRun /\ run[p][f].pc # "suspending"
    /\ DeleteRow(run[p][f].id)
    /\ finished' = finished \cup {run[p][f].job}
    /\ Release(p, f)
    /\ UNCHANGED << approvals, orphaned, life, jobs, saved >>

\* Any other exception keeps the row.
Raise(p, f) ==
    /\ "exception" \in Faults
    /\ run[p][f] # NoRun /\ run[p][f].pc # "suspending"
    /\ Release(p, f)
    /\ UNCHANGED << db, orphaned, life, jobs, saved, finished >>

\* resume_approval and the expiry of the row both delete it.
ResolveApproval(p) ==
    /\ up[p]
    /\ \E j \in approvals : approvals' = approvals \ {j}
    /\ UNCHANGED << rows, claims, life, run, jobs, saved, finished >>

\* The process dies: everything but the database is gone.
Crash(p) ==
    /\ up[p] /\ crashes < MaxCrashes
    /\ up'         = [up EXCEPT ![p] = FALSE]
    /\ run'        = [run EXCEPT ![p] = [f \in Fiber |-> NoRun]]
    /\ active'     = [active EXCEPT ![p] = {}]
    /\ orphaned'   = [orphaned EXCEPT ![p] = {}]
    /\ recovering' = [recovering EXCEPT ![p] = {}]
    /\ agents'     = [agents EXCEPT ![p] = {}]
    /\ crashes'    = crashes + 1
    /\ UNCHANGED << db, version, jobs, saved, finished >>

\* Mutant: only rows of the runtime's own schema are listed.
ListedKnown(v) == {i \in Id : rows[i] # NoRow /\ rows[i].version <= v}

\* The rows list_invoke_checkpoints returns to a runtime of schema version v.
Listed(v) == {i \in Id : rows[i] # NoRow /\ (rows[i].version <= v \/ NewerDecodes)}

\* Runtime.create by a build of version v: every listed row is an orphan.
Create(p, v) ==
    /\ ~ up[p]
    /\ Shared \/ \A q \in Proc : ~ up[q]
    /\ up'       = [up EXCEPT ![p] = TRUE]
    /\ version'  = [version EXCEPT ![p] = v]
    /\ orphaned' = [orphaned EXCEPT ![p] = Listed(v)]
    /\ UNCHANGED << db, agents, active, recovering, run, jobs, crashes, saved,
                    finished >>

RegisterAgent(p, a) ==
    /\ up[p] /\ a \notin agents[p]
    /\ agents' = [agents EXCEPT ![p] = @ \cup {a}]
    /\ UNCHANGED << db, up, version, claims, run, jobs, crashes, saved, finished >>

---------------------------------------------------------------------------
Init ==
    /\ rows = [i \in Id |-> NoRow]
    /\ approvals = {}
    /\ up = [p \in Proc |-> FALSE]
    /\ version \in [Proc -> Version]
    /\ agents = [p \in Proc |-> {}]
    /\ active = [p \in Proc |-> {}]
    /\ orphaned = [p \in Proc |-> {}]
    /\ recovering = [p \in Proc |-> {}]
    /\ run = [p \in Proc |-> [f \in Fiber |-> NoRun]]
    /\ jobs = 0
    /\ crashes = 0
    /\ saved = [j \in Job |-> 0]
    /\ finished = {}

\* What the runtime does by itself once an invoke is under way.
EngineStep(p, f) ==
    \/ TimeOut(p, f) \/ ForceStop(p, f) \/ GenerateStop(p, f)
    \/ ObserveCancel(p, f) \/ CallLlm(p, f)
    \/ FinalAnswer(p, f) \/ LlmError(p, f) \/ LlmCancelled(p, f)
    \/ LlmRetry(p, f) \/ ToolCalls(p, f)
    \/ BatchDone(p, f) \/ Handoff(p, f) \/ BatchError(p, f)
    \/ Suspend(p, f) \/ Suspended(p, f)

\* What its callers do.
Call(p, f) ==
    \/ \E i \in Id : \/ \E a \in Agent : InvokeFresh(p, f, i, a)
                     \/ InvokeUnknownAgent(p, f, i)
                     \/ RecoverInvoke(p, f, i)
    \/ RequestCancel(p, f)

Interrupt(p, f) == EioCancel(p, f) \/ Raise(p, f)

Process(p) ==
    \/ Crash(p)
    \/ \E v \in Version : Create(p, v)
    \/ \E a \in Agent : RegisterAgent(p, a)
    \/ ResolveApproval(p)

Next == \E p \in Proc : \/ \E f \in Fiber : \/ EngineStep(p, f)
                                            \/ Call(p, f)
                                            \/ Interrupt(p, f)
                        \/ Process(p)

Spec == Init /\ [][Next]_vars

\* Waits end (LLM and tool calls have timeouts) and Eio runs every ready
\* fiber, so a run that can take a step takes one.
FairSpec == Spec /\ \A p \in Proc, f \in Fiber : WF_vars(EngineStep(p, f))

---------------------------------------------------------------------------
(* Properties *)

TypeOK ==
    /\ rows \in [Id -> Row \cup {NoRow}]
    /\ approvals \subseteq Job
    /\ up \in [Proc -> BOOLEAN]
    /\ version \in [Proc -> Version]
    /\ agents \in [Proc -> SUBSET Agent]
    /\ active \in [Proc -> SUBSET Id]
    /\ orphaned \in [Proc -> SUBSET Id]
    /\ recovering \in [Proc -> SUBSET Id]
    /\ run \in [Proc -> [Fiber -> Run \cup {NoRun}]]
    /\ jobs \in 0 .. MaxJobs
    /\ crashes \in 0 .. MaxCrashes
    /\ saved \in [Job -> Nat]
    /\ finished \subseteq Job

\* Claims never leak and are never dropped early: the ids claimed in
\* active_invokes and recovering_invokes are those the process really runs,
\* whichever way the invoke ends (result, exception, cancellation, fallback).
ClaimsMatchRuns ==
    \A p \in Proc : /\ active[p] = RunningIn(p)
                    /\ recovering[p] = RecoveringIn(p)

\* Nothing runs twice: two fibers, of one process or of two, never run the
\* same invoke id (htbl_claim, the orphan guard and "a live invoke would run
\* twice" of recover_invoke).
ExclusiveRun ==
    \A p, q \in Proc : \A f, g \in Fiber :
        run[p][f] # NoRun /\ run[q][g] # NoRun /\ run[p][f].id = run[q][g].id
            => p = q /\ f = g

\* At every moment a crash can fall, the row is exactly the last completed
\* batch of the run, taken by the agent that runs it.
CheckpointCurrent ==
    \A p \in Proc, f \in Fiber :
        run[p][f] # NoRun =>
            LET r == run[p][f] IN
            /\ rows[r.id] # NoRow
            /\ rows[r.id].job = r.job
            /\ rows[r.id].agent = r.agent
            /\ rows[r.id].step = r.step
            /\ rows[r.id].iter <= r.iter

\* "A row means in flight": while a process is up, every row is run by it or
\* listed by it as an orphan, so that no row is out of the caller's reach;
\* and every orphan it lists still has its row.
RowMeansInFlight ==
    \A p \in Proc, i \in Id : up[p] =>
        /\ rows[i] # NoRow => i \in active[p] \cup orphaned[p]
        /\ i \in orphaned[p] => rows[i] # NoRow

\* A job whose terminal outcome reached the caller leaves no trace that could
\* run it again: no row, no run.
FinishedStaysFinished ==
    /\ \A i \in Id : rows[i] # NoRow => rows[i].job \notin finished
    /\ \A p \in Proc, f \in Fiber :
           run[p][f] # NoRun => run[p][f].job \notin finished

\* "Completed batches do not re-run": a batch is dispatched only past the
\* last batch the job's checkpoints recorded, before and after a crash.
CompletedBatchesDoNotRerun ==
    \A p \in Proc, f \in Fiber :
        At(p, f, "tools") => run[p][f].step >= saved[run[p][f].job]

\* "An older runtime must not destroy a newer writer's state": a row newer
\* than every running build is left alone.
NewerRowPreserved ==
    [][\A i \in Id :
          /\ rows[i] # NoRow
          /\ \A p \in Proc : up[p] => version[p] < rows[i].version
          => rows'[i] = rows[i]]_vars

\* An invoke always returns: whatever the model answers, retries, handoffs
\* and provider fallbacks are bounded by max_iterations and the chain.
InvokeReturns ==
    \A p \in Proc, f \in Fiber : run[p][f] # NoRun ~> run[p][f] = NoRun

\* The abstract job behind the rows.
JobOf(i) ==
    IF rows[i] = NoRow THEN [phase |-> "absent", step |-> 0]
    ELSE [phase |-> IF \E p \in Proc : i \in RunningIn(p)
                    THEN "running" ELSE "interrupted",
          step  |-> rows[i].step]

jobBar == [i \in Id |-> JobOf(i)]

Abstract == INSTANCE DurableJob WITH job <- jobBar

\* Claims, rows, crashes and recoveries together implement the durable job.
ImplementsDurableJob == Abstract!Spec
=============================================================================
