---------------------------- MODULE WorkflowRun ----------------------------
(***************************************************************************)
(* The life of workflow runs in one runtime and its database: submitted,   *)
(* checkpointed after every step, suspended at a Human_approval, resumed,  *)
(* cancelled, interrupted by the death of the process, rehydrated by the   *)
(* next Runtime.create and recovered.  The module models submit_workflow   *)
(* and submit_workflow_async, approve_workflow, resume_workflow,           *)
(* recover_workflow, run_from_checkpoint and cancel_workflow, and the rows *)
(* of workflow_states they write.  An exception of a step or a callback is *)
(* recorded as a failure by all of them but submit_workflow, whose caller  *)
(* gets it and whose run is left as it is.                                 *)
(*                                                                         *)
(* A workflow is a Sequential of steps; how a checkpoint inside a nested   *)
(* node is resumed is not modelled here.  Steps wait (a tool,              *)
(* an agent, the yield of check_cancel) and so does an on_complete         *)
(* callback; everything between two waits is one action.                   *)
(***************************************************************************)
EXTENDS Integers, Sequences, FiniteSets

CONSTANTS
    Fiber,        \* fibers of the process that execute runs
    RunId,        \* workflow run ids, each created by one submit
    Step,         \* the Sequential: a sequence of "work" and "approval"
    Policy,       \* failure policies a definition may have
    Faults,       \* "save": a write of workflow_states may return Error;
                  \* "raise": a step or an on_complete callback may raise
    RecoverAgain, \* may a caller recover a run whose recovery has ended?
    MaxCrashes,   \* bound: crashes
    Idle          \* "the fiber executes no run"

ASSUME ConstantsAssumption ==
    /\ Step \in Seq({"work", "approval"})
    /\ Policy \subseteq {"fail_fast", "continue", "conditional"}
    /\ Faults \subseteq {"save", "raise"}
    /\ RecoverAgain \in BOOLEAN
    /\ MaxCrashes \in Nat

Last == Len(Step)

Phase == {"unknown", "running", "suspended", "completed", "failed"}

\* A workflow_status or a row.  at is the step its checkpoint names, 0 if it
\* has none; a Wf_running status in memory carries no checkpoint.
State == [phase : Phase, at : 0 .. Last]

\* What a fiber executing a run remembers: its place, the next step, how it
\* entered (by submit_workflow, by submit_workflow_async or at a checkpoint),
\* and whether its definition has an on_complete callback.
Execution == [run : RunId, pc : {"next", "step", "completed", "failed", "callback"},
              next : 1 .. Last + 1, entered : {"submit", "async", "checkpoint"},
              hooked : BOOLEAN]

ASSUME IdleAssumption == Idle \notin Execution

VARIABLES
    up,         \* the runtime exists
    policy,     \* failure_policy of the definition
    def,        \* workflow_defs: "none", "stored" (rehydrated), "registered"
    status,     \* runtime.workflows
    rows,       \* table workflow_states
    fiber,      \* what each fiber executes
    orphaned,   \* runtime.orphaned_workflow_runs
    recovering, \* runtime.recovering_workflow_runs
    deadlines,  \* Approval_deadline.table
    armed,      \* suspended runs with a deadline fiber
    crashes,    \* history: crashes so far
    submitted,  \* history: runs submitted
    recovered,  \* history: runs whose recovery has ended in this process
    deserted,   \* history: runs submit_workflow left with an exception in this
                \* process, not cancelled since
    stale,      \* history: runs whose last write failed
    recorded,   \* history: furthest step a checkpoint of the run has named
    granted,    \* history: approvals granted per run
    ran,        \* history: how often each step of each run was started
    called      \* history: how often on_complete was called for each run

vars == << up, policy, def, status, rows, fiber, orphaned, recovering, deadlines,
           armed, crashes, submitted, recovered, deserted, stale, recorded,
           granted, ran, called >>

table   == << rows, stale, recorded >>
process == << up, policy, def, orphaned, crashes, submitted >>
waiting == << deadlines, armed >>
tally   == << granted, ran, called >>

---------------------------------------------------------------------------
Larger(a, b) == IF a >= b THEN a ELSE b

\* Counts of what happened saturate where the properties stop telling them apart.
Count(n) == IF n < MaxCrashes + 2 THEN n + 1 ELSE n

Free(f) == up /\ fiber[f] = Idle

At(f, pc) == fiber[f] # Idle /\ fiber[f].pc = pc

\* The fiber stands before a step of the given kind.
Before(f, kind) == /\ At(f, "next")
                   /\ fiber[f].next <= Last
                   /\ Step[fiber[f].next] = kind

Executors(r) == {f \in Fiber : fiber[f] # Idle /\ fiber[f].run = r}

In(phase, at) == [phase |-> phase, at |-> at]

\* save_workflow_state: a failed write is only logged.
Save(r, s) ==
    \/ /\ rows'     = [rows EXCEPT ![r] = s]
       /\ recorded' = [recorded EXCEPT ![r] = Larger(@, s.at)]
       /\ stale'    = stale \ {r}
    \/ /\ "save" \in Faults
       /\ stale' = stale \cup {r}
       /\ UNCHANGED << rows, recorded >>

\* Mutant: a status reaches memory only.
EnterInMemory(r, s) == status' = [status EXCEPT ![r] = s] /\ UNCHANGED table

\* A status and its row.
Enter(r, s) == status' = [status EXCEPT ![r] = s] /\ Save(r, s)

\* The fiber is done with its run; a recovery releases its claim.
Leave(f) ==
    LET r == fiber[f].run IN
    /\ fiber'      = [fiber EXCEPT ![f] = Idle]
    /\ recovering' = recovering \ {r}
    /\ recovered'  = recovered \cup ({r} \cap recovering)

Local(f, e) == fiber' = [fiber EXCEPT ![f] = e]

\* on_complete, if the definition has one.
Call(f) == called' = IF fiber[f].hooked
                     THEN [called EXCEPT ![fiber[f].run] = Count(@)]
                     ELSE called

---------------------------------------------------------------------------
(* Calls *)

\* register_workflow
Register ==
    /\ up /\ def # "registered"
    /\ def' = "registered"
    /\ UNCHANGED << up, policy, status, table, fiber, orphaned, recovering,
                    waiting, crashes, submitted, recovered, deserted, tally >>

\* submit_workflow and submit_workflow_async: nothing is written until the
\* first step has completed.
Submit(f, r) ==
    /\ Free(f) /\ r \notin submitted
    /\ submitted' = submitted \cup {r}
    /\ status' = [status EXCEPT ![r] = In("running", 0)]
    /\ \E how \in {"submit", "async"} :
           Local(f, [run |-> r, pc |-> "next", next |-> 1, entered |-> how,
                     hooked |-> TRUE])
    /\ UNCHANGED << up, policy, def, table, orphaned, recovering, waiting,
                    crashes, recovered, deserted, tally >>

\* Mutant: the step the checkpoint names runs again.
ReenterAt(at) == at

\* The step at which a checkpoint is re-entered: the one it names is over.
ReenterAfter(at) == at + 1

\* Mutant: the status is left as it was.
StatusKept(r) == UNCHANGED status

SetRunning(r) == status' = [status EXCEPT ![r] = In("running", 0)]

\* run_from_checkpoint keeps the checkpoint it started from.
RunFromCheckpoint(f, r, at) ==
    /\ SetRunning(r)
    /\ Save(r, In("running", at))
    /\ Local(f, [run |-> r, pc |-> "next", next |-> ReenterAfter(at),
                 entered |-> "checkpoint", hooked |-> def = "registered"])

\* resume_workflow, and approve_workflow by an approver with an allowed role:
\* both re-enter after the approval, the latter removes its deadline.
Resume(f, r) ==
    /\ Free(f) /\ status[r].phase = "suspended" /\ def # "none"
    /\ granted' = [granted EXCEPT ![r] = @ \cup {status[r].at}]
    /\ deadlines' = deadlines \ {r}
    /\ armed' = armed \ {r}
    /\ RunFromCheckpoint(f, r, status[r].at)
    /\ UNCHANGED << process, recovering, recovered, deserted, ran, called >>

\* Mutant: two recoveries of a run may be under way.
NotRecoveringIgnored(r) == TRUE

NotRecovering(r) == r \notin recovering

\* recover_workflow: a run rehydrated as running whose recovery is not under way.
Recover(f, r) ==
    /\ Free(f)
    /\ status[r].phase = "running"
    /\ r \in orphaned
    /\ NotRecovering(r)
    /\ rows[r].at # 0 /\ def # "none"
    /\ RecoverAgain \/ r \notin recovered
    /\ recovering' = recovering \cup {r}
    /\ RunFromCheckpoint(f, r, rows[r].at)
    /\ UNCHANGED << process, waiting, recovered, deserted, tally >>

\* cancel_workflow: whatever the run is doing, and without stopping it.
Cancel(r) ==
    /\ up /\ status[r].phase # "unknown"
    /\ Enter(r, In("failed", 0))
    /\ deserted' = deserted \ {r}
    /\ UNCHANGED << process, fiber, recovering, waiting, recovered, tally >>

---------------------------------------------------------------------------
(* Execution *)

StartStep(f) ==
    /\ Before(f, "work")
    /\ Local(f, [fiber[f] EXCEPT !.pc = "step"])
    /\ ran' = [ran EXCEPT ![fiber[f].run][fiber[f].next] = Count(@)]
    /\ UNCHANGED << process, status, table, recovering, waiting, recovered,
                    deserted, granted, called >>

\* checkpoint_cb: the row of a run that has completed its current step.
Checkpoint(f) == In("running", fiber[f].next)

\* The step succeeded, or its failure is ignored (Continue_on_failure): its
\* result is bound and checkpointed.
StepDone(f) ==
    /\ At(f, "step")
    /\ Save(fiber[f].run, Checkpoint(f))
    /\ Local(f, [fiber[f] EXCEPT !.pc = "next", !.next = @ + 1])
    /\ UNCHANGED << process, status, recovering, waiting, recovered, deserted, tally >>

\* Mutant: a handled failure tries the step again.
SameStep(f) == [fiber[f] EXCEPT !.pc = "next"]

NextStep(f) == [fiber[f] EXCEPT !.pc = "next", !.next = @ + 1]

\* The step failed and the on_failure step of a Conditional policy succeeded:
\* the run goes on, without a checkpoint.
StepHandled(f) ==
    /\ At(f, "step") /\ policy = "conditional"
    /\ Local(f, NextStep(f))
    /\ UNCHANGED << process, status, table, recovering, waiting, recovered, deserted, tally >>

\* The end of a submitted run: execute_workflow calls on_complete first ...
Return(f, outcome) ==
    /\ fiber[f].entered # "checkpoint"
    /\ Call(f)
    /\ Local(f, [fiber[f] EXCEPT !.pc = outcome])
    /\ UNCHANGED << process, status, table, recovering, waiting, recovered,
                    deserted, granted, ran >>

\* ... then the outcome is recorded.
Settle(f) ==
    /\ At(f, "completed") \/ At(f, "failed")
    /\ Enter(fiber[f].run, In(fiber[f].pc, 0))
    /\ Leave(f)
    /\ UNCHANGED << process, waiting, deserted, tally >>

\* The end of a run entered at a checkpoint: the outcome is recorded first ...
ConcludeOk(f) ==
    /\ fiber[f].entered = "checkpoint"
    /\ Enter(fiber[f].run, In("completed", 0))
    /\ Local(f, [fiber[f] EXCEPT !.pc = "callback"])
    /\ UNCHANGED << process, recovering, waiting, recovered, deserted, tally >>

\* ... and on_complete is called afterwards, for a success only; the run of a
\* callback that raises is recorded as failed after all.
CallBack(f) ==
    /\ At(f, "callback")
    /\ Call(f)
    /\ \/ UNCHANGED << status, table >>
       \/ /\ "raise" \in Faults /\ fiber[f].hooked
          /\ Enter(fiber[f].run, In("failed", 0))
    /\ Leave(f)
    /\ UNCHANGED << process, waiting, deserted, granted, ran >>

ConcludeFailed(f) ==
    /\ fiber[f].entered = "checkpoint"
    /\ Enter(fiber[f].run, In("failed", 0))
    /\ Leave(f)
    /\ UNCHANGED << process, waiting, deserted, tally >>

\* The step failed for good (Fail_fast, or the on_failure step failed too).
StepFailed(f) ==
    /\ At(f, "step") /\ policy # "continue"
    /\ Return(f, "failed") \/ ConcludeFailed(f)

\* A step, or the on_complete callback of a submitted run, raises.
Raises(f) ==
    /\ "raise" \in Faults
    /\ At(f, "step") \/ At(f, "completed") \/ At(f, "failed")

\* The handler around an asynchronous or re-entered run records the exception
\* as a failure.
StepRaised(f) ==
    /\ Raises(f) /\ fiber[f].entered # "submit"
    /\ Enter(fiber[f].run, In("failed", 0))
    /\ Leave(f)
    /\ UNCHANGED << process, waiting, deserted, tally >>

\* submit_workflow handles Workflow_suspended alone: any other exception goes
\* to its caller, and the run stays in memory and in the database as it is.
RunDeserted(f) ==
    /\ Raises(f) /\ fiber[f].entered = "submit"
    /\ deserted' = deserted \cup {fiber[f].run}
    /\ Leave(f)
    /\ UNCHANGED << process, status, table, waiting, tally >>

\* Every step is over.
AllDone(f) ==
    /\ At(f, "next") /\ fiber[f].next > Last
    /\ Return(f, "completed") \/ ConcludeOk(f)

\* Human_approval records its deadline and removes it again before it raises
\* Workflow_suspended; the handler arms a deadline fiber if the table still
\* holds the run's entry.
Suspend(f) ==
    /\ Before(f, "approval")
    /\ LET r == fiber[f].run
           entries == (deadlines \cup {r}) \ {r}
       IN  /\ deadlines' = entries
           /\ armed' = armed \cup (entries \cap {r})
           /\ Enter(r, In("suspended", fiber[f].next))
    /\ Leave(f)
    /\ UNCHANGED << process, deserted, tally >>

---------------------------------------------------------------------------
(* The process *)

Crash ==
    /\ up /\ crashes < MaxCrashes
    /\ up'         = FALSE
    /\ def'        = IF def = "none" THEN "none" ELSE "stored"
    /\ status'     = [r \in RunId |-> In("unknown", 0)]
    /\ fiber'      = [f \in Fiber |-> Idle]
    /\ orphaned'   = {}
    /\ recovering' = {}
    /\ recovered'  = {}
    /\ deserted'   = {}
    /\ deadlines'  = {}
    /\ armed'      = {}
    /\ crashes'    = crashes + 1
    /\ UNCHANGED << policy, table, submitted, tally >>

\* Mutant: a suspended row comes back as running.
RehydratedAsRunning(r) ==
    IF rows[r].phase \in {"running", "suspended"} THEN In("running", 0) ELSE In("unknown", 0)

\* load_recoverable_runs: what a new runtime knows of a run.
Rehydrated(r) ==
    CASE rows[r].phase = "suspended" -> rows[r]
      [] rows[r].phase = "running"   -> In("running", 0)
      [] OTHER                       -> In("unknown", 0)

\* Mutant: only rows without a checkpoint are reported.
OrphansWithoutCheckpoint == {r \in RunId : Rehydrated(r).phase = "running" /\ rows[r].at = 0}

\* The runs create reports as Workflow_orphaned.
Orphans == {r \in RunId : Rehydrated(r).phase = "running"}

Create ==
    /\ ~ up
    /\ up' = TRUE
    /\ status' = [r \in RunId |-> Rehydrated(r)]
    /\ orphaned' = Orphans
    /\ UNCHANGED << policy, def, table, fiber, recovering, waiting, crashes,
                    submitted, recovered, deserted, tally >>

---------------------------------------------------------------------------
Init ==
    /\ up = TRUE
    /\ policy \in Policy
    /\ def = "none"
    /\ status = [r \in RunId |-> In("unknown", 0)]
    /\ rows = [r \in RunId |-> In("unknown", 0)]
    /\ fiber = [f \in Fiber |-> Idle]
    /\ orphaned = {} /\ recovering = {} /\ recovered = {} /\ deserted = {}
    /\ deadlines = {} /\ armed = {}
    /\ crashes = 0
    /\ submitted = {} /\ stale = {}
    /\ recorded = [r \in RunId |-> 0]
    /\ granted = [r \in RunId |-> {}]
    /\ ran = [r \in RunId |-> [k \in 1 .. Last |-> 0]]
    /\ called = [r \in RunId |-> 0]

Execute(f) ==
    \/ StartStep(f) \/ StepDone(f) \/ StepHandled(f) \/ StepFailed(f)
    \/ StepRaised(f) \/ RunDeserted(f) \/ AllDone(f) \/ Settle(f)
    \/ CallBack(f) \/ Suspend(f)

Next ==
    \/ Register \/ Crash \/ Create
    \/ \E r \in RunId : \/ Cancel(r)
                        \/ \E f \in Fiber : Submit(f, r) \/ Resume(f, r) \/ Recover(f, r)
    \/ \E f \in Fiber : Execute(f)

Spec == Init /\ [][Next]_vars

\* Steps end and Eio runs every ready fiber.
FairSpec == Spec /\ \A f \in Fiber : WF_vars(Execute(f))
---------------------------------------------------------------------------
(* Properties *)

TypeOK ==
    /\ up \in BOOLEAN /\ policy \in Policy
    /\ def \in {"none", "stored", "registered"}
    /\ status \in [RunId -> State]
    /\ rows \in [RunId -> State]
    /\ fiber \in [Fiber -> Execution \cup {Idle}]
    /\ orphaned \subseteq RunId /\ recovering \subseteq RunId
    /\ recovered \subseteq RunId /\ deserted \subseteq RunId
    /\ deadlines \subseteq RunId /\ armed \subseteq RunId
    /\ crashes \in 0 .. MaxCrashes
    /\ submitted \subseteq RunId /\ stale \subseteq RunId
    /\ recorded \in [RunId -> 0 .. Last]
    /\ granted \in [RunId -> SUBSET (1 .. Last)]
    /\ ran \in [RunId -> [1 .. Last -> Nat]]
    /\ called \in [RunId -> Nat]

\* "Recovering it would execute the workflow twice": no run is ever executed
\* by two fibers (resume_workflow needs a suspended run, recover_workflow an
\* orphan that is not being recovered).
OneExecutor == \A r \in RunId : \A f, g \in Executors(r) : f = g

\* No way into a run, recovery after a crash included, passes an approval
\* nobody granted.
ApprovalGates ==
    \A f \in Fiber : At(f, "step") =>
        \A k \in 1 .. fiber[f].next - 1 :
            Step[k] = "approval" => k \in granted[fiber[f].run]

\* "Steps before it do not run again": a step at or before a checkpoint that
\* was ever written is never started again.
CompletedStepsDoNotRerun ==
    \A f \in Fiber : At(f, "step") => fiber[f].next > recorded[fiber[f].run]

\* A step is started again, and on_complete called again, only because the
\* process died in between: approvals, cancels and recoveries that race do
\* not repeat anything. Nor do they forget it: a run that completed without a
\* crash, suspended on the way or not, has had its one call of on_complete.
AgainOnlyAfterCrash ==
    \A r \in RunId :
        /\ \A k \in 1 .. Last : ran[r][k] <= crashes + 1
        /\ called[r] <= crashes + 1
        /\ crashes = 0 /\ status[r].phase = "completed" /\ Executors(r) = {} =>
               called[r] = 1

\* A run nobody executes is in the database exactly as the runtime reports it,
\* unless its last write failed or an exception left submit_workflow: a crash
\* at that moment changes nothing.
StatusDurable ==
    \A r \in RunId :
        /\ Executors(r) = {} /\ r \notin stale \cup deserted
        /\ status[r].phase # "unknown"
        => /\ rows[r].phase = status[r].phase
           /\ status[r].phase = "suspended" => rows[r].at = status[r].at

\* A row "running" is owned: a fiber executes it, or it is an orphan still to
\* be recovered and can be (it has a checkpoint, and a definition once one is
\* registered).  The run an exception of submit_workflow left is nobody's in
\* this process, where recover_workflow refuses it; if it has a row "running",
\* the row has the checkpoint the next process can recover it from.
RunningIsOwned ==
    \A r \in RunId :
        up /\ rows[r].phase = "running" /\ r \notin stale =>
            \/ Executors(r) # {}
            \/ /\ r \in orphaned \ (recovered \cup recovering)
               /\ status[r].phase = "running" /\ rows[r].at # 0
            \/ r \in deserted /\ rows[r].at # 0

\* An executed run completes, fails or suspends, or its exception ends
\* submit_workflow.
RunSettles == \A f \in Fiber : fiber[f] # Idle ~> fiber[f] = Idle

\* "The engine automatically registers a timeout fiber": a run suspended by
\* this process has one.
DeadlineArmed ==
    crashes = 0 => \A r \in RunId : status[r].phase = "suspended" => r \in armed
=============================================================================
