-------------------------- MODULE DurableRowProofs --------------------------
(***************************************************************************)
(* Theorems about the rows of DurableInvoke: what a crash leaves behind    *)
(* and what a later runtime does with it.  Each theorem names the faults   *)
(* it needs absent; every other constant is arbitrary.                     *)
(***************************************************************************)
EXTENDS DurableInvokeProofs

---------------------------------------------------------------------------
(* What a step does to the rows, the runs and the history.                 *)

\* The record of a run moves, its progress does not.
Moves(p, f) ==
    /\ run[p][f] # NoRun
    /\ \E r \in Run :
           /\ r.id = run[p][f].id /\ r.job = run[p][f].job
           /\ r.resumed = run[p][f].resumed
           /\ r.agent = run[p][f].agent /\ r.step = run[p][f].step
           /\ r.iter >= run[p][f].iter /\ r.left = run[p][f].left
           /\ run' = [run EXCEPT ![p][f] = r]
    /\ UNCHANGED << rows, saved, finished, claims, up, version, jobs >>

\* The next provider starts the run over.
Restarts(p, f) ==
    /\ run[p][f] # NoRun /\ run[p][f].left > 0
    /\ \E r \in Run :
           /\ r.id = run[p][f].id /\ r.job = run[p][f].job
           /\ r.resumed = run[p][f].resumed
           /\ ReportStep(p, r) \/ UNCHANGED << rows, saved >>
           /\ run' = [run EXCEPT ![p][f] = r]
    /\ UNCHANGED << finished, claims, up, version, jobs >>

Completes(p, f) ==
    /\ run[p][f] # NoRun
    /\ \E r \in Run :
           /\ r.id = run[p][f].id /\ r.job = run[p][f].job
           /\ r.resumed = run[p][f].resumed
           /\ r.step = run[p][f].step + 1 /\ r.left = run[p][f].left
           /\ ReportStep(p, r)
           /\ run' = [run EXCEPT ![p][f] = r]
    /\ UNCHANGED << finished, claims, up, version, jobs >>

Starts(p, f) ==
    /\ run[p][f] = NoRun /\ up[p] /\ jobs + 1 \in Job
    /\ \E r \in Run :
           /\ r.id \notin active[p] \cup orphaned[p]
           /\ r.job = jobs + 1 /\ r.step = 0 /\ r.left = Chain - 1
           /\ ~ r.resumed
           /\ ReportStep(p, r)
           /\ run' = [run EXCEPT ![p][f] = r]
           /\ active' = [active EXCEPT ![p] = @ \cup {r.id}]
    /\ jobs' = jobs + 1
    /\ UNCHANGED << orphaned, recovering, up, version, finished >>

Resumes(p, f) ==
    /\ run[p][f] = NoRun /\ up[p]
    /\ \E r \in Run :
           /\ r.id \in orphaned[p] \ active[p]
           /\ rows[r.id] # NoRow /\ rows[r.id].version <= version[p]
           /\ r.job = rows[r.id].job /\ r.agent = rows[r.id].agent
           /\ r.step = rows[r.id].step /\ r.iter = rows[r.id].iter
           /\ r.left = Chain - 1 /\ r.resumed
           /\ run' = [run EXCEPT ![p][f] = r]
           /\ active' = [active EXCEPT ![p] = @ \cup {r.id}]
    /\ UNCHANGED << rows, saved, finished, orphaned, up, version, jobs >>

\* The caller has the outcome: the row goes, a recovery's orphan entry too
\* unless the fiber was cancelled.
Ends(p, f) ==
    /\ run[p][f] # NoRun
    /\ DeleteRow(run[p][f].id)
    /\ finished' = finished \cup {run[p][f].job}
    /\ \/ orphaned' = IF run[p][f].resumed
                      THEN [orphaned EXCEPT ![p] = @ \ {run[p][f].id}]
                      ELSE orphaned
       \/ "eio_cancel" \in Faults /\ UNCHANGED orphaned
    /\ Release(p, f)
    /\ UNCHANGED << saved, up, version, jobs >>

\* A failed recovery, or an exception: the row outlives the run.
Lapses(p, f) ==
    /\ run[p][f] # NoRun
    /\ run[p][f].resumed \/ "exception" \in Faults
    /\ Release(p, f)
    /\ UNCHANGED << rows, saved, finished, orphaned, up, version, jobs >>

Refuses(p) ==
    /\ up[p]
    /\ \E i \in Id : i \notin active[p] \cup orphaned[p] /\ DeleteRow(i)
    /\ UNCHANGED << claims, up, version, run, jobs, saved, finished >>

Creates(p) == \E v \in Version : Create(p, v)

Aside(p) == UNCHANGED << rows, claims, up, version, run, jobs, saved, finished >>

RowStep(p) ==
    \/ \E f \in Fiber : \/ Moves(p, f) \/ Restarts(p, f) \/ Completes(p, f)
                        \/ Starts(p, f) \/ Resumes(p, f)
                        \/ Ends(p, f) \/ Lapses(p, f)
    \/ Refuses(p) \/ Crash(p) \/ Creates(p) \/ Aside(p)

LEMMA FailRowStep ==
    ASSUME TypeOK, NEW p \in Proc, NEW f \in Fiber, run[p][f] # NoRun,
           NEW kind, Fail(p, f, kind)
    PROVE  Restarts(p, f) \/ Ends(p, f) \/ Lapses(p, f)
<1> DEFINE r == run[p][f]
           again == [r EXCEPT !.pc = "top", !.agent = r.origin.agent,
                              !.step = r.origin.step, !.iter = r.origin.iter,
                              !.budget = 0, !.left = r.left - 1]
<1>1. CASE r.left > 0 /\ Fallback(p, f)
  <2>1. r \in Run
    BY DEF TypeOK
  <2>2. /\ r.left - 1 \in Nat
        /\ r.origin.agent \in Agent
        /\ r.origin.step \in Nat /\ r.origin.iter \in Nat
    BY <1>1, <2>1, RunFields
  <2>3. /\ again \in Run /\ again.id = r.id /\ again.job = r.job
        /\ again.resumed = r.resumed
    BY <2>1, <2>2 DEF Run, Place
  <2>4. /\ run' = [run EXCEPT ![p][f] = again]
        /\ ReportStep(p, again) \/ UNCHANGED << rows, saved >>
        /\ UNCHANGED << finished, claims, up, version, jobs >>
    BY <1>1 DEF Fallback, life
  <2> HIDE DEF again
  <2> QED
    BY <1>1, <2>3, <2>4 DEF Restarts
<1>2. CASE \E o : Finish(p, f, o)
  BY <1>2 DEF Finish, Retains, Ends, Lapses, life
<1> QED
  BY <1>1, <1>2 DEF Fail

LEMMA EngineRowStep ==
    ASSUME TypeOK, NEW p \in Proc, NEW f \in Fiber, EngineStep(p, f)
    PROVE  Moves(p, f) \/ Restarts(p, f) \/ Completes(p, f) \/ Ends(p, f) \/ Lapses(p, f)
<1> DEFINE r == run[p][f]
<1>1. r # NoRun /\ r \in Run
  BY DEF TypeOK, EngineStep, At, TimeOut, ForceStop, GenerateStop, ObserveCancel,
         CallLlm, FinalAnswer, LlmError, LlmCancelled, LlmRetry, ToolCalls,
         BatchDone, Handoff, BatchError, Suspend, Suspended
<1>2. CASE \E kind : Fail(p, f, kind)
  BY <1>1, <1>2, FailRowStep
<1>3. CASE \E o : Finish(p, f, o)
  BY <1>1, <1>3 DEF Finish, Retains, Ends, Lapses, life
<1>4. ASSUME NEW s \in Run, s.id = r.id, s.job = r.job, s.resumed = r.resumed,
             s.agent = r.agent, s.step = r.step, s.iter >= r.iter, s.left = r.left,
             Local(p, f, s)
      PROVE  Moves(p, f)
  BY <1>1, <1>4 DEF Moves, Local, db, life
<1>5. ASSUME NEW a \in Agent, Advance(p, f, a)
      PROVE  Completes(p, f)
  <2> DEFINE s == [r EXCEPT !.pc = "top", !.agent = a,
                            !.step = @ + 1, !.iter = @ + 1]
  <2>1. r.step + 1 \in Nat /\ r.iter + 1 \in Nat
    BY <1>1, RunFields
  <2>2. /\ s \in Run /\ s.id = r.id /\ s.job = r.job /\ s.resumed = r.resumed
        /\ s.step = r.step + 1 /\ s.left = r.left
    BY <1>1, <2>1 DEF Run, Place
  <2>3. /\ run' = [run EXCEPT ![p][f] = s] /\ ReportStep(p, s)
        /\ UNCHANGED << finished, claims, up, version, jobs >>
    BY <1>5 DEF Advance, life
  <2> HIDE DEF s
  <2> QED
    BY <1>1, <2>2, <2>3 DEF Completes
<1>6. ASSUME NEW place \in Place, Local(p, f, [r EXCEPT !.pc = place])
      PROVE  Moves(p, f)
  <2> DEFINE s == [r EXCEPT !.pc = place]
  <2>1. /\ s \in Run /\ s.id = r.id /\ s.job = r.job /\ s.resumed = r.resumed
        /\ s.agent = r.agent /\ s.step = r.step /\ s.iter = r.iter
        /\ s.left = r.left
    BY <1>1 DEF Run
  <2>2. r.iter \in Nat
    BY <1>1, RunFields
  <2>3. s.iter >= r.iter
    BY <2>1, <2>2
  <2> QED
    BY <1>4, <1>6, <2>1, <2>3
<1>7. CASE CallLlm(p, f)
  <2> DEFINE s == [r EXCEPT !.pc = "llm", !.budget = Budget(r)]
  <2>1. Budget(r) \in Nat /\ r.iter \in Nat
    BY <1>1, RunFields, ConstantsAssumption DEF Budget, Larger
  <2>2. /\ s \in Run /\ s.id = r.id /\ s.job = r.job /\ s.resumed = r.resumed
        /\ s.agent = r.agent /\ s.step = r.step /\ s.iter = r.iter
        /\ s.left = r.left
    BY <1>1, <2>1 DEF Run, Place
  <2>3. Local(p, f, s) /\ s.iter >= r.iter
    BY <1>7, <2>1, <2>2 DEF CallLlm
  <2> QED
    BY <1>4, <2>2, <2>3
<1>8. CASE LlmRetry(p, f)
  <2> DEFINE s == [r EXCEPT !.pc = "top", !.iter = @ + 1]
  <2>1. r.iter + 1 \in Nat /\ r.iter \in Nat
    BY <1>1, RunFields
  <2>2. /\ s \in Run /\ s.id = r.id /\ s.job = r.job /\ s.resumed = r.resumed
        /\ s.agent = r.agent /\ s.step = r.step /\ s.iter = r.iter + 1
        /\ s.left = r.left
    BY <1>1, <2>1 DEF Run, Place
  <2>3. Local(p, f, s) /\ s.iter >= r.iter
    BY <1>8, <2>1, <2>2 DEF LlmRetry
  <2> QED
    BY <1>4, <2>2, <2>3
<1>9. CASE GenerateStop(p, f) \/ ToolCalls(p, f)
  BY <1>6, <1>9 DEF GenerateStop, ToolCalls, Place
<1>10. CASE BatchDone(p, f)
  BY <1>1, <1>5, <1>10, RunFields DEF BatchDone
<1>11. CASE Handoff(p, f)
  BY <1>5, <1>11 DEF Handoff, TypeOK
<1>12. CASE Suspend(p, f)
  <2> DEFINE s == [r EXCEPT !.pc = "suspending"]
  <2>1. /\ s \in Run /\ s.id = r.id /\ s.job = r.job /\ s.resumed = r.resumed
        /\ s.agent = r.agent /\ s.step = r.step /\ s.iter = r.iter
        /\ s.left = r.left
    BY <1>1 DEF Run, Place
  <2>2. s.iter >= r.iter
    BY <1>1, <2>1, RunFields
  <2>3. /\ run' = [run EXCEPT ![p][f] = s]
        /\ UNCHANGED << rows, saved, finished, claims, up, version, jobs >>
    BY <1>12 DEF Suspend, life
  <2> HIDE DEF s
  <2> QED
    BY <1>1, <2>1, <2>2, <2>3 DEF Moves
<1> QED
  BY <1>2, <1>3, <1>7, <1>8, <1>9, <1>10, <1>11, <1>12
  DEF EngineStep, TimeOut, ForceStop, ObserveCancel, FinalAnswer, LlmError,
      LlmCancelled, BatchError, Suspended

LEMMA CallRowStep ==
    ASSUME TypeOK, NEW p \in Proc, NEW f \in Fiber, Call(p, f)
    PROVE  Moves(p, f) \/ Starts(p, f) \/ Resumes(p, f) \/ Refuses(p)
<1>1. ASSUME NEW i \in Id, NEW a \in Agent, InvokeFresh(p, f, i, a)
      PROVE  Starts(p, f)
  <2> DEFINE r == Begin(i, jobs + 1, [agent |-> a, step |-> 0, iter |-> 0], FALSE)
  <2>1. jobs + 1 \in Job
    BY <1>1, ConstantsAssumption DEF TypeOK, InvokeFresh, Job
  <2>2. [agent |-> a, step |-> 0, iter |-> 0] \in Origin
    BY DEF Origin
  <2>3. r \in Run
    BY <2>1, <2>2, BeginType
  <2>4. /\ r.id = i /\ r.job = jobs + 1 /\ r.step = 0 /\ r.left = Chain - 1
        /\ r.resumed = FALSE
    BY DEF Begin
  <2>5. /\ run' = [run EXCEPT ![p][f] = r]
        /\ ReportStep(p, r)
        /\ active' = [active EXCEPT ![p] = @ \cup {r.id}]
        /\ jobs' = jobs + 1
        /\ UNCHANGED << orphaned, recovering, up, version, finished >>
        /\ run[p][f] = NoRun /\ up[p]
        /\ r.id \notin active[p] \cup orphaned[p]
    BY <1>1, <2>4 DEF InvokeFresh, NotClaimed, NotOrphan, Idle, life
  <2> HIDE DEF r
  <2> QED
    BY <2>1, <2>3, <2>4, <2>5 DEF Starts
<1>2. ASSUME NEW i \in Id, InvokeUnknownAgent(p, f, i)
      PROVE  Refuses(p)
  BY <1>2 DEF Refuses, InvokeUnknownAgent, Idle, NotOrphan, NotClaimed, claims, life
<1>3. ASSUME NEW i \in Id, RecoverInvoke(p, f, i)
      PROVE  Resumes(p, f)
  <2> DEFINE o == [agent |-> rows[i].agent, step |-> rows[i].step,
                   iter |-> rows[i].iter]
             r == Begin(i, rows[i].job, o, TRUE)
  <2>1. rows[i] \in Row
    BY <1>3 DEF TypeOK, RecoverInvoke
  <2>2. o \in Origin /\ rows[i].job \in Job
    BY <2>1 DEF Row, Origin
  <2>3. r \in Run
    BY <2>2, BeginType
  <2>4. /\ r.id = i /\ r.resumed = TRUE /\ r.job = rows[i].job
        /\ r.agent = rows[i].agent /\ r.step = rows[i].step
        /\ r.iter = rows[i].iter /\ r.left = Chain - 1
    BY DEF Begin
  <2>5. /\ run' = [run EXCEPT ![p][f] = r]
        /\ active' = [active EXCEPT ![p] = @ \cup {r.id}]
        /\ UNCHANGED << rows, saved, finished, orphaned, up, version, jobs >>
        /\ run[p][f] = NoRun /\ up[p] /\ r.id \in orphaned[p] \ active[p]
        /\ rows[r.id] # NoRow /\ rows[r.id].version <= version[p]
    BY <1>3, <2>4 DEF RecoverInvoke, NotClaimed, Idle, db, life
  <2> HIDE DEF r
  <2> QED
    BY <2>3, <2>4, <2>5 DEF Resumes
<1>4. CASE RequestCancel(p, f)
  <2> DEFINE r == run[p][f]
             s == [r EXCEPT !.cancelled = TRUE]
  <2>1. r \in Run /\ r # NoRun
    BY <1>4 DEF TypeOK, RequestCancel
  <2>2. /\ s \in Run /\ s.id = r.id /\ s.job = r.job /\ s.resumed = r.resumed
        /\ s.agent = r.agent /\ s.step = r.step /\ s.iter = r.iter
        /\ s.left = r.left
    BY <2>1 DEF Run
  <2>3. s.iter >= r.iter
    BY <2>1, <2>2, RunFields
  <2>4. /\ run' = [run EXCEPT ![p][f] = s]
        /\ UNCHANGED << rows, saved, finished, claims, up, version, jobs >>
    BY <1>4 DEF RequestCancel, Local, db, life
  <2> HIDE DEF s
  <2> QED
    BY <2>1, <2>2, <2>3, <2>4 DEF Moves
<1> QED
  BY <1>1, <1>2, <1>3, <1>4 DEF Call

LEMMA NextRowStep ==
    ASSUME TypeOK, Next
    PROVE  \E p \in Proc : RowStep(p)
<1>1. ASSUME NEW p \in Proc, NEW f \in Fiber, Interrupt(p, f)
      PROVE  Ends(p, f) \/ Lapses(p, f)
  BY <1>1 DEF Interrupt, EioCancel, Raise, Ends, Lapses, db, life
<1>2. ASSUME NEW p \in Proc, Process(p)
      PROVE  Crash(p) \/ Creates(p) \/ Aside(p)
  BY <1>2 DEF Process, Creates, RegisterAgent, ResolveApproval, Aside, db, claims, life
<1> QED
  BY <1>1, <1>2, EngineRowStep, CallRowStep DEF Next, RowStep

---------------------------------------------------------------------------
(* The same, entry by entry.                                               *)

LEMMA RowsReported ==
    ASSUME TypeOK, NEW p \in Proc, NEW r \in Run, ReportStep(p, r)
    PROVE  \/ /\ \A i \in Id : rows'[i] = IF i = r.id THEN Checkpoint(p, r)
                                                      ELSE rows[i]
              /\ \A j \in Job : saved'[j] = IF j = r.job THEN Larger(saved[j], r.step)
                                                         ELSE saved[j]
           \/ "save" \in Faults /\ rows' = rows /\ saved' = saved
BY RunFields DEF TypeOK, ReportStep

LEMMA RowsDeleted ==
    ASSUME TypeOK, NEW i \in Id, DeleteRow(i)
    PROVE  \/ \A k \in Id : rows'[k] = IF k = i THEN NoRow ELSE rows[k]
           \/ "delete" \in Faults /\ rows' = rows
BY DEF TypeOK, DeleteRow

LEMMA CheckpointFields ==
    ASSUME TypeOK, NEW p \in Proc, NEW r \in Run
    PROVE  /\ Checkpoint(p, r) # NoRow
           /\ Checkpoint(p, r).job = r.job /\ Checkpoint(p, r).agent = r.agent
           /\ Checkpoint(p, r).step = r.step /\ Checkpoint(p, r).iter = r.iter
           /\ Checkpoint(p, r).version = version[p]
<1>1. Checkpoint(p, r) # NoRow
  BY CheckpointType, ConstantsAssumption
<1> QED
  BY <1>1 DEF Checkpoint

LEMMA RunsTyped ==
    ASSUME TypeOK, NEW p \in Proc, NEW f \in Fiber, run[p][f] # NoRun
    PROVE  run[p][f] \in Run /\ run[p][f].id \in Id /\ run[p][f].job \in Job
BY RunFields DEF TypeOK

LEMMA RowFields ==
    ASSUME TypeOK, NEW i \in Id, rows[i] # NoRow
    PROVE  /\ rows[i].job \in Job /\ rows[i].agent \in Agent /\ rows[i].step \in Nat
           /\ rows[i].iter \in Nat /\ rows[i].version \in Version
BY DEF TypeOK, Row

---------------------------------------------------------------------------
(* A job belongs to one invoke id: rows and runs that carry its number     *)
(* carry the same id, and the number is not handed out again.              *)

RowHolds(i, j) == rows[i] # NoRow /\ rows[i].job = j

RunHolds(i, j) == \E p \in Proc, f \in Fiber :
    run[p][f] # NoRun /\ run[p][f].id = i /\ run[p][f].job = j

Holds(i, j) == RowHolds(i, j) \/ RunHolds(i, j)

OneIdPerJob == \A i, k \in Id, j \in Job : Holds(i, j) /\ Holds(k, j) => i = k

JobsCounted ==
    /\ \A i \in Id, j \in Job : Holds(i, j) => j <= jobs
    /\ \A j \in finished : j <= jobs
    /\ \A j \in Job : j > jobs => saved[j] = 0

JobInv == OneIdPerJob /\ JobsCounted

\* What a step leaves a job in: what it was in before, or the id it starts.
LEMMA JobsTravel ==
    ASSUME TypeOK, NEW p \in Proc, RowStep(p)
    PROVE  \/ /\ jobs' = jobs
              /\ \A i \in Id, j \in Job : Holds(i, j)' => Holds(i, j)
           \/ /\ jobs' = jobs + 1
              /\ \E k \in Id : \A i \in Id, j \in Job :
                     Holds(i, j)' => Holds(i, j) \/ (i = k /\ j = jobs + 1)
<1> USE DEF Holds, RowHolds, RunHolds
<1>1. ASSUME NEW f \in Fiber, NEW r \in Run, run[p][f] # NoRun,
             r.id = run[p][f].id, r.job = run[p][f].job,
             ReportStep(p, r) \/ UNCHANGED << rows, saved >>,
             run' = [run EXCEPT ![p][f] = r]
      PROVE  \A i \in Id, j \in Job : Holds(i, j)' => Holds(i, j)
  <2>1. \A q \in Proc, g \in Fiber :
           run'[q][g] = IF q = p /\ g = f THEN r ELSE run[q][g]
    BY <1>1 DEF TypeOK
  <2>2. \A i \in Id : \/ rows'[i] = rows[i]
                      \/ i = run[p][f].id /\ rows'[i].job = run[p][f].job
    BY <1>1, RowsReported, CheckpointFields
  <2>3. \A i \in Id, j \in Job : RowHolds(i, j)' => Holds(i, j)
    BY <1>1, <2>2
  <2>4. \A i \in Id, j \in Job : RunHolds(i, j)' => Holds(i, j)
    BY <1>1, <2>1
  <2> QED
    BY <2>3, <2>4
<1>2. ASSUME NEW f \in Fiber, Starts(p, f)
      PROVE  /\ jobs' = jobs + 1
             /\ \E k \in Id : \A i \in Id, j \in Job :
                    Holds(i, j)' => Holds(i, j) \/ (i = k /\ j = jobs + 1)
  <2>1. PICK r \in Run : /\ r.job = jobs + 1 /\ ReportStep(p, r)
                         /\ run' = [run EXCEPT ![p][f] = r]
    BY <1>2 DEF Starts
  <2>2. \A q \in Proc, g \in Fiber :
           run'[q][g] = IF q = p /\ g = f THEN r ELSE run[q][g]
    BY <2>1 DEF TypeOK
  <2>3. \A i \in Id : rows'[i] = rows[i] \/ (i = r.id /\ rows'[i].job = r.job)
    BY <2>1, RowsReported, CheckpointFields
  <2>4. \A i \in Id, j \in Job :
           Holds(i, j)' => Holds(i, j) \/ (i = r.id /\ j = jobs + 1)
    BY <2>1, <2>2, <2>3
  <2> QED
    BY <1>2, <2>4, RunFields DEF Starts
<1>3. ASSUME NEW f \in Fiber, Resumes(p, f)
      PROVE  \A i \in Id, j \in Job : Holds(i, j)' => Holds(i, j)
  <2>1. PICK r \in Run : /\ rows[r.id] # NoRow /\ r.job = rows[r.id].job
                         /\ run' = [run EXCEPT ![p][f] = r]
    BY <1>3 DEF Resumes
  <2>2. \A q \in Proc, g \in Fiber :
           run'[q][g] = IF q = p /\ g = f THEN r ELSE run[q][g]
    BY <2>1 DEF TypeOK
  <2>3. rows' = rows
    BY <1>3 DEF Resumes
  <2> QED
    BY <2>1, <2>2, <2>3
<1>4. ASSUME NEW f \in Fiber, Ends(p, f) \/ Lapses(p, f)
      PROVE  \A i \in Id, j \in Job : Holds(i, j)' => Holds(i, j)
  <2>1. run' = [run EXCEPT ![p][f] = NoRun] /\ run[p][f] # NoRun
    BY <1>4 DEF Ends, Lapses, Release
  <2>2. \A q \in Proc, g \in Fiber :
           run'[q][g] = IF q = p /\ g = f THEN NoRun ELSE run[q][g]
    BY <2>1 DEF TypeOK
  <2>3. \A i \in Id : rows'[i] = rows[i] \/ rows'[i] = NoRow
    BY <1>4, <2>1, RunsTyped, RowsDeleted DEF Ends, Lapses
  <2> QED
    BY <2>2, <2>3
<1>5. ASSUME Refuses(p) \/ Creates(p) \/ Aside(p)
      PROVE  \A i \in Id, j \in Job : Holds(i, j)' => Holds(i, j)
  <2>1. \A i \in Id : rows'[i] = rows[i] \/ rows'[i] = NoRow
    BY <1>5, RowsDeleted DEF Refuses, Creates, Create, Aside, db
  <2>2. run' = run
    BY <1>5 DEF Refuses, Creates, Create, Aside
  <2> QED
    BY <2>1, <2>2
<1>6. ASSUME Crash(p)
      PROVE  \A i \in Id, j \in Job : Holds(i, j)' => Holds(i, j)
  <2>1. \A q \in Proc, g \in Fiber : run'[q][g] = IF q = p THEN NoRun ELSE run[q][g]
    BY <1>6 DEF Crash, TypeOK
  <2>2. rows' = rows
    BY <1>6 DEF Crash, db
  <2> QED
    BY <2>1, <2>2
<1>7. ASSUME NEW f \in Fiber, Moves(p, f) \/ Restarts(p, f) \/ Completes(p, f)
      PROVE  /\ jobs' = jobs
             /\ \A i \in Id, j \in Job : Holds(i, j)' => Holds(i, j)
  <2>1. \E r \in Run : /\ r.id = run[p][f].id /\ r.job = run[p][f].job
                       /\ ReportStep(p, r) \/ UNCHANGED << rows, saved >>
                       /\ run' = [run EXCEPT ![p][f] = r]
    BY <1>7 DEF Moves, Restarts, Completes
  <2>2. run[p][f] # NoRun /\ jobs' = jobs
    BY <1>7 DEF Moves, Restarts, Completes
  <2> QED
    BY <1>1, <2>1, <2>2
<1>8. ASSUME NEW f \in Fiber, Resumes(p, f) \/ Ends(p, f) \/ Lapses(p, f)
      PROVE  jobs' = jobs
  BY <1>8 DEF Resumes, Ends, Lapses
<1>9. ASSUME Refuses(p) \/ Crash(p) \/ Creates(p) \/ Aside(p)
      PROVE  jobs' = jobs
  BY <1>9 DEF Refuses, Crash, Creates, Create, Aside
<1> QED
  BY <1>2, <1>3, <1>4, <1>5, <1>6, <1>7, <1>8, <1>9 DEF RowStep

LEMMA HistoryTravels ==
    ASSUME TypeOK, NEW p \in Proc, RowStep(p)
    PROVE  /\ \A j \in finished' : j \in finished \/ \E i \in Id : RunHolds(i, j)
           /\ \A j \in Job : \/ saved'[j] = saved[j]
                             \/ \E i \in Id : RunHolds(i, j)
                             \/ j = jobs'
<1> USE DEF RunHolds
<1>1. ASSUME NEW f \in Fiber, Moves(p, f) \/ Restarts(p, f) \/ Completes(p, f)
      PROVE  /\ finished' = finished
             /\ \A j \in Job : saved'[j] = saved[j] \/ \E i \in Id : RunHolds(i, j)
  <2>1. PICK r \in Run : /\ r.id = run[p][f].id /\ r.job = run[p][f].job
                         /\ ReportStep(p, r) \/ UNCHANGED << rows, saved >>
    BY <1>1 DEF Moves, Restarts, Completes
  <2>2. run[p][f] # NoRun /\ finished' = finished
    BY <1>1 DEF Moves, Restarts, Completes
  <2>3. \A j \in Job : saved'[j] = saved[j] \/ j = r.job
    BY <2>1, RowsReported
  <2> QED
    BY <2>1, <2>2, <2>3, RunFields
<1>2. ASSUME NEW f \in Fiber, Starts(p, f)
      PROVE  /\ finished' = finished
             /\ \A j \in Job : saved'[j] = saved[j] \/ j = jobs'
  <2>1. PICK r \in Run : r.job = jobs + 1 /\ ReportStep(p, r)
    BY <1>2 DEF Starts
  <2>2. \A j \in Job : saved'[j] = saved[j] \/ j = r.job
    BY <2>1, RowsReported
  <2> QED
    BY <1>2, <2>1, <2>2 DEF Starts
<1>3. ASSUME NEW f \in Fiber, Ends(p, f)
      PROVE  /\ saved' = saved
             /\ \A j \in finished' : j \in finished \/ \E i \in Id : RunHolds(i, j)
  BY <1>3, RunsTyped DEF Ends
<1>4. ASSUME NEW f \in Fiber, Resumes(p, f) \/ Lapses(p, f)
      PROVE  finished' = finished /\ saved' = saved
  BY <1>4 DEF Resumes, Lapses
<1>5. ASSUME Refuses(p) \/ Crash(p) \/ Creates(p) \/ Aside(p)
      PROVE  finished' = finished /\ saved' = saved
  BY <1>5 DEF Refuses, Crash, Creates, Create, Aside
<1> QED
  BY <1>1, <1>2, <1>3, <1>4, <1>5 DEF RowStep

LEMMA RowStepKeepsJobs ==
    ASSUME TypeOK, JobInv, NEW p \in Proc, RowStep(p)
    PROVE  JobInv'
<1>1. jobs \in Nat
  BY ConstantsAssumption DEF TypeOK
<1>2. \A i \in Id, j \in Job : Holds(i, j) => j <= jobs
  BY DEF JobInv, JobsCounted
<1>3. \A i \in Id, j \in Job : RunHolds(i, j) => j <= jobs
  BY <1>2 DEF Holds
<1>4. finished \subseteq Job /\ Job \subseteq Nat
  BY ConstantsAssumption DEF TypeOK, Job
<1>5. \A j \in finished : j <= jobs
  BY DEF JobInv, JobsCounted
<1>6. \A j \in Job : j > jobs => saved[j] = 0
  BY DEF JobInv, JobsCounted
<1>7. \A j : \A i \in Id : RunHolds(i, j) => j \in Job
  BY RunsTyped DEF RunHolds
<1>8. jobs' = jobs \/ jobs' = jobs + 1
  BY JobsTravel
<1>9. \A i \in Id, j \in Job : Holds(i, j)' => j <= jobs'
  BY <1>1, <1>2, <1>4, JobsTravel
<1>10. \A j \in finished' : j <= jobs'
  <2>1. \A j \in finished' : j \in finished \/ \E i \in Id : RunHolds(i, j)
    BY HistoryTravels
  <2>2. \A j \in finished' : j \in Job /\ j <= jobs
    BY <1>3, <1>4, <1>5, <1>7, <2>1
  <2>3. ASSUME NEW j \in finished' PROVE j <= jobs'
    <3>1. j \in Nat /\ j <= jobs
      BY <1>4, <2>2
    <3> QED
      BY <1>1, <1>8, <3>1
  <2> QED
    BY <2>3
<1>11. \A j \in Job : j > jobs' => saved'[j] = 0
  BY <1>1, <1>3, <1>4, <1>6, <1>8, HistoryTravels
<1>12. \A i, k \in Id, j \in Job : Holds(i, j)' /\ Holds(k, j)' => i = k
  <2>1. CASE \A i \in Id, j \in Job : Holds(i, j)' => Holds(i, j)
    BY <2>1 DEF JobInv, OneIdPerJob
  <2>2. CASE \E m \in Id : \A i \in Id, j \in Job :
                 Holds(i, j)' => Holds(i, j) \/ (i = m /\ j = jobs + 1)
    <3>1. \A i \in Id, j \in Job : Holds(i, j) => j # jobs + 1
      BY <1>1, <1>2, <1>4
    <3> QED
      BY <2>2, <3>1 DEF JobInv, OneIdPerJob
  <2> QED
    BY <2>1, <2>2, JobsTravel
<1>13. OneIdPerJob'
  BY <1>12 DEF OneIdPerJob, Holds, RowHolds, RunHolds
<1>14. JobsCounted'
  BY <1>9, <1>10, <1>11 DEF JobsCounted, Holds, RowHolds, RunHolds
<1> QED
  BY <1>13, <1>14 DEF JobInv

\* However processes crash, share the table or lose writes, a job number
\* stands for one invoke id.
THEOREM JobsKeepTheirId == Spec => []JobInv
<1>1. Init => JobInv
  <2> SUFFICES ASSUME Init PROVE JobInv
    OBVIOUS
  <2>1. \A j : \A i \in Id : ~ Holds(i, j)
    BY DEF Init, Holds, RowHolds, RunHolds
  <2>2. finished = {} /\ \A j \in Job : saved[j] = 0
    BY DEF Init
  <2> QED
    BY <2>1, <2>2 DEF JobInv, OneIdPerJob, JobsCounted
<1>2. TypeOK /\ JobInv /\ [Next]_vars => JobInv'
  <2>1. ASSUME TypeOK, JobInv, Next PROVE JobInv'
    BY <2>1, NextRowStep, RowStepKeepsJobs
  <2>2. ASSUME JobInv, UNCHANGED vars PROVE JobInv'
    BY <2>2 DEF JobInv, OneIdPerJob, JobsCounted, Holds, RowHolds, RunHolds, vars
  <2> QED
    BY <2>1, <2>2
<1> QED
  BY <1>1, <1>2, TypeCorrect, PTL DEF Spec

---------------------------------------------------------------------------
(* Finished jobs                                                           *)

LEMMA RowStepKeepsFinished ==
    ASSUME TypeOK, TypeOK', JobInv, ExclusiveRun, FinishedStaysFinished,
           "delete" \notin Faults, NEW p \in Proc, RowStep(p)
    PROVE  FinishedStaysFinished'
<1>1. \A i \in Id, j \in Job : Holds(i, j) => j \notin finished
  BY DEF FinishedStaysFinished, Holds, RowHolds, RunHolds
<1>2. ASSUME NEW i \in Id, NEW j \in Job, Holds(i, j)', j \in finished'
      PROVE  FALSE
  <2>1. jobs + 1 \notin finished
    <3>1. jobs \in Nat /\ finished \subseteq Nat
      BY ConstantsAssumption DEF TypeOK, Job
    <3> QED
      BY <3>1 DEF JobInv, JobsCounted
  <2>2. Holds(i, j) \/ j = jobs + 1
    BY <1>2, JobsTravel
  <2>3. j \notin finished
    BY <1>1, <2>1, <2>2
  <2>4. PICK f \in Fiber : Ends(p, f)
    <3>1. finished' # finished
      BY <1>2, <2>3
    <3> QED
      BY <3>1 DEF RowStep, Moves, Restarts, Completes, Starts, Resumes, Lapses,
                  Refuses, Crash, Creates, Create, Aside
  <2> DEFINE r == run[p][f]
  <2>5. /\ r # NoRun /\ j = r.job
        /\ run' = [run EXCEPT ![p][f] = NoRun]
        /\ jobs' = jobs
    BY <1>2, <2>3, <2>4 DEF Ends, Release
  <2>6. r.id \in Id /\ r.job \in Job /\ Holds(r.id, r.job)
    BY <2>5, RunsTyped DEF Holds, RunHolds
  <2>7. Holds(i, j)
    <3>1. jobs \in Nat
      BY ConstantsAssumption DEF TypeOK
    <3> QED
      BY <1>2, <2>5, <3>1, JobsTravel
  <2>8. i = r.id
    BY <2>5, <2>6, <2>7 DEF JobInv, OneIdPerJob
  <2>9. rows'[i] = NoRow
    BY <2>4, <2>6, <2>8, RowsDeleted DEF Ends
  <2>10. \A q \in Proc, g \in Fiber :
            run'[q][g] = IF q = p /\ g = f THEN NoRun ELSE run[q][g]
    BY <2>5 DEF TypeOK
  <2>11. ~ RunHolds(i, j)'
    BY <2>5, <2>8, <2>10 DEF RunHolds, ExclusiveRun
  <2> QED
    BY <1>2, <2>9, <2>11 DEF Holds, RowHolds
<1>3. \A i \in Id, j \in Job : Holds(i, j)' => j \notin finished'
  BY <1>2
<1>4. ASSUME NEW i \in Id, rows'[i] # NoRow PROVE rows'[i].job \notin finished'
  <2>1. rows'[i].job \in Job
    BY <1>4 DEF TypeOK, Row
  <2> QED
    BY <1>3, <1>4, <2>1 DEF Holds, RowHolds
<1>5. ASSUME NEW q \in Proc, NEW g \in Fiber, run'[q][g] # NoRun
      PROVE  run'[q][g].job \notin finished'
  <2>1. run'[q][g].id \in Id /\ run'[q][g].job \in Job
    BY <1>5, RunFields DEF TypeOK
  <2> QED
    BY <1>3, <1>5, <2>1 DEF Holds, RunHolds
<1> QED
  BY <1>4, <1>5 DEF FinishedStaysFinished

\* A job whose outcome the caller has is never found again by a recovery nor
\* run again, where deletes succeed and runtimes do not share the table.
THEOREM FinishedJobsStay ==
    ASSUME Shared = FALSE, "delete" \notin Faults
    PROVE  Spec => []FinishedStaysFinished
<1>1. Init => FinishedStaysFinished
  BY DEF Init, FinishedStaysFinished
<1>2. TypeOK /\ TypeOK' /\ JobInv /\ ExclusiveRun /\ FinishedStaysFinished /\ [Next]_vars
        => FinishedStaysFinished'
  <2>1. ASSUME TypeOK, TypeOK', JobInv, ExclusiveRun, FinishedStaysFinished, Next
        PROVE  FinishedStaysFinished'
    BY <2>1, NextRowStep, RowStepKeepsFinished
  <2>2. ASSUME FinishedStaysFinished, UNCHANGED vars PROVE FinishedStaysFinished'
    BY <2>2 DEF FinishedStaysFinished, vars
  <2> QED
    BY <2>1, <2>2
<1> QED
  BY <1>1, <1>2, TypeCorrect, JobsKeepTheirId, NothingRunsTwice, PTL DEF Spec

---------------------------------------------------------------------------
(* Progress that a crash does not undo                                     *)

\* A run, and the row it left, are at least as far as its job's furthest
\* checkpoint.
Ahead ==
    /\ \A i \in Id : rows[i] # NoRow => rows[i].step >= saved[rows[i].job]
    /\ \A p \in Proc, f \in Fiber : run[p][f] # NoRun =>
           /\ run[p][f].step >= saved[run[p][f].job]
           /\ run[p][f].left = 0

\* What one run writes concerns no other run and no other row.
LEMMA OthersHaveOtherJobs ==
    ASSUME TypeOK, JobInv, ExclusiveRun, NEW p \in Proc, NEW f \in Fiber,
           run[p][f] # NoRun
    PROVE  /\ \A q \in Proc, g \in Fiber :
                  run[q][g] # NoRun /\ ~ (q = p /\ g = f) =>
                      run[q][g].id # run[p][f].id /\ run[q][g].job # run[p][f].job
           /\ \A i \in Id :
                  rows[i] # NoRow /\ i # run[p][f].id => rows[i].job # run[p][f].job
<1>1. Holds(run[p][f].id, run[p][f].job)
  BY DEF Holds, RunHolds
<1>2. run[p][f].id \in Id /\ run[p][f].job \in Job
  BY RunsTyped
<1>3. ASSUME NEW q \in Proc, NEW g \in Fiber, run[q][g] # NoRun, ~ (q = p /\ g = f)
      PROVE  run[q][g].id # run[p][f].id /\ run[q][g].job # run[p][f].job
  <2>1. run[q][g].id # run[p][f].id
    BY <1>3 DEF ExclusiveRun
  <2>2. Holds(run[q][g].id, run[q][g].job) /\ run[q][g].id \in Id
    BY <1>3, RunsTyped DEF Holds, RunHolds
  <2> QED
    BY <1>1, <1>2, <2>1, <2>2 DEF JobInv, OneIdPerJob
<1>4. ASSUME NEW i \in Id, rows[i] # NoRow, i # run[p][f].id
      PROVE  rows[i].job # run[p][f].job
  <2>1. Holds(i, rows[i].job)
    BY <1>4 DEF Holds, RowHolds
  <2> QED
    BY <1>1, <1>2, <1>4, <2>1 DEF JobInv, OneIdPerJob
<1> QED
  BY <1>3, <1>4

LEMMA RowStepKeepsAhead ==
    ASSUME TypeOK, JobInv, ExclusiveRun, Ahead, Chain = 1,
           NEW p \in Proc, RowStep(p)
    PROVE  Ahead'
<1>1. \A i \in Id : rows[i] # NoRow => rows[i].step >= saved[rows[i].job]
  BY DEF Ahead
<1>2. \A q \in Proc, g \in Fiber : run[q][g] # NoRun =>
         run[q][g].step >= saved[run[q][g].job] /\ run[q][g].left = 0
  BY DEF Ahead
<1>3. ASSUME NEW f \in Fiber, NEW r \in Run, r.left = 0,
             run' = [run EXCEPT ![p][f] = r],
             r.step >= saved[r.job],
             \A i \in Id : i # r.id /\ rows[i] # NoRow => rows[i].job # r.job,
             \A q \in Proc, g \in Fiber :
                 run[q][g] # NoRun /\ ~ (q = p /\ g = f) => run[q][g].job # r.job,
             ReportStep(p, r) \/ UNCHANGED << rows, saved >>
      PROVE  Ahead'
  <2>1. \A q \in Proc, g \in Fiber :
           run'[q][g] = IF q = p /\ g = f THEN r ELSE run[q][g]
    BY <1>3 DEF TypeOK
  <2>2. CASE UNCHANGED << rows, saved >>
    BY <1>1, <1>2, <1>3, <2>1, <2>2 DEF Ahead
  <2>3. CASE /\ \A i \in Id : rows'[i] = IF i = r.id THEN Checkpoint(p, r)
                                                      ELSE rows[i]
             /\ \A j \in Job : saved'[j] = IF j = r.job THEN Larger(saved[j], r.step)
                                                         ELSE saved[j]
    <3>1. /\ r.id \in Id /\ r.job \in Job /\ r.step \in Nat /\ saved[r.job] \in Nat
      BY RunFields DEF TypeOK
    <3>2. saved'[r.job] = r.step
      BY <1>3, <2>3, <3>1 DEF Larger
    <3>3. ASSUME NEW i \in Id, rows'[i] # NoRow PROVE rows'[i].step >= saved'[rows'[i].job]
      <4>1. CASE i = r.id
        BY <2>3, <3>1, <3>2, <4>1, CheckpointFields
      <4>2. CASE i # r.id
        <5>1. rows'[i] = rows[i] /\ rows[i].job \in Job
          BY <2>3, <3>3, <4>2, RowFields
        <5> QED
          BY <1>1, <1>3, <2>3, <3>3, <4>2, <5>1
      <4> QED
        BY <4>1, <4>2
    <3>4. ASSUME NEW q \in Proc, NEW g \in Fiber, run'[q][g] # NoRun
          PROVE  run'[q][g].step >= saved'[run'[q][g].job] /\ run'[q][g].left = 0
      <4>1. CASE q = p /\ g = f
        BY <1>3, <2>1, <3>1, <3>2, <4>1
      <4>2. CASE ~ (q = p /\ g = f)
        <5>1. run'[q][g] = run[q][g] /\ run[q][g].job \in Job
          BY <2>1, <3>4, <4>2, RunsTyped
        <5> QED
          BY <1>2, <1>3, <2>3, <3>4, <4>2, <5>1
      <4> QED
        BY <4>1, <4>2
    <3> QED
      BY <3>3, <3>4 DEF Ahead
  <2> QED
    BY <1>3, <2>2, <2>3, RowsReported
<1>4. ASSUME NEW f \in Fiber, Moves(p, f) \/ Completes(p, f)
      PROVE  Ahead'
  <2>1. PICK r \in Run :
           /\ r.id = run[p][f].id /\ r.job = run[p][f].job
           /\ r.step = run[p][f].step \/ r.step = run[p][f].step + 1
           /\ r.left = run[p][f].left
           /\ ReportStep(p, r) \/ UNCHANGED << rows, saved >>
           /\ run' = [run EXCEPT ![p][f] = r]
    BY <1>4 DEF Moves, Completes
  <2>2. run[p][f] # NoRun
    BY <1>4 DEF Moves, Completes
  <2>3. /\ run[p][f].step \in Nat /\ saved[run[p][f].job] \in Nat
    BY <2>2, RunsTyped, RunFields DEF TypeOK
  <2>4. r.step >= saved[r.job] /\ r.left = 0
    BY <1>2, <2>1, <2>2, <2>3
  <2>5. /\ \A i \in Id : i # r.id /\ rows[i] # NoRow => rows[i].job # r.job
        /\ \A q \in Proc, g \in Fiber :
               run[q][g] # NoRun /\ ~ (q = p /\ g = f) => run[q][g].job # r.job
    BY <2>1, <2>2, OthersHaveOtherJobs
  <2> QED
    BY <1>3, <2>1, <2>4, <2>5
<1>5. ASSUME NEW f \in Fiber, Restarts(p, f) PROVE FALSE
  BY <1>2, <1>5 DEF Restarts
<1>6. ASSUME NEW f \in Fiber, Starts(p, f)
      PROVE  Ahead'
  <2>1. PICK r \in Run :
           /\ r.job = jobs + 1 /\ r.step = 0 /\ r.left = Chain - 1
           /\ ReportStep(p, r)
           /\ run' = [run EXCEPT ![p][f] = r]
    BY <1>6 DEF Starts
  <2>2. jobs \in Nat /\ jobs + 1 \in Job /\ Job \subseteq Nat
    BY <1>6, ConstantsAssumption DEF Starts, TypeOK, Job
  <2>3. saved[r.job] = 0
    BY <2>1, <2>2 DEF JobInv, JobsCounted
  <2>4. \A i \in Id, j \in Job : Holds(i, j) => j # r.job
    BY <2>1, <2>2 DEF JobInv, JobsCounted
  <2>5. \A i \in Id : rows[i] # NoRow => rows[i].job # r.job
    BY <2>4, RowFields DEF Holds, RowHolds
  <2>6. \A q \in Proc, g \in Fiber : run[q][g] # NoRun => run[q][g].job # r.job
    BY <2>4, RunsTyped DEF Holds, RunHolds
  <2>7. r.step >= saved[r.job] /\ r.left = 0
    BY <2>1, <2>3
  <2> QED
    BY <1>3, <2>1, <2>5, <2>6, <2>7
<1>7. ASSUME NEW f \in Fiber, Resumes(p, f)
      PROVE  Ahead'
  <2>1. PICK r \in Run :
           /\ rows[r.id] # NoRow
           /\ r.job = rows[r.id].job /\ r.step = rows[r.id].step
           /\ r.left = Chain - 1
           /\ run' = [run EXCEPT ![p][f] = r]
    BY <1>7 DEF Resumes
  <2>2. \A q \in Proc, g \in Fiber :
           run'[q][g] = IF q = p /\ g = f THEN r ELSE run[q][g]
    BY <2>1 DEF TypeOK
  <2>3. r.step >= saved[r.job] /\ r.left = 0
    BY <1>1, <2>1, RunFields
  <2>4. rows' = rows /\ saved' = saved
    BY <1>7 DEF Resumes
  <2> QED
    BY <1>1, <1>2, <2>2, <2>3, <2>4 DEF Ahead
<1>8. ASSUME NEW f \in Fiber, Ends(p, f) \/ Lapses(p, f)
      PROVE  Ahead'
  <2>1. run' = [run EXCEPT ![p][f] = NoRun] /\ run[p][f] # NoRun
    BY <1>8 DEF Ends, Lapses, Release
  <2>2. \A q \in Proc, g \in Fiber :
           run'[q][g] = IF q = p /\ g = f THEN NoRun ELSE run[q][g]
    BY <2>1 DEF TypeOK
  <2>3. \A i \in Id : rows'[i] = rows[i] \/ rows'[i] = NoRow
    BY <1>8, <2>1, RunsTyped, RowsDeleted DEF Ends, Lapses
  <2>4. saved' = saved
    BY <1>8 DEF Ends, Lapses
  <2> QED
    BY <1>1, <1>2, <2>2, <2>3, <2>4 DEF Ahead
<1>9. ASSUME Refuses(p) \/ Creates(p) \/ Aside(p) \/ Crash(p)
      PROVE  Ahead'
  <2>1. \A i \in Id : rows'[i] = rows[i] \/ rows'[i] = NoRow
    BY <1>9, RowsDeleted DEF Refuses, Creates, Create, Aside, Crash, db
  <2>2. \A q \in Proc, g \in Fiber : run'[q][g] = run[q][g] \/ run'[q][g] = NoRun
    BY <1>9 DEF Refuses, Creates, Create, Aside, Crash, TypeOK
  <2>3. saved' = saved
    BY <1>9 DEF Refuses, Creates, Create, Aside, Crash
  <2> QED
    BY <1>1, <1>2, <2>1, <2>2, <2>3 DEF Ahead
<1> QED
  BY <1>4, <1>5, <1>6, <1>7, <1>8, <1>9 DEF RowStep

LEMMA AheadInvariant ==
    ASSUME Shared = FALSE, Chain = 1
    PROVE  Spec => []Ahead
<1>1. Init => Ahead
  BY DEF Init, Ahead
<1>2. TypeOK /\ JobInv /\ ExclusiveRun /\ Ahead /\ [Next]_vars => Ahead'
  <2>1. ASSUME TypeOK, JobInv, ExclusiveRun, Ahead, Next PROVE Ahead'
    BY <2>1, NextRowStep, RowStepKeepsAhead
  <2>2. ASSUME Ahead, UNCHANGED vars PROVE Ahead'
    BY <2>2 DEF Ahead, vars
  <2> QED
    BY <2>1, <2>2
<1> QED
  BY <1>1, <1>2, TypeCorrect, JobsKeepTheirId, NothingRunsTwice, PTL DEF Spec

\* No crash, lost write or interruption makes a run repeat a batch that a
\* checkpoint recorded, where one provider serves the run and runtimes do not
\* share the table.
THEOREM BatchesDoNotRerun ==
    ASSUME Shared = FALSE, Chain = 1
    PROVE  Spec => []CompletedBatchesDoNotRerun
<1>1. Ahead => CompletedBatchesDoNotRerun
  BY DEF Ahead, CompletedBatchesDoNotRerun, At
<1> QED
  BY <1>1, AheadInvariant, PTL

---------------------------------------------------------------------------
(* The row of a run                                                        *)

LEMMA RunsAreActive ==
    ASSUME ClaimInv, OneProcess, NEW p \in Proc, up[p],
           NEW q \in Proc, NEW g \in Fiber, run[q][g] # NoRun
    PROVE  q = p /\ run[q][g].id \in active[p]
<1>1. q = p
  BY DEF OneProcess
<1>2. run[q][g].id \in Id
  BY RunsTyped DEF ClaimInv
<1> QED
  BY <1>1, <1>2 DEF ClaimInv, ClaimedIffRun

LEMMA RowStepKeepsCurrent ==
    ASSUME ClaimInv, OneProcess, ExclusiveRun, Ahead, CheckpointCurrent,
           "save" \notin Faults, Chain = 1, NEW p \in Proc, RowStep(p)
    PROVE  CheckpointCurrent'
<1>1. TypeOK
  BY DEF ClaimInv
<1> DEFINE Current(r) == /\ rows[r.id] # NoRow
                         /\ rows[r.id].job = r.job
                         /\ rows[r.id].agent = r.agent
                         /\ rows[r.id].step = r.step
                         /\ rows[r.id].iter <= r.iter
           CurrentNext(r) == /\ rows'[r.id] # NoRow
                             /\ rows'[r.id].job = r.job
                             /\ rows'[r.id].agent = r.agent
                             /\ rows'[r.id].step = r.step
                             /\ rows'[r.id].iter <= r.iter
<1>2. \A q \in Proc, g \in Fiber : run[q][g] # NoRun => Current(run[q][g])
  BY DEF CheckpointCurrent
<1>3. SUFFICES ASSUME NEW q \in Proc, NEW g \in Fiber, run'[q][g] # NoRun
               PROVE  CurrentNext(run'[q][g])
  BY <1>3 DEF CheckpointCurrent
<1>4. ASSUME run'[q][g] = run[q][g], rows'[run[q][g].id] = rows[run[q][g].id]
      PROVE  CurrentNext(run'[q][g])
  BY <1>2, <1>3, <1>4
<1>5. ASSUME NEW f \in Fiber, Moves(p, f)
      PROVE  CurrentNext(run'[q][g])
  <2>1. PICK r \in Run : /\ r.id = run[p][f].id /\ r.job = run[p][f].job
                         /\ r.agent = run[p][f].agent /\ r.step = run[p][f].step
                         /\ r.iter >= run[p][f].iter
                         /\ run' = [run EXCEPT ![p][f] = r]
    BY <1>5 DEF Moves
  <2>2. run'[q][g] = IF q = p /\ g = f THEN r ELSE run[q][g]
    BY <1>1, <2>1 DEF TypeOK
  <2>3. rows' = rows /\ run[p][f] # NoRun
    BY <1>5 DEF Moves
  <2>4. CASE q = p /\ g = f
    <3>1. Current(run[p][f])
      BY <1>2, <2>3
    <3>2. /\ rows[r.id].iter \in Nat /\ run[p][f].iter \in Nat /\ r.iter \in Nat
      BY <1>1, <2>1, <2>3, <3>1, RowFields, RunsTyped, RunFields
    <3> QED
      BY <2>1, <2>2, <2>3, <2>4, <3>1, <3>2
  <2> QED
    BY <1>4, <2>2, <2>3, <2>4
<1>6. ASSUME NEW f \in Fiber, Restarts(p, f) PROVE FALSE
  BY <1>6 DEF Restarts, Ahead
<1>7. ASSUME NEW f \in Fiber, NEW r \in Run, ReportStep(p, r),
             run' = [run EXCEPT ![p][f] = r],
             run[q][g] # NoRun /\ ~ (q = p /\ g = f) => run[q][g].id # r.id
      PROVE  CurrentNext(run'[q][g])
  <2>1. run'[q][g] = IF q = p /\ g = f THEN r ELSE run[q][g]
    BY <1>1, <1>7 DEF TypeOK
  <2>2. \A i \in Id : rows'[i] = IF i = r.id THEN Checkpoint(p, r) ELSE rows[i]
    BY <1>1, <1>7, RowsReported
  <2>3. CASE q = p /\ g = f
    BY <1>1, <2>1, <2>2, <2>3, RunFields, CheckpointFields
  <2>4. CASE ~ (q = p /\ g = f)
    <3>1. run'[q][g] = run[q][g] /\ run[q][g].id \in Id /\ run[q][g].id # r.id
      BY <1>1, <1>3, <1>7, <2>1, <2>4, RunsTyped
    <3> QED
      BY <1>4, <2>2, <3>1
  <2> QED
    BY <2>3, <2>4
<1>8. ASSUME NEW f \in Fiber, Completes(p, f)
      PROVE  CurrentNext(run'[q][g])
  <2>1. PICK r \in Run : /\ r.id = run[p][f].id
                         /\ ReportStep(p, r)
                         /\ run' = [run EXCEPT ![p][f] = r]
    BY <1>8 DEF Completes
  <2>2. run[p][f] # NoRun
    BY <1>8 DEF Completes
  <2>3. run[q][g] # NoRun /\ ~ (q = p /\ g = f) => run[q][g].id # r.id
    BY <2>1, <2>2 DEF ExclusiveRun
  <2> QED
    BY <1>7, <2>1, <2>3
<1>9. ASSUME NEW f \in Fiber, Starts(p, f)
      PROVE  CurrentNext(run'[q][g])
  <2>1. PICK r \in Run : /\ r.id \notin active[p]
                         /\ ReportStep(p, r)
                         /\ run' = [run EXCEPT ![p][f] = r]
    BY <1>9 DEF Starts
  <2>2. run[q][g] # NoRun => run[q][g].id # r.id
    BY <1>9, <2>1, RunsAreActive DEF Starts
  <2> QED
    BY <1>7, <2>1, <2>2
<1>10. ASSUME NEW f \in Fiber, Resumes(p, f)
       PROVE  CurrentNext(run'[q][g])
  <2>1. PICK r \in Run : /\ rows[r.id] # NoRow
                         /\ r.job = rows[r.id].job /\ r.agent = rows[r.id].agent
                         /\ r.step = rows[r.id].step /\ r.iter = rows[r.id].iter
                         /\ run' = [run EXCEPT ![p][f] = r]
    BY <1>10 DEF Resumes
  <2>2. run'[q][g] = IF q = p /\ g = f THEN r ELSE run[q][g]
    BY <1>1, <2>1 DEF TypeOK
  <2>3. rows' = rows /\ r.iter \in Nat
    BY <1>10, RunFields DEF Resumes
  <2>4. CASE q = p /\ g = f
    BY <2>1, <2>2, <2>3, <2>4
  <2> QED
    BY <1>4, <2>2, <2>3, <2>4
<1>11. ASSUME NEW f \in Fiber, Ends(p, f) \/ Lapses(p, f)
       PROVE  CurrentNext(run'[q][g])
  <2>1. run' = [run EXCEPT ![p][f] = NoRun] /\ run[p][f] # NoRun
    BY <1>11 DEF Ends, Lapses, Release
  <2>2. run'[q][g] = run[q][g] /\ ~ (q = p /\ g = f)
    BY <1>1, <1>3, <2>1 DEF TypeOK
  <2>3. run[q][g] # NoRun /\ run[q][g].id \in Id /\ run[q][g].id # run[p][f].id
    BY <1>1, <1>3, <2>1, <2>2, RunsTyped DEF ExclusiveRun
  <2>4. \A i \in Id : i # run[p][f].id => rows'[i] = rows[i]
    BY <1>1, <1>11, <2>1, RunsTyped, RowsDeleted DEF Ends, Lapses
  <2> QED
    BY <1>4, <2>2, <2>3, <2>4
<1>12. CASE Refuses(p)
  <2>1. PICK i \in Id : i \notin active[p] /\ DeleteRow(i)
    BY <1>12 DEF Refuses
  <2>2. run'[q][g] = run[q][g] /\ up[p]
    BY <1>12 DEF Refuses
  <2>3. run[q][g].id \in Id /\ run[q][g].id # i
    BY <1>1, <1>3, <2>1, <2>2, RunsTyped, RunsAreActive
  <2>4. \A k \in Id : k # i => rows'[k] = rows[k]
    BY <1>1, <2>1, RowsDeleted
  <2> QED
    BY <1>4, <2>2, <2>3, <2>4
<1>13. CASE Crash(p) \/ Creates(p) \/ Aside(p)
  <2>1. run'[q][g] = run[q][g]
    BY <1>1, <1>3, <1>13 DEF Crash, Creates, Create, Aside, TypeOK
  <2>2. rows' = rows
    BY <1>13 DEF Crash, Creates, Create, Aside, db
  <2> QED
    BY <1>4, <2>1, <2>2
<1> QED
  BY <1>5, <1>6, <1>8, <1>9, <1>10, <1>11, <1>12, <1>13 DEF RowStep

\* Wherever a crash falls, the row says which agent ran, which batch it had
\* completed and no more iterations than it had used, where checkpoints are
\* written, one provider serves the run and runtimes do not share the table.
THEOREM RowsAreCurrent ==
    ASSUME Shared = FALSE, Chain = 1, "save" \notin Faults
    PROVE  Spec => []CheckpointCurrent
<1>1. Init => CheckpointCurrent
  BY DEF Init, CheckpointCurrent
<1>2. ClaimInv /\ OneProcess /\ ExclusiveRun /\ Ahead /\ CheckpointCurrent /\ [Next]_vars
        => CheckpointCurrent'
  <2>1. ASSUME ClaimInv, OneProcess, ExclusiveRun, Ahead, CheckpointCurrent, Next
        PROVE  CheckpointCurrent'
    BY <2>1, NextRowStep, RowStepKeepsCurrent DEF ClaimInv
  <2>2. ASSUME CheckpointCurrent, UNCHANGED vars PROVE CheckpointCurrent'
    BY <2>2 DEF CheckpointCurrent, vars
  <2> QED
    BY <2>1, <2>2
<1> QED
  BY <1>1, <1>2, ClaimInvariant, OneProcessInvariant, NothingRunsTwice, AheadInvariant,
     PTL DEF Spec

---------------------------------------------------------------------------
(* Rows in flight.  While a runtime is up, a row is run or listed, an      *)
(* orphan has its row, and exactly the recoveries run listed ids.          *)

InFlight(p) ==
    /\ \A i \in Id : /\ rows[i] # NoRow => i \in active[p] \cup orphaned[p]
                     /\ i \in orphaned[p] => rows[i] # NoRow
    /\ \A f \in Fiber : run[p][f] # NoRun =>
           (run[p][f].resumed <=> run[p][f].id \in orphaned[p])

AllInFlight == \A p \in Proc : up[p] => InFlight(p)

LEMMA ClaimReleased ==
    ASSUME TypeOK, NEW p \in Proc, NEW f \in Fiber, Release(p, f)
    PROVE  active'[p] = active[p] \ {run[p][f].id}
BY DEF TypeOK, Release

LEMMA RowStepKeepsFlight ==
    ASSUME ClaimInv, OneProcess, ExclusiveRun, AllInFlight,
           Shared = FALSE, NewerDecodes = TRUE, Faults \subseteq {"save", "approval"},
           NEW p \in Proc, RowStep(p)
    PROVE  AllInFlight'
<1>1. TypeOK
  BY DEF ClaimInv
<1> DEFINE FlightNext ==
             /\ \A i \in Id : /\ rows'[i] # NoRow => i \in active'[p] \cup orphaned'[p]
                              /\ i \in orphaned'[p] => rows'[i] # NoRow
             /\ \A f \in Fiber : run'[p][f] # NoRun =>
                    (run'[p][f].resumed <=> run'[p][f].id \in orphaned'[p])
<1>2. ASSUME up[p], up' = up, FlightNext
      PROVE  AllInFlight'
  BY <1>2 DEF AllInFlight, InFlight, OneProcess
<1>3. ASSUME up[p]
      PROVE  /\ \A i \in Id : /\ rows[i] # NoRow => i \in active[p] \cup orphaned[p]
                              /\ i \in orphaned[p] => rows[i] # NoRow
             /\ \A f \in Fiber : run[p][f] # NoRun =>
                    (run[p][f].resumed <=> run[p][f].id \in orphaned[p])
  BY <1>3 DEF AllInFlight, InFlight
<1>4. \A f \in Fiber : run[p][f] # NoRun => up[p]
  BY DEF OneProcess
<1>5. \A f \in Fiber : run[p][f] # NoRun => run[p][f].id \in active[p]
  BY <1>4, RunsAreActive
<1>6. ASSUME NEW f \in Fiber, Moves(p, f) \/ Restarts(p, f) \/ Completes(p, f)
      PROVE  AllInFlight'
  <2>1. PICK r \in Run : /\ r.id = run[p][f].id /\ r.resumed = run[p][f].resumed
                         /\ ReportStep(p, r) \/ UNCHANGED << rows, saved >>
                         /\ run' = [run EXCEPT ![p][f] = r]
    BY <1>6 DEF Moves, Restarts, Completes
  <2>2. /\ run[p][f] # NoRun /\ active' = active /\ orphaned' = orphaned /\ up' = up
    BY <1>6 DEF Moves, Restarts, Completes, claims
  <2>3. \A g \in Fiber : run'[p][g] = IF g = f THEN r ELSE run[p][g]
    BY <1>1, <2>1 DEF TypeOK
  <2>4. r.id \in active[p] /\ up[p]
    BY <1>4, <1>5, <2>1, <2>2
  <2>5. \A i \in Id : rows'[i] = rows[i] \/ (i = r.id /\ rows'[i] # NoRow)
    BY <1>1, <2>1, RowsReported, CheckpointFields
  <2>6. FlightNext
    BY <1>3, <2>1, <2>2, <2>3, <2>4, <2>5
  <2> QED
    BY <1>2, <2>2, <2>4, <2>6
<1>7. ASSUME NEW f \in Fiber, Starts(p, f)
      PROVE  AllInFlight'
  <2>1. PICK r \in Run : /\ r.id \notin orphaned[p] /\ ~ r.resumed
                         /\ ReportStep(p, r)
                         /\ run' = [run EXCEPT ![p][f] = r]
                         /\ active' = [active EXCEPT ![p] = @ \cup {r.id}]
    BY <1>7 DEF Starts
  <2>2. orphaned' = orphaned /\ up' = up /\ up[p]
    BY <1>7 DEF Starts
  <2>3. \A g \in Fiber : run'[p][g] = IF g = f THEN r ELSE run[p][g]
    BY <1>1, <2>1 DEF TypeOK
  <2>4. active'[p] = active[p] \cup {r.id}
    BY <1>1, <2>1 DEF TypeOK
  <2>5. \A i \in Id : rows'[i] = rows[i] \/ (i = r.id /\ rows'[i] # NoRow)
    BY <1>1, <2>1, RowsReported, CheckpointFields
  <2>6. FlightNext
    BY <1>3, <2>1, <2>2, <2>3, <2>4, <2>5
  <2> QED
    BY <1>2, <2>2, <2>6
<1>8. ASSUME NEW f \in Fiber, Resumes(p, f)
      PROVE  AllInFlight'
  <2>1. PICK r \in Run : /\ r.id \in orphaned[p] /\ r.resumed
                         /\ run' = [run EXCEPT ![p][f] = r]
                         /\ active' = [active EXCEPT ![p] = @ \cup {r.id}]
    BY <1>8 DEF Resumes
  <2>2. rows' = rows /\ orphaned' = orphaned /\ up' = up /\ up[p]
    BY <1>8 DEF Resumes
  <2>3. \A g \in Fiber : run'[p][g] = IF g = f THEN r ELSE run[p][g]
    BY <1>1, <2>1 DEF TypeOK
  <2>4. active'[p] = active[p] \cup {r.id}
    BY <1>1, <2>1 DEF TypeOK
  <2>5. FlightNext
    BY <1>3, <2>1, <2>2, <2>3, <2>4
  <2> QED
    BY <1>2, <2>2, <2>5
<1>9. ASSUME NEW f \in Fiber, Ends(p, f) \/ Lapses(p, f)
      PROVE  AllInFlight'
  <2> DEFINE r == run[p][f]
  <2>1. r # NoRun /\ Release(p, f) /\ up' = up /\ run' = [run EXCEPT ![p][f] = NoRun]
    BY <1>9 DEF Ends, Lapses, Release
  <2>2. up[p] /\ r.id \in Id /\ r.id \in active[p]
    BY <1>1, <1>4, <1>5, <2>1, RunsTyped
  <2>3. \A g \in Fiber : run'[p][g] = IF g = f THEN NoRun ELSE run[p][g]
    BY <1>1, <2>1 DEF TypeOK
  <2>4. active'[p] = active[p] \ {r.id}
    BY <1>1, <2>1, ClaimReleased
  <2>5. \A g \in Fiber : g # f /\ run[p][g] # NoRun => run[p][g].id # r.id
    BY <2>1 DEF ExclusiveRun
  <2>6. CASE Ends(p, f)
    <3>1. \A i \in Id : rows'[i] = IF i = r.id THEN NoRow ELSE rows[i]
      BY <1>1, <2>2, <2>6, RowsDeleted DEF Ends
    <3>2. orphaned'[p] = IF r.resumed THEN orphaned[p] \ {r.id} ELSE orphaned[p]
      BY <1>1, <2>6 DEF Ends, TypeOK
    <3>3. orphaned'[p] = orphaned[p] \ {r.id}
      BY <1>3, <2>1, <2>2, <3>2
    <3> HIDE DEF r
    <3>4. FlightNext
      BY <1>3, <2>2, <2>3, <2>4, <2>5, <3>1, <3>3
    <3> QED
      BY <1>2, <2>1, <2>2, <3>4
  <2>7. CASE Lapses(p, f)
    <3>1. rows' = rows /\ orphaned' = orphaned /\ r.resumed
      BY <2>7 DEF Lapses
    <3>2. r.id \in orphaned[p]
      BY <1>3, <2>1, <2>2, <3>1
    <3>3. FlightNext
      BY <1>3, <2>2, <2>3, <2>4, <3>1, <3>2
    <3> QED
      BY <1>2, <2>1, <2>2, <3>3
  <2> QED
    BY <1>9, <2>6, <2>7
<1>10. CASE Refuses(p)
  <2>1. PICK i \in Id : i \notin active[p] \cup orphaned[p] /\ DeleteRow(i)
    BY <1>10 DEF Refuses
  <2>2. /\ up[p] /\ up' = up /\ run' = run /\ active' = active /\ orphaned' = orphaned
    BY <1>10 DEF Refuses, claims
  <2>3. \A k \in Id : rows'[k] = rows[k] \/ (k = i /\ rows'[k] = NoRow)
    BY <1>1, <2>1, RowsDeleted
  <2>4. FlightNext
    BY <1>3, <2>1, <2>2, <2>3
  <2> QED
    BY <1>2, <2>2, <2>4
<1>11. CASE Crash(p)
  <2>1. \A q \in Proc : ~ up'[q]
    BY <1>1, <1>11 DEF Crash, OneProcess, TypeOK
  <2> QED
    BY <2>1 DEF AllInFlight
<1>12. CASE Creates(p)
  <2>1. PICK v \in Version : Create(p, v)
    BY <1>12 DEF Creates
  <2>2. \A q \in Proc : up'[q] => q = p
    BY <1>1, <2>1 DEF Create, TypeOK
  <2>3. orphaned'[p] = {i \in Id : rows[i] # NoRow}
    BY <1>1, <2>1 DEF Create, Listed, TypeOK
  <2>4. rows' = rows /\ run' = run /\ \A f \in Fiber : run[p][f] = NoRun
    BY <2>1 DEF Create, db, OneProcess
  <2>5. FlightNext
    BY <2>3, <2>4
  <2> QED
    BY <2>2, <2>5 DEF AllInFlight, InFlight
<1>13. CASE Aside(p)
  BY <1>13 DEF Aside, AllInFlight, InFlight, claims
<1> QED
  BY <1>6, <1>7, <1>8, <1>9, <1>10, <1>11, <1>12, <1>13 DEF RowStep

LEMMA FlightInvariant ==
    ASSUME Shared = FALSE, NewerDecodes = TRUE, Faults \subseteq {"save", "approval"}
    PROVE  Spec => []AllInFlight
<1>1. Init => AllInFlight
  BY DEF Init, AllInFlight
<1>2. ClaimInv /\ OneProcess /\ ExclusiveRun /\ AllInFlight /\ [Next]_vars => AllInFlight'
  <2>1. ASSUME ClaimInv, OneProcess, ExclusiveRun, AllInFlight, Next PROVE AllInFlight'
    BY <2>1, NextRowStep, RowStepKeepsFlight DEF ClaimInv
  <2>2. ASSUME AllInFlight, UNCHANGED vars PROVE AllInFlight'
    BY <2>2 DEF AllInFlight, InFlight, vars
  <2> QED
    BY <2>1, <2>2
<1> QED
  BY <1>1, <1>2, ClaimInvariant, OneProcessInvariant, NothingRunsTwice, PTL DEF Spec

\* "A row means in flight": no row is out of a live runtime's reach and no
\* orphan is without its row, whatever the chain, as long as no exception, no
\* fiber cancellation and no failed delete strikes.
THEOREM RowsMeanInFlight ==
    ASSUME Shared = FALSE, NewerDecodes = TRUE, Faults \subseteq {"save", "approval"}
    PROVE  Spec => []RowMeansInFlight
<1>1. AllInFlight => RowMeansInFlight
  BY DEF AllInFlight, InFlight, RowMeansInFlight
<1> QED
  BY <1>1, FlightInvariant, PTL

---------------------------------------------------------------------------
(* Rows of a newer build                                                   *)

\* A running build has every newer row on its list and runs none of them.
NewerIsListed ==
    \A p \in Proc, i \in Id :
        up[p] /\ rows[i] # NoRow /\ rows[i].version > version[p]
            => i \in orphaned[p] /\ i \notin active[p]

\* The rows a step writes or deletes.
LEMMA RowsTouched ==
    ASSUME ClaimInv, OneProcess, NEW p \in Proc, RowStep(p),
           NEW i \in Id, rows'[i] # rows[i]
    PROVE  /\ up[p] /\ (i \in active[p] \/ i \notin orphaned[p])
           /\ rows'[i] # NoRow => rows'[i].version = version[p]
<1>1. TypeOK
  BY DEF ClaimInv
<1>2. \A f \in Fiber : run[p][f] # NoRun =>
         up[p] /\ run[p][f].id \in active[p] /\ run[p][f].id \in Id
  BY <1>1, RunsAreActive, RunsTyped DEF OneProcess
<1>3. ASSUME NEW f \in Fiber, Moves(p, f) \/ Restarts(p, f) \/ Completes(p, f)
      PROVE  /\ up[p] /\ i \in active[p]
             /\ rows'[i] # NoRow => rows'[i].version = version[p]
  <2>1. PICK r \in Run : /\ r.id = run[p][f].id
                         /\ ReportStep(p, r) \/ UNCHANGED << rows, saved >>
    BY <1>3 DEF Moves, Restarts, Completes
  <2>2. run[p][f] # NoRun
    BY <1>3 DEF Moves, Restarts, Completes
  <2>3. i = r.id /\ rows'[i] = Checkpoint(p, r)
    BY <1>1, <2>1, RowsReported
  <2> QED
    BY <1>1, <1>2, <2>1, <2>2, <2>3, CheckpointFields
<1>4. ASSUME NEW f \in Fiber, Starts(p, f)
      PROVE  /\ up[p] /\ i \notin orphaned[p]
             /\ rows'[i] # NoRow => rows'[i].version = version[p]
  <2>1. PICK r \in Run : r.id \notin orphaned[p] /\ ReportStep(p, r)
    BY <1>4 DEF Starts
  <2>2. i = r.id /\ rows'[i] = Checkpoint(p, r)
    BY <1>1, <2>1, RowsReported
  <2> QED
    BY <1>1, <1>4, <2>1, <2>2, CheckpointFields DEF Starts
<1>5. ASSUME NEW f \in Fiber, Ends(p, f)
      PROVE  up[p] /\ i \in active[p] /\ rows'[i] = NoRow
  BY <1>1, <1>2, <1>5, RowsDeleted DEF Ends
<1>6. ASSUME Refuses(p)
      PROVE  up[p] /\ i \notin orphaned[p] /\ rows'[i] = NoRow
  BY <1>1, <1>6, RowsDeleted DEF Refuses
<1> QED
  BY <1>3, <1>4, <1>5, <1>6
  DEF RowStep, Resumes, Lapses, Crash, Creates, Create, Aside, db

LEMMA RowStepKeepsNewer ==
    ASSUME ClaimInv, OneProcess, NewerIsListed,
           Shared = FALSE, NewerDecodes = TRUE, NEW p \in Proc, RowStep(p)
    PROVE  NewerIsListed'
<1>1. TypeOK
  BY DEF ClaimInv
<1>2. ASSUME up[p], up' = up, version' = version,
             ASSUME NEW i \in Id, rows'[i] # NoRow, rows'[i].version > version[p],
                    rows'[i] = rows[i],
                    i \in orphaned[p], i \notin active[p]
             PROVE  i \in orphaned'[p] /\ i \notin active'[p]
      PROVE  NewerIsListed'
  <2>1. SUFFICES ASSUME NEW q \in Proc, NEW i \in Id,
                        up'[q], rows'[i] # NoRow, rows'[i].version > version'[q]
                 PROVE  i \in orphaned'[q] /\ i \notin active'[q]
    BY <2>1 DEF NewerIsListed
  <2>2. q = p
    BY <1>2, <2>1 DEF OneProcess
  <2>3. version[p] \in Nat
    BY <1>1, ConstantsAssumption DEF TypeOK
  <2>4. rows'[i] = rows[i]
    <3>1. rows'[i].version # version[p]
      BY <1>2, <2>1, <2>2, <2>3
    <3> QED
      BY <2>1, <3>1, RowsTouched
  <2>5. i \in orphaned[p] /\ i \notin active[p]
    BY <1>2, <2>1, <2>2, <2>4 DEF NewerIsListed
  <2> QED
    BY <1>2, <2>1, <2>2, <2>4, <2>5
<1>3. \A f \in Fiber : run[p][f] # NoRun =>
         up[p] /\ run[p][f].id \in active[p] /\ run[p][f].id \in Id
  BY <1>1, RunsAreActive, RunsTyped DEF OneProcess
<1>4. ASSUME NEW f \in Fiber, Moves(p, f) \/ Restarts(p, f) \/ Completes(p, f)
      PROVE  NewerIsListed'
  <2>1. /\ up[p] /\ up' = up /\ version' = version
        /\ orphaned' = orphaned /\ active' = active
    BY <1>3, <1>4 DEF Moves, Restarts, Completes, claims
  <2> QED
    BY <1>2, <2>1
<1>5. ASSUME NEW f \in Fiber, Starts(p, f)
      PROVE  NewerIsListed'
  <2>1. PICK r \in Run : /\ r.id \notin orphaned[p]
                         /\ active' = [active EXCEPT ![p] = @ \cup {r.id}]
    BY <1>5 DEF Starts
  <2>2. up[p] /\ up' = up /\ version' = version /\ orphaned' = orphaned
    BY <1>5 DEF Starts
  <2>3. active'[p] = active[p] \cup {r.id}
    BY <1>1, <2>1 DEF TypeOK
  <2> QED
    BY <1>2, <2>1, <2>2, <2>3
<1>6. ASSUME NEW f \in Fiber, Resumes(p, f)
      PROVE  NewerIsListed'
  <2>1. PICK r \in Run : /\ rows[r.id] # NoRow /\ rows[r.id].version <= version[p]
                         /\ active' = [active EXCEPT ![p] = @ \cup {r.id}]
    BY <1>6 DEF Resumes
  <2>2. /\ up[p] /\ up' = up /\ version' = version /\ orphaned' = orphaned
        /\ rows' = rows
    BY <1>6 DEF Resumes
  <2>3. active'[p] = active[p] \cup {r.id}
    BY <1>1, <2>1 DEF TypeOK
  <2>4. r.id \in Id /\ rows[r.id].version \in Nat /\ version[p] \in Nat
    <3>1. r.id \in Id
      BY RunFields
    <3> QED
      BY <1>1, <2>1, <3>1, RowFields, ConstantsAssumption DEF TypeOK
  <2>5. ~ (rows[r.id].version > version[p])
    BY <2>1, <2>4
  <2> QED
    BY <1>2, <2>2, <2>3, <2>5
<1>7. ASSUME NEW f \in Fiber, Ends(p, f) \/ Lapses(p, f)
      PROVE  NewerIsListed'
  <2>1. run[p][f] # NoRun /\ Release(p, f) /\ up' = up /\ version' = version
    BY <1>7 DEF Ends, Lapses
  <2>2. active'[p] = active[p] \ {run[p][f].id}
    BY <1>1, <2>1, ClaimReleased
  <2>3. orphaned'[p] = orphaned[p] \/ orphaned'[p] = orphaned[p] \ {run[p][f].id}
    BY <1>1, <1>7 DEF Ends, Lapses, TypeOK
  <2>4. up[p] /\ run[p][f].id \in active[p]
    BY <1>3, <2>1
  <2> QED
    BY <1>2, <2>1, <2>2, <2>3, <2>4
<1>8. CASE Refuses(p)
  BY <1>2, <1>8 DEF Refuses, claims
<1>9. CASE Crash(p)
  <2>1. \A q \in Proc : ~ up'[q]
    BY <1>1, <1>9 DEF Crash, OneProcess, TypeOK
  <2> QED
    BY <2>1 DEF NewerIsListed
<1>10. CASE Creates(p)
  <2>1. PICK v \in Version : Create(p, v)
    BY <1>10 DEF Creates
  <2>2. \A q \in Proc : up'[q] => q = p
    BY <1>1, <2>1 DEF Create, TypeOK
  <2>3. orphaned'[p] = {i \in Id : rows[i] # NoRow}
    BY <1>1, <2>1 DEF Create, Listed, TypeOK
  <2>4. rows' = rows /\ active' = active /\ active[p] = {}
    <3>1. \A f \in Fiber : run[p][f] = NoRun
      BY <2>1 DEF Create, OneProcess
    <3>2. active[p] \subseteq Id
      BY <1>1 DEF TypeOK
    <3> QED
      BY <2>1, <3>1, <3>2 DEF Create, db, ClaimInv, ClaimedIffRun
  <2> QED
    BY <2>2, <2>3, <2>4 DEF NewerIsListed
<1>11. CASE Aside(p)
  BY <1>11 DEF Aside, NewerIsListed, claims
<1> QED
  BY <1>4, <1>5, <1>6, <1>7, <1>8, <1>9, <1>10, <1>11 DEF RowStep

\* "An older runtime must not destroy a newer writer's state": under every
\* fault, a row newer than all running builds is neither written nor deleted,
\* where newer rows still decode and runtimes do not share the table.
THEOREM NewerRowsSurvive ==
    ASSUME Shared = FALSE, NewerDecodes = TRUE
    PROVE  Spec => NewerRowPreserved
<1> DEFINE Preserved == \A i \in Id :
             /\ rows[i] # NoRow
             /\ \A p \in Proc : up[p] => version[p] < rows[i].version
             => rows'[i] = rows[i]
<1>1. Init => NewerIsListed
  BY DEF Init, NewerIsListed
<1>2. ClaimInv /\ OneProcess /\ NewerIsListed /\ [Next]_vars => NewerIsListed'
  <2>1. ASSUME ClaimInv, OneProcess, NewerIsListed, Next PROVE NewerIsListed'
    BY <2>1, NextRowStep, RowStepKeepsNewer DEF ClaimInv
  <2>2. ASSUME NewerIsListed, UNCHANGED vars PROVE NewerIsListed'
    BY <2>2 DEF NewerIsListed, vars
  <2> QED
    BY <2>1, <2>2
<1>3. ClaimInv /\ OneProcess /\ NewerIsListed /\ [Next]_vars => [Preserved]_vars
  <2>1. SUFFICES ASSUME ClaimInv, OneProcess, NewerIsListed, Next,
                        NEW i \in Id, rows[i] # NoRow,
                        \A p \in Proc : up[p] => version[p] < rows[i].version
                 PROVE  rows'[i] = rows[i]
    BY <2>1
  <2>2. PICK p \in Proc : RowStep(p)
    BY <2>1, NextRowStep DEF ClaimInv
  <2>3. rows[i].version \in Nat /\ version[p] \in Nat
    BY <2>1, RowFields, ConstantsAssumption DEF ClaimInv, TypeOK
  <2>4. up[p] => i \in orphaned[p] /\ i \notin active[p]
    BY <2>1, <2>3 DEF NewerIsListed
  <2> QED
    BY <2>1, <2>2, <2>4, RowsTouched
<1>4. Spec => []NewerIsListed
  BY <1>1, <1>2, ClaimInvariant, OneProcessInvariant, PTL DEF Spec
<1> QED
  BY <1>3, <1>4, ClaimInvariant, OneProcessInvariant, PTL DEF Spec, NewerRowPreserved

---------------------------------------------------------------------------
(* The refinement: rows, claims and crashes together are a durable job.    *)

JobSeen(row, running) ==
    IF row = NoRow THEN Abstract!Absent
    ELSE [phase |-> IF running THEN "running" ELSE "interrupted", step |-> row.step]

\* The abstract job, read off the one runtime that is up, if one is.
JobsSeen ==
    /\ \A p \in Proc : up[p] =>
           jobBar = [i \in Id |-> JobSeen(rows[i], i \in active[p])]
    /\ (\A p \in Proc : ~ up[p]) =>
           jobBar = [i \in Id |-> JobSeen(rows[i], FALSE)]

LEMMA JobsAreSeen == ClaimInv /\ OneProcess => JobsSeen
<1> SUFFICES ASSUME ClaimInv, OneProcess PROVE JobsSeen
  OBVIOUS
<1>1. \A p \in Proc : active[p] = RunningIn(p)
  BY ClaimInvImpliesMatch DEF ClaimsMatchRuns
<1>2. \A p \in Proc : ~ up[p] => active[p] = {}
  BY <1>1 DEF OneProcess, RunningIn
<1>3. \A i \in Id : JobOf(i) = JobSeen(rows[i], \E p \in Proc : i \in active[p])
  BY <1>1 DEF JobOf, JobSeen, Abstract!Absent
<1>4. ASSUME NEW p \in Proc, up[p]
      PROVE  jobBar = [i \in Id |-> JobSeen(rows[i], i \in active[p])]
  <2>1. \A i \in Id : (\E q \in Proc : i \in active[q]) <=> i \in active[p]
    BY <1>2, <1>4 DEF OneProcess
  <2>2. \A i \in Id : JobOf(i) = JobSeen(rows[i], i \in active[p])
    BY <1>3, <2>1 DEF JobSeen
  <2> QED
    BY <2>2 DEF jobBar
<1>5. ASSUME \A p \in Proc : ~ up[p]
      PROVE  jobBar = [i \in Id |-> JobSeen(rows[i], FALSE)]
  <2>1. \A i \in Id : JobOf(i) = JobSeen(rows[i], FALSE)
    BY <1>2, <1>3, <1>5 DEF JobSeen
  <2> QED
    BY <2>1 DEF jobBar
<1> QED
  BY <1>4, <1>5 DEF JobsSeen

LEMMA StepRefines ==
    ASSUME ClaimInv, OneProcess, ExclusiveRun, Ahead, CheckpointCurrent,
           RowMeansInFlight, JobsSeen, JobsSeen',
           Shared = FALSE, NewerDecodes = TRUE, Chain = 1, Faults \subseteq {"approval"},
           NEW p \in Proc, RowStep(p)
    PROVE  Abstract!Next \/ jobBar' = jobBar
<1>1. TypeOK
  BY DEF ClaimInv
<1>2. \A f \in Fiber : run[p][f] # NoRun =>
         up[p] /\ run[p][f].id \in active[p] /\ run[p][f].id \in Id
  BY <1>1, RunsAreActive, RunsTyped DEF OneProcess
<1>3. \A f \in Fiber : run[p][f] # NoRun =>
         /\ rows[run[p][f].id] # NoRow
         /\ rows[run[p][f].id].step = run[p][f].step
  BY DEF CheckpointCurrent
<1>4. up[p] => jobBar = [i \in Id |-> JobSeen(rows[i], i \in active[p])]
  BY DEF JobsSeen
<1>5. up'[p] => jobBar' = [i \in Id |-> JobSeen(rows'[i], i \in active'[p])]
  BY DEF JobsSeen
<1>6. ASSUME NEW f \in Fiber, Moves(p, f)
      PROVE  jobBar' = jobBar
  BY <1>2, <1>4, <1>5, <1>6 DEF Moves, claims
<1>7. ASSUME NEW f \in Fiber, Restarts(p, f) PROVE FALSE
  BY <1>7 DEF Restarts, Ahead
<1>8. ASSUME NEW f \in Fiber, Completes(p, f)
      PROVE  \E i \in Id : Abstract!Advance(i)
  <2>1. PICK r \in Run : /\ r.id = run[p][f].id /\ r.step = run[p][f].step + 1
                         /\ ReportStep(p, r)
    BY <1>8 DEF Completes
  <2> DEFINE i == r.id
  <2>2. /\ run[p][f] # NoRun /\ up[p] /\ up'[p] /\ active' = active
        /\ i \in Id /\ i \in active[p]
    BY <1>2, <1>8, <2>1 DEF Completes, claims
  <2>3. /\ \A k \in Id : k # i => rows'[k] = rows[k]
        /\ rows'[i] # NoRow /\ rows'[i].step = r.step
    BY <1>1, <2>1, <2>2, RowsReported, CheckpointFields
  <2>4. rows[i] # NoRow /\ rows[i].step = run[p][f].step
    BY <1>3, <2>1, <2>2
  <2> HIDE DEF i
  <2>5. /\ jobBar[i] = [phase |-> "running", step |-> rows[i].step]
        /\ jobBar'[i] = [phase |-> "running", step |-> rows[i].step + 1]
    BY <1>4, <1>5, <2>1, <2>2, <2>3, <2>4 DEF JobSeen
  <2>6. \A k \in Id : k # i => jobBar'[k] = jobBar[k]
    BY <1>4, <1>5, <2>2, <2>3
  <2>7. /\ jobBar = [k \in Id |-> jobBar[k]]
        /\ jobBar' = [k \in Id |-> jobBar'[k]]
    BY <1>4, <1>5, <2>2
  <2>8. jobBar' = [jobBar EXCEPT ![i].step = @ + 1]
    BY <2>2, <2>5, <2>6, <2>7
  <2>9. Abstract!Advance(i)
    BY <2>5, <2>8 DEF Abstract!Advance
  <2> QED
    BY <2>2, <2>9
<1>9. ASSUME NEW f \in Fiber, Starts(p, f)
      PROVE  \E i \in Id : Abstract!Start(i)
  <2>1. PICK r \in Run : /\ r.id \notin active[p] \cup orphaned[p] /\ r.step = 0
                         /\ ReportStep(p, r)
                         /\ active' = [active EXCEPT ![p] = @ \cup {r.id}]
    BY <1>9 DEF Starts
  <2> DEFINE i == r.id
  <2>2. i \in Id /\ up[p] /\ up'[p] /\ active'[p] = active[p] \cup {i}
    BY <1>1, <1>9, <2>1, RunFields DEF Starts, TypeOK
  <2>3. /\ \A k \in Id : k # i => rows'[k] = rows[k]
        /\ rows'[i] # NoRow /\ rows'[i].step = 0
    BY <1>1, <2>1, <2>2, RowsReported, CheckpointFields
  <2>4. rows[i] = NoRow
    BY <2>1, <2>2 DEF RowMeansInFlight
  <2> HIDE DEF i
  <2>5. /\ jobBar[i] = Abstract!Absent
        /\ jobBar'[i] = [phase |-> "running", step |-> 0]
    BY <1>4, <1>5, <2>2, <2>3, <2>4 DEF JobSeen
  <2>6. \A k \in Id : k # i => jobBar'[k] = jobBar[k]
    BY <1>4, <1>5, <2>2, <2>3
  <2>7. /\ jobBar = [k \in Id |-> jobBar[k]]
        /\ jobBar' = [k \in Id |-> jobBar'[k]]
    BY <1>4, <1>5, <2>2
  <2> QED
    BY <2>2, <2>5, <2>6, <2>7 DEF Abstract!Start
<1>10. ASSUME NEW f \in Fiber, Resumes(p, f)
       PROVE  \E i \in Id : Abstract!Resume(i)
  <2>1. PICK r \in Run : /\ r.id \notin active[p] /\ rows[r.id] # NoRow
                         /\ active' = [active EXCEPT ![p] = @ \cup {r.id}]
    BY <1>10 DEF Resumes
  <2> DEFINE i == r.id
  <2>2. /\ i \in Id /\ up[p] /\ up'[p] /\ active'[p] = active[p] \cup {i}
        /\ rows' = rows
    BY <1>1, <1>10, <2>1, RunFields DEF Resumes, TypeOK
  <2> HIDE DEF i
  <2>3. /\ jobBar[i] = [phase |-> "interrupted", step |-> rows[i].step]
        /\ jobBar'[i] = [phase |-> "running", step |-> rows[i].step]
    BY <1>4, <1>5, <2>1, <2>2 DEF JobSeen, i
  <2>4. \A k \in Id : k # i => jobBar'[k] = jobBar[k]
    BY <1>4, <1>5, <2>2
  <2>5. /\ jobBar = [k \in Id |-> jobBar[k]]
        /\ jobBar' = [k \in Id |-> jobBar'[k]]
    BY <1>4, <1>5, <2>2
  <2>6. jobBar' = [jobBar EXCEPT ![i].phase = "running"]
    BY <2>2, <2>3, <2>4, <2>5
  <2>7. Abstract!Resume(i)
    BY <2>3, <2>6 DEF Abstract!Resume
  <2> QED
    BY <2>2, <2>7
<1>11. ASSUME NEW f \in Fiber, Ends(p, f)
       PROVE  \E i \in Id : Abstract!End(i)
  <2> DEFINE i == run[p][f].id
  <2>1. run[p][f] # NoRun /\ Release(p, f) /\ up' = up /\ DeleteRow(i)
    BY <1>11 DEF Ends
  <2>2. i \in Id /\ up[p] /\ up'[p] /\ i \in active[p] /\ rows[i] # NoRow
    BY <1>2, <1>3, <2>1
  <2>3. active'[p] = active[p] \ {i}
    BY <1>1, <2>1, ClaimReleased
  <2>4. \A k \in Id : rows'[k] = IF k = i THEN NoRow ELSE rows[k]
    BY <1>1, <2>1, <2>2, RowsDeleted
  <2> HIDE DEF i
  <2>5. jobBar[i].phase = "running" /\ jobBar'[i] = Abstract!Absent
    BY <1>4, <1>5, <2>2, <2>3, <2>4 DEF JobSeen
  <2>6. \A k \in Id : k # i => jobBar'[k] = jobBar[k]
    BY <1>4, <1>5, <2>2, <2>3, <2>4
  <2>7. /\ jobBar = [k \in Id |-> jobBar[k]]
        /\ jobBar' = [k \in Id |-> jobBar'[k]]
    BY <1>4, <1>5, <2>2
  <2> QED
    BY <2>2, <2>5, <2>6, <2>7 DEF Abstract!End
<1>12. ASSUME up[p], rows' = rows,
              NEW S \in SUBSET active[p], S \subseteq {i \in Id : rows[i] # NoRow},
              jobBar' = [i \in Id |-> JobSeen(rows[i], i \in active[p] \ S)]
       PROVE  Abstract!Interrupt
  <2>1. \A i \in Id : /\ i \in S => jobBar[i].phase = "running"
                      /\ jobBar'[i] = IF i \in S
                                      THEN [jobBar[i] EXCEPT !.phase = "interrupted"]
                                      ELSE jobBar[i]
    BY <1>4, <1>12 DEF JobSeen
  <2>2. S \in SUBSET {i \in Id : jobBar[i].phase = "running"}
    BY <1>12, <2>1
  <2>3. jobBar' = [i \in Id |-> IF i \in S
                                THEN [jobBar[i] EXCEPT !.phase = "interrupted"]
                                ELSE jobBar[i]]
    BY <1>12, <2>1
  <2> QED
    BY <2>2, <2>3 DEF Abstract!Interrupt
<1>13. ASSUME NEW f \in Fiber, Lapses(p, f)
       PROVE  Abstract!Interrupt
  <2>1. run[p][f] # NoRun /\ Release(p, f) /\ up' = up /\ rows' = rows
    BY <1>13 DEF Lapses
  <2>2. active'[p] = active[p] \ {run[p][f].id}
    BY <1>1, <2>1, ClaimReleased
  <2>3. up[p] /\ up'[p] /\ run[p][f].id \in active[p] /\ run[p][f].id \in Id
    BY <1>2, <2>1
  <2>4. jobBar' = [i \in Id |-> JobSeen(rows[i], i \in active[p] \ {run[p][f].id})]
    BY <1>5, <2>1, <2>2, <2>3
  <2>5. rows[run[p][f].id] # NoRow
    BY <1>3, <2>1
  <2> QED
    BY <1>12, <2>1, <2>3, <2>4, <2>5
<1>14. CASE Crash(p)
  <2>1. rows' = rows /\ up[p] /\ \A q \in Proc : ~ up'[q]
    BY <1>1, <1>14 DEF Crash, OneProcess, TypeOK, db
  <2>2. \A i \in active[p] : i \in Id /\ rows[i] # NoRow
    <3>1. active[p] = RunningIn(p)
      BY ClaimInvImpliesMatch DEF ClaimsMatchRuns
    <3> QED
      BY <1>2, <1>3, <3>1 DEF RunningIn
  <2>3. jobBar' = [i \in Id |-> JobSeen(rows[i], FALSE)]
    BY <2>1 DEF JobsSeen
  <2>4. jobBar' = [i \in Id |-> JobSeen(rows[i], i \in active[p] \ active[p])]
    BY <2>3 DEF JobSeen
  <2> QED
    BY <1>12, <2>1, <2>2, <2>4 DEF Abstract!Next
<1>15. CASE Creates(p)
  <2>1. PICK v \in Version : Create(p, v)
    BY <1>15 DEF Creates
  <2>2. /\ \A q \in Proc : ~ up[q]
        /\ up'[p] /\ rows' = rows /\ active' = active
    BY <1>1, <2>1 DEF Create, TypeOK, db
  <2>3. active[p] = {}
    <3>1. active[p] = RunningIn(p)
      BY ClaimInvImpliesMatch DEF ClaimsMatchRuns
    <3> QED
      BY <2>2, <3>1 DEF RunningIn, OneProcess
  <2>4. jobBar = [i \in Id |-> JobSeen(rows[i], FALSE)]
    BY <2>2 DEF JobsSeen
  <2>5. \A i \in Id : JobSeen(rows[i], FALSE) = JobSeen(rows[i], i \in active[p])
    BY <2>3 DEF JobSeen
  <2> QED
    BY <1>5, <2>2, <2>4, <2>5
<1>16. CASE Refuses(p)
  <2>1. PICK i \in Id : i \notin active[p] \cup orphaned[p] /\ DeleteRow(i)
    BY <1>16 DEF Refuses
  <2>2. up[p] /\ up'[p] /\ active' = active
    BY <1>16 DEF Refuses, claims
  <2>3. rows[i] = NoRow
    BY <2>1, <2>2 DEF RowMeansInFlight
  <2>4. \A k \in Id : rows'[k] = rows[k]
    BY <1>1, <2>1, <2>3, RowsDeleted
  <2> QED
    BY <1>4, <1>5, <2>2, <2>4
<1>17. CASE Aside(p)
  <2>1. rows' = rows /\ active' = active /\ up' = up
    BY <1>17 DEF Aside, claims
  <2>2. CASE up[p]
    BY <1>4, <1>5, <2>1, <2>2
  <2>3. CASE ~ up[p] /\ \E q \in Proc : up[q]
    BY <2>1, <2>3 DEF JobsSeen
  <2>4. CASE \A q \in Proc : ~ up[q]
    BY <2>1, <2>4 DEF JobsSeen
  <2> QED
    BY <2>2, <2>3, <2>4
<1> QED
  BY <1>6, <1>7, <1>8, <1>9, <1>10, <1>11, <1>13, <1>14, <1>15, <1>16, <1>17
  DEF RowStep, Abstract!Next

\* Claims, rows, crashes and recoveries implement the durable job: an invoke
\* is started only when absent, moves one completed batch at a time, keeps its
\* progress through every crash and goes on from where it was.
THEOREM DurableJobImplemented ==
    ASSUME Shared = FALSE, NewerDecodes = TRUE, Chain = 1, Faults \subseteq {"approval"}
    PROVE  Spec => ImplementsDurableJob
<1>1. Init => Abstract!Init
  BY DEF Init, Abstract!Init, Abstract!Absent, jobBar, JobOf
<1> DEFINE Inv == /\ ClaimInv /\ OneProcess /\ ExclusiveRun /\ Ahead
                  /\ CheckpointCurrent /\ RowMeansInFlight /\ JobsSeen
<1>2. Inv /\ Inv' /\ [Next]_vars => [Abstract!Next]_jobBar
  <2>1. ASSUME Inv, Inv', Next PROVE Abstract!Next \/ jobBar' = jobBar
    BY <2>1, NextRowStep, StepRefines DEF ClaimInv
  <2>2. ASSUME UNCHANGED vars PROVE jobBar' = jobBar
    BY <2>2 DEF vars, jobBar, JobOf, RunningIn
  <2> QED
    BY <2>1, <2>2
<1>3. Spec => []Inv
  <2>1. "save" \notin Faults /\ Faults \subseteq {"save", "approval"}
    OBVIOUS
  <2>2. /\ Spec => []OneProcess
        /\ Spec => []ExclusiveRun
        /\ Spec => []Ahead
        /\ Spec => []CheckpointCurrent
        /\ Spec => []RowMeansInFlight
    BY <2>1, OneProcessInvariant, NothingRunsTwice, AheadInvariant, RowsAreCurrent,
       RowsMeanInFlight
  <2> QED
    BY <2>2, ClaimInvariant, JobsAreSeen, PTL
<1> QED
  BY <1>1, <1>2, <1>3, PTL DEF Spec, Abstract!Spec, ImplementsDurableJob
=============================================================================
