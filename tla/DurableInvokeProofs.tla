------------------------ MODULE DurableInvokeProofs ------------------------
(***************************************************************************)
(* Theorems about DurableInvoke for every value of its constants.          *)
(***************************************************************************)
EXTENDS DurableInvoke, TLAPS

---------------------------------------------------------------------------
(* Type correctness *)

LEMMA RunFields ==
    ASSUME NEW r \in Run
    PROVE  /\ r.pc \in Place /\ r.id \in Id /\ r.job \in Job
           /\ r.agent \in Agent /\ r.step \in Nat /\ r.iter \in Nat
           /\ r.budget \in Nat /\ r.left \in Nat
           /\ r.resumed \in BOOLEAN /\ r.cancelled \in BOOLEAN
           /\ r.origin \in Origin /\ r.origin.agent \in Agent
           /\ r.origin.step \in Nat /\ r.origin.iter \in Nat
BY DEF Run, Origin

LEMMA CheckpointType ==
    ASSUME TypeOK, NEW p \in Proc, NEW r \in Run
    PROVE  Checkpoint(p, r) \in Row
BY RunFields DEF TypeOK, Checkpoint, Row

LEMMA ReportStepType ==
    ASSUME TypeOK, NEW p \in Proc, NEW r \in Run, ReportStep(p, r)
    PROVE  /\ rows' \in [Id -> Row \cup {NoRow}]
           /\ saved' \in [Job -> Nat]
<1>1. r.id \in Id /\ r.job \in Job /\ r.step \in Nat
  BY RunFields
<1>2. Checkpoint(p, r) \in Row
  BY CheckpointType
<1>3. saved[r.job] \in Nat
  BY <1>1 DEF TypeOK
<1>4. Larger(saved[r.job], r.step) \in Nat
  BY <1>1, <1>3 DEF Larger
<1>5. CASE /\ rows'  = [rows EXCEPT ![r.id] = Checkpoint(p, r)]
           /\ saved' = [saved EXCEPT ![r.job] = Larger(saved[r.job], r.step)]
  <2>1. rows' \in [Id -> Row \cup {NoRow}]
    BY <1>1, <1>2, <1>5 DEF TypeOK
  <2>2. saved' \in [Job -> Nat]
    BY <1>1, <1>4, <1>5 DEF TypeOK
  <2> QED
    BY <2>1, <2>2
<1>6. CASE UNCHANGED << rows, saved >>
  BY <1>6 DEF TypeOK
<1> QED
  BY <1>5, <1>6 DEF ReportStep

LEMMA BeginType ==
    ASSUME NEW i \in Id, NEW j \in Job, NEW o \in Origin, NEW b \in BOOLEAN
    PROVE  Begin(i, j, o, b) \in Run
BY ConstantsAssumption DEF Begin, Run, Origin, Place

LEMMA FinishType ==
    ASSUME TypeOK, NEW p \in Proc, NEW f \in Fiber, run[p][f] # NoRun,
           NEW o, Finish(p, f, o)
    PROVE  TypeOK'
<1>1. run[p][f] \in Run
  BY DEF TypeOK
<1>2. run[p][f].id \in Id /\ run[p][f].job \in Job
  BY <1>1, RunFields
<1>3. rows' \in [Id -> Row \cup {NoRow}]
  BY <1>2 DEF TypeOK, Finish, DeleteRow
<1>4. finished' \subseteq Job
  BY <1>2 DEF TypeOK, Finish
<1>5. orphaned' \in [Proc -> SUBSET Id]
  BY <1>2 DEF TypeOK, Finish
<1>6. /\ run' \in [Proc -> [Fiber -> Run \cup {NoRun}]]
      /\ active' \in [Proc -> SUBSET Id]
      /\ recovering' \in [Proc -> SUBSET Id]
  BY <1>2 DEF TypeOK, Finish, Release
<1> QED
  BY <1>3, <1>4, <1>5, <1>6 DEF TypeOK, Finish, life

LEMMA FallbackType ==
    ASSUME TypeOK, NEW p \in Proc, NEW f \in Fiber, run[p][f] # NoRun,
           run[p][f].left > 0, Fallback(p, f)
    PROVE  TypeOK'
<1> DEFINE r == run[p][f]
           again == [r EXCEPT !.pc = "top", !.agent = r.origin.agent,
                              !.step = r.origin.step, !.iter = r.origin.iter,
                              !.budget = 0, !.left = r.left - 1]
<1>1. r \in Run
  BY DEF TypeOK
<1>2. again \in Run
  <2>1. /\ r.left - 1 \in Nat
        /\ r.origin.agent \in Agent
        /\ r.origin.step \in Nat /\ r.origin.iter \in Nat
    BY <1>1, RunFields
  <2> QED
    BY <1>1, <2>1 DEF Run, Place
<1>3. run' \in [Proc -> [Fiber -> Run \cup {NoRun}]]
  BY <1>2 DEF TypeOK, Fallback
<1>4. rows' \in [Id -> Row \cup {NoRow}] /\ saved' \in [Job -> Nat]
  <2>1. CASE r.resumed
    BY <2>1 DEF TypeOK, Fallback
  <2>2. CASE ~ r.resumed
    BY <1>2, <2>2, ReportStepType DEF Fallback
  <2> QED
    BY <2>1, <2>2
<1> QED
  BY <1>3, <1>4 DEF TypeOK, Fallback, claims, life

LEMMA FailType ==
    ASSUME TypeOK, NEW p \in Proc, NEW f \in Fiber, run[p][f] # NoRun,
           NEW kind, Fail(p, f, kind)
    PROVE  TypeOK'
BY FinishType, FallbackType DEF Fail

LEMMA LocalType ==
    ASSUME TypeOK, NEW p \in Proc, NEW f \in Fiber, NEW r \in Run, Local(p, f, r)
    PROVE  TypeOK'
BY DEF TypeOK, Local, db, claims, life

LEMMA AdvanceType ==
    ASSUME TypeOK, NEW p \in Proc, NEW f \in Fiber, run[p][f] # NoRun,
           NEW a \in Agent, Advance(p, f, a)
    PROVE  TypeOK'
<1> DEFINE r == [run[p][f] EXCEPT !.pc = "top", !.agent = a,
                                  !.step = @ + 1, !.iter = @ + 1]
<1>1. r \in Run
  <2>1. run[p][f] \in Run
    BY DEF TypeOK
  <2>2. run[p][f].step + 1 \in Nat /\ run[p][f].iter + 1 \in Nat
    BY <2>1, RunFields
  <2> QED
    BY <2>1, <2>2 DEF Run, Place
<1>2. ReportStep(p, r) /\ run' = [run EXCEPT ![p][f] = r]
  BY DEF Advance
<1> QED
  BY <1>1, <1>2, ReportStepType DEF TypeOK, Advance, claims, life

LEMMA EngineStepType ==
    ASSUME TypeOK, NEW p \in Proc, NEW f \in Fiber, EngineStep(p, f)
    PROVE  TypeOK'
<1> DEFINE r == run[p][f]
<1>1. r # NoRun /\ r \in Run
  BY DEF TypeOK, EngineStep, At, TimeOut, ForceStop, GenerateStop, ObserveCancel,
         CallLlm, FinalAnswer, LlmError, LlmCancelled, LlmRetry, ToolCalls,
         BatchDone, Handoff, BatchError, Suspend, Suspended
<1>2. CASE \E kind : Fail(p, f, kind)
  BY <1>1, <1>2, FailType
<1>3. CASE \E o : Finish(p, f, o)
  BY <1>1, <1>3, FinishType
<1>4. CASE GenerateStop(p, f)
  BY <1>1, <1>4, LocalType DEF GenerateStop, Run, Place
<1>5. CASE CallLlm(p, f)
  <2>1. Budget(r) \in Nat
    BY <1>1, RunFields, ConstantsAssumption DEF Budget, Larger
  <2> QED
    BY <1>1, <1>5, <2>1, LocalType DEF CallLlm, Run, Place
<1>6. CASE LlmRetry(p, f)
  <2>1. r.iter + 1 \in Nat
    BY <1>1, RunFields
  <2>2. [r EXCEPT !.pc = "top", !.iter = @ + 1] \in Run
    BY <1>1, <2>1 DEF Run, Place
  <2> QED
    BY <1>6, <2>2, LocalType DEF LlmRetry
<1>7. CASE ToolCalls(p, f)
  BY <1>1, <1>7, LocalType DEF ToolCalls, Run, Place
<1>8. CASE BatchDone(p, f)
  BY <1>1, <1>8, RunFields, AdvanceType DEF BatchDone
<1>9. CASE Handoff(p, f)
  BY <1>1, <1>9, AdvanceType DEF Handoff, TypeOK
<1>10. CASE Suspend(p, f)
  <2>1. [r EXCEPT !.pc = "suspending"] \in Run
    BY <1>1 DEF Run, Place
  <2>2. run' \in [Proc -> [Fiber -> Run \cup {NoRun}]]
    BY <1>10, <2>1 DEF Suspend, TypeOK
  <2>3. approvals' \subseteq Job
    BY <1>1, <1>10, RunFields DEF Suspend, TypeOK
  <2> QED
    BY <1>10, <2>2, <2>3 DEF Suspend, TypeOK, claims, life
<1> QED
  BY <1>2, <1>3, <1>4, <1>5, <1>6, <1>7, <1>8, <1>9, <1>10
  DEF EngineStep, TimeOut, ForceStop, ObserveCancel, FinalAnswer, LlmError,
      LlmCancelled, BatchError, Suspended

LEMMA CallType ==
    ASSUME TypeOK, NEW p \in Proc, NEW f \in Fiber, Call(p, f)
    PROVE  TypeOK'
<1>1. ASSUME NEW i \in Id, NEW a \in Agent, InvokeFresh(p, f, i, a)
      PROVE  TypeOK'
  <2> DEFINE r == Begin(i, jobs + 1, [agent |-> a, step |-> 0, iter |-> 0], FALSE)
  <2>1. jobs + 1 \in Job
    BY <1>1, ConstantsAssumption DEF TypeOK, InvokeFresh, Job
  <2>2. [agent |-> a, step |-> 0, iter |-> 0] \in Origin
    BY DEF Origin
  <2>3. r \in Run
    BY <2>1, <2>2, BeginType
  <2>4. ReportStep(p, r) /\ run' = [run EXCEPT ![p][f] = r]
    BY <1>1 DEF InvokeFresh
  <2>5. rows' \in [Id -> Row \cup {NoRow}] /\ saved' \in [Job -> Nat]
    BY <2>3, <2>4, ReportStepType
  <2>6. run' \in [Proc -> [Fiber -> Run \cup {NoRun}]]
    BY <2>3, <2>4 DEF TypeOK
  <2>7. jobs' \in 0 .. MaxJobs /\ active' \in [Proc -> SUBSET Id]
    BY <1>1, ConstantsAssumption DEF TypeOK, InvokeFresh
  <2> QED
    BY <1>1, <2>5, <2>6, <2>7 DEF TypeOK, InvokeFresh, life
<1>2. ASSUME NEW i \in Id, InvokeUnknownAgent(p, f, i)
      PROVE  TypeOK'
  BY <1>2 DEF TypeOK, InvokeUnknownAgent, DeleteRow, claims, life
<1>3. ASSUME NEW i \in Id, RecoverInvoke(p, f, i)
      PROVE  TypeOK'
  <2> DEFINE o == [agent |-> rows[i].agent, step |-> rows[i].step,
                   iter |-> rows[i].iter]
  <2>1. rows[i] \in Row
    BY <1>3 DEF TypeOK, RecoverInvoke
  <2>2. o \in Origin /\ rows[i].job \in Job
    BY <2>1 DEF Row, Origin
  <2>3. Begin(i, rows[i].job, o, TRUE) \in Run
    BY <2>2, BeginType
  <2>4. run' = [run EXCEPT ![p][f] = Begin(i, rows[i].job, o, TRUE)]
    BY <1>3 DEF RecoverInvoke
  <2>5. run' \in [Proc -> [Fiber -> Run \cup {NoRun}]]
    BY <2>3, <2>4 DEF TypeOK
  <2>6. active' \in [Proc -> SUBSET Id] /\ recovering' \in [Proc -> SUBSET Id]
    BY <1>3 DEF TypeOK, RecoverInvoke
  <2> QED
    BY <1>3, <2>5, <2>6 DEF TypeOK, RecoverInvoke, db, life
<1>4. CASE RequestCancel(p, f)
  <2>1. run[p][f] \in Run
    BY <1>4 DEF TypeOK, RequestCancel
  <2>2. [run[p][f] EXCEPT !.cancelled = TRUE] \in Run
    BY <2>1 DEF Run
  <2> QED
    BY <1>4, <2>2, LocalType DEF RequestCancel
<1> QED
  BY <1>1, <1>2, <1>3, <1>4 DEF Call

LEMMA InterruptType ==
    ASSUME TypeOK, NEW p \in Proc, NEW f \in Fiber, Interrupt(p, f)
    PROVE  TypeOK'
<1>1. run[p][f] \in Run
  BY DEF TypeOK, Interrupt, EioCancel, Raise
<1>2. run[p][f].id \in Id /\ run[p][f].job \in Job
  BY <1>1, RunFields
<1>3. /\ run' \in [Proc -> [Fiber -> Run \cup {NoRun}]]
      /\ active' \in [Proc -> SUBSET Id]
      /\ recovering' \in [Proc -> SUBSET Id]
  <2>1. Release(p, f)
    BY DEF Interrupt, EioCancel, Raise
  <2> QED
    BY <1>2, <2>1 DEF TypeOK, Release
<1>4. CASE EioCancel(p, f)
  <2>1. rows' \in [Id -> Row \cup {NoRow}]
    BY <1>2, <1>4 DEF TypeOK, EioCancel, DeleteRow
  <2>2. finished' \subseteq Job
    BY <1>2, <1>4 DEF TypeOK, EioCancel
  <2> QED
    BY <1>3, <1>4, <2>1, <2>2 DEF TypeOK, EioCancel, life
<1>5. CASE Raise(p, f)
  BY <1>3, <1>5 DEF TypeOK, Raise, db, life
<1> QED
  BY <1>4, <1>5 DEF Interrupt

LEMMA ProcessType ==
    ASSUME TypeOK, NEW p \in Proc, Process(p)
    PROVE  TypeOK'
<1>1. CASE Crash(p)
  BY <1>1, ConstantsAssumption DEF TypeOK, Crash, db
<1>2. ASSUME NEW v \in Version, Create(p, v)
      PROVE  TypeOK'
  BY <1>2 DEF TypeOK, Create, Listed, db
<1>3. ASSUME NEW a \in Agent, RegisterAgent(p, a)
      PROVE  TypeOK'
  BY <1>3 DEF TypeOK, RegisterAgent, db, claims
<1>4. CASE ResolveApproval(p)
  BY <1>4 DEF TypeOK, ResolveApproval, claims, life
<1> QED
  BY <1>1, <1>2, <1>3, <1>4 DEF Process

\* Every value the runtime keeps about an invoke stays in its type, through
\* every failure the environment can inject.
THEOREM TypeCorrect == Spec => []TypeOK
<1>1. Init => TypeOK
  BY ConstantsAssumption DEF Init, TypeOK
<1>2. TypeOK /\ [Next]_vars => TypeOK'
  <2>1. ASSUME TypeOK, Next
        PROVE  TypeOK'
    BY <2>1, EngineStepType, CallType, InterruptType, ProcessType DEF Next
  <2>2. ASSUME TypeOK, UNCHANGED vars
        PROVE  TypeOK'
    BY <2>2 DEF TypeOK, vars
  <2> QED
    BY <2>1, <2>2
<1> QED
  BY <1>1, <1>2, PTL DEF Spec

---------------------------------------------------------------------------
(* Claims and exclusion.  Every step moves the runs and the claims of one  *)
(* process in one of five ways.                                            *)

Keep(p, f) ==
    /\ run[p][f] # NoRun
    /\ \E r \in Run : /\ r.id = run[p][f].id
                      /\ r.resumed = run[p][f].resumed
                      /\ run' = [run EXCEPT ![p][f] = r]
    /\ UNCHANGED << active, recovering, up >>

Enter(p, f) ==
    /\ run[p][f] = NoRun /\ up[p]
    /\ \E r \in Run : /\ r.id \notin active[p]
                      /\ run' = [run EXCEPT ![p][f] = r]
                      /\ active' = [active EXCEPT ![p] = @ \cup {r.id}]
                      /\ recovering' = IF r.resumed
                                       THEN [recovering EXCEPT ![p] = @ \cup {r.id}]
                                       ELSE recovering
    /\ UNCHANGED up

Leave(p, f) ==
    run[p][f] # NoRun /\ Release(p, f) /\ UNCHANGED up

Clear(p) ==
    /\ run' = [run EXCEPT ![p] = [f \in Fiber |-> NoRun]]
    /\ active' = [active EXCEPT ![p] = {}]
    /\ recovering' = [recovering EXCEPT ![p] = {}]
    /\ up' = [up EXCEPT ![p] = FALSE]

Rest(p) ==
    /\ UNCHANGED << run, active, recovering >>
    /\ \/ UNCHANGED up
       \/ /\ ~ up[p] /\ up' = [up EXCEPT ![p] = TRUE]
          /\ Shared \/ \A q \in Proc : ~ up[q]

Shape(p) == \/ \E f \in Fiber : Keep(p, f) \/ Enter(p, f) \/ Leave(p, f)
            \/ Clear(p)
            \/ Rest(p)

LEMMA FallbackKeeps ==
    ASSUME TypeOK, NEW p \in Proc, NEW f \in Fiber, run[p][f] # NoRun,
           run[p][f].left > 0, Fallback(p, f)
    PROVE  Keep(p, f)
<1> DEFINE r == run[p][f]
           again == [r EXCEPT !.pc = "top", !.agent = r.origin.agent,
                              !.step = r.origin.step, !.iter = r.origin.iter,
                              !.budget = 0, !.left = r.left - 1]
<1>1. r \in Run
  BY DEF TypeOK
<1>2. /\ r.left - 1 \in Nat
      /\ r.origin.agent \in Agent
      /\ r.origin.step \in Nat /\ r.origin.iter \in Nat
  BY <1>1, RunFields
<1>3. again \in Run /\ again.id = r.id /\ again.resumed = r.resumed
  BY <1>1, <1>2 DEF Run, Place
<1>4. run' = [run EXCEPT ![p][f] = again] /\ UNCHANGED << active, recovering, up >>
  BY DEF Fallback, claims, life
<1> QED
  BY <1>3, <1>4 DEF Keep

LEMMA FailKeepsOrLeaves ==
    ASSUME TypeOK, NEW p \in Proc, NEW f \in Fiber, run[p][f] # NoRun,
           NEW kind, Fail(p, f, kind)
    PROVE  Keep(p, f) \/ Leave(p, f)
BY FallbackKeeps DEF Fail, Finish, Leave, life

LEMMA EngineStepShape ==
    ASSUME TypeOK, NEW p \in Proc, NEW f \in Fiber, EngineStep(p, f)
    PROVE  Keep(p, f) \/ Leave(p, f)
<1> DEFINE r == run[p][f]
<1>1. r # NoRun /\ r \in Run
  BY DEF TypeOK, EngineStep, At, TimeOut, ForceStop, GenerateStop, ObserveCancel,
         CallLlm, FinalAnswer, LlmError, LlmCancelled, LlmRetry, ToolCalls,
         BatchDone, Handoff, BatchError, Suspend, Suspended
<1>2. CASE \E kind : Fail(p, f, kind)
  BY <1>1, <1>2, FailKeepsOrLeaves
<1>3. CASE \E o : Finish(p, f, o)
  BY <1>1, <1>3 DEF Finish, Leave, life
<1>4. ASSUME NEW s \in Run, s.id = r.id, s.resumed = r.resumed, Local(p, f, s)
      PROVE  Keep(p, f)
  BY <1>1, <1>4 DEF Keep, Local, claims, life
<1>5. ASSUME NEW a \in Agent, Advance(p, f, a)
      PROVE  Keep(p, f)
  <2> DEFINE s == [r EXCEPT !.pc = "top", !.agent = a,
                            !.step = @ + 1, !.iter = @ + 1]
  <2>1. r.step + 1 \in Nat /\ r.iter + 1 \in Nat
    BY <1>1, RunFields
  <2>2. s \in Run /\ s.id = r.id /\ s.resumed = r.resumed
    BY <1>1, <2>1 DEF Run, Place
  <2>3. run' = [run EXCEPT ![p][f] = s] /\ UNCHANGED << active, recovering, up >>
    BY <1>5 DEF Advance, claims, life
  <2> QED
    BY <1>1, <2>2, <2>3 DEF Keep
<1>6. CASE GenerateStop(p, f) \/ ToolCalls(p, f)
  <2>1. ASSUME NEW place \in Place, Local(p, f, [r EXCEPT !.pc = place])
        PROVE  Keep(p, f)
    BY <1>1, <1>4, <2>1 DEF Run
  <2> QED
    BY <1>6, <2>1 DEF GenerateStop, ToolCalls, Place
<1>7. CASE CallLlm(p, f)
  <2>1. Budget(r) \in Nat
    BY <1>1, RunFields, ConstantsAssumption DEF Budget, Larger
  <2>2. [r EXCEPT !.pc = "llm", !.budget = Budget(r)] \in Run
    BY <1>1, <2>1 DEF Run, Place
  <2> QED
    BY <1>1, <1>4, <1>7, <2>2 DEF CallLlm, Run
<1>8. CASE LlmRetry(p, f)
  <2>1. r.iter + 1 \in Nat
    BY <1>1, RunFields
  <2>2. [r EXCEPT !.pc = "top", !.iter = @ + 1] \in Run
    BY <1>1, <2>1 DEF Run, Place
  <2> QED
    BY <1>1, <1>4, <1>8, <2>2 DEF LlmRetry, Run
<1>9. CASE BatchDone(p, f)
  BY <1>1, <1>5, <1>9, RunFields DEF BatchDone
<1>10. CASE Handoff(p, f)
  BY <1>5, <1>10 DEF Handoff, TypeOK
<1>11. CASE Suspend(p, f)
  <2>1. [r EXCEPT !.pc = "suspending"] \in Run
    BY <1>1 DEF Run, Place
  <2>2. /\ [r EXCEPT !.pc = "suspending"].id = r.id
        /\ [r EXCEPT !.pc = "suspending"].resumed = r.resumed
    BY <1>1 DEF Run
  <2>3. run' = [run EXCEPT ![p][f] = [r EXCEPT !.pc = "suspending"]]
    BY <1>11 DEF Suspend
  <2> QED
    BY <1>1, <1>11, <2>1, <2>2, <2>3 DEF Keep, Suspend, claims, life
<1> QED
  BY <1>2, <1>3, <1>6, <1>7, <1>8, <1>9, <1>10, <1>11
  DEF EngineStep, TimeOut, ForceStop, ObserveCancel, FinalAnswer, LlmError,
      LlmCancelled, BatchError, Suspended

LEMMA CallShape ==
    ASSUME TypeOK, NEW p \in Proc, NEW f \in Fiber, Call(p, f)
    PROVE  Keep(p, f) \/ Enter(p, f) \/ Rest(p)
<1>1. ASSUME NEW i \in Id, NEW a \in Agent, InvokeFresh(p, f, i, a)
      PROVE  Enter(p, f)
  <2> DEFINE r == Begin(i, jobs + 1, [agent |-> a, step |-> 0, iter |-> 0], FALSE)
  <2>1. jobs + 1 \in Job
    BY <1>1, ConstantsAssumption DEF TypeOK, InvokeFresh, Job
  <2>2. [agent |-> a, step |-> 0, iter |-> 0] \in Origin
    BY DEF Origin
  <2>3. r \in Run
    BY <2>1, <2>2, BeginType
  <2>4. r.id = i /\ r.resumed = FALSE
    BY DEF Begin
  <2>5. /\ run' = [run EXCEPT ![p][f] = r]
        /\ active' = [active EXCEPT ![p] = @ \cup {r.id}]
        /\ UNCHANGED << recovering, up >>
        /\ run[p][f] = NoRun /\ up[p] /\ r.id \notin active[p]
    BY <1>1, <2>4 DEF InvokeFresh, NotClaimed, Idle, life
  <2> QED
    BY <2>3, <2>4, <2>5 DEF Enter
<1>2. ASSUME NEW i \in Id, InvokeUnknownAgent(p, f, i)
      PROVE  Rest(p)
  BY <1>2 DEF Rest, InvokeUnknownAgent, claims, life
<1>3. ASSUME NEW i \in Id, RecoverInvoke(p, f, i)
      PROVE  Enter(p, f)
  <2> DEFINE o == [agent |-> rows[i].agent, step |-> rows[i].step,
                   iter |-> rows[i].iter]
             r == Begin(i, rows[i].job, o, TRUE)
  <2>1. rows[i] \in Row
    BY <1>3 DEF TypeOK, RecoverInvoke
  <2>2. o \in Origin /\ rows[i].job \in Job
    BY <2>1 DEF Row, Origin
  <2>3. r \in Run
    BY <2>2, BeginType
  <2>4. r.id = i /\ r.resumed = TRUE
    BY DEF Begin
  <2>5. /\ run' = [run EXCEPT ![p][f] = r]
        /\ active' = [active EXCEPT ![p] = @ \cup {r.id}]
        /\ recovering' = [recovering EXCEPT ![p] = @ \cup {r.id}]
        /\ UNCHANGED up
        /\ run[p][f] = NoRun /\ up[p] /\ r.id \notin active[p]
    BY <1>3, <2>4 DEF RecoverInvoke, NotClaimed, Idle, life
  <2> QED
    BY <2>3, <2>4, <2>5 DEF Enter
<1>4. CASE RequestCancel(p, f)
  <2> DEFINE r == run[p][f]
  <2>1. r \in Run /\ r # NoRun
    BY <1>4 DEF TypeOK, RequestCancel
  <2>2. /\ [r EXCEPT !.cancelled = TRUE] \in Run
        /\ [r EXCEPT !.cancelled = TRUE].id = r.id
        /\ [r EXCEPT !.cancelled = TRUE].resumed = r.resumed
    BY <2>1 DEF Run
  <2>3. /\ run' = [run EXCEPT ![p][f] = [r EXCEPT !.cancelled = TRUE]]
        /\ UNCHANGED << active, recovering, up >>
    BY <1>4 DEF RequestCancel, Local, claims, life
  <2> QED
    BY <2>1, <2>2, <2>3 DEF Keep
<1> QED
  BY <1>1, <1>2, <1>3, <1>4 DEF Call

LEMMA NextShape ==
    ASSUME TypeOK, Next
    PROVE  \E p \in Proc : Shape(p)
<1>1. ASSUME NEW p \in Proc, NEW f \in Fiber, Interrupt(p, f)
      PROVE  Leave(p, f)
  BY <1>1 DEF Interrupt, EioCancel, Raise, Leave, life
<1>2. ASSUME NEW p \in Proc, Process(p)
      PROVE  Clear(p) \/ Rest(p)
  BY <1>2 DEF Process, Crash, Create, RegisterAgent, ResolveApproval, Clear, Rest,
              claims, life
<1> QED
  BY <1>1, <1>2, EngineStepShape, CallShape DEF Next, Shape

\* Two fibers of one process never hold the same id ...
DistinctIds ==
    \A p \in Proc : \A f, g \in Fiber :
        run[p][f] # NoRun /\ run[p][g] # NoRun /\ run[p][f].id = run[p][g].id
            => f = g

\* ... and the claims of a process, id by id, are those of its runs.
ClaimedIffRun ==
    \A p \in Proc, i \in Id :
        /\ i \in active[p] <=>
               \E f \in Fiber : run[p][f] # NoRun /\ run[p][f].id = i
        /\ i \in recovering[p] <=>
               \E f \in Fiber : /\ run[p][f] # NoRun /\ run[p][f].id = i
                               /\ run[p][f].resumed

ClaimInv == TypeOK /\ DistinctIds /\ ClaimedIffRun

LEMMA ClaimInvImpliesMatch == ClaimInv => ClaimsMatchRuns
<1> SUFFICES ASSUME ClaimInv, NEW p \in Proc
             PROVE  active[p] = RunningIn(p) /\ recovering[p] = RecoveringIn(p)
  BY DEF ClaimsMatchRuns
<1>1. \A f \in Fiber : run[p][f] # NoRun => run[p][f].id \in Id
  <2>1. \A f \in Fiber : run[p][f] # NoRun => run[p][f] \in Run
    BY DEF ClaimInv, TypeOK
  <2> QED
    BY <2>1, RunFields
<1>2. active[p] \subseteq Id /\ recovering[p] \subseteq Id
  BY DEF ClaimInv, TypeOK
<1>3. active[p] = RunningIn(p)
  BY <1>1, <1>2 DEF ClaimInv, ClaimedIffRun, RunningIn
<1>4. recovering[p] = RecoveringIn(p)
  BY <1>1, <1>2 DEF ClaimInv, ClaimedIffRun, RecoveringIn
<1> QED
  BY <1>3, <1>4

\* The five shapes keep the invariant.
LEMMA ShapeKeepsClaims ==
    ASSUME ClaimInv, NEW p \in Proc, Shape(p)
    PROVE  DistinctIds' /\ ClaimedIffRun'
<1> USE DEF ClaimInv
<1>1. run \in [Proc -> [Fiber -> Run \cup {NoRun}]]
  BY DEF TypeOK
<1>2. /\ active \in [Proc -> SUBSET Id]
      /\ recovering \in [Proc -> SUBSET Id]
  BY DEF TypeOK
<1>3. NoRun \notin Run
  BY ConstantsAssumption
<1>4. ASSUME NEW f \in Fiber, Keep(p, f)
      PROVE  DistinctIds' /\ ClaimedIffRun'
  <2>1. PICK r \in Run : /\ r.id = run[p][f].id
                         /\ r.resumed = run[p][f].resumed
                         /\ run' = [run EXCEPT ![p][f] = r]
    BY <1>4 DEF Keep
  <2>2. /\ run[p][f] # NoRun /\ r # NoRun
        /\ UNCHANGED << active, recovering >>
    BY <1>3, <1>4 DEF Keep
  <2>3. \A q \in Proc, g \in Fiber :
           run'[q][g] = IF q = p /\ g = f THEN r ELSE run[q][g]
    BY <1>1, <2>1
  <2>4. \A q \in Proc, g \in Fiber :
           /\ (run'[q][g] # NoRun) <=> (run[q][g] # NoRun)
           /\ run[q][g] # NoRun => /\ run'[q][g].id = run[q][g].id
                                   /\ run'[q][g].resumed = run[q][g].resumed
    BY <2>1, <2>2, <2>3
  <2> HIDE <2>1
  <2>5. DistinctIds'
    BY <2>4 DEF DistinctIds
  <2>6. ClaimedIffRun'
    BY <2>2, <2>4 DEF ClaimedIffRun
  <2> QED
    BY <2>5, <2>6
<1>5. ASSUME NEW f \in Fiber, Enter(p, f)
      PROVE  DistinctIds' /\ ClaimedIffRun'
  <2>1. PICK r \in Run :
           /\ r.id \notin active[p]
           /\ run' = [run EXCEPT ![p][f] = r]
           /\ active' = [active EXCEPT ![p] = @ \cup {r.id}]
           /\ recovering' = IF r.resumed
                            THEN [recovering EXCEPT ![p] = @ \cup {r.id}]
                            ELSE recovering
    BY <1>5 DEF Enter
  <2>2. r # NoRun /\ run[p][f] = NoRun /\ r.id \in Id /\ r.resumed \in BOOLEAN
    BY <1>3, <1>5, RunFields DEF Enter
  <2>3. \A q \in Proc, g \in Fiber :
           run'[q][g] = IF q = p /\ g = f THEN r ELSE run[q][g]
    BY <1>1, <2>1
  <2>4. \A q \in Proc : active'[q] = IF q = p THEN active[p] \cup {r.id} ELSE active[q]
    BY <1>2, <2>1
  <2>5. \A q \in Proc : recovering'[q] = IF q = p /\ r.resumed
                                         THEN recovering[p] \cup {r.id}
                                         ELSE recovering[q]
    BY <1>2, <2>1
  <2>6. \A g \in Fiber : run[p][g] # NoRun => run[p][g].id # r.id
    BY <2>1, <2>2 DEF ClaimedIffRun
  <2>7. DistinctIds'
    BY <2>2, <2>3, <2>6 DEF DistinctIds
  <2>8. ClaimedIffRun'
    BY <2>2, <2>3, <2>4, <2>5, <2>6 DEF ClaimedIffRun
  <2> QED
    BY <2>7, <2>8
<1>6. ASSUME NEW f \in Fiber, Leave(p, f)
      PROVE  DistinctIds' /\ ClaimedIffRun'
  <2> DEFINE r == run[p][f]
  <2>1. r # NoRun /\ run' = [run EXCEPT ![p][f] = NoRun]
    BY <1>6 DEF Leave, Release
  <2>2. r \in Run /\ r.id \in Id /\ r.resumed \in BOOLEAN
    BY <1>1, <2>1, RunFields
  <2>3. \A q \in Proc, g \in Fiber :
           run'[q][g] = IF q = p /\ g = f THEN NoRun ELSE run[q][g]
    BY <1>1, <2>1
  <2>4. \A q \in Proc : active'[q] = IF q = p THEN active[p] \ {r.id} ELSE active[q]
    BY <1>2, <1>6 DEF Leave, Release
  <2>5. \A q \in Proc : recovering'[q] = IF q = p /\ r.resumed
                                         THEN recovering[p] \ {r.id}
                                         ELSE recovering[q]
    BY <1>2, <1>6 DEF Leave, Release
  <2>6. \A g \in Fiber : g # f /\ run[p][g] # NoRun => run[p][g].id # r.id
    BY <2>1 DEF DistinctIds
  <2>7. DistinctIds'
    BY <2>3 DEF DistinctIds
  <2>8. ClaimedIffRun'
    BY <2>1, <2>2, <2>3, <2>4, <2>5, <2>6 DEF ClaimedIffRun
  <2> QED
    BY <2>7, <2>8
<1>7. CASE Clear(p)
  <2>1. \A q \in Proc, g \in Fiber :
           run'[q][g] = IF q = p THEN NoRun ELSE run[q][g]
    BY <1>1, <1>7 DEF Clear
  <2>2. \A q \in Proc : /\ active'[q] = IF q = p THEN {} ELSE active[q]
                        /\ recovering'[q] = IF q = p THEN {} ELSE recovering[q]
    BY <1>2, <1>7 DEF Clear
  <2>3. DistinctIds'
    BY <2>1 DEF DistinctIds
  <2>4. ClaimedIffRun'
    BY <2>1, <2>2 DEF ClaimedIffRun
  <2> QED
    BY <2>3, <2>4
<1>8. CASE Rest(p)
  BY <1>8 DEF Rest, DistinctIds, ClaimedIffRun
<1> QED
  BY <1>4, <1>5, <1>6, <1>7, <1>8 DEF Shape

LEMMA ClaimInvariant == Spec => []ClaimInv
<1>1. Init => ClaimInv
  <2> SUFFICES ASSUME Init PROVE ClaimInv
    OBVIOUS
  <2>1. TypeOK
    BY ConstantsAssumption DEF Init, TypeOK
  <2>2. \A p \in Proc, f \in Fiber : run[p][f] = NoRun
    BY DEF Init
  <2>3. \A p \in Proc : active[p] = {} /\ recovering[p] = {}
    BY DEF Init
  <2> QED
    BY <2>1, <2>2, <2>3 DEF ClaimInv, DistinctIds, ClaimedIffRun
<1>2. ClaimInv /\ TypeOK' /\ [Next]_vars => ClaimInv'
  <2>1. ASSUME ClaimInv, TypeOK', Next
        PROVE  ClaimInv'
    <3>1. PICK p \in Proc : Shape(p)
      BY <2>1, NextShape DEF ClaimInv
    <3> QED
      BY <2>1, <3>1, ShapeKeepsClaims DEF ClaimInv
  <2>2. ASSUME ClaimInv, UNCHANGED vars
        PROVE  ClaimInv'
    BY <2>2 DEF ClaimInv, TypeOK, DistinctIds, ClaimedIffRun, vars
  <2> QED
    BY <2>1, <2>2
<1> QED
  BY <1>1, <1>2, TypeCorrect, PTL DEF Spec

\* Claims never leak: active_invokes and recovering_invokes name exactly the
\* runs of the process, through every fault, fallback and crash.
THEOREM ClaimsNeverLeak == Spec => []ClaimsMatchRuns
BY ClaimInvariant, ClaimInvImpliesMatch, PTL

\* Only one runtime is up at a time, and a process that is down runs nothing.
OneProcess ==
    /\ \A p, q \in Proc : up[p] /\ up[q] => p = q
    /\ \A p \in Proc, f \in Fiber : run[p][f] # NoRun => up[p]

LEMMA OneProcessInvariant ==
    ASSUME Shared = FALSE
    PROVE  Spec => []OneProcess
<1>1. Init => OneProcess
  BY DEF Init, OneProcess
<1>2. TypeOK /\ OneProcess /\ [Next]_vars => OneProcess'
  <2> SUFFICES ASSUME TypeOK, OneProcess, [Next]_vars PROVE OneProcess'
    OBVIOUS
  <2>1. run \in [Proc -> [Fiber -> Run \cup {NoRun}]] /\ up \in [Proc -> BOOLEAN]
    BY DEF TypeOK
  <2>2. ASSUME NEW p \in Proc, Shape(p) PROVE OneProcess'
    <3>1. ASSUME NEW f \in Fiber, Keep(p, f) \/ Enter(p, f) \/ Leave(p, f)
          PROVE  OneProcess'
      <4>1. up' = up /\ up[p]
        BY <3>1 DEF Keep, Enter, Leave, OneProcess
      <4>2. PICK r : run' = [run EXCEPT ![p][f] = r]
        BY <3>1 DEF Keep, Enter, Leave, Release
      <4>3. \A q \in Proc, g \in Fiber : q # p => run'[q][g] = run[q][g]
        BY <2>1, <4>2
      <4> QED
        BY <4>1, <4>3 DEF OneProcess
    <3>2. CASE Clear(p)
      <4>1. \A q \in Proc, g \in Fiber :
               run'[q][g] = IF q = p THEN NoRun ELSE run[q][g]
        BY <2>1, <3>2 DEF Clear
      <4>2. \A q \in Proc : up'[q] = IF q = p THEN FALSE ELSE up[q]
        BY <2>1, <3>2 DEF Clear
      <4> QED
        BY <4>1, <4>2 DEF OneProcess
    <3>3. CASE Rest(p)
      BY <2>1, <3>3 DEF Rest, OneProcess
    <3> QED
      BY <2>2, <3>1, <3>2, <3>3 DEF Shape
  <2>3. CASE Next
    BY <2>2, <2>3, NextShape
  <2>4. CASE UNCHANGED vars
    BY <2>4 DEF OneProcess, vars
  <2> QED
    BY <2>3, <2>4
<1> QED
  BY <1>1, <1>2, TypeCorrect, PTL DEF Spec

\* Where runtimes do not share a database, an id is never run twice at once.
THEOREM NothingRunsTwice ==
    ASSUME Shared = FALSE
    PROVE  Spec => []ExclusiveRun
<1>1. ClaimInv /\ OneProcess => ExclusiveRun
  BY DEF ClaimInv, DistinctIds, OneProcess, ExclusiveRun
<1> QED
  BY <1>1, OneProcessInvariant, ClaimInvariant, PTL
=============================================================================
