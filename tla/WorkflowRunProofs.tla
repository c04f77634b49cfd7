-------------------------- MODULE WorkflowRunProofs --------------------------
(***************************************************************************)
(* Proofs about WorkflowRun for every definition, policy and fault set and *)
(* any number of fibers, runs and crashes: types, and, where a caller      *)
(* recovers an orphaned run once, every safety property the runs check.    *)
(***************************************************************************)
EXTENDS WorkflowRun, TLAPS

---------------------------------------------------------------------------
(* Types *)

\* A work step is under way where its fiber says so, and a suspended run is
\* suspended at a step.
Place ==
    /\ \A f \in Fiber : At(f, "step") =>
           fiber[f].next \in 1 .. Last /\ Step[fiber[f].next] = "work"
    /\ \A r \in RunId : /\ status[r].phase = "suspended" => status[r].at # 0
                        /\ rows[r].phase = "suspended" => rows[r].at # 0

LEMMA Constants == Last \in Nat /\ MaxCrashes \in Nat
BY ConstantsAssumption DEF Last

LEMMA CountType == ASSUME NEW n \in Nat PROVE Count(n) \in Nat /\ Count(n) <= n + 1 /\ Count(n) >= n
BY Constants DEF Count

LEMMA States ==
    ASSUME NEW ph \in Phase, NEW n \in 0 .. Last
    PROVE  In(ph, n) \in State /\ In(ph, n).phase = ph /\ In(ph, n).at = n
BY DEF In, State

LEMMA SaveType ==
    ASSUME TypeOK, NEW r \in RunId, NEW s \in State, Save(r, s)
    PROVE  /\ rows' \in [RunId -> State]
           /\ recorded' \in [RunId -> 0 .. Last]
           /\ stale' \subseteq RunId
<1>1. Larger(recorded[r], s.at) \in 0 .. Last
  BY Constants DEF Larger, TypeOK, State
<1> QED
  BY <1>1 DEF Save, TypeOK

LEMMA EnterType ==
    ASSUME TypeOK, NEW r \in RunId, NEW s \in State, Enter(r, s)
    PROVE  /\ status' \in [RunId -> State]
           /\ rows' \in [RunId -> State]
           /\ recorded' \in [RunId -> 0 .. Last]
           /\ stale' \subseteq RunId
BY SaveType DEF Enter, TypeOK

LEMMA ExecutionFields ==
    ASSUME TypeOK, NEW f \in Fiber, fiber[f] # Idle
    PROVE  /\ fiber[f] \in Execution
           /\ fiber[f].run \in RunId
           /\ fiber[f].pc \in {"next", "step", "completed", "failed", "callback"}
           /\ fiber[f].next \in 1 .. Last + 1
           /\ fiber[f].entered \in {"submit", "async", "checkpoint"}
           /\ fiber[f].hooked \in BOOLEAN
<1>1. fiber[f] \in Execution
  BY DEF TypeOK
<1> QED
  BY <1>1 DEF Execution

LEMMA LocalType ==
    ASSUME TypeOK, NEW f \in Fiber, NEW e \in Execution, Local(f, e)
    PROVE  /\ fiber' \in [Fiber -> Execution \cup {Idle}]
           /\ \A g \in Fiber : fiber'[g] = IF g = f THEN e ELSE fiber[g]
BY DEF Local, TypeOK

\* What a fiber remembers when its place changes, and when it goes on.
LEMMA Moved ==
    ASSUME NEW e \in Execution, NEW pc \in {"next", "step", "completed", "failed", "callback"},
           NEW d, d = [e EXCEPT !.pc = pc]
    PROVE  /\ d \in Execution /\ d.run = e.run /\ d.pc = pc /\ d.next = e.next
           /\ d.entered = e.entered /\ d.hooked = e.hooked
BY DEF Execution

LEMMA Advanced ==
    ASSUME NEW e \in Execution, e.next \in 1 .. Last,
           NEW d, d = [e EXCEPT !.pc = "next", !.next = @ + 1]
    PROVE  /\ d \in Execution /\ d.run = e.run /\ d.pc = "next" /\ d.next = e.next + 1
           /\ d.entered = e.entered /\ d.hooked = e.hooked
<1>1. e.next + 1 \in 1 .. Last + 1
  BY Constants
<1>2. d = [run |-> e.run, pc |-> "next", next |-> e.next + 1,
           entered |-> e.entered, hooked |-> e.hooked]
  BY DEF Execution
<1> QED
  BY <1>1, <1>2 DEF Execution

LEMMA LeaveType ==
    ASSUME TypeOK, NEW f \in Fiber, fiber[f] # Idle, Leave(f)
    PROVE  /\ fiber' \in [Fiber -> Execution \cup {Idle}]
           /\ recovering' \subseteq RunId /\ recovered' \subseteq RunId
BY ExecutionFields DEF Leave, TypeOK

LEMMA CallType ==
    ASSUME TypeOK, NEW f \in Fiber, fiber[f] # Idle, Call(f)
    PROVE  called' \in [RunId -> Nat]
<1>1. Count(called[fiber[f].run]) \in Nat
  BY CountType, ExecutionFields DEF TypeOK
<1> QED
  BY <1>1 DEF Call, TypeOK

LEMMA ReenterType ==
    ASSUME TypeOK, Place, NEW f \in Fiber, NEW r \in RunId, NEW at \in 0 .. Last,
           RunFromCheckpoint(f, r, at)
    PROVE  /\ status' \in [RunId -> State]
           /\ rows' \in [RunId -> State]
           /\ recorded' \in [RunId -> 0 .. Last]
           /\ stale' \subseteq RunId
           /\ fiber' \in [Fiber -> Execution \cup {Idle}]
           /\ Place'
<1> DEFINE e == [run |-> r, pc |-> "next", next |-> at + 1,
                 entered |-> "checkpoint", hooked |-> def = "registered"]
<1>1. /\ In("running", at) \in State /\ In("running", at).phase = "running"
      /\ In("running", 0) \in State /\ In("running", 0).phase = "running"
  BY States, Constants DEF Phase
<1>2. e \in Execution /\ e.pc = "next"
  BY Constants DEF Execution
<1>3. /\ SetRunning(r) /\ Save(r, In("running", at))
      /\ Local(f, e)
  BY DEF RunFromCheckpoint, ReenterAfter
<1>4. status' \in [RunId -> State]
  BY <1>1, <1>3 DEF SetRunning, TypeOK
<1>5. \A g \in Fiber : fiber'[g] = IF g = f THEN e ELSE fiber[g]
  BY <1>2, <1>3, LocalType
<1>6. ASSUME NEW q \in RunId
      PROVE  /\ status'[q].phase = "suspended" => status'[q].at # 0
             /\ rows'[q].phase = "suspended" => rows'[q].at # 0
  BY <1>1, <1>3 DEF SetRunning, Save, TypeOK, Place
<1>7. Place'
  BY <1>2, <1>5, <1>6 DEF Place, At
<1> QED
  BY <1>1, <1>2, <1>3, <1>4, <1>7, SaveType, LocalType

LEMMA CallsKeepTypes ==
    ASSUME TypeOK, Place, NEW r \in RunId, NEW f \in Fiber,
           Submit(f, r) \/ Resume(f, r) \/ Recover(f, r)
    PROVE  TypeOK' /\ Place'
<1>1. status[r] \in State /\ rows[r] \in State /\ status[r].at \in 0 .. Last
      /\ rows[r].at \in 0 .. Last
  BY DEF TypeOK, State
<1>2. CASE Submit(f, r)
  <2>0. PICK how \in {"submit", "async"} :
            Local(f, [run |-> r, pc |-> "next", next |-> 1, entered |-> how, hooked |-> TRUE])
    BY <1>2 DEF Submit
  <2> DEFINE e == [run |-> r, pc |-> "next", next |-> 1, entered |-> how,
                   hooked |-> TRUE]
  <2>1. /\ e \in Execution /\ e.pc = "next"
        /\ In("running", 0) \in State /\ In("running", 0).phase = "running"
    BY Constants, States DEF Execution, Phase
  <2>2. Local(f, e)
    BY <2>0
  <2>3. /\ fiber' \in [Fiber -> Execution \cup {Idle}]
        /\ \A g \in Fiber : fiber'[g] = IF g = f THEN e ELSE fiber[g]
    BY <2>1, <2>2, LocalType
  <2>4. TypeOK'
    BY <1>2, <2>1, <2>3 DEF Submit, TypeOK, table, waiting, tally
  <2>5. Place'
    BY <1>2, <2>1, <2>3 DEF Submit, Place, At, TypeOK, table
  <2> QED
    BY <2>4, <2>5
<1>3. CASE Resume(f, r)
  <2>1. RunFromCheckpoint(f, r, status[r].at) /\ status[r].at \in 1 .. Last
    BY <1>1, <1>3 DEF Resume, Place
  <2>2. granted' \in [RunId -> SUBSET (1 .. Last)]
    BY <1>3, <2>1 DEF Resume, TypeOK
  <2>3. TypeOK'
    BY <1>1, <1>3, <2>1, <2>2, ReenterType DEF Resume, TypeOK, process
  <2> QED
    BY <1>1, <2>1, <2>3, ReenterType
<1>4. CASE Recover(f, r)
  <2>1. RunFromCheckpoint(f, r, rows[r].at)
    BY <1>4 DEF Recover
  <2>2. TypeOK'
    BY <1>1, <1>4, <2>1, ReenterType DEF Recover, TypeOK, process, waiting, tally
  <2> QED
    BY <1>1, <2>1, <2>2, ReenterType
<1> QED
  BY <1>2, <1>3, <1>4

LEMMA CancelKeepsTypes ==
    ASSUME TypeOK, Place, NEW r \in RunId, Cancel(r)
    PROVE  TypeOK' /\ Place'
<1>1. In("failed", 0) \in State /\ In("failed", 0).phase = "failed"
  BY Constants, States DEF Phase
<1>2. Enter(r, In("failed", 0)) /\ fiber' = fiber
  BY DEF Cancel
<1>3. TypeOK'
  BY <1>1, EnterType DEF Cancel, TypeOK, process, waiting, tally
<1>4. Place'
  BY <1>1, <1>2 DEF Enter, Save, Place, At, TypeOK
<1> QED
  BY <1>3, <1>4

LEMMA StepsKeepTypes ==
    ASSUME TypeOK, Place, NEW f \in Fiber, Execute(f)
    PROVE  TypeOK' /\ Place'
<1> DEFINE e == fiber[f]
<1>1. fiber[f] # Idle
  BY DEF Execute, StartStep, Before, StepDone, StepHandled, StepFailed, StepRaised,
         Raises, RunDeserted, AllDone, Settle, CallBack, Suspend, At
<1>2. /\ e \in Execution /\ e.run \in RunId /\ e.next \in 1 .. Last + 1
      /\ e.pc \in {"next", "step", "completed", "failed", "callback"}
  BY <1>1, ExecutionFields
<1>3. ASSUME NEW d \in Execution, Local(f, d),
             d.pc = "step" => d.next \in 1 .. Last /\ Step[d.next] = "work"
      PROVE  /\ fiber' \in [Fiber -> Execution \cup {Idle}]
             /\ \A g \in Fiber : (At(g, "step"))' =>
                   fiber'[g].next \in 1 .. Last /\ Step[fiber'[g].next] = "work"
  BY <1>3, LocalType DEF Place, At
<1>4. ASSUME Leave(f)
      PROVE  /\ fiber' \in [Fiber -> Execution \cup {Idle}]
             /\ recovering' \subseteq RunId /\ recovered' \subseteq RunId
             /\ \A g \in Fiber : (At(g, "step"))' =>
                   fiber'[g].next \in 1 .. Last /\ Step[fiber'[g].next] = "work"
  BY <1>1, <1>4, LeaveType DEF Leave, Place, At, TypeOK
<1>5. ASSUME NEW s \in State, Save(e.run, s), s.phase = "suspended" => s.at # 0
      PROVE  \A r \in RunId : rows'[r].phase = "suspended" => rows'[r].at # 0
  BY <1>2, <1>5 DEF Save, Place, TypeOK
<1>6. ASSUME NEW s \in State, Enter(e.run, s), s.phase = "suspended" => s.at # 0
      PROVE  \A r \in RunId : /\ status'[r].phase = "suspended" => status'[r].at # 0
                              /\ rows'[r].phase = "suspended" => rows'[r].at # 0
  BY <1>2, <1>5, <1>6 DEF Enter, Place, TypeOK
<1>7. ASSUME NEW pc \in {"next", "step", "completed", "failed", "callback"}
      PROVE  [e EXCEPT !.pc = pc] \in Execution /\ [e EXCEPT !.pc = pc].pc = pc
             /\ [e EXCEPT !.pc = pc].next = e.next
  BY <1>2, Moved
<1>8. ASSUME NEW ph \in {"running", "completed", "failed"}, NEW n \in 0 .. Last
      PROVE  In(ph, n) \in State /\ In(ph, n).phase # "suspended"
  BY States DEF Phase
<1>9. 0 \in 0 .. Last
  BY Constants
<1>10. CASE StartStep(f)
  <2>1. e.next \in 1 .. Last /\ Step[e.next] = "work"
    BY <1>2, <1>10, Constants DEF StartStep, Before
  <2>2. Count(ran[e.run][e.next]) \in Nat
    BY <1>2, <2>1, CountType DEF TypeOK
  <2>3. ran' \in [RunId -> [1 .. Last -> Nat]]
    BY <1>2, <1>10, <2>1, <2>2 DEF StartStep, TypeOK
  <2>4. Local(f, [e EXCEPT !.pc = "step"])
    BY <1>10 DEF StartStep
  <2>5. /\ fiber' \in [Fiber -> Execution \cup {Idle}]
        /\ \A g \in Fiber : (At(g, "step"))' =>
              fiber'[g].next \in 1 .. Last /\ Step[fiber'[g].next] = "work"
    BY <1>3, <1>7, <2>1, <2>4
  <2>6. TypeOK'
    BY <1>10, <2>3, <2>5 DEF StartStep, TypeOK, process, table, waiting
  <2>7. Place'
    BY <1>10, <2>5 DEF StartStep, Place, table
  <2> QED
    BY <2>6, <2>7
<1>11. CASE StepDone(f)
  <2>1. e.next \in 1 .. Last
    BY <1>11 DEF StepDone, Place
  <2>2. /\ fiber' \in [Fiber -> Execution \cup {Idle}]
        /\ \A g \in Fiber : (At(g, "step"))' =>
              fiber'[g].next \in 1 .. Last /\ Step[fiber'[g].next] = "work"
    BY <1>2, <1>3, <1>11, <2>1, Advanced DEF StepDone
  <2>3. Checkpoint(f) \in State /\ Checkpoint(f).phase # "suspended"
    BY <1>8, <2>1, Constants DEF Checkpoint
  <2>4. TypeOK'
    BY <1>2, <1>11, <2>2, <2>3, SaveType DEF StepDone, TypeOK, process, waiting, tally
  <2>5. Place'
    BY <1>5, <1>11, <2>2, <2>3 DEF StepDone, Place
  <2> QED
    BY <2>4, <2>5
<1>12. CASE StepHandled(f)
  <2>1. e.next \in 1 .. Last
    BY <1>12 DEF StepHandled, Place
  <2>2. /\ fiber' \in [Fiber -> Execution \cup {Idle}]
        /\ \A g \in Fiber : (At(g, "step"))' =>
              fiber'[g].next \in 1 .. Last /\ Step[fiber'[g].next] = "work"
    BY <1>2, <1>3, <1>12, <2>1, Advanced DEF StepHandled, NextStep
  <2>3. TypeOK'
    BY <1>12, <2>2 DEF StepHandled, TypeOK, process, table, waiting, tally
  <2>4. Place'
    BY <1>12, <2>2 DEF StepHandled, Place, table
  <2> QED
    BY <2>3, <2>4
<1>13. ASSUME NEW o \in {"completed", "failed"}, Return(f, o)
       PROVE  TypeOK' /\ Place'
  <2>1. /\ fiber' \in [Fiber -> Execution \cup {Idle}]
        /\ \A g \in Fiber : (At(g, "step"))' =>
              fiber'[g].next \in 1 .. Last /\ Step[fiber'[g].next] = "work"
    BY <1>3, <1>7, <1>13 DEF Return
  <2>2. TypeOK'
    BY <1>1, <1>13, <2>1, CallType DEF Return, TypeOK, process, table, waiting
  <2> QED
    BY <1>13, <2>1, <2>2 DEF Return, Place, table
<1>14. ASSUME NEW s \in State, Enter(e.run, s), s.phase = "suspended" => s.at # 0, Leave(f),
              UNCHANGED << process, deserted, tally >>, waiting' = waiting \/ Suspend(f)
       PROVE  TypeOK' /\ Place'
  <2>1. deadlines' \subseteq RunId /\ armed' \subseteq RunId
    BY <1>2, <1>14 DEF waiting, Suspend, TypeOK
  <2>2. TypeOK'
    BY <1>2, <1>4, <1>14, <2>1, EnterType DEF TypeOK, process, tally
  <2>3. Place'
    BY <1>4, <1>6, <1>14 DEF Place
  <2> QED
    BY <2>2, <2>3
<1>15. ASSUME ConcludeOk(f)
       PROVE  TypeOK' /\ Place'
  <2>1. /\ fiber' \in [Fiber -> Execution \cup {Idle}]
        /\ \A g \in Fiber : (At(g, "step"))' =>
              fiber'[g].next \in 1 .. Last /\ Step[fiber'[g].next] = "work"
    BY <1>3, <1>7, <1>15 DEF ConcludeOk
  <2>2. In("completed", 0) \in State /\ In("completed", 0).phase # "suspended"
    BY <1>8, <1>9
  <2>3. TypeOK'
    BY <1>2, <1>15, <2>1, <2>2, EnterType DEF ConcludeOk, TypeOK, process, waiting, tally
  <2>4. Place'
    BY <1>6, <1>15, <2>1, <2>2 DEF ConcludeOk, Place
  <2> QED
    BY <2>3, <2>4
<1>16. CASE Settle(f)
  <2>1. e.pc \in {"completed", "failed"}
    BY <1>16 DEF Settle, At
  <2> QED
    BY <1>8, <1>9, <1>14, <1>16, <2>1 DEF Settle, process, waiting, tally
<1>17. CASE CallBack(f)
  <2>1. called' \in [RunId -> Nat]
    BY <1>1, <1>17, CallType DEF CallBack
  <2>2. CASE UNCHANGED << status, table >>
    <3>1. TypeOK'
      BY <1>4, <1>17, <2>1, <2>2 DEF CallBack, TypeOK, process, table, waiting
    <3> QED
      BY <1>4, <1>17, <2>2, <3>1 DEF CallBack, Place, table
  <2>3. CASE Enter(e.run, In("failed", 0))
    <3>1. In("failed", 0) \in State /\ In("failed", 0).phase # "suspended"
      BY <1>8, <1>9
    <3>2. TypeOK'
      BY <1>2, <1>4, <1>17, <2>1, <2>3, <3>1, EnterType DEF CallBack, TypeOK, process, waiting
    <3> QED
      BY <1>4, <1>6, <1>17, <2>3, <3>1, <3>2 DEF CallBack, Place
  <2> QED
    BY <1>17, <2>2, <2>3 DEF CallBack
<1>18. ASSUME ConcludeFailed(f) \/ StepRaised(f)
       PROVE  TypeOK' /\ Place'
  BY <1>8, <1>9, <1>14, <1>18 DEF ConcludeFailed, StepRaised, process, waiting, tally
<1>19. CASE StepFailed(f)
  BY <1>13, <1>18, <1>19 DEF StepFailed
<1>20. CASE AllDone(f)
  BY <1>13, <1>15, <1>20 DEF AllDone
<1>21. CASE Suspend(f)
  <2>1. e.next \in 1 .. Last
    BY <1>2, <1>21, Constants DEF Suspend, Before
  <2>2. In("suspended", e.next) \in State /\ In("suspended", e.next).at # 0
    BY <2>1, States, Constants DEF Phase
  <2>3. Enter(e.run, In("suspended", e.next)) /\ Leave(f) /\ UNCHANGED << process, deserted, tally >>
    BY <1>21 DEF Suspend
  <2> QED
    BY <1>14, <1>21, <2>2, <2>3
<1>22. CASE RunDeserted(f)
  <2>1. TypeOK'
    BY <1>2, <1>4, <1>22 DEF RunDeserted, TypeOK, process, table, waiting, tally
  <2> QED
    BY <1>4, <1>22, <2>1 DEF RunDeserted, Place, table
<1> QED
  BY <1>10, <1>11, <1>12, <1>16, <1>17, <1>18, <1>19, <1>20, <1>21, <1>22 DEF Execute

LEMMA ProcessKeepsTypes ==
    ASSUME TypeOK, Place, Register \/ Crash \/ Create
    PROVE  TypeOK' /\ Place'
<1>1. In("unknown", 0) \in State /\ In("running", 0) \in State
      /\ In("unknown", 0).phase = "unknown" /\ In("running", 0).phase = "running"
  BY States, Constants DEF Phase
<1>2. CASE Register
  BY <1>2 DEF Register, TypeOK, Place, At, table, waiting, tally
<1>3. CASE Crash
  <2>1. status' \in [RunId -> State] /\ fiber' \in [Fiber -> Execution \cup {Idle}]
    BY <1>1, <1>3 DEF Crash
  <2>2. crashes' \in 0 .. MaxCrashes /\ def' \in {"none", "stored", "registered"}
    BY <1>3, Constants DEF Crash, TypeOK
  <2>3. TypeOK'
    BY <1>3, <2>1, <2>2 DEF Crash, TypeOK, table, tally
  <2> QED
    BY <1>1, <1>3, <2>3 DEF Crash, Place, At, table
<1>4. CASE Create
  <2>1. \A r \in RunId : Rehydrated(r) \in State /\
                         (Rehydrated(r).phase = "suspended" => Rehydrated(r).at # 0)
    BY <1>1 DEF Rehydrated, TypeOK, Place
  <2>2. Orphans \subseteq RunId
    BY DEF Orphans
  <2>3. TypeOK'
    BY <1>4, <2>1, <2>2 DEF Create, TypeOK, table, waiting, tally
  <2>5. \A r \in RunId : status'[r] = Rehydrated(r) /\ rows'[r] = rows[r]
    BY <1>4 DEF Create, table
  <2>6. \A f \in Fiber : (At(f, "step"))' <=> At(f, "step")
    BY <1>4 DEF Create, At
  <2>7. \A f \in Fiber : (At(f, "step"))' =>
           fiber'[f].next \in 1 .. Last /\ Step[fiber'[f].next] = "work"
    BY <1>4, <2>6 DEF Create, Place
  <2> QED
    BY <2>1, <2>3, <2>5, <2>7 DEF Place
<1> QED
  BY <1>2, <1>3, <1>4

LEMMA TypesHold == Spec => [](TypeOK /\ Place)
<1>1. Init => TypeOK /\ Place
  <2>1. In("unknown", 0) \in State /\ In("unknown", 0).phase = "unknown"
    BY States, Constants DEF Phase
  <2> QED
    BY <2>1, Constants DEF Init, TypeOK, Place, At
<1>2. TypeOK /\ Place /\ [Next]_vars => TypeOK' /\ Place'
  <2>1. CASE UNCHANGED vars
    BY <2>1 DEF vars, TypeOK, Place, At
  <2>2. ASSUME TypeOK, Place, Next
        PROVE  TypeOK' /\ Place'
    <3>1. CASE Register \/ Crash \/ Create
      BY <2>2, <3>1, ProcessKeepsTypes
    <3>2. CASE \E r \in RunId : Cancel(r)
      BY <2>2, <3>2, CancelKeepsTypes
    <3>3. CASE \E r \in RunId, f \in Fiber : Submit(f, r) \/ Resume(f, r) \/ Recover(f, r)
      BY <2>2, <3>3, CallsKeepTypes
    <3>4. CASE \E f \in Fiber : Execute(f)
      BY <2>2, <3>4, StepsKeepTypes
    <3> QED
      BY <2>2, <3>1, <3>2, <3>3, <3>4 DEF Next
  <2> QED
    BY <2>1, <2>2
<1> QED
  BY <1>1, <1>2, PTL DEF Spec

\* Every variable of a run's life keeps its type.
THEOREM RunTypes == Spec => []TypeOK
BY TypesHold, PTL

---------------------------------------------------------------------------
(* What a step changes, run by run and fiber by fiber *)

\* An orphan still to be recovered
Waits(r) == r \in orphaned /\ r \notin recovering /\ r \notin recovered

\* r itself may mention variables, so no operator of it is primed here.
WaitsNext(r) == r \in orphaned' /\ r \notin recovering' /\ r \notin recovered'

SameWait(r) == WaitsNext(r) <=> Waits(r)

\* A step that has nothing to do with run r
SameRow(r) ==
    /\ rows'[r] = rows[r] /\ recorded'[r] = recorded[r]
    /\ r \in stale' <=> r \in stale

Same(r) ==
    /\ SameRow(r) /\ status'[r] = status[r]
    /\ granted'[r] = granted[r] /\ ran'[r] = ran[r] /\ called'[r] = called[r]
    /\ r \in deserted' <=> r \in deserted
    /\ SameWait(r)

\* A step of fiber f with run r
Others(f, r) ==
    /\ \A g \in Fiber : g # f => fiber'[g] = fiber[g]
    /\ \A q \in RunId : q # r => Same(q)
    /\ up' = up /\ def' = def /\ orphaned' = orphaned /\ crashes' = crashes

\* The write of row s of run r, which may fail
Saved(r, s) ==
    \/ rows'[r] = s /\ recorded'[r] = Larger(recorded[r], s.at) /\ r \notin stale'
    \/ rows'[r] = rows[r] /\ recorded'[r] = recorded[r] /\ r \in stale'

Entered(r, s) == status'[r] = s /\ Saved(r, s)

LEMMA SaveShape ==
    ASSUME TypeOK, NEW r \in RunId, NEW s \in State, Save(r, s)
    PROVE  Saved(r, s) /\ \A q \in RunId : q # r => SameRow(q)
BY DEF Save, Saved, SameRow, TypeOK

LEMMA EnterShape ==
    ASSUME TypeOK, NEW r \in RunId, NEW s \in State, Enter(r, s)
    PROVE  /\ Entered(r, s)
           /\ \A q \in RunId : q # r => SameRow(q) /\ status'[q] = status[q]
<1>1. Save(r, s) /\ status' = [status EXCEPT ![r] = s]
  BY DEF Enter
<1> QED
  BY <1>1, SaveShape DEF Entered, TypeOK

LEMMA LeaveShape ==
    ASSUME TypeOK, NEW f \in Fiber, fiber[f] # Idle, Leave(f), orphaned' = orphaned
    PROVE  /\ fiber'[f] = Idle
           /\ \A g \in Fiber : g # f => fiber'[g] = fiber[g]
           /\ \A q \in RunId : SameWait(q)
BY ExecutionFields DEF Leave, TypeOK, SameWait, WaitsNext, Waits

LEMMA CallShape ==
    ASSUME TypeOK, NEW f \in Fiber, fiber[f] # Idle, Call(f)
    PROVE  /\ called'[fiber[f].run] = IF fiber[f].hooked THEN Count(called[fiber[f].run])
                                     ELSE called[fiber[f].run]
           /\ \A q \in RunId : q # fiber[f].run => called'[q] = called[q]
BY ExecutionFields DEF Call, TypeOK

\* The fiber goes on with its run, at another place.
GoesOn(f, pc, next) ==
    /\ fiber'[f] # Idle
    /\ fiber'[f].run = fiber[f].run /\ fiber'[f].pc = pc /\ fiber'[f].next = next
    /\ fiber'[f].entered = fiber[f].entered /\ fiber'[f].hooked = fiber[f].hooked

SameTally(r) == granted'[r] = granted[r] /\ ran'[r] = ran[r] /\ called'[r] = called[r]

Starts(f) ==
    LET e == fiber[f] IN
    /\ e.pc = "next" /\ e.next \in 1 .. Last /\ Step[e.next] = "work"
    /\ GoesOn(f, "step", e.next)
    /\ SameRow(e.run) /\ status'[e.run] = status[e.run]
    /\ granted'[e.run] = granted[e.run] /\ called'[e.run] = called[e.run]
    /\ \A k \in 1 .. Last : ran'[e.run][k] =
           IF k = e.next THEN Count(ran[e.run][k]) ELSE ran[e.run][k]

Ends(f) ==
    LET e == fiber[f] IN
    /\ e.pc = "step" /\ e.next \in 1 .. Last /\ Step[e.next] = "work"
    /\ GoesOn(f, "next", e.next + 1)
    /\ status'[e.run] = status[e.run]
    /\ Saved(e.run, In("running", e.next)) \/ SameRow(e.run)
    /\ SameTally(e.run)

Returns(f) ==
    LET e == fiber[f] IN
    /\ e.pc \in {"next", "step"}
    /\ GoesOn(f, "completed", e.next) \/ GoesOn(f, "failed", e.next)
    /\ SameRow(e.run) /\ status'[e.run] = status[e.run]
    /\ granted'[e.run] = granted[e.run] /\ ran'[e.run] = ran[e.run]
    /\ called'[e.run] = IF e.hooked THEN Count(called[e.run]) ELSE called[e.run]

Concludes(f) ==
    LET e == fiber[f] IN
    /\ e.pc = "next" /\ GoesOn(f, "callback", e.next)
    /\ Entered(e.run, In("completed", 0))
    /\ SameTally(e.run)

Finishes(f) ==
    LET e == fiber[f] IN
    /\ fiber'[f] = Idle
    /\ \/ e.pc = "completed" /\ Entered(e.run, In("completed", 0))
       \/ Entered(e.run, In("failed", 0))
    /\ SameTally(e.run)

CallsBack(f) ==
    LET e == fiber[f] IN
    /\ e.pc = "callback" /\ fiber'[f] = Idle
    /\ \/ SameRow(e.run) /\ status'[e.run] = status[e.run]
       \/ Entered(e.run, In("failed", 0))
    /\ granted'[e.run] = granted[e.run] /\ ran'[e.run] = ran[e.run]
    /\ called'[e.run] = IF e.hooked THEN Count(called[e.run]) ELSE called[e.run]

Suspends(f) ==
    LET e == fiber[f] IN
    /\ e.pc = "next" /\ e.next \in 1 .. Last /\ Step[e.next] = "approval"
    /\ fiber'[f] = Idle
    /\ Entered(e.run, In("suspended", e.next))
    /\ SameTally(e.run)

Deserts(f) ==
    LET e == fiber[f] IN
    /\ e.pc # "callback" /\ fiber'[f] = Idle
    /\ SameRow(e.run) /\ status'[e.run] = status[e.run]
    /\ SameTally(e.run)
    /\ e.run \in deserted'

Shape(f) ==
    \/ Starts(f) \/ Ends(f) \/ Returns(f) \/ Concludes(f)
    \/ Finishes(f) \/ CallsBack(f) \/ Suspends(f) \/ Deserts(f)

\* Every step of a fiber has one of these shapes.
LEMMA StepShape ==
    ASSUME TypeOK, Place, NEW f \in Fiber, Execute(f)
    PROVE  /\ fiber[f] # Idle
           /\ Others(f, fiber[f].run) /\ submitted' = submitted
           /\ SameWait(fiber[f].run)
           /\ Shape(f)
<1> DEFINE e == fiber[f]
<1>1. fiber[f] # Idle
  BY DEF Execute, StartStep, Before, StepDone, StepHandled, StepFailed, StepRaised,
         Raises, RunDeserted, AllDone, Settle, CallBack, Suspend, At
<1>2. /\ e \in Execution /\ e.run \in RunId /\ e.next \in 1 .. Last + 1
      /\ e.pc \in {"next", "step", "completed", "failed", "callback"}
  BY <1>1, ExecutionFields
<1>3. /\ In("failed", 0) \in State /\ In("completed", 0) \in State
      /\ \A n \in 1 .. Last : In("running", n) \in State /\ In("suspended", n) \in State
  BY States, Constants DEF Phase
<1>4. ASSUME NEW pc \in {"step", "completed", "failed", "callback"},
             Local(f, [e EXCEPT !.pc = pc])
      PROVE  GoesOn(f, pc, e.next) /\ \A g \in Fiber : g # f => fiber'[g] = fiber[g]
  BY <1>2, <1>4, Moved, LocalType, IdleAssumption DEF GoesOn
<1>5. ASSUME e.next \in 1 .. Last, Local(f, [e EXCEPT !.pc = "next", !.next = @ + 1])
      PROVE  GoesOn(f, "next", e.next + 1) /\ \A g \in Fiber : g # f => fiber'[g] = fiber[g]
  <2> DEFINE d == [e EXCEPT !.pc = "next", !.next = @ + 1]
  <2>1. /\ d \in Execution /\ d.run = e.run /\ d.pc = "next" /\ d.next = e.next + 1
        /\ d.entered = e.entered /\ d.hooked = e.hooked
    BY <1>2, <1>5, Advanced
  <2>2. Local(f, d)
    BY <1>5
  <2>3. d # Idle
    BY <2>1, IdleAssumption
  <2> HIDE DEF d
  <2>4. \A g \in Fiber : fiber'[g] = IF g = f THEN d ELSE fiber[g]
    BY <2>1, <2>2, LocalType
  <2> QED
    BY <2>1, <2>3, <2>4 DEF GoesOn
<1>6. ASSUME UNCHANGED table
      PROVE  \A q \in RunId : SameRow(q)
  BY <1>6 DEF table, SameRow
<1>7. ASSUME UNCHANGED << recovering, recovered, orphaned >>
      PROVE  \A q \in RunId : SameWait(q)
  BY <1>7 DEF SameWait, WaitsNext, Waits
<1>8. CASE StartStep(f)
  <2>1. /\ e.pc = "next" /\ e.next \in 1 .. Last /\ Step[e.next] = "work"
    BY <1>2, <1>8, Constants DEF StartStep, Before, At
  <2>2. GoesOn(f, "step", e.next) /\ \A g \in Fiber : g # f => fiber'[g] = fiber[g]
    BY <1>4, <1>8 DEF StartStep
  <2>3. /\ \A q \in RunId : SameRow(q) /\ SameWait(q)
    BY <1>6, <1>7, <1>8 DEF StartStep, process
  <2>4. /\ \A q \in RunId : q # e.run => ran'[q] = ran[q]
        /\ \A k \in 1 .. Last : ran'[e.run][k] =
              IF k = e.next THEN Count(ran[e.run][k]) ELSE ran[e.run][k]
    BY <1>2, <1>8, <2>1 DEF StartStep, TypeOK
  <2>5. Starts(f)
    BY <1>2, <1>8, <2>1, <2>2, <2>3, <2>4 DEF Starts, StartStep
  <2>6. Others(f, e.run) /\ submitted' = submitted
    BY <1>8, <2>2, <2>3, <2>4 DEF Others, Same, StartStep, process
  <2> QED
    BY <1>1, <1>2, <2>3, <2>5, <2>6 DEF Shape
<1>9. CASE StepDone(f) \/ StepHandled(f)
  <2>1. e.pc = "step" /\ e.next \in 1 .. Last /\ Step[e.next] = "work"
    BY <1>9 DEF StepDone, StepHandled, Place, At
  <2>2. GoesOn(f, "next", e.next + 1) /\ \A g \in Fiber : g # f => fiber'[g] = fiber[g]
    BY <1>5, <1>9, <2>1 DEF StepDone, StepHandled, NextStep
  <2>3. \A q \in RunId : /\ q # e.run => SameRow(q)
                         /\ SameWait(q)
    BY <1>2, <1>3, <1>6, <1>7, <1>9, <2>1, SaveShape DEF StepDone, StepHandled, Checkpoint, process
  <2>4. Saved(e.run, In("running", e.next)) \/ SameRow(e.run)
    BY <1>2, <1>3, <1>6, <1>9, <2>1, SaveShape DEF StepDone, StepHandled, Checkpoint
  <2>5. Ends(f)
    BY <1>9, <2>1, <2>2, <2>4 DEF Ends, StepDone, StepHandled, SameTally, tally
  <2>6. Others(f, e.run) /\ submitted' = submitted
    BY <1>9, <2>2, <2>3 DEF Others, Same, StepDone, StepHandled, process, tally
  <2> QED
    BY <1>1, <1>2, <2>3, <2>5, <2>6 DEF Shape
<1>10. ASSUME NEW o \in {"completed", "failed"}, Return(f, o), e.pc \in {"next", "step"}
       PROVE  /\ Others(f, e.run) /\ submitted' = submitted
              /\ SameWait(e.run)
              /\ Shape(f)
  <2>1. GoesOn(f, o, e.next) /\ \A g \in Fiber : g # f => fiber'[g] = fiber[g]
    BY <1>4, <1>10 DEF Return
  <2>2. \A q \in RunId : SameRow(q) /\ SameWait(q)
    BY <1>6, <1>7, <1>10 DEF Return, process
  <2>3. /\ called'[e.run] = IF e.hooked THEN Count(called[e.run]) ELSE called[e.run]
        /\ \A q \in RunId : q # e.run => called'[q] = called[q]
    BY <1>1, <1>10, CallShape DEF Return
  <2>4. Returns(f)
    BY <1>2, <1>10, <2>1, <2>2, <2>3 DEF Returns, Return
  <2>5. Others(f, e.run) /\ submitted' = submitted
    BY <1>10, <2>1, <2>2, <2>3 DEF Others, Same, Return, process
  <2> QED
    BY <1>2, <2>2, <2>4, <2>5 DEF Shape
<1>11. ASSUME NEW s \in State, Enter(e.run, s), UNCHANGED << process, deserted, tally >>,
              \A g \in Fiber : g # f => fiber'[g] = fiber[g],
              \A q \in RunId : SameWait(q)
       PROVE  /\ Others(f, e.run) /\ submitted' = submitted
              /\ Entered(e.run, s) /\ SameTally(e.run)
  BY <1>2, <1>11, EnterShape DEF Others, Same, SameTally, process, tally
<1>12. ASSUME ConcludeOk(f), e.pc = "next"
       PROVE  /\ Others(f, e.run) /\ submitted' = submitted
              /\ SameWait(e.run)
              /\ Shape(f)
  <2>1. GoesOn(f, "callback", e.next) /\ \A g \in Fiber : g # f => fiber'[g] = fiber[g]
    BY <1>4, <1>12 DEF ConcludeOk
  <2>2. \A q \in RunId : SameWait(q)
    BY <1>7, <1>12 DEF ConcludeOk, process
  <2>3. /\ Others(f, e.run) /\ submitted' = submitted
        /\ Entered(e.run, In("completed", 0)) /\ SameTally(e.run)
    BY <1>3, <1>11, <1>12, <2>1, <2>2 DEF ConcludeOk
  <2> QED
    BY <1>2, <1>12, <2>1, <2>2, <2>3 DEF Shape, Concludes
<1>13. ASSUME Leave(f), orphaned' = orphaned
       PROVE  /\ fiber'[f] = Idle
              /\ \A g \in Fiber : g # f => fiber'[g] = fiber[g]
              /\ \A q \in RunId : SameWait(q)
  BY <1>1, <1>13, LeaveShape
<1>14. CASE Settle(f)
  <2>1. e.pc \in {"completed", "failed"} /\ In(e.pc, 0) \in State
    BY <1>3, <1>14 DEF Settle, At
  <2>2. /\ fiber'[f] = Idle
        /\ \A g \in Fiber : g # f => fiber'[g] = fiber[g]
        /\ \A q \in RunId : SameWait(q)
    BY <1>13, <1>14 DEF Settle, process
  <2>3. /\ Others(f, e.run) /\ submitted' = submitted
        /\ Entered(e.run, In(e.pc, 0)) /\ SameTally(e.run)
    BY <1>11, <1>14, <2>1, <2>2 DEF Settle
  <2> QED
    BY <1>1, <1>2, <2>1, <2>2, <2>3 DEF Shape, Finishes
<1>15. ASSUME ConcludeFailed(f) \/ StepRaised(f)
       PROVE  /\ Others(f, e.run) /\ submitted' = submitted
              /\ SameWait(e.run)
              /\ Shape(f)
  <2>1. /\ fiber'[f] = Idle
        /\ \A g \in Fiber : g # f => fiber'[g] = fiber[g]
        /\ \A q \in RunId : SameWait(q)
    BY <1>13, <1>15 DEF ConcludeFailed, StepRaised, process
  <2>2. /\ Others(f, e.run) /\ submitted' = submitted
        /\ Entered(e.run, In("failed", 0)) /\ SameTally(e.run)
    BY <1>3, <1>11, <1>15, <2>1 DEF ConcludeFailed, StepRaised
  <2> QED
    BY <1>2, <2>1, <2>2 DEF Shape, Finishes
<1>16. CASE CallBack(f)
  <2>1. /\ fiber'[f] = Idle
        /\ \A g \in Fiber : g # f => fiber'[g] = fiber[g]
        /\ \A q \in RunId : SameWait(q)
    BY <1>13, <1>16 DEF CallBack, process
  <2>2. /\ called'[e.run] = IF e.hooked THEN Count(called[e.run]) ELSE called[e.run]
        /\ \A q \in RunId : q # e.run => called'[q] = called[q]
    BY <1>1, <1>16, CallShape DEF CallBack
  <2>3. /\ \/ SameRow(e.run) /\ status'[e.run] = status[e.run]
           \/ Entered(e.run, In("failed", 0))
        /\ \A q \in RunId : q # e.run => SameRow(q) /\ status'[q] = status[q]
    BY <1>2, <1>3, <1>6, <1>16, EnterShape DEF CallBack
  <2>4. CallsBack(f)
    BY <1>16, <2>1, <2>2, <2>3 DEF CallsBack, CallBack, At
  <2>5. Others(f, e.run) /\ submitted' = submitted
    BY <1>16, <2>1, <2>2, <2>3 DEF Others, Same, CallBack, process
  <2> QED
    BY <1>1, <1>2, <2>1, <2>4, <2>5 DEF Shape
<1>17. CASE StepFailed(f)
  <2>1. e.pc = "step"
    BY <1>17 DEF StepFailed, At
  <2> QED
    BY <1>1, <1>10, <1>15, <1>17, <2>1 DEF StepFailed
<1>18. CASE AllDone(f)
  <2>1. e.pc = "next"
    BY <1>18 DEF AllDone, At
  <2> QED
    BY <1>1, <1>10, <1>12, <1>18, <2>1 DEF AllDone
<1>19. CASE Suspend(f)
  <2>1. e.pc = "next" /\ e.next \in 1 .. Last /\ Step[e.next] = "approval"
    BY <1>2, <1>19, Constants DEF Suspend, Before, At
  <2>2. Enter(e.run, In("suspended", e.next)) /\ Leave(f) /\ UNCHANGED << process, deserted, tally >>
    BY <1>19 DEF Suspend
  <2>3. /\ fiber'[f] = Idle
        /\ \A g \in Fiber : g # f => fiber'[g] = fiber[g]
        /\ \A q \in RunId : SameWait(q)
    BY <1>13, <2>2 DEF process
  <2>4. /\ Others(f, e.run) /\ submitted' = submitted
        /\ Entered(e.run, In("suspended", e.next)) /\ SameTally(e.run)
    BY <1>3, <1>11, <2>1, <2>2, <2>3
  <2> QED
    BY <1>1, <1>2, <2>1, <2>3, <2>4 DEF Shape, Suspends
<1>20. CASE RunDeserted(f)
  <2>1. /\ fiber'[f] = Idle
        /\ \A g \in Fiber : g # f => fiber'[g] = fiber[g]
        /\ \A q \in RunId : SameWait(q)
    BY <1>13, <1>20 DEF RunDeserted, process
  <2>2. \A q \in RunId : SameRow(q)
    BY <1>6, <1>20 DEF RunDeserted
  <2>3. e.pc # "callback" /\ e.run \in deserted'
        /\ \A q \in RunId : q # e.run => (q \in deserted' <=> q \in deserted)
    BY <1>20 DEF RunDeserted, Raises, At
  <2>4. Deserts(f)
    BY <1>2, <1>20, <2>1, <2>2, <2>3 DEF Deserts, RunDeserted, SameTally, tally
  <2>5. Others(f, e.run) /\ submitted' = submitted
    BY <1>20, <2>1, <2>2, <2>3 DEF Others, Same, RunDeserted, process, tally
  <2> QED
    BY <1>1, <1>2, <2>1, <2>4, <2>5 DEF Shape
<1> QED
  BY <1>1, <1>8, <1>9, <1>14, <1>15, <1>16, <1>17, <1>18, <1>19, <1>20 DEF Execute

---------------------------------------------------------------------------
(* The inductive invariant *)

Runs(f, r) == fiber[f] # Idle /\ fiber[f].run = r

Unowned(r) == \A f \in Fiber : ~ Runs(f, r)

\* Every approval among the first n steps has been granted.
Approved(r, n) == \A k \in 1 .. n : Step[k] = "approval" => k \in granted[r]

\* The callback, and the steps after n, have not been started since the last crash.
Fresh(r, n) ==
    /\ called[r] <= crashes
    /\ \A k \in 1 .. Last : k > n => ran[r][k] <= crashes

\* What never happened to a run leaves no trace, and a dead process nothing in memory.
KnownRun(r) ==
    /\ r \in orphaned => r \in submitted
    /\ r \notin submitted =>
           /\ status[r].phase = "unknown" /\ rows[r].phase = "unknown"
           /\ recorded[r] = 0 /\ Fresh(r, 0) /\ Unowned(r)
    /\ ~ up => r \notin orphaned /\ r \notin recovering /\ r \notin recovered /\ Unowned(r)

\* Whoever may enter the run finds it without an executor, and only one may.
OwnerRun(r) ==
    /\ \A f, g \in Fiber : Runs(f, r) /\ Runs(g, r) => f = g
    /\ status[r].phase = "suspended" => Unowned(r) /\ ~ Waits(r)
    /\ Waits(r) => Unowned(r) /\ (status[r].phase = "running" => rows[r].phase = "running")

\* The approvals before, and the checkpoints up to, every place the run can go on from.
PathRun(r) ==
    /\ \A f \in Fiber : Runs(f, r) /\ fiber[f].pc \in {"next", "step"} =>
           Approved(r, fiber[f].next - 1) /\ recorded[r] < fiber[f].next
    /\ rows[r].phase = "running" =>
           rows[r].at # 0 /\ Approved(r, rows[r].at) /\ recorded[r] <= rows[r].at
    /\ rows[r].phase = "suspended" =>
           Approved(r, rows[r].at - 1) /\ recorded[r] <= rows[r].at
    /\ status[r].phase = "suspended" =>
           Approved(r, status[r].at - 1) /\ recorded[r] <= status[r].at

\* The row of a run nobody executes and no exception left, or whose outcome is
\* recorded.
DurableRun(r) ==
    r \notin stale =>
        /\ r \notin deserted /\ Unowned(r) /\ status[r].phase # "unknown" =>
               /\ rows[r].phase = status[r].phase
               /\ status[r].phase = "suspended" => rows[r].at = status[r].at
        /\ r \notin deserted /\ Unowned(r) /\ up /\ rows[r].phase = "running" =>
               Waits(r) /\ status[r].phase = "running"
        /\ \A f \in Fiber : Runs(f, r) /\ fiber[f].pc = "callback" =>
               rows[r].phase = status[r].phase /\ rows[r].phase \in {"completed", "failed"}

\* What has been started since the last crash.
CountRun(r) ==
    /\ \A k \in 1 .. Last : ran[r][k] <= crashes + 1
    /\ called[r] <= crashes + 1
    /\ ~ up \/ Waits(r) => Fresh(r, 0)
    /\ status[r].phase = "suspended" => Fresh(r, status[r].at)
    /\ \A f \in Fiber : Runs(f, r) =>
           /\ fiber[f].pc = "next" => Fresh(r, fiber[f].next - 1)
           /\ fiber[f].pc = "step" => Fresh(r, fiber[f].next)
           /\ fiber[f].pc = "callback" => called[r] <= crashes

\* Without a crash every definition has its callback, a run is not reported completed
\* before it is, and a completed run had its call.
HookRun(r) ==
    crashes = 0 =>
        /\ def # "stored"
        /\ \A f \in Fiber : Runs(f, r) =>
               /\ fiber[f].hooked /\ (fiber[f].pc = "completed" => called[r] = 1)
               /\ status[r].phase = "completed" => fiber[f].pc = "callback"
        /\ Unowned(r) /\ status[r].phase = "completed" => called[r] = 1

RunInv(r) == KnownRun(r) /\ OwnerRun(r) /\ PathRun(r) /\ DurableRun(r) /\ CountRun(r) /\ HookRun(r)

Inv == TypeOK /\ Place /\ \A r \in RunId : RunInv(r)

\* A run nobody touched keeps its invariant.
LEMMA Frame ==
    ASSUME NEW q \in RunId, RunInv(q), Same(q), up, up', crashes' = crashes,
           def' = def \/ def' = "registered",
           orphaned' = orphaned, q \in submitted' <=> q \in submitted,
           \A g \in Fiber : fiber'[g] = fiber[g] \/ (~ Runs(g, q) /\ ~ Runs(g, q)')
    PROVE  RunInv(q)'
<1>1. \A g \in Fiber : Runs(g, q)' <=> Runs(g, q)
  BY DEF Runs
<1>2. \A g \in Fiber : Runs(g, q) => fiber'[g] = fiber[g]
  BY DEF Runs
<1>3. Unowned(q)' <=> Unowned(q)
  BY <1>1 DEF Unowned
<1>4. Waits(q)' <=> Waits(q)
  BY DEF Same, SameWait, WaitsNext, Waits
<1>5. /\ status'[q] = status[q] /\ rows'[q] = rows[q] /\ recorded'[q] = recorded[q]
      /\ granted'[q] = granted[q] /\ ran'[q] = ran[q] /\ called'[q] = called[q]
      /\ q \in stale' <=> q \in stale
      /\ q \in deserted' <=> q \in deserted
  BY DEF Same, SameRow
<1>6. KnownRun(q)'
  BY <1>3, <1>5 DEF RunInv, KnownRun, Fresh
<1>7. OwnerRun(q)'
  BY <1>1, <1>3, <1>4, <1>5 DEF RunInv, OwnerRun
<1>8. PathRun(q)'
  BY <1>1, <1>2, <1>5 DEF RunInv, PathRun, Approved
<1>9. DurableRun(q)'
  BY <1>1, <1>2, <1>3, <1>4, <1>5 DEF RunInv, DurableRun
<1>10. CountRun(q)'
  BY <1>1, <1>2, <1>4, <1>5 DEF RunInv, CountRun, Fresh
<1>11. HookRun(q)'
  BY <1>1, <1>2, <1>3, <1>5 DEF RunInv, HookRun
<1> QED
  BY <1>6, <1>7, <1>8, <1>9, <1>10, <1>11 DEF RunInv

\* What holds of a run while a fiber takes a step of it, and after.
LEMMA Acting ==
    ASSUME NEW r \in RunId, NEW f \in Fiber, RunInv(r), Runs(f, r), Others(f, r),
           SameWait(r), submitted' = submitted,
           ~ Runs(f, r)' \/ status'[r].phase # "suspended"
    PROVE  /\ up /\ up' /\ r \in submitted /\ r \in submitted'
           /\ status[r].phase # "suspended" /\ ~ Waits(r) /\ ~ Waits(r)'
           /\ \A g \in Fiber : Runs(g, r)' => g = f
           /\ Unowned(r)' <=> ~ Runs(f, r)'
           /\ KnownRun(r)' /\ OwnerRun(r)'
<1>1. \A g \in Fiber : Runs(g, r) => g = f
  BY DEF RunInv, OwnerRun
<1>2. ~ Unowned(r)
  BY DEF Unowned
<1>3. up /\ up' /\ r \in submitted /\ r \in submitted'
  BY <1>2 DEF RunInv, KnownRun, Others
<1>4. status[r].phase # "suspended" /\ ~ Waits(r) /\ ~ Waits(r)'
  BY <1>2 DEF RunInv, OwnerRun, SameWait, WaitsNext, Waits
<1>5. \A g \in Fiber : Runs(g, r)' => g = f
  BY <1>1 DEF Others, Runs
<1>6. Unowned(r)' <=> ~ Runs(f, r)'
  BY <1>5 DEF Unowned
<1>7. KnownRun(r)'
  BY <1>3 DEF KnownRun
<1>8. OwnerRun(r)'
  BY <1>4, <1>5, <1>6 DEF OwnerRun
<1> QED
  BY <1>3, <1>4, <1>5, <1>6, <1>7, <1>8

\* What the invariant says of the run a fiber is about to take a step of.
LEMMA AtWork ==
    ASSUME NEW r \in RunId, NEW f \in Fiber, RunInv(r), Runs(f, r), TypeOK, Place
    PROVE  /\ fiber[f].pc \in {"next", "step"} =>
                  /\ Approved(r, fiber[f].next - 1) /\ recorded[r] < fiber[f].next
                  /\ called[r] <= crashes
           /\ fiber[f].pc = "next" => Fresh(r, fiber[f].next - 1)
           /\ fiber[f].pc = "step" => Fresh(r, fiber[f].next)
           /\ fiber[f].pc = "callback" => called[r] <= crashes
           /\ crashes = 0 => fiber[f].hooked /\ def # "stored"
           /\ crashes = 0 /\ fiber[f].pc = "completed" => called[r] = 1
           /\ crashes = 0 /\ status[r].phase = "completed" => fiber[f].pc = "callback"
           /\ \A k \in 1 .. Last : ran[r][k] <= crashes + 1
           /\ called[r] <= crashes + 1
           /\ crashes \in Nat /\ called[r] \in Nat /\ recorded[r] \in 0 .. Last
           /\ \A k \in 1 .. Last : ran[r][k] \in Nat
           /\ fiber[f].next \in 1 .. Last + 1
           /\ rows[r].at \in 0 .. Last
<1>1. fiber[f].next \in 1 .. Last + 1
  BY ExecutionFields DEF Runs
<1>2. crashes \in Nat /\ called[r] \in Nat /\ recorded[r] \in 0 .. Last /\ rows[r].at \in 0 .. Last
  BY Constants DEF TypeOK, State
<1>3. \A k \in 1 .. Last : ran[r][k] \in Nat
  BY DEF TypeOK
<1>4. /\ fiber[f].pc \in {"next", "step"} =>
           Approved(r, fiber[f].next - 1) /\ recorded[r] < fiber[f].next
  BY DEF RunInv, PathRun
<1>5. /\ fiber[f].pc = "next" => Fresh(r, fiber[f].next - 1)
      /\ fiber[f].pc = "step" => Fresh(r, fiber[f].next)
      /\ fiber[f].pc = "callback" => called[r] <= crashes
      /\ \A k \in 1 .. Last : ran[r][k] <= crashes + 1
      /\ called[r] <= crashes + 1
  BY DEF RunInv, CountRun
<1>6. /\ crashes = 0 => fiber[f].hooked /\ def # "stored"
      /\ crashes = 0 /\ fiber[f].pc = "completed" => called[r] = 1
      /\ crashes = 0 /\ status[r].phase = "completed" => fiber[f].pc = "callback"
  BY DEF RunInv, HookRun
<1>7. fiber[f].pc \in {"next", "step"} => called[r] <= crashes
  BY <1>5 DEF Fresh
<1> QED
  BY <1>1, <1>2, <1>3, <1>4, <1>5, <1>6, <1>7

\* A step of a run keeps its invariant: the fiber goes on ...
LEMMA GoingKeeps ==
    ASSUME TypeOK, Place, NEW r \in RunId, NEW f \in Fiber, fiber[f].run = r, fiber[f] # Idle,
           RunInv(r), Others(f, r), SameWait(r), submitted' = submitted,
           Starts(f) \/ Ends(f) \/ Returns(f) \/ Concludes(f)
    PROVE  RunInv(r)'
<1> DEFINE e == fiber[f]
<1>1. Runs(f, r) /\ Runs(f, r)'
      /\ fiber'[f].next \in {e.next, e.next + 1} /\ fiber'[f].hooked = e.hooked
  BY DEF Runs, Starts, Ends, Returns, Concludes, GoesOn
<1>2. status[r].phase # "suspended" /\ up
  BY <1>1 DEF RunInv, OwnerRun, KnownRun, Unowned
<1>3. status'[r].phase # "suspended"
  BY <1>2 DEF Starts, Ends, Returns, Concludes, Entered, In
<1>4. /\ up' /\ ~ Waits(r)' /\ ~ Unowned(r)'
      /\ \A g \in Fiber : Runs(g, r)' => g = f
      /\ KnownRun(r)' /\ OwnerRun(r)'
  BY <1>1, <1>3, Acting
<1>5. crashes' = crashes /\ def' = def
  BY DEF Others
<1>6. /\ e.pc \in {"next", "step"} =>
             Approved(r, e.next - 1) /\ recorded[r] < e.next /\ called[r] <= crashes
      /\ e.pc = "next" => Fresh(r, e.next - 1)
      /\ e.pc = "step" => Fresh(r, e.next)
      /\ crashes = 0 => e.hooked /\ def # "stored"
      /\ crashes = 0 /\ status[r].phase = "completed" => e.pc = "callback"
      /\ \A k \in 1 .. Last : ran[r][k] <= crashes + 1
      /\ called[r] <= crashes + 1
      /\ crashes \in Nat /\ called[r] \in Nat /\ recorded[r] \in 0 .. Last
      /\ \A k \in 1 .. Last : ran[r][k] \in Nat
      /\ e.next \in 1 .. Last + 1 /\ rows[r].at \in 0 .. Last
  BY <1>1, AtWork
<1>7. /\ rows[r].phase = "running" =>
             rows[r].at # 0 /\ Approved(r, rows[r].at) /\ recorded[r] <= rows[r].at
      /\ rows[r].phase = "suspended" =>
             Approved(r, rows[r].at - 1) /\ recorded[r] <= rows[r].at
  BY DEF RunInv, PathRun
<1>8. Count(called[r]) \in Nat /\ Count(called[r]) <= called[r] + 1
      /\ (called[r] = 0 => Count(called[r]) = 1)
  BY <1>6, Constants, CountType DEF Count
<1>9. CASE Starts(f)
  <2>1. /\ e.pc = "next" /\ fiber'[f].pc = "step" /\ fiber'[f].next = e.next
        /\ SameRow(r) /\ granted'[r] = granted[r] /\ called'[r] = called[r]
        /\ status'[r] = status[r] /\ e.next \in 1 .. Last
        /\ \A k \in 1 .. Last : ran'[r][k] = IF k = e.next THEN Count(ran[r][k]) ELSE ran[r][k]
    BY <1>9 DEF Starts, GoesOn
  <2>2. PathRun(r)'
    BY <1>3, <1>4, <1>6, <1>7, <2>1 DEF PathRun, Approved, SameRow
  <2>3. DurableRun(r)'
    BY <1>4, <2>1 DEF DurableRun
  <2>4. ran[r][e.next] <= crashes
    BY <1>6, <2>1, Constants DEF Fresh
  <2>5. Count(ran[r][e.next]) <= crashes + 1
    BY <1>6, <2>1, <2>4, CountType
  <2>6. Fresh(r, e.next - 1)
    BY <1>6, <2>1
  <2>7. \A k \in 1 .. Last : /\ ran'[r][k] <= crashes + 1
                             /\ k > e.next => ran'[r][k] <= crashes
    BY <1>6, <2>1, <2>5, <2>6, Constants DEF Fresh
  <2>8. CountRun(r)'
    BY <1>3, <1>4, <1>5, <1>6, <2>1, <2>7 DEF CountRun, Fresh
  <2>9. HookRun(r)'
    BY <1>1, <1>4, <1>5, <1>6, <2>1 DEF HookRun
  <2> QED
    BY <1>4, <2>2, <2>3, <2>8, <2>9 DEF RunInv
<1>10. CASE Ends(f)
  <2>1. /\ e.pc = "step" /\ fiber'[f].pc = "next" /\ fiber'[f].next = e.next + 1
        /\ Step[e.next] = "work" /\ e.next \in 1 .. Last
        /\ Saved(r, In("running", e.next)) \/ SameRow(r)
        /\ granted'[r] = granted[r] /\ called'[r] = called[r] /\ ran'[r] = ran[r]
        /\ status'[r] = status[r]
    BY <1>10 DEF Ends, GoesOn, SameTally
  <2>2. Approved(r, e.next - 1) /\ Approved(r, e.next)
    BY <1>6, <2>1, Constants DEF Approved
  <2>3. PathRun(r)'
    <3>1. /\ \A n \in Int : Approved(r, n)' <=> Approved(r, n)
      BY <2>1 DEF Approved
    <3>2. CASE SameRow(r)
      BY <1>3, <1>4, <1>6, <1>7, <2>1, <2>2, <3>2, Constants DEF PathRun, Approved, SameRow
    <3>3. CASE rows'[r] = In("running", e.next) /\ recorded'[r] = Larger(recorded[r], e.next)
      <4>1. recorded'[r] = e.next /\ rows'[r].phase = "running" /\ rows'[r].at = e.next
        BY <1>6, <2>1, <3>3, Constants DEF Larger, In
      <4> QED
        BY <1>3, <1>4, <1>6, <2>1, <2>2, <4>1, Constants DEF PathRun, Approved
    <3>4. CASE rows'[r] = rows[r] /\ recorded'[r] = recorded[r]
      BY <1>3, <1>4, <1>6, <1>7, <2>1, <2>2, <3>4, Constants DEF PathRun, Approved
    <3> QED
      BY <2>1, <3>2, <3>3, <3>4 DEF Saved, In
  <2>4. DurableRun(r)'
    BY <1>4, <2>1 DEF DurableRun
  <2>5. CountRun(r)'
    BY <1>3, <1>4, <1>5, <1>6, <2>1, Constants DEF CountRun, Fresh
  <2>6. HookRun(r)'
    BY <1>1, <1>4, <1>5, <1>6, <2>1 DEF HookRun
  <2> QED
    BY <1>4, <2>3, <2>4, <2>5, <2>6 DEF RunInv
<1>11. CASE Returns(f)
  <2>1. /\ e.pc \in {"next", "step"} /\ fiber'[f].pc \in {"completed", "failed"}
        /\ SameRow(r) /\ granted'[r] = granted[r] /\ ran'[r] = ran[r]
        /\ status'[r] = status[r]
        /\ called'[r] = IF e.hooked THEN Count(called[r]) ELSE called[r]
    BY <1>11 DEF Returns, GoesOn
  <2>2. PathRun(r)'
    BY <1>3, <1>4, <1>7, <2>1 DEF PathRun, Approved, SameRow
  <2>3. DurableRun(r)'
    BY <1>4, <2>1 DEF DurableRun
  <2>4. called'[r] <= crashes + 1 /\ (crashes = 0 => called'[r] = 1)
    BY <1>6, <1>8, <2>1
  <2>5. CountRun(r)'
    BY <1>3, <1>4, <1>5, <1>6, <2>1, <2>4 DEF CountRun
  <2>6. HookRun(r)'
    BY <1>1, <1>4, <1>5, <1>6, <2>1, <2>4 DEF HookRun
  <2> QED
    BY <1>4, <2>2, <2>3, <2>5, <2>6 DEF RunInv
<1>12. CASE Concludes(f)
  <2>1. /\ e.pc = "next" /\ fiber'[f].pc = "callback"
        /\ granted'[r] = granted[r] /\ called'[r] = called[r] /\ ran'[r] = ran[r]
        /\ status'[r] = In("completed", 0) /\ Saved(r, In("completed", 0))
    BY <1>12 DEF Concludes, GoesOn, SameTally, Entered
  <2>2. /\ status'[r].phase = "completed"
        /\ \/ rows'[r].phase = "completed"
           \/ rows'[r] = rows[r] /\ recorded'[r] = recorded[r] /\ r \in stale'
    BY <2>1 DEF Saved, In
  <2>3. PathRun(r)'
    BY <1>3, <1>4, <1>7, <2>1, <2>2 DEF PathRun, Approved
  <2>4. DurableRun(r)'
    BY <1>4, <2>1, <2>2 DEF DurableRun
  <2>5. CountRun(r)'
    BY <1>3, <1>4, <1>5, <1>6, <2>1 DEF CountRun
  <2>6. HookRun(r)'
    BY <1>1, <1>4, <1>5, <1>6, <2>1 DEF HookRun
  <2> QED
    BY <1>4, <2>3, <2>4, <2>5, <2>6 DEF RunInv
<1> QED
  BY <1>9, <1>10, <1>11, <1>12

\* ... or leaves it.
LEMMA LeavingKeeps ==
    ASSUME TypeOK, Place, NEW r \in RunId, NEW f \in Fiber, fiber[f].run = r, fiber[f] # Idle,
           RunInv(r), Others(f, r), SameWait(r), submitted' = submitted,
           Finishes(f) \/ CallsBack(f) \/ Suspends(f) \/ Deserts(f)
    PROVE  RunInv(r)'
<1> DEFINE e == fiber[f]
<1>1. Runs(f, r) /\ ~ Runs(f, r)'
  BY DEF Runs, Finishes, CallsBack, Suspends, Deserts
<1>2. /\ up /\ up' /\ ~ Waits(r)' /\ Unowned(r)' /\ status[r].phase # "suspended"
      /\ \A g \in Fiber : ~ Runs(g, r)'
      /\ KnownRun(r)' /\ OwnerRun(r)'
  <2>1. Unowned(r)'
    BY <1>1, Acting
  <2> QED
    BY <1>1, <2>1, Acting DEF Unowned
<1>3. crashes' = crashes /\ def' = def
  BY DEF Others
<1>4. /\ e.pc \in {"next", "step"} =>
             Approved(r, e.next - 1) /\ recorded[r] < e.next /\ called[r] <= crashes
      /\ e.pc = "next" => Fresh(r, e.next - 1)
      /\ e.pc = "callback" => called[r] <= crashes
      /\ crashes = 0 => e.hooked /\ def # "stored"
      /\ crashes = 0 /\ e.pc = "completed" => called[r] = 1
      /\ crashes = 0 /\ status[r].phase = "completed" => e.pc = "callback"
      /\ \A k \in 1 .. Last : ran[r][k] <= crashes + 1
      /\ called[r] <= crashes + 1
      /\ crashes \in Nat /\ called[r] \in Nat /\ recorded[r] \in 0 .. Last
      /\ \A k \in 1 .. Last : ran[r][k] \in Nat
      /\ e.next \in 1 .. Last + 1 /\ rows[r].at \in 0 .. Last
  BY <1>1, AtWork
<1>5. /\ rows[r].phase = "running" =>
             rows[r].at # 0 /\ Approved(r, rows[r].at) /\ recorded[r] <= rows[r].at
      /\ rows[r].phase = "suspended" =>
             Approved(r, rows[r].at - 1) /\ recorded[r] <= rows[r].at
  BY DEF RunInv, PathRun
<1>6. Count(called[r]) \in Nat /\ Count(called[r]) <= called[r] + 1
      /\ (called[r] = 0 => Count(called[r]) = 1)
  BY <1>4, Constants, CountType DEF Count
<1>7. ASSUME NEW ph \in {"completed", "failed"}, Entered(r, In(ph, 0)),
             granted'[r] = granted[r], ran'[r] = ran[r],
             called'[r] <= crashes + 1, crashes = 0 /\ ph = "completed" => called'[r] = 1
      PROVE  RunInv(r)'
  <2>1. /\ status'[r].phase = ph
        /\ \/ rows'[r].phase = ph
           \/ rows'[r] = rows[r] /\ recorded'[r] = recorded[r] /\ r \in stale'
    BY <1>7 DEF Entered, Saved, In
  <2>2. PathRun(r)'
    BY <1>2, <1>5, <1>7, <2>1 DEF PathRun, Approved
  <2>3. DurableRun(r)'
    BY <1>2, <2>1 DEF DurableRun
  <2>4. CountRun(r)'
    BY <1>2, <1>3, <1>4, <1>7, <2>1 DEF CountRun
  <2>5. HookRun(r)'
    BY <1>2, <1>3, <1>4, <1>7, <2>1 DEF HookRun
  <2> QED
    BY <1>2, <2>2, <2>3, <2>4, <2>5 DEF RunInv
<1>8. CASE Finishes(f)
  BY <1>4, <1>7, <1>8 DEF Finishes, SameTally
<1>9. CASE CallsBack(f)
  <2>1. /\ e.pc = "callback" /\ granted'[r] = granted[r] /\ ran'[r] = ran[r]
        /\ called'[r] = IF e.hooked THEN Count(called[r]) ELSE called[r]
    BY <1>9 DEF CallsBack
  <2>2. called'[r] <= crashes + 1 /\ (crashes = 0 => called'[r] = 1)
    BY <1>4, <1>6, <2>1
  <2>3. CASE Entered(r, In("failed", 0))
    BY <1>7, <2>1, <2>2, <2>3
  <2>4. CASE SameRow(r) /\ status'[r] = status[r]
    <3>1. PathRun(r)'
      BY <1>2, <1>5, <2>1, <2>4 DEF PathRun, Approved, SameRow
    <3>2. r \notin stale => rows[r].phase = status[r].phase /\ rows[r].phase \in {"completed", "failed"}
      BY <1>1, <2>1 DEF RunInv, DurableRun
    <3>3. DurableRun(r)'
      BY <1>2, <2>4, <3>2 DEF DurableRun, SameRow
    <3>4. CountRun(r)'
      BY <1>2, <1>3, <1>4, <2>1, <2>2, <2>4 DEF CountRun
    <3>5. HookRun(r)'
      BY <1>2, <1>3, <1>4, <2>2 DEF HookRun
    <3> QED
      BY <1>2, <3>1, <3>3, <3>4, <3>5 DEF RunInv
  <2> QED
    BY <1>9, <2>3, <2>4 DEF CallsBack
<1>10. CASE Suspends(f)
  <2>1. /\ e.pc = "next" /\ granted'[r] = granted[r] /\ ran'[r] = ran[r] /\ called'[r] = called[r]
        /\ status'[r] = In("suspended", e.next) /\ Saved(r, In("suspended", e.next))
        /\ e.next \in 1 .. Last
    BY <1>10 DEF Suspends, SameTally, Entered
  <2>2. status'[r].phase = "suspended" /\ status'[r].at = e.next
    BY <2>1 DEF In
  <2>3. \/ /\ rows'[r].phase = "suspended" /\ rows'[r].at = e.next /\ recorded'[r] = e.next
        \/ rows'[r] = rows[r] /\ recorded'[r] = recorded[r] /\ r \in stale'
    BY <1>4, <2>1, Constants DEF Saved, In, Larger
  <2>4. PathRun(r)'
    BY <1>2, <1>4, <1>5, <2>1, <2>2, <2>3, Constants DEF PathRun, Approved
  <2>5. DurableRun(r)'
    BY <1>2, <2>2, <2>3 DEF DurableRun
  <2>6. CountRun(r)'
    BY <1>2, <1>3, <1>4, <2>1, <2>2, Constants DEF CountRun, Fresh
  <2>7. HookRun(r)'
    BY <1>2, <1>3, <1>4, <2>2 DEF HookRun
  <2> QED
    BY <1>2, <2>4, <2>5, <2>6, <2>7 DEF RunInv
<1>11. CASE Deserts(f)
  <2>1. /\ e.pc # "callback" /\ SameRow(r) /\ status'[r] = status[r] /\ r \in deserted'
        /\ granted'[r] = granted[r] /\ ran'[r] = ran[r] /\ called'[r] = called[r]
    BY <1>11 DEF Deserts, SameTally
  <2>2. PathRun(r)'
    BY <1>2, <1>5, <2>1 DEF PathRun, Approved, SameRow
  <2>3. DurableRun(r)'
    BY <1>2, <2>1 DEF DurableRun
  <2>4. CountRun(r)'
    BY <1>2, <1>3, <1>4, <2>1 DEF CountRun
  <2>5. HookRun(r)'
    BY <1>2, <1>3, <1>4, <2>1 DEF HookRun
  <2> QED
    BY <1>2, <2>2, <2>3, <2>4, <2>5 DEF RunInv
<1> QED
  BY <1>8, <1>9, <1>10, <1>11

\* A call that enters a run it finds without an executor.
Enters(f, r, next) ==
    /\ Runs(f, r)' /\ fiber'[f].pc = "next" /\ fiber'[f].next = next
    /\ fiber'[f].hooked = TRUE \/ fiber'[f].hooked = (def = "registered")
    /\ \A g \in Fiber : g # f => fiber'[g] = fiber[g]
    /\ status'[r].phase = "running"
    /\ up' = up /\ crashes' = crashes /\ def' = def /\ orphaned' = orphaned

\* A fiber that enters a run keeps the invariant of that run ...
LEMMA EntersKeeps ==
    ASSUME TypeOK, Place, NEW r \in RunId, NEW f \in Fiber, NEW next \in 1 .. Last + 1, up,
           RunInv(r), Unowned(r), Enters(f, r, next), ~ WaitsNext(r),
           r \in submitted', def = "none" => fiber'[f].hooked = TRUE,
           granted[r] \subseteq granted'[r], ran'[r] = ran[r], called'[r] = called[r],
           Fresh(r, next - 1), Approved(r, next - 1)', recorded[r] < next,
           \/ rows'[r] = rows[r] /\ recorded'[r] = recorded[r]
           \/ /\ next > 1
              /\ rows'[r] = In("running", next - 1)
              /\ recorded'[r] = Larger(recorded[r], next - 1)
    PROVE  RunInv(r)'
<1>1. Runs(f, r)' /\ ~ Waits(r)' /\ ~ Unowned(r)' /\ up'
  BY DEF Enters, WaitsNext, Waits, Unowned
<1>2. \A g \in Fiber : Runs(g, r)' => g = f
  BY DEF Enters, Unowned, Runs
<1>3. crashes' = crashes /\ def' = def /\ status'[r].phase = "running"
  BY DEF Enters
<1>4. fiber'[f].pc = "next" /\ fiber'[f].next = next
  BY DEF Enters
<1>5. recorded[r] \in 0 .. Last /\ crashes \in Nat /\ called[r] \in Nat /\ rows[r].at \in 0 .. Last
  BY Constants DEF TypeOK, State
<1>6. /\ \A k \in 1 .. Last : ran[r][k] <= crashes + 1
      /\ called[r] <= crashes + 1
      /\ crashes = 0 => def # "stored"
  BY DEF RunInv, CountRun, HookRun
<1>7. /\ rows[r].phase = "running" =>
             rows[r].at # 0 /\ Approved(r, rows[r].at) /\ recorded[r] <= rows[r].at
      /\ rows[r].phase = "suspended" =>
             Approved(r, rows[r].at - 1) /\ recorded[r] <= rows[r].at
  BY DEF RunInv, PathRun
<1>8. KnownRun(r)'
  BY <1>1 DEF KnownRun
<1>9. OwnerRun(r)'
  BY <1>1, <1>2, <1>3 DEF OwnerRun
<1>10. PathRun(r)'
  <2>1. \A n \in Int : Approved(r, n) => Approved(r, n)'
    BY DEF Approved
  <2>2. CASE rows'[r] = rows[r] /\ recorded'[r] = recorded[r]
    <3>1. \A g \in Fiber : Runs(g, r)' =>
             (Approved(r, fiber[g].next - 1) /\ recorded[r] < fiber[g].next)'
      BY <1>2, <1>4, <2>2 DEF Approved
    <3>2. /\ rows'[r].phase = "running" =>
                rows'[r].at # 0 /\ Approved(r, rows[r].at)' /\ recorded'[r] <= rows'[r].at
          /\ rows'[r].phase = "suspended" =>
                Approved(r, rows[r].at - 1)' /\ recorded'[r] <= rows'[r].at
      BY <1>7, <2>2 DEF Approved
    <3> QED
      BY <1>3, <3>1, <3>2 DEF PathRun
  <2>3. CASE next > 1 /\ rows'[r] = In("running", next - 1) /\ recorded'[r] = Larger(recorded[r], next - 1)
    <3>1. /\ rows'[r].phase = "running" /\ rows'[r].at = next - 1 /\ recorded'[r] = next - 1
      BY <1>5, <2>3, Constants DEF In, Larger
    <3>2. \A g \in Fiber : Runs(g, r)' =>
             (Approved(r, fiber[g].next - 1) /\ recorded[r] < fiber[g].next)'
      BY <1>2, <1>4, <3>1, Constants DEF Approved
    <3>3. rows'[r].at # 0 /\ Approved(r, rows[r].at)' /\ recorded'[r] <= rows'[r].at
      BY <2>3, <3>1, Constants DEF Approved
    <3> QED
      BY <1>3, <3>1, <3>2, <3>3 DEF PathRun
  <2> QED
    BY <2>2, <2>3
<1>11. DurableRun(r)'
  BY <1>1, <1>2, <1>4 DEF DurableRun
<1>12. Fresh(r, next - 1)'
  BY <1>3 DEF Fresh
<1>13. \A g \in Fiber : Runs(g, r)' => fiber'[g].pc = "next" /\ Fresh(r, fiber[g].next - 1)'
  BY <1>2, <1>4, <1>12 DEF Fresh
<1>14. CountRun(r)'
  BY <1>1, <1>3, <1>6, <1>13 DEF CountRun
<1>15. crashes = 0 => fiber'[f].hooked = TRUE
  BY <1>6 DEF Enters, TypeOK
<1>16. HookRun(r)'
  BY <1>1, <1>2, <1>3, <1>4, <1>6, <1>15 DEF HookRun
<1> QED
  BY <1>8, <1>9, <1>10, <1>11, <1>14, <1>16 DEF RunInv

\* ... and of every other.
LEMMA CallsKeep ==
    ASSUME Inv, RecoverAgain = FALSE, NEW r \in RunId, NEW f \in Fiber,
           Submit(f, r) \/ Resume(f, r) \/ Recover(f, r)
    PROVE  \A q \in RunId : RunInv(q)'
<1>0. TypeOK /\ Place /\ \A q \in RunId : RunInv(q)
  BY DEF Inv
<1>1. /\ up /\ up' = up /\ crashes' = crashes /\ def' = def /\ orphaned' = orphaned
      /\ fiber[f] = Idle
  BY DEF Submit, Resume, Recover, Free, process
<1>2. RunInv(r) /\ KnownRun(r) /\ OwnerRun(r) /\ PathRun(r) /\ CountRun(r)
  BY <1>0 DEF RunInv
<1>3. status[r] \in State /\ rows[r] \in State /\ status[r].at \in 0 .. Last /\ rows[r].at \in 0 .. Last
  BY <1>0 DEF TypeOK, State
<1>4. /\ status[r].phase = "suspended" => status[r].at # 0
  BY <1>0 DEF Place
<1>5. ASSUME NEW e \in Execution, Local(f, e), e.run = r,
             \A q \in RunId : q # r => Same(q) /\ (q \in submitted' <=> q \in submitted)
      PROVE  /\ \A q \in RunId : q # r => RunInv(q)'
             /\ fiber'[f] = e /\ Runs(f, r)'
             /\ \A g \in Fiber : g # f => fiber'[g] = fiber[g]
  <2>1. /\ fiber'[f] = e /\ \A g \in Fiber : g # f => fiber'[g] = fiber[g]
    BY <1>0, <1>5, LocalType
  <2>2. Runs(f, r)'
    BY <1>5, <2>1, IdleAssumption DEF Runs
  <2>3. ASSUME NEW q \in RunId, q # r
        PROVE  RunInv(q)'
    <3>1. ~ Runs(f, q) /\ ~ Runs(f, q)'
      BY <1>1, <1>5, <2>1, <2>3 DEF Runs
    <3>2. \A g \in Fiber : fiber'[g] = fiber[g] \/ (~ Runs(g, q) /\ ~ Runs(g, q)')
      BY <2>1, <3>1 DEF Runs
    <3>3. RunInv(q) /\ Same(q) /\ (q \in submitted' <=> q \in submitted)
      BY <1>0, <1>5, <2>3
    <3> QED
      BY <1>1, <3>2, <3>3, Frame
  <2> QED
    BY <2>1, <2>2, <2>3
<1>6. CASE Submit(f, r)
  <2>0. PICK how \in {"submit", "async"} :
            Local(f, [run |-> r, pc |-> "next", next |-> 1, entered |-> how, hooked |-> TRUE])
    BY <1>6 DEF Submit
  <2> DEFINE e == [run |-> r, pc |-> "next", next |-> 1, entered |-> how, hooked |-> TRUE]
  <2>1. e \in Execution /\ e.run = r /\ e.pc = "next" /\ e.next = 1 /\ e.hooked = TRUE
    BY Constants DEF Execution
  <2>2. /\ Local(f, e) /\ r \notin submitted /\ submitted' = submitted \cup {r}
        /\ status' = [status EXCEPT ![r] = In("running", 0)]
        /\ UNCHANGED << table, tally, recovering, recovered, deserted >>
    BY <1>6, <2>0 DEF Submit
  <2> HIDE DEF e
  <2>3. \A q \in RunId : q # r => Same(q) /\ (q \in submitted' <=> q \in submitted)
    BY <1>0, <1>1, <2>2 DEF Same, SameRow, SameWait, WaitsNext, Waits, table, tally, TypeOK
  <2>4. /\ \A q \in RunId : q # r => RunInv(q)'
        /\ fiber'[f] = e /\ Runs(f, r)'
        /\ \A g \in Fiber : g # f => fiber'[g] = fiber[g]
    BY <1>5, <2>1, <2>2, <2>3
  <2>5. status'[r].phase = "running"
    BY <1>0, <2>2 DEF TypeOK, In
  <2>6. Enters(f, r, 1)
    BY <1>1, <2>1, <2>4, <2>5 DEF Enters
  <2>7. Unowned(r) /\ recorded[r] = 0 /\ Fresh(r, 0) /\ r \notin orphaned
    BY <1>2, <2>2 DEF KnownRun
  <2>8. /\ ~ WaitsNext(r) /\ r \in submitted' /\ fiber'[f].hooked = TRUE
        /\ granted'[r] = granted[r] /\ ran'[r] = ran[r] /\ called'[r] = called[r]
        /\ rows'[r] = rows[r] /\ recorded'[r] = recorded[r]
    BY <1>1, <2>1, <2>2, <2>4, <2>7 DEF WaitsNext, table, tally
  <2>9. PICK n \in 1 .. Last + 1 : n = 1
    BY Constants
  <2>10. Fresh(r, n - 1) /\ Approved(r, n - 1)' /\ recorded[r] < n /\ Enters(f, r, n)
    BY <2>6, <2>7, <2>9, Constants DEF Approved
  <2>11. RunInv(r)'
    BY <1>0, <1>1, <1>2, <2>7, <2>8, <2>10, EntersKeeps
  <2> QED
    BY <2>4, <2>11
<1>7. ASSUME NEW at \in 1 .. Last, RunFromCheckpoint(f, r, at), def # "none",
             submitted' = submitted, ran' = ran, called' = called, deserted' = deserted,
             granted[r] \subseteq granted'[r], ~ WaitsNext(r), Unowned(r),
             \A q \in RunId : q # r => SameWait(q) /\ granted'[q] = granted[q],
             Fresh(r, at), Approved(r, at)', recorded[r] <= at, r \in submitted
      PROVE  \A q \in RunId : RunInv(q)'
  <2> DEFINE e == [run |-> r, pc |-> "next", next |-> at + 1,
                   entered |-> "checkpoint", hooked |-> def = "registered"]
  <2>1. e \in Execution /\ e.run = r /\ e.pc = "next" /\ e.next = at + 1 /\ e.hooked = (def = "registered")
    BY Constants DEF Execution
  <2>2. SetRunning(r) /\ Save(r, In("running", at)) /\ Local(f, e)
    BY <1>7 DEF RunFromCheckpoint, ReenterAfter
  <2> HIDE DEF e
  <2>3. In("running", at) \in State
    BY States, Constants DEF Phase
  <2>4. Saved(r, In("running", at)) /\ \A q \in RunId : q # r => SameRow(q)
    BY <1>0, <2>2, <2>3, SaveShape
  <2>5. /\ status'[r].phase = "running"
        /\ \A q \in RunId : q # r => status'[q] = status[q]
    BY <1>0, <2>2 DEF SetRunning, TypeOK, In
  <2>6. \A q \in RunId : q # r => Same(q) /\ (q \in submitted' <=> q \in submitted)
    BY <1>7, <2>4, <2>5 DEF Same
  <2>7. /\ \A q \in RunId : q # r => RunInv(q)'
        /\ fiber'[f] = e /\ Runs(f, r)'
        /\ \A g \in Fiber : g # f => fiber'[g] = fiber[g]
    BY <1>5, <2>1, <2>2, <2>6
  <2>8. Enters(f, r, at + 1)
    BY <1>1, <2>1, <2>5, <2>7 DEF Enters
  <2>9. /\ at + 1 \in 1 .. Last + 1 /\ (at + 1) - 1 = at /\ at + 1 > 1
        /\ recorded[r] < at + 1
    BY <1>0, <1>7, Constants DEF TypeOK
  <2>10. \/ rows'[r] = rows[r] /\ recorded'[r] = recorded[r]
         \/ /\ rows'[r] = In("running", at)
            /\ recorded'[r] = Larger(recorded[r], at)
    BY <2>4 DEF Saved, In
  <2>11. Fresh(r, (at + 1) - 1) /\ Approved(r, (at + 1) - 1)'
    BY <1>7, <2>9
  <2>12. RunInv(r)'
    BY <1>0, <1>1, <1>2, <1>7, <2>7, <2>8, <2>9, <2>10, <2>11, EntersKeeps
  <2> QED
    BY <2>7, <2>12
<1>8. CASE Resume(f, r)
  <2>1. /\ status[r].phase = "suspended" /\ def # "none"
        /\ granted' = [granted EXCEPT ![r] = @ \cup {status[r].at}]
        /\ RunFromCheckpoint(f, r, status[r].at)
        /\ submitted' = submitted /\ ran' = ran /\ called' = called
        /\ recovering' = recovering /\ recovered' = recovered /\ deserted' = deserted
    BY <1>8 DEF Resume, process
  <2>2. status[r].at \in 1 .. Last
    BY <1>3, <1>4, <2>1, Constants
  <2>3. Unowned(r) /\ ~ Waits(r) /\ Approved(r, status[r].at - 1) /\ recorded[r] <= status[r].at
        /\ Fresh(r, status[r].at)
    BY <1>2, <2>1 DEF OwnerRun, PathRun, CountRun
  <2>4. /\ granted[r] \subseteq granted'[r] /\ status[r].at \in granted'[r]
        /\ \A q \in RunId : q # r => granted'[q] = granted[q]
    BY <1>0, <2>1 DEF TypeOK
  <2>5. r \in submitted
    BY <1>2, <2>1 DEF KnownRun
  <2>6. \A q \in RunId : SameWait(q)
    BY <1>1, <2>1 DEF SameWait, WaitsNext, Waits
  <2>7. ~ WaitsNext(r)
    BY <2>3, <2>6 DEF SameWait
  <2>8. PICK at \in 1 .. Last : at = status[r].at
    BY <2>2
  <2>9. Approved(r, at)'
    BY <2>3, <2>4, <2>8, Constants DEF Approved
  <2> QED
    BY <1>7, <2>1, <2>3, <2>4, <2>5, <2>6, <2>7, <2>8, <2>9
<1>9. CASE Recover(f, r)
  <2>1. /\ status[r].phase = "running" /\ r \in orphaned /\ r \notin recovering /\ r \notin recovered
        /\ rows[r].at # 0 /\ def # "none" /\ recovering' = recovering \cup {r} /\ recovered' = recovered
        /\ RunFromCheckpoint(f, r, rows[r].at)
        /\ submitted' = submitted /\ ran' = ran /\ called' = called /\ granted' = granted
        /\ deserted' = deserted
    BY <1>9 DEF Recover, NotRecovering, process, tally
  <2>2. PICK at \in 1 .. Last : at = rows[r].at
    BY <1>3, <2>1, Constants
  <2>3. Unowned(r) /\ rows[r].phase = "running" /\ Fresh(r, 0)
    BY <1>2, <2>1 DEF OwnerRun, CountRun, Waits
  <2>4. Approved(r, at) /\ recorded[r] <= at /\ r \in submitted /\ Fresh(r, at)
    BY <1>2, <2>1, <2>2, <2>3, Constants DEF PathRun, KnownRun, Fresh
  <2>5. Approved(r, at)'
    BY <2>1, <2>4 DEF Approved
  <2>6. ~ WaitsNext(r) /\ \A q \in RunId : q # r => SameWait(q)
    BY <1>1, <2>1 DEF SameWait, WaitsNext, Waits
  <2> QED
    BY <1>7, <2>1, <2>2, <2>3, <2>4, <2>5, <2>6
<1> QED
  BY <1>6, <1>8, <1>9

\* Cancelling a run, registering a definition
LEMMA CancelKeeps ==
    ASSUME Inv, NEW r \in RunId, Cancel(r)
    PROVE  \A q \in RunId : RunInv(q)'
<1>1. TypeOK /\ Place /\ \A q \in RunId : RunInv(q)
  BY DEF Inv
<1>2. /\ up /\ status[r].phase # "unknown" /\ Enter(r, In("failed", 0))
      /\ fiber' = fiber /\ up' = up /\ def' = def /\ orphaned' = orphaned /\ crashes' = crashes
      /\ submitted' = submitted /\ recovering' = recovering /\ recovered' = recovered
      /\ granted' = granted /\ ran' = ran /\ called' = called /\ deserted' = deserted \ {r}
  BY DEF Cancel, process, tally
<1>3. In("failed", 0) \in State
  BY States, Constants DEF Phase
<1>4. /\ Entered(r, In("failed", 0))
      /\ \A q \in RunId : q # r => SameRow(q) /\ status'[q] = status[q]
  BY <1>1, <1>2, <1>3, EnterShape
<1>5. \A q \in RunId : SameWait(q)
  BY <1>2 DEF SameWait, WaitsNext, Waits
<1>6. ASSUME NEW q \in RunId, q # r
      PROVE  RunInv(q)'
  <2>1. Same(q)
    BY <1>2, <1>4, <1>5, <1>6 DEF Same
  <2>2. \A g \in Fiber : fiber'[g] = fiber[g]
    BY <1>2
  <2> QED
    BY <1>1, <1>2, <2>1, <2>2, Frame
<1>7. RunInv(r)'
  <2>1. /\ status'[r].phase = "failed"
        /\ \/ rows'[r].phase = "failed" /\ r \notin stale'
           \/ rows'[r] = rows[r] /\ recorded'[r] = recorded[r] /\ r \in stale'
        /\ recorded[r] = recorded'[r]
    <3>1. recorded[r] \in Nat
      BY <1>1, Constants DEF TypeOK
    <3> QED
      BY <1>4, <3>1 DEF Entered, Saved, In, Larger
  <2>2. /\ \A g \in Fiber : Runs(g, r)' <=> Runs(g, r)
        /\ Unowned(r)' <=> Unowned(r)
        /\ Waits(r)' <=> Waits(r)
    BY <1>2 DEF Runs, Unowned, Waits
  <2>3. KnownRun(r) /\ OwnerRun(r) /\ PathRun(r) /\ CountRun(r) /\ HookRun(r)
    BY <1>1 DEF RunInv
  <2>4. r \in submitted
    BY <1>2, <2>3 DEF KnownRun
  <2>5. KnownRun(r)'
    BY <1>2, <2>4 DEF KnownRun
  <2>6. OwnerRun(r)'
    BY <2>1, <2>2, <2>3 DEF OwnerRun
  <2>7. PathRun(r)'
    BY <1>2, <2>1, <2>2, <2>3 DEF PathRun, Approved
  <2>8. DurableRun(r)'
    BY <1>2, <2>1, <2>2 DEF DurableRun
  <2>9. CountRun(r)'
    BY <1>2, <2>1, <2>2, <2>3 DEF CountRun, Fresh
  <2>10. HookRun(r)'
    BY <1>2, <2>1, <2>2, <2>3 DEF HookRun
  <2> QED
    BY <2>5, <2>6, <2>7, <2>8, <2>9, <2>10 DEF RunInv
<1> QED
  BY <1>6, <1>7

LEMMA RegisterKeeps ==
    ASSUME Inv, Register
    PROVE  \A q \in RunId : RunInv(q)'
<1>1. ASSUME NEW q \in RunId
      PROVE  RunInv(q)'
  <2>1. Same(q)
    BY DEF Register, Same, SameRow, SameWait, WaitsNext, Waits, table, tally
  <2>2. /\ up /\ up' /\ crashes' = crashes /\ def' = "registered" /\ orphaned' = orphaned
        /\ submitted' = submitted /\ \A g \in Fiber : fiber'[g] = fiber[g]
    BY DEF Register
  <2>3. RunInv(q)
    BY DEF Inv
  <2> QED
    BY <2>1, <2>2, <2>3, Frame
<1> QED
  BY <1>1

\* The death of the process and the next Runtime.create
LEMMA ProcessKeeps ==
    ASSUME Inv, Crash \/ Create
    PROVE  \A q \in RunId : RunInv(q)'
<1>1. TypeOK /\ Place /\ \A q \in RunId : RunInv(q)
  BY DEF Inv
<1> SUFFICES ASSUME NEW r \in RunId PROVE RunInv(r)'
  OBVIOUS
<1>2. KnownRun(r) /\ OwnerRun(r) /\ PathRun(r) /\ DurableRun(r) /\ CountRun(r) /\ HookRun(r)
  BY <1>1 DEF RunInv
<1>3. /\ crashes \in Nat /\ called[r] \in Nat /\ \A k \in 1 .. Last : ran[r][k] \in Nat
      /\ rows[r] \in State /\ rows[r].at \in 0 .. Last
  BY <1>1, Constants DEF TypeOK, State
<1>4. /\ rows' = rows /\ recorded' = recorded /\ stale' = stale /\ submitted' = submitted
      /\ granted' = granted /\ ran' = ran /\ called' = called
  BY DEF Crash, Create, table, tally
<1>5. CASE Crash
  <2>1. /\ ~ up' /\ status'[r] = In("unknown", 0) /\ \A f \in Fiber : fiber'[f] = Idle
        /\ orphaned' = {} /\ recovering' = {} /\ recovered' = {} /\ crashes' = crashes + 1
    BY <1>5 DEF Crash
  <2>2. /\ status'[r].phase = "unknown" /\ ~ Waits(r)' /\ Unowned(r)'
        /\ \A f \in Fiber : ~ Runs(f, r)'
    BY <2>1 DEF In, Waits, Unowned, Runs
  <2>3. Fresh(r, 0)'
    BY <1>2, <1>4, <2>1 DEF CountRun, Fresh
  <2>4. KnownRun(r)'
    BY <1>2, <1>4, <2>1, <2>2, <2>3 DEF KnownRun
  <2>5. OwnerRun(r)'
    BY <2>2 DEF OwnerRun
  <2>6. PathRun(r)'
    BY <1>2, <1>4, <2>2 DEF PathRun, Approved
  <2>7. DurableRun(r)'
    BY <2>1, <2>2 DEF DurableRun
  <2>8. CountRun(r)'
    BY <1>2, <1>3, <1>4, <2>1, <2>2, <2>3 DEF CountRun
  <2>9. HookRun(r)'
    BY <1>3, <2>1 DEF HookRun
  <2> QED
    BY <2>4, <2>5, <2>6, <2>7, <2>8, <2>9 DEF RunInv
<1>6. CASE Create
  <2>1. /\ ~ up /\ up' /\ status'[r] = Rehydrated(r) /\ fiber' = fiber /\ def' = def
        /\ r \in orphaned' <=> Rehydrated(r).phase = "running"
        /\ recovering' = recovering /\ recovered' = recovered /\ crashes' = crashes
    BY <1>6 DEF Create, Orphans
  <2>2. /\ r \notin recovering' /\ r \notin recovered' /\ Unowned(r)'
        /\ \A f \in Fiber : ~ Runs(f, r)'
    BY <1>2, <2>1 DEF KnownRun, Unowned, Runs
  <2>3. /\ Waits(r)' <=> r \in orphaned'
    BY <2>2 DEF Waits
  <2>4. /\ rows[r].phase = "running" => status'[r].phase = "running"
        /\ rows[r].phase = "suspended" => status'[r] = rows[r]
        /\ rows[r].phase \notin {"running", "suspended"} => status'[r].phase = "unknown"
    BY <2>1 DEF Rehydrated, In
  <2>5. /\ r \in orphaned' <=> rows[r].phase = "running"
    BY <2>1 DEF Rehydrated, In
  <2>6. Fresh(r, 0)
    BY <1>2, <2>1 DEF CountRun
  <2>7. KnownRun(r)'
    BY <1>2, <1>4, <2>1, <2>2, <2>4, <2>5, <2>6 DEF KnownRun, Fresh
  <2>8. OwnerRun(r)'
    BY <1>4, <2>2, <2>3, <2>4, <2>5 DEF OwnerRun
  <2>9. PathRun(r)'
    BY <1>2, <1>4, <2>2, <2>4 DEF PathRun, Approved
  <2>10. DurableRun(r)'
    BY <1>4, <2>2, <2>3, <2>4, <2>5 DEF DurableRun
  <2>11. CountRun(r)'
    BY <1>2, <1>3, <1>4, <2>1, <2>2, <2>6 DEF CountRun, Fresh
  <2>12. HookRun(r)'
    BY <1>2, <2>1, <2>2, <2>4 DEF HookRun
  <2> QED
    BY <2>7, <2>8, <2>9, <2>10, <2>11, <2>12 DEF RunInv
<1> QED
  BY <1>5, <1>6

\* Every step of a fiber keeps the invariant of every run.
LEMMA StepsKeep ==
    ASSUME Inv, NEW f \in Fiber, Execute(f)
    PROVE  \A q \in RunId : RunInv(q)'
<1>1. TypeOK /\ Place /\ \A q \in RunId : RunInv(q)
  BY DEF Inv
<1>2. /\ fiber[f] # Idle
      /\ Others(f, fiber[f].run) /\ submitted' = submitted
      /\ SameWait(fiber[f].run)
      /\ Shape(f)
  BY <1>1, StepShape
<1>3. PICK r \in RunId : r = fiber[f].run
  BY <1>1, <1>2, ExecutionFields
<1>4. Runs(f, r) /\ Others(f, r) /\ SameWait(r) /\ RunInv(r)
  BY <1>1, <1>2, <1>3 DEF Runs
<1>5. up
  BY <1>4 DEF RunInv, KnownRun, Unowned
<1>6. ASSUME NEW q \in RunId, q # r
      PROVE  RunInv(q)'
  <2>1. \A g \in Fiber : fiber'[g] = fiber[g] \/ (~ Runs(g, q) /\ ~ Runs(g, q)')
    <3>1. \A g \in Fiber : g # f => fiber'[g] = fiber[g]
      BY <1>4 DEF Others
    <3>2. fiber'[f] = Idle \/ fiber'[f].run = r
      BY <1>2, <1>3 DEF Shape, Starts, Ends, Returns, Concludes, Finishes, CallsBack,
                        Suspends, Deserts, GoesOn
    <3> QED
      BY <1>3, <1>6, <3>1, <3>2 DEF Runs
  <2>2. /\ Same(q) /\ up' = up /\ def' = def /\ orphaned' = orphaned /\ crashes' = crashes
    BY <1>4, <1>6 DEF Others
  <2> QED
    BY <1>1, <1>2, <1>5, <2>1, <2>2, Frame
<1>7. RunInv(r)'
  <2>1. CASE Starts(f) \/ Ends(f) \/ Returns(f) \/ Concludes(f)
    BY <1>1, <1>2, <1>3, <1>4, <2>1, GoingKeeps
  <2>2. CASE Finishes(f) \/ CallsBack(f) \/ Suspends(f) \/ Deserts(f)
    BY <1>1, <1>2, <1>3, <1>4, <2>2, LeavingKeeps
  <2> QED
    BY <1>2, <2>1, <2>2 DEF Shape
<1> QED
  BY <1>6, <1>7

LEMMA Invariance ==
    ASSUME RecoverAgain = FALSE
    PROVE  Spec => []Inv
<1>1. Init => Inv
  <2>1. ASSUME Init
        PROVE  Inv
    <3>1. TypeOK /\ Place
      <4>1. In("unknown", 0) \in State /\ In("unknown", 0).phase = "unknown"
        BY States, Constants DEF Phase
      <4> QED
        BY <2>1, <4>1, Constants DEF Init, TypeOK, Place, At
    <3>2. ASSUME NEW r \in RunId
          PROVE  RunInv(r)
      <4>1. /\ status[r].phase = "unknown" /\ rows[r].phase = "unknown" /\ recorded[r] = 0
            /\ called[r] = 0 /\ crashes = 0 /\ def = "none" /\ up
            /\ \A k \in 1 .. Last : ran[r][k] = 0
            /\ orphaned = {} /\ \A f \in Fiber : fiber[f] = Idle
        BY <2>1 DEF Init, In
      <4>2. Unowned(r) /\ ~ Waits(r) /\ Fresh(r, 0) /\ \A f \in Fiber : ~ Runs(f, r)
        BY <4>1 DEF Unowned, Waits, Fresh, Runs
      <4> QED
        BY <4>1, <4>2 DEF RunInv, KnownRun, OwnerRun, PathRun, DurableRun, CountRun, HookRun
    <3> QED
      BY <3>1, <3>2 DEF Inv
  <2> QED
    BY <2>1
<1>2. Inv /\ [Next]_vars => Inv'
  <2>1. ASSUME Inv, UNCHANGED vars
        PROVE  Inv'
    BY <2>1 DEF vars, Inv, TypeOK, Place, At, RunInv, KnownRun, OwnerRun, PathRun,
                DurableRun, CountRun, HookRun, Fresh, Approved, Unowned, Runs, Waits
  <2>2. ASSUME Inv, Next
        PROVE  Inv'
    <3>1. TypeOK /\ Place
      BY <2>2 DEF Inv
    <3>2. CASE Register
      BY <2>2, <3>1, <3>2, ProcessKeepsTypes, RegisterKeeps DEF Inv
    <3>3. CASE Crash \/ Create
      BY <2>2, <3>1, <3>3, ProcessKeepsTypes, ProcessKeeps DEF Inv
    <3>4. ASSUME NEW r \in RunId, Cancel(r)
          PROVE  Inv'
      BY <2>2, <3>1, <3>4, CancelKeepsTypes, CancelKeeps DEF Inv
    <3>5. ASSUME NEW r \in RunId, NEW f \in Fiber, Submit(f, r) \/ Resume(f, r) \/ Recover(f, r)
          PROVE  Inv'
      BY <2>2, <3>1, <3>5, CallsKeepTypes, CallsKeep DEF Inv
    <3>6. ASSUME NEW f \in Fiber, Execute(f)
          PROVE  Inv'
      BY <2>2, <3>1, <3>6, StepsKeepTypes, StepsKeep DEF Inv
    <3> QED
      BY <2>2, <3>2, <3>3, <3>4, <3>5, <3>6 DEF Next
  <2> QED
    BY <2>1, <2>2
<1> QED
  BY <1>1, <1>2, PTL DEF Spec

---------------------------------------------------------------------------
(* What the invariant says *)

LEMMA Unexecuted ==
    ASSUME NEW r \in RunId
    PROVE  Unowned(r) <=> Executors(r) = {}
BY DEF Unowned, Executors, Runs

\* No run is executed by two fibers, whatever submits, approvals, resumptions and
\* recoveries race, provided no caller recovers a run whose recovery has ended.
THEOREM OneExecutorHolds ==
    ASSUME RecoverAgain = FALSE
    PROVE  Spec => []OneExecutor
<1>1. Inv => OneExecutor
  BY DEF Inv, RunInv, OwnerRun, OneExecutor, Executors, Runs
<1> QED
  BY <1>1, Invariance, PTL

\* No step is started behind an approval nobody granted, in this process or after
\* any number of crashes and recoveries.
THEOREM ApprovalGatesHold ==
    ASSUME RecoverAgain = FALSE
    PROVE  Spec => []ApprovalGates
<1>1. Inv => ApprovalGates
  <2>1. ASSUME Inv, NEW f \in Fiber, At(f, "step")
        PROVE  fiber[f].run \in RunId /\ Runs(f, fiber[f].run)
    BY <2>1, ExecutionFields DEF Inv, At, Runs
  <2> QED
    BY <2>1 DEF Inv, RunInv, PathRun, Approved, ApprovalGates, At
<1> QED
  BY <1>1, Invariance, PTL

\* A step at or before a checkpoint that was ever written never starts again.
THEOREM CheckpointsHold ==
    ASSUME RecoverAgain = FALSE
    PROVE  Spec => []CompletedStepsDoNotRerun
<1>1. Inv => CompletedStepsDoNotRerun
  <2>1. ASSUME Inv, NEW f \in Fiber, At(f, "step")
        PROVE  /\ fiber[f].run \in RunId /\ Runs(f, fiber[f].run)
               /\ fiber[f].next \in Int /\ recorded[fiber[f].run] \in Int
    BY <2>1, ExecutionFields, Constants DEF Inv, At, Runs, TypeOK
  <2> QED
    BY <2>1 DEF Inv, RunInv, PathRun, CompletedStepsDoNotRerun, At
<1> QED
  BY <1>1, Invariance, PTL

\* Steps and callbacks repeat only because of a crash, and a run that completes
\* without one has had exactly one call of its on_complete.
THEOREM AgainOnlyAfterCrashHolds ==
    ASSUME RecoverAgain = FALSE
    PROVE  Spec => []AgainOnlyAfterCrash
<1>1. Inv => AgainOnlyAfterCrash
  BY Unexecuted DEF Inv, RunInv, CountRun, HookRun, AgainOnlyAfterCrash
<1> QED
  BY <1>1, Invariance, PTL

\* The database agrees with the runtime about every run nobody executes, unless
\* the last write of its row failed or an exception ended its submit_workflow.
THEOREM StatusDurableHolds ==
    ASSUME RecoverAgain = FALSE
    PROVE  Spec => []StatusDurable
<1>1. Inv => StatusDurable
  BY Unexecuted DEF Inv, RunInv, DurableRun, StatusDurable
<1> QED
  BY <1>1, Invariance, PTL

\* A row "running" always has an executor or can still be recovered, by this process
\* or, if an exception ended submit_workflow, by the next one.
THEOREM RunningIsOwnedHolds ==
    ASSUME RecoverAgain = FALSE
    PROVE  Spec => []RunningIsOwned
<1>1. Inv => RunningIsOwned
  BY Unexecuted DEF Inv, RunInv, PathRun, DurableRun, Waits, RunningIsOwned
<1> QED
  BY <1>1, Invariance, PTL
=============================================================================
