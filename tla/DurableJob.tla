----------------------------- MODULE DurableJob -----------------------------
(***************************************************************************)
(* What durability promises the caller of invoke ~invoke_id, without       *)
(* processes, fibers, claims or tables: a job is absent, running, or       *)
(* interrupted; it is started only when absent, its progress moves one     *)
(* completed tool batch at a time and survives every interruption, and it  *)
(* goes on from where it was.                                              *)
(***************************************************************************)
EXTENDS Integers

CONSTANT Id

VARIABLE job  \* [Id -> [phase, step]]

Absent == [phase |-> "absent", step |-> 0]

JobState == [phase : {"absent", "running", "interrupted"}, step : Nat]

Init == job = [i \in Id |-> Absent]

Start(i) ==
    /\ job[i] = Absent
    /\ job' = [job EXCEPT ![i] = [phase |-> "running", step |-> 0]]

Advance(i) ==
    /\ job[i].phase = "running"
    /\ job' = [job EXCEPT ![i].step = @ + 1]

\* A crash interrupts every running job at once, a failed recovery one job.
Interrupt ==
    \E S \in SUBSET {i \in Id : job[i].phase = "running"} :
        job' = [i \in Id |-> IF i \in S THEN [job[i] EXCEPT !.phase = "interrupted"]
                                        ELSE job[i]]

Resume(i) ==
    /\ job[i].phase = "interrupted"
    /\ job' = [job EXCEPT ![i].phase = "running"]

End(i) ==
    /\ job[i].phase = "running"
    /\ job' = [job EXCEPT ![i] = Absent]

Next == \/ \E i \in Id : Start(i) \/ Advance(i) \/ Resume(i) \/ End(i)
        \/ Interrupt

Spec == Init /\ [][Next]_job
=============================================================================
