------------------------------- MODULE WorkLoop -------------------------------
(***************************************************************************)
(* The C interface of a runtime: the queue that par_init's domain serves,  *)
(* one item after the other, and the handles by which a stream or an       *)
(* asynchronous invoke reports to the caller without entering OCaml. A     *)
(* caller in C or Python waits for the slot of a blocking call, and polls  *)
(* a handle. Chunks are numbered from 1 for each stream.                   *)
(***************************************************************************)
EXTENDS Integers, Sequences

CONSTANTS
    Streams,   \* calls of par_stream_start
    Invokes,   \* calls of par_invoke_start
    Call,      \* the work item of a blocking call
    Close,     \* the work item of par_shutdown
    Sentinel,  \* shutdown_sentinel
    Idle,      \* no item
    MaxChunks  \* bound: chunks of a stream

Jobs  == Streams \cup Invokes
Items == Jobs \cup {Call, Close, Sentinel}

ASSUME WorkLoopAssumption ==
    /\ Streams \cap Invokes = {}
    /\ {Call, Close, Sentinel, Idle} \cap Jobs = {}
    /\ Call \notin {Close, Sentinel, Idle}
    /\ Close \notin {Sentinel, Idle}
    /\ Sentinel # Idle
    /\ MaxChunks \in Nat

VARIABLES
    loop,    \* "down" before par_init, "up", "exited" after the sentinel
    queue,   \* work_queue, the item to run next first
    running, \* the item the loop runs, or Idle
    slot,    \* the blocking call has its result
    state,   \* of each handle: "absent", "running", "cancel", "done", "freed"
    chunks,  \* of each stream: the chunks not polled yet, oldest first
    final,   \* of each job: what par_stream_finish was told, "none" before
    emitted, \* history: chunks the model sent on a stream
    touched  \* history: a freed handle was used

loopVars   == << loop, queue, running, slot >>
handleVars == << state, chunks, final, emitted, touched >>

LoopTypeOK ==
    /\ loop \in {"down", "up", "exited"}
    /\ queue \in Seq(Items)
    /\ running \in Items \cup {Idle}
    /\ slot \in BOOLEAN
    /\ state \in [Jobs -> {"absent", "running", "cancel", "done", "freed"}]
    /\ chunks \in [Streams -> Seq(Nat)]
    /\ final \in [Jobs -> {"none", "ok", "error", "cancelled"}]
    /\ emitted \in [Streams -> Nat]
    /\ touched \in BOOLEAN

LoopInit ==
    /\ loop = "down"
    /\ queue = << >>
    /\ running = Idle
    /\ slot = FALSE
    /\ state = [j \in Jobs |-> "absent"]
    /\ chunks = [s \in Streams |-> << >>]
    /\ final = [j \in Jobs |-> "none"]
    /\ emitted = [s \in Streams |-> 0]
    /\ touched = FALSE

---------------------------------------------------------------------------
(* What a caller does to the queue and to a handle. *)

\* do_init: the domain is up and serves the queue.
StartLoop == loop' = "up" /\ UNCHANGED << queue, running, slot >>

\* dispatch, and do_shutdown with two items: the caller waits for the slot.
Dispatch(items) ==
    /\ queue' = queue \o items
    /\ slot' = FALSE
    /\ UNCHANGED << loop, running >>

\* dispatch_async: nobody waits.
DispatchAsync(j) ==
    /\ queue' = Append(queue, j)
    /\ UNCHANGED << loop, running, slot >>

\* par_stream_start and par_invoke_start
StartJob(j) ==
    /\ state[j] = "absent"
    /\ state' = [state EXCEPT ![j] = "running"]
    /\ DispatchAsync(j)
    /\ UNCHANGED << chunks, final, emitted, touched >>

\* par_stream_poll waits while there is no chunk and the state is running.
HasChunk(s) == chunks[s] # << >>

\* Mutants: the state looked at before the queue; a timeout taken for the end
DoneFirst(s) == state[s] # "running"
TimedOut(s)  == chunks[s] = << >>

IsDone(s) == chunks[s] = << >> /\ state[s] # "running"

TakeChunk(s) ==
    /\ HasChunk(s)
    /\ chunks' = [chunks EXCEPT ![s] = Tail(@)]
    /\ UNCHANGED << state, final, emitted, touched >>

\* par_stream_cancel and par_invoke_cancel: a store, whatever was there.
CancelHandle(j) ==
    /\ IF state[j] = "freed"
       THEN touched' = TRUE /\ UNCHANGED state
       ELSE state' = [state EXCEPT ![j] = "cancel"] /\ UNCHANGED touched
    /\ UNCHANGED << chunks, final, emitted >>

\* par_stream_free, with the chunks still queued
FreeStream(s) ==
    /\ state' = [state EXCEPT ![s] = "freed"]
    /\ chunks' = [chunks EXCEPT ![s] = << >>]
    /\ UNCHANGED << final, emitted, touched >>

FreeInvoke(j) ==
    /\ state' = [state EXCEPT ![j] = "freed"]
    /\ UNCHANGED << chunks, final, emitted, touched >>

---------------------------------------------------------------------------
(* The work loop *)

Take ==
    /\ loop = "up"
    /\ running = Idle
    /\ queue # << >>
    /\ queue' = Tail(queue)
    /\ IF Head(queue) = Sentinel
       THEN loop' = "exited" /\ UNCHANGED running
       ELSE running' = Head(queue) /\ UNCHANGED loop
    /\ UNCHANGED << slot, handleVars >>

\* The item of a blocking call, or Runtime.close, is done.
PutSlot ==
    /\ running \in {Call, Close}
    /\ running' = Idle
    /\ slot' = TRUE
    /\ UNCHANGED << loop, queue, handleVars >>

\* Mutant: the chunk before it loses its place
EnqueueOver(s, n) == << n >>

\* par_stream_enqueue_chunk
EnqueueChunk(s, n) == Append(chunks[s], n)

\* on_chunk: it looks for a cancellation, then hands the chunk to the handle
\* (a cancellation that comes in between has the effect of a later one).
OnChunk(s) ==
    /\ running = s
    /\ emitted[s] < MaxChunks
    /\ state[s] # "cancel"
    /\ emitted' = [emitted EXCEPT ![s] = @ + 1]
    /\ IF state[s] = "freed"
       THEN touched' = TRUE /\ UNCHANGED chunks
       ELSE chunks' = [chunks EXCEPT ![s] = EnqueueChunk(s, emitted[s] + 1)] /\ UNCHANGED touched
    /\ UNCHANGED << loopVars, state, final >>

\* How an invoke can end. A cancellation seen by on_chunk is an exception that
\* providers of the runtime turn into an error and others let through; after
\* the last chunk nobody looks. The state of a freed handle is anything.
Finals(j) ==
    {"ok", "error"} \cup (IF state[j] \in {"cancel", "freed"} THEN {"cancelled"} ELSE {})

\* The job ends with par_stream_finish, which overwrites a cancellation.
Finish(j) ==
    /\ running = j
    /\ running' = Idle
    /\ \E f \in Finals(j) : final' = [final EXCEPT ![j] = f]
    /\ IF state[j] = "freed"
       THEN touched' = TRUE /\ UNCHANGED state
       ELSE state' = [state EXCEPT ![j] = "done"] /\ UNCHANGED touched
    /\ UNCHANGED << loop, queue, slot, chunks, emitted >>

LoopNext ==
    \/ Take
    \/ PutSlot
    \/ \E s \in Streams : OnChunk(s)
    \/ \E j \in Jobs : Finish(j)
=============================================================================
