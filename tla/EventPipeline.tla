--------------------------- MODULE EventPipeline ---------------------------
(***************************************************************************)
(* How an event gets from publish_event to the table events without making *)
(* the agent loop wait: the event bus, its dispatcher fiber, the           *)
(* persistence writer that subscribes to the bus, the writer's drain       *)
(* fiber, and Runtime.close.                                               *)
(*                                                                         *)
(* The fibers of a runtime take turns in the order in which they became    *)
(* ready, and a turn lasts until the fiber waits; close relies on that.    *)
(* A host, the work loop of the C interface, is a fiber that blocks the    *)
(* domain, and every fiber of it, while it has nothing to do.              *)
(* Events are numbered in the order of their publication.                  *)
(***************************************************************************)
EXTENDS Integers, Sequences, FiniteSets, SequencesExt

CONSTANTS
    Publisher,      \* fibers that publish events, woken from outside
    Host,           \* of those, the ones that block the domain: work_loop
    BusCapacity,    \* event_bus_config.buffer_capacity
    WriterCapacity, \* capacity of the writer's buffer
    DeadLetterMax,  \* event_bus_config.dlq_max_size, 0 for no limit
    InsertFails,    \* may an INSERT into events fail?
    MaxBurst,       \* bound: events published in one turn
    MaxEvents       \* bound: events published

ASSUME PipelineAssumption ==
    /\ {BusCapacity, WriterCapacity} \subseteq Nat \ {0}
    /\ {DeadLetterMax, MaxBurst, MaxEvents} \subseteq Nat
    /\ InsertFails \in BOOLEAN
    /\ Publisher \cap {"dispatcher", "drain", "closer"} = {}
    /\ Host \subseteq Publisher

VARIABLES
    ready,     \* the run queue, the fiber whose turn it is first
    buffer,    \* the bus's stream
    hand,      \* what the stream has handed to the dispatcher: at most one event
    pending,   \* the writer's buffer, oldest event first
    running,   \* the writer's flag
    drain,     \* the yield the drain fiber is in, or "stopped"
    table,     \* table events
    dead,      \* the bus's dead_letters, newest first
    phase,     \* of close: "open", the yield it is in, "closed"
    torn,      \* the runtime's switch has been cancelled
    blocked,   \* the fiber whose turn it is blocks the domain
    published, \* history: events published so far
    before,    \* history: of those, published before close first yielded
    buried,    \* history: dead letters so far
    lost       \* history: events of batches whose insert failed

bus     == << buffer, hand, published >>
writer  == << pending, running, drain >>
sinks   == << table, lost >>
letters == << dead, buried >>
closing == << phase, before >>

vars == << ready, blocked, bus, writer, sinks, letters, closing, torn >>

Turn(f) == ready # << >> /\ Head(ready) = f /\ ~ blocked

Waiting(f) == f \notin ToSet(ready)

First(s, n) == SubSeq(s, 1, IF n < Len(s) THEN n ELSE Len(s))

After(s, n) == SubSeq(s, n + 1, Len(s))

\* The fiber waits until it is woken, or yields.
Wait == Tail(ready)

Yield == Append(Tail(ready), Head(ready))

---------------------------------------------------------------------------
(* The bus *)

\* push_dlq_entry: the newest first, cut at the limit.
DeadLettersWith(events) ==
    LET all == Reverse(events) \o dead
    IN  IF DeadLetterMax = 0 THEN all ELSE First(all, DeadLetterMax)

Bury(events) ==
    /\ dead' = DeadLettersWith(events)
    /\ buried' = buried \cup ToSet(events)

\* The dispatcher waits for the stream; a cancelled one no longer does.
Listening == Waiting("dispatcher") /\ ~ torn

\* The first of the events goes straight to a dispatcher that waits for one.
Handed(events) == IF Listening /\ events # << >> THEN 1 ELSE 0

\* The turn of a fiber that publishes events one after the other; the
\* dispatcher it may have woken comes after the fibers that are ready.
Publish(n) ==
    LET events == [k \in 1 .. n |-> published + k]
        handed == Handed(events)
        queued == After(events, handed)
        room   == BusCapacity - Len(buffer)
    IN  /\ published + n <= MaxEvents
        /\ published' = published + n
        /\ hand' = hand \o First(events, handed)
        /\ buffer' = buffer \o First(queued, room)
        /\ Bury(After(queued, room))

Woken(n) == IF n > 0 /\ Listening THEN << "dispatcher" >> ELSE << >>

PublishTurn(p) ==
    /\ Turn(p)
    /\ \E n \in 0 .. MaxBurst : Publish(n) /\ ready' = Wait \o Woken(n)
    /\ UNCHANGED << blocked, writer, sinks, closing, torn >>

\* The turn of a host that finds no work item when its jobs are done: it
\* stays in the turn, in Condition.wait, until an item comes.
HostBlocks(p) ==
    /\ Turn(p)
    /\ \E n \in 0 .. MaxBurst : Publish(n) /\ ready' = ready \o Woken(n)
    /\ blocked' = TRUE
    /\ UNCHANGED << writer, sinks, closing, torn >>

---------------------------------------------------------------------------
(* The writer *)

\* Mutant: a full buffer drops what comes without a dead letter.
DropOverflow(events) ==
    /\ pending' = pending \o First(events, WriterCapacity - Len(pending))
    /\ UNCHANGED letters

\* push, for each event the dispatcher delivers: a full buffer passes it to
\* overflow_fn, a dead letter of the bus.
Push(events) ==
    LET room == WriterCapacity - Len(pending)
    IN  /\ pending' = pending \o First(events, room)
        /\ Bury(After(events, room))

\* The dispatcher delivers what it was handed and all the stream holds: its
\* one subscriber, the writer, never waits.
DispatcherTurn ==
    /\ Turn("dispatcher")
    /\ Push(hand \o buffer)
    /\ hand' = << >> /\ buffer' = << >>
    /\ ready' = Wait
    /\ UNCHANGED << blocked, published, running, drain, sinks, closing, torn >>

\* save_events inserts the events of a batch one by one and goes on after a
\* failure; every insert into a closed database fails.
SaveEvents(batch) ==
    \E n \in 0 .. Len(batch) : \E at \in [1 .. n -> DOMAIN batch] :
        LET failed == {batch[k] : k \in DOMAIN batch \ Range(at)} IN
        /\ \A j, k \in 1 .. n : j < k => at[j] < at[k]
        /\ failed # {} => InsertFails \/ phase = "closed"
        /\ phase = "closed" => n = 0
        /\ table' = table \o [k \in 1 .. n |-> batch[at[k]]]
        /\ lost' = lost \cup failed

\* Mutant: the batch as the list is kept in memory, newest event first.
NewestFirst(events) == Reverse(events)

\* grab_pending turns the list, newest first in memory, into a batch.
Batch(events) == events

Flush == SaveEvents(Batch(pending)) /\ pending' = << >>

\* Mutant: the drain fiber stops when it has nothing to write.
GoesOnWhileBusy == running /\ pending # << >>

\* The test at the top of the drain loop.
GoesOn == running

\* The drain fiber after the first of its two yields.
DrainYields ==
    /\ Turn("drain") /\ drain = "first" /\ ~ torn
    /\ drain' = "second"
    /\ ready' = Yield
    /\ UNCHANGED << blocked, bus, pending, running, sinks, letters, closing, torn >>

\* After the second: write, and round the loop to the first again.  A batch
\* for a closed database raises, which fails the switch of the runtime.
Raises == phase = "closed" /\ pending # << >>

DrainTurn ==
    /\ Turn("drain") /\ drain = "second" /\ ~ torn
    /\ Flush
    /\ torn' = Raises
    /\ IF GoesOn /\ ~ Raises
       THEN drain' = "first" /\ ready' = Yield
       ELSE drain' = "stopped" /\ ready' = Wait
    /\ UNCHANGED << blocked, bus, running, letters, closing >>

\* A cancellation raises at the yield: write what is there and stop.
DrainCancelled ==
    /\ Turn("drain") /\ torn
    /\ running' = FALSE
    /\ Flush
    /\ drain' = "stopped" /\ ready' = Wait
    /\ UNCHANGED << blocked, bus, letters, closing, torn >>

---------------------------------------------------------------------------
(* close *)

\* Mutant: close goes on without letting the dispatcher have its turn.
GoOn(queue) == << "closer" >> \o queue

\* Eio.Fiber.yield of close
LetOthersRun(queue) == Append(queue, "closer")

\* Who calls close: a fiber of its own, or a host, as one of its jobs.
Closers == {"closer"} \cup (IF Waiting("closer") THEN Host ELSE {})

\* close publishes the end of each MCP server and yields,
CloseStarts ==
    /\ phase = "open" /\ \E f \in Closers : Turn(f)
    /\ \E n \in 0 .. MaxBurst :
          Publish(n) /\ ready' = LetOthersRun(Wait \o Woken(n))
    /\ before' = published'
    /\ phase' = "first"
    /\ UNCHANGED << blocked, writer, sinks, torn >>

\* yields again,
CloseYields ==
    /\ Turn("closer") /\ phase = "first"
    /\ phase' = "second"
    /\ ready' = LetOthersRun(Wait)
    /\ UNCHANGED << blocked, bus, writer, sinks, letters, before, torn >>

\* writes what the writer holds and closes the database.
CloseEnds ==
    /\ Turn("closer") /\ phase = "second"
    /\ running' = FALSE
    /\ Flush
    /\ phase' = "closed"
    /\ ready' = Wait
    /\ UNCHANGED << blocked, bus, drain, letters, before, torn >>

---------------------------------------------------------------------------

\* Input or output a publisher waits for has come, or somebody closes.  The
\* shutdown of a host closes and ends its loop.
Wake(f) ==
    /\ ~ torn /\ Waiting(f)
    /\ f \in Host \cup {"closer"} => phase = "open"
    /\ ready' = Append(ready, f)
    /\ UNCHANGED << blocked, bus, writer, sinks, letters, closing, torn >>

\* A caller in another domain gives the host a work item.
WorkComes ==
    /\ blocked
    /\ blocked' = FALSE
    /\ UNCHANGED << ready, bus, writer, sinks, letters, closing, torn >>

\* The switch ends when only its two daemons are left, and cancels them.
Teardown ==
    /\ ~ torn
    /\ ToSet(ready) \subseteq {"dispatcher", "drain"}
    /\ torn' = TRUE
    /\ UNCHANGED << ready, blocked, bus, writer, sinks, letters, closing >>

\* create forks the dispatcher, which finds the stream empty, and the drain
\* fiber, which yields.  Its caller may be a host.
Init ==
    /\ ready \in {<< "drain" >>} \cup {<< h, "drain" >> : h \in Host}
    /\ blocked = FALSE
    /\ buffer = << >> /\ hand = << >>
    /\ pending = << >> /\ running = TRUE /\ drain = "first"
    /\ table = << >> /\ dead = << >>
    /\ phase = "open" /\ torn = FALSE
    /\ published = 0 /\ before = 0
    /\ buried = {} /\ lost = {}

TakeTurn ==
    \/ \E p \in Publisher : PublishTurn(p)
    \/ \E p \in Host : HostBlocks(p)
    \/ DispatcherTurn
    \/ DrainYields \/ DrainTurn \/ DrainCancelled
    \/ CloseStarts \/ CloseYields \/ CloseEnds

Next ==
    \/ TakeTurn
    \/ Teardown
    \/ WorkComes
    \/ \E f \in Publisher \cup {"closer"} : Wake(f)

\* The scheduler runs the fiber whose turn it is, unless a host blocks it; no
\* work item ever has to come.
Spec == Init /\ [][Next]_vars /\ WF_vars(TakeTurn)

---------------------------------------------------------------------------
(* Properties *)

Holds(e, s) == e \in ToSet(s)

\* The table has the events in the order in which they were published and
\* none twice, whatever is dropped on the way and whoever flushes, the drain
\* fiber, close or a cancellation.
SavedOnceInOrder ==
    \A j, k \in DOMAIN table : j < k => table[j] < table[k]

\* No event disappears: each is in exactly one place, waits to be written, is
\* in the table, or is accounted for as a dead letter or a failed insert.
EverywhereOnce ==
    LET line == table \o pending \o hand \o buffer
    IN  /\ ToSet(line) \cup buried \cup lost = 1 .. published
        /\ Len(line) + Cardinality(buried) + Cardinality(lost) = published
        /\ ToSet(dead) \subseteq buried

\* "No events are lost on a graceful shutdown": when close returns, what had
\* been published before it began to wait has been written, and what could
\* not be written is a dead letter or a logged failure.
CleanClose ==
    phase = "closed" => 1 .. before \subseteq ToSet(table) \cup buried \cup lost

\* An event leaves the buffers without another being published: it is written
\* or accounted for, unless the runtime ends first, provided that each host
\* again and again waits in a job.  (While one waits for work in work_loop,
\* nothing of its domain runs, and what its last job published stays.)
EventuallySettled ==
    (\A h \in Host : []<>Waiting(h)) =>
        \A e \in 1 .. MaxEvents :
            published >= e ~> \/ Holds(e, table) \/ e \in buried \cup lost
                              \/ phase # "open" \/ torn
=============================================================================
