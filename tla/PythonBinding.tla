---------------------------- MODULE PythonBinding ----------------------------
(***************************************************************************)
(* A Python program with one Runtime: the thread that calls the methods,   *)
(* the stream readers it iterates, their cancellation by any thread, the   *)
(* garbage collector, which may drop a reader the program has lost at any  *)
(* time, and the work loop that serves them (WorkLoop).                    *)
(*                                                                         *)
(* The methods are called by one thread, as the documentation demands;     *)
(* cancel() and the collector are the only things that run beside it.      *)
(* Using a freed handle is undefined: the model goes up to that moment and *)
(* says nothing of what the process does after it.                         *)
(***************************************************************************)
EXTENDS WorkLoop, PythonReplies, RuntimeConfig

CONSTANTS
    Handlers,    \* callables given to register_tool_with_handler or as approval handler
    Approval,    \* those of them that are approval handlers
    Configs,     \* configurations given to Runtime()
    Used,        \* the methods the program calls
    HandleSlots, \* MAX_INVOKE_HANDLES
    TableSize,   \* MAX_PYTHON_HANDLERS
    MaxStarts    \* bound: streams, invokes and handlers started

ASSUME BindingAssumption ==
    /\ Approval \subseteq Handlers
    /\ Used \subseteq Method
    /\ {HandleSlots, TableSize, MaxStarts} \subseteq Nat
    /\ \A c \in Configs : IsConfig(c)

VARIABLES
    rt,        \* "new", "failed", "open", "closing", "closed"
    main,      \* what the thread waits in: "idle" for nothing
    verdict,   \* of the last call: was its failure, if any, told?
    reader,    \* of each stream: where its generator stands
    got,       \* the events each reader has yielded
    ended,     \* how each reader ended: "no", "quiet", "raised"
    asked,     \* cancellation of each job: "no", "checked" (in cancel()), "stored"
    table,     \* invoke_handles: the invokes with a slot
    answer,    \* what invoke_poll answered for good
    pending,   \* the handler being registered, or Idle
    counter,   \* _callback_counter
    callbacks, \* _callbacks: the ctypes objects kept alive
    owned,     \* _callback_ids
    stored,    \* handlers whose pointer python_handler_table has
    known      \* handlers the runtime was told of

readerVars  == << reader, got, ended >>
invokeVars  == << table, answer >>
handlerVars == << pending, counter, callbacks, owned, stored, known >>
pythonVars  == << rt, main, verdict, readerVars, asked, invokeVars, handlerVars >>

vars == << loopVars, handleVars, pythonVars >>

TypeOK ==
    /\ LoopTypeOK
    /\ rt \in {"new", "failed", "open", "closing", "closed"}
    /\ main \in {"idle", "next", "call", "tool", "approval", "close"}
    /\ verdict \in {"none", "told", "misread", "lost", "spurious", "foreign"}
    /\ reader \in [Streams -> {"none", "fresh", "suspended", "polling", "completed",
                               "ended", "leaked", "dropped", "collected"}]
    /\ got \in [Streams -> Seq(Nat)]
    /\ ended \in [Streams -> {"no", "quiet", "raised"}]
    /\ asked \in [Jobs -> {"no", "checked", "stored"}]
    /\ table \subseteq Invokes
    /\ answer \in [Invokes -> {"none", "refused", "lost", "ok", "error", "cancelled"}]
    /\ pending \in Handlers \cup {Idle}
    /\ main \in {"tool", "approval"} => pending \in Handlers
    /\ counter \in Nat
    /\ callbacks \subseteq Handlers /\ owned \subseteq Handlers
    /\ stored \subseteq Handlers /\ known \subseteq Handlers

Init ==
    /\ LoopInit
    /\ rt = "new"
    /\ main = "idle"
    /\ verdict = "none"
    /\ reader = [s \in Streams |-> "none"]
    /\ got = [s \in Streams |-> << >>]
    /\ ended = [s \in Streams |-> "no"]
    /\ asked = [j \in Jobs |-> "no"]
    /\ table = {}
    /\ answer = [j \in Invokes |-> "none"]
    /\ pending = Idle
    /\ counter = 0
    /\ callbacks = {} /\ owned = {} /\ stored = {} /\ known = {}

\* _check_handle, by the thread that calls the methods
CanCall == rt = "open" /\ main = "idle"

\* The bound on what a program starts
Started == {j \in Jobs : state[j] # "absent"} \cup {j \in Invokes : answer[j] # "none"}
MayStart == Cardinality(Started) + counter < MaxStarts

---------------------------------------------------------------------------
(* Runtime() and close() *)

Open(c) ==
    /\ rt = "new"
    /\ IF Decodes(normalize_config(c))
       THEN rt' = "open" /\ StartLoop
       ELSE rt' = "failed" /\ UNCHANGED loopVars
    /\ UNCHANGED << handleVars, main, verdict, readerVars, asked, invokeVars, handlerVars >>

\* Mutant: the loop is not told to end
CloseOnly == << Close >>

\* do_shutdown
ShutdownItems == << Close, Sentinel >>

\* Mutant: close lets the callbacks go before it waits
CloseLetsGoFirst ==
    /\ CanCall
    /\ rt' = "closing"
    /\ main' = "close"
    /\ Dispatch(ShutdownItems)
    /\ callbacks' = callbacks \ owned
    /\ UNCHANGED << handleVars, verdict, readerVars, asked, invokeVars,
                    pending, counter, owned, stored, known >>

\* close, __exit__ and __del__: par_shutdown waits for the domain to end,
CloseRuntime ==
    /\ CanCall
    /\ rt' = "closing"
    /\ main' = "close"
    /\ Dispatch(ShutdownItems)
    /\ UNCHANGED << handleVars, verdict, readerVars, asked, invokeVars, handlerVars >>

\* Mutant: the domain is not joined
SlotFilled == slot

Joined == slot /\ loop = "exited"

\* and only then are the callbacks let go.
CloseReturns ==
    /\ main = "close"
    /\ Joined
    /\ rt' = "closed"
    /\ main' = "idle"
    /\ callbacks' = callbacks \ owned
    /\ owned' = {}
    /\ UNCHANGED << loopVars, handleVars, verdict, readerVars, asked, invokeVars,
                    pending, counter, stored, known >>

---------------------------------------------------------------------------
(* Blocking calls *)

CallMethod ==
    /\ CanCall
    /\ Used # {}
    /\ main' = "call"
    /\ Dispatch(<< Call >>)
    /\ UNCHANGED << handleVars, rt, verdict, readerVars, asked, invokeVars, handlerVars >>

\* Was the caller of the method told what the runtime reported, and in the way
\* the method documents?
Verdict(m, line) ==
    IF << m, line.reply >> \in Misread THEN "misread" ELSE
    CASE line.failed /\ line.outcome = "returned" /\ m \notin ByResult -> "lost"
      [] ~ line.failed /\ line.outcome # "returned" /\ line.reply # "cancelled" -> "spurious"
      [] line.outcome \notin Exception \cup {"returned"} -> "foreign"
      [] OTHER -> "told"

CallReturns ==
    /\ main = "call"
    /\ slot
    /\ \E m \in Used : \E line \in Calls[m] : verdict' = Verdict(m, line)
    /\ main' = "idle"
    /\ UNCHANGED << loopVars, handleVars, rt, readerVars, asked, invokeVars, handlerVars >>

---------------------------------------------------------------------------
(* Handlers *)

\* par_store_python_handler: an id past the table is dropped in silence.
Store(h) == stored' = IF counter < TableSize THEN stored \cup {h} ELSE stored

\* register_tool_with_handler, register_approval_handler: the callable is kept
\* alive and stored, then the runtime is told.
RegisterHandler(h) ==
    /\ CanCall
    /\ h \notin known \cup callbacks
    /\ MayStart
    /\ pending' = h
    /\ counter' = counter + 1
    /\ callbacks' = callbacks \cup {h}
    /\ Store(h)
    /\ owned' = IF h \in Approval THEN owned \cup {h} ELSE owned
    /\ main' = IF h \in Approval THEN "approval" ELSE "tool"
    /\ Dispatch(<< Call >>)
    /\ UNCHANGED << handleVars, rt, verdict, readerVars, asked, invokeVars, known >>

\* A tool that was refused is let go; an approval handler stays to the end.
ToolReturns(registered) ==
    /\ main = "tool"
    /\ slot
    /\ IF registered
       THEN known' = known \cup {pending} /\ owned' = owned \cup {pending} /\ UNCHANGED callbacks
       ELSE callbacks' = callbacks \ {pending} /\ UNCHANGED << known, owned >>
    /\ pending' = Idle
    /\ main' = "idle"
    /\ UNCHANGED << loopVars, handleVars, rt, verdict, readerVars, asked, invokeVars,
                    counter, stored >>

ApprovalReturns(registered) ==
    /\ main = "approval"
    /\ slot
    /\ known' = IF registered THEN known \cup {pending} ELSE known
    /\ pending' = Idle
    /\ main' = "idle"
    /\ UNCHANGED << loopVars, handleVars, rt, verdict, readerVars, asked, invokeVars,
                    counter, callbacks, owned, stored >>

---------------------------------------------------------------------------
(* Asynchronous invokes *)

InvokeStart(j) ==
    /\ CanCall
    /\ MayStart
    /\ j \notin Started
    /\ IF Cardinality(table) < HandleSlots
       THEN StartJob(j) /\ table' = table \cup {j} /\ UNCHANGED answer
       ELSE /\ answer' = [answer EXCEPT ![j] = "refused"]
            /\ UNCHANGED << loopVars, handleVars, table >>
    /\ UNCHANGED << rt, main, verdict, readerVars, asked, handlerVars >>

\* Mutant: the slot is not given up with the handle
PollKeepsSlot(j) ==
    /\ CanCall
    /\ j \in table
    /\ state[j] # "running"
    /\ answer' = [answer EXCEPT ![j] = IF final[j] = "none" THEN "lost" ELSE final[j]]
    /\ FreeInvoke(j)
    /\ UNCHANGED << loopVars, rt, main, verdict, readerVars, asked, table, handlerVars >>

\* A poll that finds the handle no longer running answers, "not found" if there
\* is no result yet, and gives the handle up; before, it answers "pending".
InvokePoll(j) ==
    /\ CanCall
    /\ j \in table
    /\ state[j] # "running"
    /\ answer' = [answer EXCEPT ![j] = IF final[j] = "none" THEN "lost" ELSE final[j]]
    /\ table' = table \ {j}
    /\ FreeInvoke(j)
    /\ UNCHANGED << loopVars, rt, main, verdict, readerVars, asked, handlerVars >>

InvokeCancel(j) ==
    /\ CanCall
    /\ j \in table
    /\ asked[j] = "no"
    /\ asked' = [asked EXCEPT ![j] = "stored"]
    /\ CancelHandle(j)
    /\ UNCHANGED << loopVars, rt, main, verdict, readerVars, invokeVars, handlerVars >>

---------------------------------------------------------------------------
(* Stream readers *)

InvokeStream(s) ==
    /\ CanCall
    /\ MayStart
    /\ reader[s] = "none"
    /\ StartJob(s)
    /\ reader' = [reader EXCEPT ![s] = "fresh"]
    /\ UNCHANGED << rt, main, verdict, got, ended, asked, invokeVars, handlerVars >>

\* next() on the reader; the runtime need not be open any more.
NextEvent(s) ==
    /\ main = "idle"
    /\ reader[s] \in {"fresh", "suspended"}
    /\ reader' = [reader EXCEPT ![s] = "polling"]
    /\ main' = "next"
    /\ UNCHANGED << loopVars, handleVars, rt, verdict, got, ended, asked, invokeVars, handlerVars >>

\* The generator polls until something comes: an event, which it yields,
Yield(s) ==
    /\ reader[s] = "polling"
    /\ TakeChunk(s)
    /\ got' = [got EXCEPT ![s] = Append(@, Head(chunks[s]))]
    /\ reader' = [reader EXCEPT ![s] = "suspended"]
    /\ main' = "idle"
    /\ UNCHANGED << loopVars, rt, verdict, ended, asked, invokeVars, handlerVars >>

\* or the end: _completed is set,
Complete(s) ==
    /\ reader[s] = "polling"
    /\ IsDone(s)
    /\ reader' = [reader EXCEPT ![s] = "completed"]
    /\ UNCHANGED << loopVars, handleVars, rt, main, verdict, got, ended, asked, invokeVars, handlerVars >>

\* the result is taken, and the handle is freed whatever it says.
End(s) ==
    /\ reader[s] = "completed"
    /\ ended' = [ended EXCEPT ![s] = IF final[s] = "error" THEN "raised" ELSE "quiet"]
    /\ FreeStream(s)
    /\ reader' = [reader EXCEPT ![s] = "ended"]
    /\ main' = "idle"
    /\ UNCHANGED << loopVars, rt, verdict, got, asked, invokeVars, handlerVars >>

\* cancel(), in any thread: it looks at the reader,
CancelCheck(s) ==
    /\ asked[s] = "no"
    /\ reader[s] \in {"fresh", "suspended", "polling"}
    /\ asked' = [asked EXCEPT ![s] = "checked"]
    /\ UNCHANGED << loopVars, handleVars, rt, main, verdict, readerVars, invokeVars, handlerVars >>

\* and cancels the handle it has seen.
CancelStore(s) ==
    /\ asked[s] = "checked"
    /\ asked' = [asked EXCEPT ![s] = "stored"]
    /\ CancelHandle(s)
    /\ UNCHANGED << loopVars, rt, main, verdict, readerVars, invokeVars, handlerVars >>

\* The collector finds a reader the program has lost. If it never ran there
\* is only __del__, that is cancel(): nothing frees the handle.
CollectFresh(s) ==
    /\ reader[s] = "fresh"
    /\ asked[s] # "checked"
    /\ reader' = [reader EXCEPT ![s] = "leaked"]
    /\ asked' = [asked EXCEPT ![s] = "stored"]
    /\ IF asked[s] = "no" THEN CancelHandle(s) ELSE UNCHANGED handleVars
    /\ UNCHANGED << loopVars, rt, main, verdict, got, ended, invokeVars, handlerVars >>

\* Otherwise the generator is closed: its finally clause cancels the handle,
Collect(s) ==
    /\ reader[s] = "suspended"
    /\ asked[s] # "checked"
    /\ reader' = [reader EXCEPT ![s] = "dropped"]
    /\ asked' = [asked EXCEPT ![s] = "stored"]
    /\ CancelHandle(s)
    /\ UNCHANGED << loopVars, rt, main, verdict, got, ended, invokeVars, handlerVars >>

\* polls it to the end, which comes when the chunks are used up, and frees it.
Drain(s) ==
    /\ reader[s] = "dropped"
    /\ state[s] # "running"
    /\ FreeStream(s)
    /\ reader' = [reader EXCEPT ![s] = "collected"]
    /\ UNCHANGED << loopVars, rt, main, verdict, got, ended, asked, invokeVars, handlerVars >>

---------------------------------------------------------------------------
(* The whole program *)

LoopStep == LoopNext /\ UNCHANGED pythonVars

Stream(s) ==
    \/ InvokeStream(s) \/ NextEvent(s) \/ Yield(s) \/ Complete(s) \/ End(s)
    \/ CancelCheck(s) \/ CancelStore(s)
    \/ CollectFresh(s) \/ Collect(s) \/ Drain(s)

Invoke(j) == InvokeStart(j) \/ InvokePoll(j) \/ InvokeCancel(j)

Handler ==
    \/ \E h \in Handlers : RegisterHandler(h)
    \/ \E registered \in BOOLEAN : ToolReturns(registered) \/ ApprovalReturns(registered)

Program ==
    \/ LoopStep
    \/ \E c \in Configs : Open(c)
    \/ CloseRuntime \/ CloseReturns
    \/ CallMethod \/ CallReturns
    \/ Handler
    \/ \E j \in Invokes : Invoke(j)
    \/ \E s \in Streams : Stream(s)

Next == ~ touched /\ Program

\* A call that can return returns, and so does a poll of a reader.
Return ==
    \/ CloseReturns \/ CallReturns
    \/ \E registered \in BOOLEAN : ToolReturns(registered) \/ ApprovalReturns(registered)
    \/ \E s \in Streams : Yield(s) \/ Complete(s) \/ End(s)

\* The work loop takes what is queued, and every invoke comes to an end.
LoopEnds == Take \/ PutSlot \/ \E j \in Jobs : Finish(j)

Fairness ==
    /\ WF_vars(~ touched /\ LoopEnds /\ UNCHANGED pythonVars)
    /\ WF_vars(~ touched /\ Return)

Spec == Init /\ [][Next]_vars

FairSpec == Spec /\ Fairness

---------------------------------------------------------------------------
(* Properties *)

\* A reader yields the chunks of its stream in the order in which the model
\* sent them, each once, and until it ends none is missing: what is not
\* yielded yet is in the handle's queue, however the stream was cancelled.
EventsInOrder ==
    \A s \in Streams :
        /\ got[s] = [k \in 1 .. Len(got[s]) |-> k]
        /\ reader[s] \in {"fresh", "suspended", "polling", "completed"} =>
               got[s] \o chunks[s] = [k \in 1 .. emitted[s] |-> k]

\* A reader that nobody cancelled ends without an exception only when the
\* invoke succeeded and all its events were yielded.
QuietMeansComplete ==
    \A s \in Streams : ended[s] = "quiet" /\ asked[s] = "no" =>
        final[s] = "ok" /\ Len(got[s]) = emitted[s]

\* The handle of a job that the work loop still has to run or is running is
\* freed only if the job was cancelled or its reader was collected.
FreedEarlyOnlyByCancel ==
    \A j \in Jobs : state[j] = "freed" /\ final[j] = "none" => asked[j] = "stored"

\* So a program that never cancels and keeps its readers never makes the work
\* loop use a freed handle.
TouchedOnlyByCancel == touched => \E j \in Jobs : asked[j] = "stored"

\* The registry of asynchronous invokes holds exactly the handles that are
\* not answered, at most as many as it has slots; an answer is the invoke's own
\* outcome, unless the invoke was cancelled before it had one.
AnswersAreOwn ==
    /\ table = {j \in Invokes : state[j] \in {"running", "cancel", "done"}}
    /\ Cardinality(table) <= HandleSlots
    /\ \A j \in Invokes :
           /\ answer[j] \in {"ok", "error", "cancelled"} => answer[j] = final[j]
           /\ answer[j] \in {"lost", "cancelled"} => asked[j] = "stored"

\* A failure that the runtime reports to a method reaches the caller as an
\* exception the methods document, and no success is raised, but for the five
\* replies named in Misread.
FailuresRaise == verdict \in {"none", "told", "misread"}

\* While the work loop runs, the callback of every handler that the runtime
\* and the handler table know is alive, close included.
HandlersAlive == loop = "up" => known \cap stored \subseteq callbacks

\* After close nothing is left behind in the work loop: every job that was
\* started has its outcome, and nothing will run any more.
ClosedIsQuiet ==
    rt = "closed" =>
        /\ loop = "exited" /\ queue = << >> /\ running = Idle
        /\ \A j \in Jobs : state[j] # "absent" => final[j] # "none"

\* Every call returns, close and next() included, unless a freed handle was used.
CallsReturn == main # "idle" ~> (main = "idle" \/ touched)

\* "Caller MUST ensure stream has completed" (par_stream_free): a stream's
\* handle is freed only when the work loop is done with the stream.
FreedOnlyWhenDone == \A s \in Streams : state[s] = "freed" => final[s] # "none"
=============================================================================
