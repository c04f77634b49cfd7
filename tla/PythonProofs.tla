----------------------------- MODULE PythonProofs -----------------------------
(***************************************************************************)
(* Theorems about the Python binding: its functions for every input, then  *)
(* the program of PythonBinding for any number of streams, invokes and     *)
(* handlers, whatever is cancelled, lost and collected when.               *)
(***************************************************************************)
EXTENDS PythonBinding, ImageBlocks, SequenceTheorems,
        FiniteSetTheorems, TLAPS

---------------------------------------------------------------------------
(* Images *)

\* A longer payload has no shorter encoding.
LEMMA EncodedLengthGrows ==
    ASSUME NEW m \in Nat, NEW n \in Nat, m <= n
    PROVE  EncodedLength(m) <= EncodedLength(n)
BY DEF EncodedLength

\* image_base64 takes exactly the payloads that are neither empty nor over the
\* limit, of a supported type: the test of the encoded length, which comes
\* before the decoding, never refuses a payload within the limit.
THEOREM PayloadsWithinLimit ==
    ASSUME NEW n \in Nat, NEW max \in Int, NEW type \in MediaType
    PROVE  image_base64(Encoded(n), type, max).built
               <=> n \in 1 .. max /\ type \in Supported
<1>1. CASE max > 0
  <2>1. n <= max => EncodedLength(n) <= EncodedLength(max)
    BY <1>1, EncodedLengthGrows
  <2>2. QED
    BY <1>1, <2>1 DEF image_base64, decode_base64, check_max_bytes, check_media_type,
                       Encoded, Block, Rejected
<1>2. CASE ~ (max > 0)
  BY <1>2 DEF image_base64, check_max_bytes, Rejected
<1>3. QED
  BY <1>1, <1>2

\* Text that is longer or not canonical gets through only for a payload within
\* the limit too.
THEOREM NoOversizedPayload ==
    ASSUME NEW data \in [length : Nat, valid : BOOLEAN, bytes : Nat],
           NEW max \in Int, NEW type \in MediaType,
           image_base64(data, type, max).built
    PROVE  data.bytes \in 1 .. max
BY DEF image_base64, decode_base64, check_max_bytes, check_media_type, Block, Rejected

\* A file and the base64 text of its bytes make the same block, or none: the
\* read that stops one byte past the limit neither cuts an image short nor lets
\* a longer one through.
THEOREM FilesLikePayloads ==
    ASSUME NEW n \in Nat, NEW max \in Int, NEW suffix \in Suffix,
           NEW type \in MediaType
    PROVE  image_file(n, suffix, type, max) = image_base64(Encoded(n), type, max)
<1> DEFINE raw == ReadUpTo(n, max + 1)
<1>1. FileType(suffix, type) = type
  BY ImageAssumption DEF FileType
<1>2. CASE max > 0 /\ n \in 1 .. max /\ type \in Supported
  <2>1. raw = n
    BY <1>2 DEF ReadUpTo
  <2>2. QED
    BY <1>1, <1>2, <2>1 DEF image_file, check_max_bytes, check_media_type
<1>3. CASE ~ (max > 0 /\ n \in 1 .. max /\ type \in Supported)
  <2>1. image_base64(Encoded(n), type, max) = Rejected
    BY <1>3, PayloadsWithinLimit DEF image_base64, Block
  <2>2. ~ (max > 0 /\ raw # 0 /\ raw <= max /\ type \in Supported)
    BY <1>3 DEF ReadUpTo
  <2>3. image_file(n, suffix, type, max) = Rejected
    BY <1>1, <2>2 DEF image_file, check_max_bytes, check_media_type
  <2>4. QED
    BY <2>1, <2>3
<1>4. QED
  BY <1>2, <1>3

---------------------------------------------------------------------------
(* Configurations *)

\* Whatever sections and fields a caller leaves out, the configuration that
\* _normalize_config writes has every field the decoder reads, as long as
\* persistence is there and the sections written are objects.
THEOREM NormalizedDecodes ==
    ASSUME NEW c, WellFormed(c)
    PROVE  Decodes(normalize_config(c))
<1> DEFINE d == WithDefaults(c)
<1>1. c \in Config /\ c.persistence \in {"variant", "tagged"}
  BY DEF WellFormed, IsConfig
<1>2. /\ d.keys = c.keys \cup TopDefaults
      /\ d.fields = [s \in Sections |->
             IF Filled(c, s) THEN SectionDefaults[s] ELSE c.fields[s]]
      /\ d.persistence = c.persistence
      /\ d.providers = c.providers
  BY <1>1 DEF Config, WithDefaults
<1>3. \A s \in Default : Filled(c, s)
  BY DEF Filled, WellFormed, IsConfig
<1>4. Filled(c, "delivery")
  <2>1. "event_bus" \in Default
    BY DEF Default, Sections, SectionDefaults
  <2>2. "event_bus" \in (Default \ c.keys) \cup c.objects
    BY <2>1 DEF WellFormed, IsConfig
  <2>3. QED
    BY <2>2 DEF Filled, WellFormed
<1>5. /\ TagPersistence(d).persistence = "variant"
      /\ TagPersistence(d).keys = d.keys
      /\ TagPersistence(d).fields = d.fields
      /\ TagPersistence(d).providers = d.providers
  BY <1>1, <1>2 DEF TagPersistence, WithDefaults, Config
<1>6. /\ normalize_config(c).persistence = "variant"
      /\ normalize_config(c).keys = d.keys
      /\ normalize_config(c).fields = d.fields
      /\ normalize_config(c).providers =
             {[e EXCEPT !.cache_key = @ \/ e.openai] : e \in c.providers}
  BY <1>1, <1>2, <1>5 DEF normalize_config, WithCacheKeys, TagPersistence, WithDefaults, Config
<1>7. \A e \in normalize_config(c).providers : e.openai => e.cache_key
  BY <1>1, <1>6 DEF Config, ProviderEntry
<1>8. \A s \in Default \cup {"delivery"} :
          normalize_config(c).fields[s] = SectionDefaults[s]
  BY <1>2, <1>3, <1>4, <1>6 DEF Default, Sections, SectionDefaults
<1>9. QED
  BY <1>2, <1>6, <1>7, <1>8 DEF Decodes

\* Nothing the caller wrote is taken out of the configuration.
THEOREM NormalizedKeeps ==
    ASSUME NEW c, IsConfig(c)
    PROVE  Keeps(c, normalize_config(c))
<1>1. c \in Config /\ \A s \in Sections : c.fields[s] \subseteq SectionDefaults[s]
  BY DEF IsConfig
<1>2. normalize_config(c).keys = c.keys \cup TopDefaults
  BY <1>1 DEF normalize_config, WithCacheKeys, TagPersistence, WithDefaults, Config
<1>3. normalize_config(c).fields = [s \in Sections |->
          IF Filled(c, s) THEN SectionDefaults[s] ELSE c.fields[s]]
  BY <1>1 DEF normalize_config, WithCacheKeys, TagPersistence, WithDefaults, Config
<1>4. QED
  BY <1>1, <1>2, <1>3 DEF Keeps

---------------------------------------------------------------------------
(* Replies *)

\* A chunk of the model means the same event, with the same fields, in either
\* encoding of variants, and no two constructors become the same kind of event.
THEOREM EncodingsAgree ==
    ASSUME NEW tag \in Tags, NEW fields
    PROVE  /\ decode_event(Pair(tag, fields)) = decode_event(Object(tag, fields))
           /\ \A other \in Tags \ {tag} :
                  decode_event(Pair(tag, fields)).event # decode_event(Pair(other, fields)).event
<1>1. "tag" \notin FieldsOf[tag]
  BY DEF Tags, EventOf, FieldsOf
<1>2. fields \cap FieldsOf[tag] = (fields \cup {"tag"}) \cap FieldsOf[tag]
  BY <1>1
<1>3. \A other \in Tags \ {tag} : EventOf[tag] # EventOf[other]
  BY DEF Tags, EventOf
<1>4. QED
  BY <1>2, <1>3 DEF decode_event, Pair, Object

\* A failure raises, nothing else does but a cancellation, and what is raised
\* is documented.
HonestLine(line) ==
    /\ line.failed => line.outcome # "returned"
    /\ line.outcome # "returned" => line.failed \/ line.reply = "cancelled"
    /\ line.outcome \in Exception \cup {"returned"}

Honest(lines) == \A line \in lines : HonestLine(line)

LEMMA CodesAreHonest ==
    ASSUME NEW codes \in SUBSET {0, -1, -2}, NEW raises, NEW exception \in Exception,
           \A rc \in codes : rc \in raises <=> rc # 0
    PROVE  Honest(Code(codes, raises, exception))
<1>1. exception # "returned"
  BY DEF Exception
<1>2. ASSUME NEW rc \in codes, NEW line,
             line = Line("code", rc # 0, IF rc \in raises THEN exception ELSE "returned")
      PROVE  /\ line.failed <=> line.outcome # "returned"
             /\ line.outcome \in Exception \cup {"returned"}
  <2>1. /\ line.failed = (rc # 0)
        /\ line.outcome = IF rc \in raises THEN exception ELSE "returned"
    BY <1>2 DEF Line
  <2>2. QED
    BY <1>1, <2>1
<1>3. QED
  BY <1>2 DEF Honest, HonestLine, Code

LEMMA CodesAreNumbers ==
    \A codes \in SUBSET {0, -1, -2} : \A rc \in codes : rc \in NonZero <=> rc # 0
BY DEF NonZero

LEMMA CodesRaise ==
    ASSUME NEW codes \in SUBSET {0, -1, -2}, NEW exception \in Exception
    PROVE  Honest(Code(codes, NonZero, exception))
BY CodesAreNumbers, CodesAreHonest

LEMMA TextsAreHonest ==
    ASSUME NEW replies, NEW raises, NEW exception \in Exception,
           replies \cap Failure \subseteq raises,
           replies \cap raises \subseteq Failure \cup {"cancelled"}
    PROVE  Honest(Text(replies, raises, exception))
<1>1. exception # "returned"
  BY DEF Exception
<1>2. ASSUME NEW r \in replies, NEW line,
             line = Line(r, r \in Failure, IF r \in raises THEN exception ELSE "returned")
      PROVE  HonestLine(line)
  <2>1. /\ line.reply = r
        /\ line.failed = (r \in Failure)
        /\ line.outcome = IF r \in raises THEN exception ELSE "returned"
    BY <1>2 DEF Line
  <2>2. QED
    BY <1>1, <2>1 DEF HonestLine
<1>3. QED
  BY <1>2 DEF Honest, Text

LEMMA SuccessIsHonest ==
    ASSUME NEW replies, replies \cap Failure = {}
    PROVE  Honest(TextReturned(replies))
<1>1. ASSUME NEW r \in replies, NEW line, line = Line(r, r \in Failure, "returned")
      PROVE  HonestLine(line)
  <2>1. line.failed = (r \in Failure) /\ line.outcome = "returned"
    BY <1>1 DEF Line
  <2>2. QED
    BY <2>1 DEF HonestLine
<1>2. QED
  BY <1>1 DEF Honest, TextReturned

\* Whatever the interface can reply to a method, but for the replies named in
\* Misread, a failure raises an exception the methods document, or is the result
\* for the two methods whose result is a code, and a success does not raise.
THEOREM FailuresAreTold ==
    ASSUME NEW m \in Method, NEW line \in Calls[m], << m, line.reply >> \notin Misread
    PROVE  Verdict(m, line) = "told"
<1>1. /\ Honest(register_tool)
      /\ Honest(register_tool_with_handler)
      /\ Honest(set_tool_layer)
      /\ Honest(register_agent)
      /\ Honest(register_agent_as_tool)
      /\ Honest(register_skill)
      /\ Honest(set_user_activated_skills)
      /\ Honest(clear_user_activated_skills)
      /\ Honest(set_default_llm_provider)
      /\ Honest(register_approval_handler)
      /\ Honest(steer)
      /\ Honest(follow_up)
      /\ Honest(resume_approval)
      /\ Honest(approve_workflow)
      /\ Honest(workflow_cancel)
  <2>1. /\ {{0}, {-1}, {0, -1}, {0, -1, -2}} \subseteq SUBSET {0, -1, -2}
        /\ {"PARError", "PARToolError", "PARWorkflowError"} \subseteq Exception
    BY DEF Exception
  <2>2. QED
    BY <2>1, CodesRaise
       DEF register_tool, register_tool_with_handler, set_tool_layer,
         register_agent, register_agent_as_tool, register_skill,
         set_user_activated_skills, clear_user_activated_skills,
         set_default_llm_provider, register_approval_handler,
         steer, follow_up, resume_approval, approve_workflow, workflow_cancel
<1>2. Honest(add_documents)
  <2>1. \A rc \in {0, -1} : rc \in Negative <=> rc # 0
    BY DEF Negative
  <2>2. {0, -1} \in SUBSET {0, -1, -2} /\ "PARError" \in Exception
    BY DEF Exception
  <2>3. QED
    BY <2>1, <2>2, CodesAreHonest DEF add_documents
<1>3. /\ Honest(list_conversations)
      /\ Honest(list_orphaned_invokes)
      /\ Honest(invoke)
      /\ Honest(recover_invoke)
      /\ Honest(invoke_content)
      /\ Honest(invoke_generate)
      /\ Honest(invoke_parallel)
  BY TextsAreHonest
     DEF Exception, Failure,
         list_conversations, list_orphaned_invokes, invoke,
         recover_invoke, invoke_content, invoke_generate, invoke_parallel
<1>4. /\ Honest(load_document)
      /\ Honest(load_directory)
      /\ Honest(submit_workflow)
      /\ Honest(workflow_status)
      /\ Honest(health)
      /\ Honest(metrics)
      /\ Honest(mcp_server)
      /\ Honest(mcp_list_tools)
      /\ Honest(mcp_tool_descriptors)
  BY TextsAreHonest
     DEF Exception, Failure,
         load_document, load_directory, submit_workflow,
         workflow_status, health, metrics, mcp_server, mcp_list_tools,
         mcp_tool_descriptors
<1>5. /\ Honest(list_skills)
      /\ Honest(get_user_activated_skills)
      /\ Honest(list_llm_providers)
      /\ Honest(get_session_id)
      /\ Honest(set_session_id)
  <2>1. Honest(TextReturned({"ok"}))
    BY SuccessIsHonest DEF Failure
  <2>2. Honest(set_session_id)
    <3>1. ASSUME NEW l, l = Line("code", FALSE, "returned") PROVE HonestLine(l)
      <4>1. l.failed = FALSE /\ l.outcome = "returned"
        BY <3>1 DEF Line
      <4>2. QED
        BY <4>1 DEF HonestLine
    <3>2. set_session_id = {Line("code", FALSE, "returned")}
      BY DEF set_session_id, CodeReturned
    <3>3. QED
      BY <3>1, <3>2 DEF Honest
  <2>3. QED
    BY <2>1, <2>2 DEF list_skills, get_user_activated_skills, list_llm_providers, get_session_id
<1>6. \A l \in invoke_with_rag : << "invoke_with_rag", l.reply >> \in Misread \/ HonestLine(l)
  <2>1. SUFFICES ASSUME NEW r \in {"ok", "garbled"}, NEW l,
                        l = Line(r, r \in Failure,
                                 IF r \in {"null", "error"} THEN "PARError" ELSE "returned")
                 PROVE  << "invoke_with_rag", l.reply >> \in Misread \/ HonestLine(l)
    BY DEF invoke_with_rag, Text
  <2>2. l.reply = r /\ l.failed = (r \in Failure) /\ l.outcome = "returned"
    BY <2>1 DEF Line
  <2>3. QED
    BY <2>2 DEF Misread, Failure, HonestLine
<1>7. \A l \in resume_workflow : << "resume_workflow", l.reply >> \in Misread \/ HonestLine(l)
  <2>1. SUFFICES ASSUME NEW r \in {"ok", "error"}, NEW l,
                        l = Line(r, r \in Failure, "returned")
                 PROVE  << "resume_workflow", l.reply >> \in Misread \/ HonestLine(l)
    BY DEF resume_workflow, TextReturned
  <2>2. l.reply = r /\ l.failed = (r \in Failure) /\ l.outcome = "returned"
    BY <2>1 DEF Line
  <2>3. QED
    BY <2>2 DEF Misread, Failure, HonestLine
<1>8. \A l \in invoke_structured :
         << "invoke_structured", l.reply >> \in Misread \/ HonestLine(l)
  <2> DEFINE good == {"object", "encoded", "cancelled", "error"}
             raises == {"string", "cancelled"} \cup Failure
  <2>1. Honest(Text(good, raises, "PARInvokeError"))
    BY TextsAreHonest DEF Exception, Failure
  <2>2. ASSUME NEW l \in invoke_structured
        PROVE  \/ l \in Text(good, raises, "PARInvokeError")
               \/ l.reply \in {"string", "plain"}
    BY <2>2 DEF invoke_structured, Text, Line
  <2>3. QED
    BY <2>1, <2>2 DEF Misread, Honest
<1>9. \A l \in embed : << "embed", l.reply >> \in Misread \/ HonestLine(l)
  <2> DEFINE texts == Text({"ok", "error"}, {"null", "error"}, "PARError")
  <2>1. Honest(texts)
    BY TextsAreHonest DEF Exception, Failure
  <2>2. ASSUME NEW l \in embed PROVE l \in texts \/ l.reply = "garbled"
    BY <2>2 DEF embed, Line
  <2>3. QED
    BY <2>1, <2>2 DEF Misread, Honest
<1>10. CASE m \in ByResult
  <2>1. line.outcome = "returned"
    BY <1>10 DEF ByResult, Calls, save_conversation, load_conversation, CodeReturned, Line
  <2>2. QED
    BY <1>10, <2>1 DEF Verdict
<1>11. CASE m \notin ByResult
  <2>1. HonestLine(line)
    <3>1. CASE m \in {"invoke_with_rag", "resume_workflow", "invoke_structured", "embed"}
      BY <1>6, <1>7, <1>8, <1>9, <3>1 DEF Calls
    <3>2. CASE m \notin {"invoke_with_rag", "resume_workflow", "invoke_structured", "embed"}
      <4>1. Honest(Calls[m])
        BY <1>1, <1>2, <1>3, <1>4, <1>5, <1>11, <3>2 DEF Method, Calls, ByResult
      <4>2. QED
        BY <4>1 DEF Honest
    <3>3. QED
      BY <3>1, <3>2
  <2>2. QED
    BY <2>1 DEF Verdict, HonestLine
<1>12. QED
  BY <1>10, <1>11

---------------------------------------------------------------------------
(* Types *)

LEMMA TypeInit == Init => TypeOK
<1>1. << >> \in Seq(Items) /\ << >> \in Seq(Nat)
  BY EmptySeq
<1>2. LoopInit => LoopTypeOK
  <2>1. ASSUME LoopInit
        PROVE  chunks \in [Streams -> Seq(Nat)] /\ queue \in Seq(Items)
    BY <1>1, <2>1, Zenon DEF LoopInit
  <2>2. ASSUME LoopInit
        PROVE  /\ state \in [Jobs -> {"absent", "running", "cancel", "done", "freed"}]
               /\ final \in [Jobs -> {"none", "ok", "error", "cancelled"}]
               /\ emitted \in [Streams -> Nat]
    BY <2>2 DEF LoopInit
  <2>3. QED
    BY <2>1, <2>2 DEF LoopInit, LoopTypeOK
<1>3. ASSUME Init
      PROVE  got \in [Streams -> Seq(Nat)]
  <2>1. got = [s \in Streams |-> << >>]
    BY <1>3 DEF Init
  <2>2. QED
    BY <1>1, <2>1, Zenon
<1>4. QED
  BY <1>2, <1>3 DEF Init, TypeOK

\* What a caller does to the queue and to a handle keeps the types of the work
\* loop.
LEMMA DispatchTypes ==
    ASSUME LoopTypeOK, NEW items \in Seq(Items), Dispatch(items), UNCHANGED handleVars
    PROVE  LoopTypeOK'
BY ConcatProperties DEF LoopTypeOK, Dispatch, handleVars

LEMMA StartJobTypes ==
    ASSUME LoopTypeOK, NEW j \in Jobs, StartJob(j)
    PROVE  LoopTypeOK'
BY DEF LoopTypeOK, StartJob, DispatchAsync, Items

LEMMA HandleTypes ==
    ASSUME LoopTypeOK, UNCHANGED loopVars,
           \/ \E s \in Streams : TakeChunk(s) \/ FreeStream(s)
           \/ \E j \in Jobs : CancelHandle(j)
           \/ \E j \in Invokes : FreeInvoke(j)
           \/ UNCHANGED handleVars
    PROVE  LoopTypeOK'
<1> USE DEF LoopTypeOK, loopVars, handleVars, Jobs
<1>1. ASSUME NEW s \in Streams, TakeChunk(s)
      PROVE  LoopTypeOK'
  BY <1>1 DEF TakeChunk, HasChunk
<1>2. ASSUME NEW s \in Streams, FreeStream(s)
      PROVE  LoopTypeOK'
  BY <1>2 DEF FreeStream
<1>3. ASSUME NEW j \in Jobs, CancelHandle(j)
      PROVE  LoopTypeOK'
  BY <1>3 DEF CancelHandle
<1>4. ASSUME NEW j \in Invokes, FreeInvoke(j)
      PROVE  LoopTypeOK'
  BY <1>4 DEF FreeInvoke
<1>5. CASE UNCHANGED handleVars
  BY <1>5
<1>6. QED
  BY <1>1, <1>2, <1>3, <1>4, <1>5

LEMMA LoopTypes ==
    ASSUME LoopTypeOK, LoopNext
    PROVE  LoopTypeOK'
<1>1. CASE Take
  BY <1>1 DEF LoopTypeOK, Take, handleVars
<1>2. CASE PutSlot
  BY <1>2 DEF LoopTypeOK, PutSlot, handleVars
<1>3. ASSUME NEW s \in Streams, OnChunk(s)
      PROVE  LoopTypeOK'
  <2>1. EnqueueChunk(s, emitted[s] + 1) \in Seq(Nat)
    BY DEF LoopTypeOK, EnqueueChunk
  <2>2. emitted[s] + 1 \in Nat
    BY DEF LoopTypeOK
  <2>3. QED
    BY <1>3, <2>1, <2>2 DEF LoopTypeOK, OnChunk, loopVars
<1>4. ASSUME NEW j \in Jobs, Finish(j)
      PROVE  LoopTypeOK'
  BY <1>4 DEF LoopTypeOK, Finish, Finals
<1>5. QED
  BY <1>1, <1>2, <1>3, <1>4 DEF LoopNext

\* The calls of the program, one after the other: the work loop's part by the
\* lemmas above, then what changes in Python.
LEMMA CallTypes ==
    ASSUME TypeOK,
           \/ \E c \in Configs : Open(c)
           \/ CloseRuntime \/ CloseReturns \/ CallMethod \/ CallReturns
    PROVE  TypeOK'
<1> USE DEF TypeOK, readerVars, invokeVars, handlerVars
<1>1. << Call >> \in Seq(Items) /\ ShutdownItems \in Seq(Items)
  BY DEF Items, ShutdownItems
<1>2. ASSUME NEW c \in Configs, Open(c)
      PROVE  TypeOK'
  <2>1. LoopTypeOK'
    BY <1>2 DEF LoopTypeOK, Open, StartLoop, loopVars, handleVars
  <2>2. QED
    BY <1>2, <2>1 DEF Open
<1>3. CASE CloseRuntime
  <2>1. LoopTypeOK'
    BY <1>1, <1>3, DispatchTypes DEF CloseRuntime
  <2>2. QED
    BY <1>3, <2>1 DEF CloseRuntime
<1>4. CASE CloseReturns
  <2>1. LoopTypeOK'
    BY <1>4, HandleTypes DEF CloseReturns
  <2>2. QED
    BY <1>4, <2>1 DEF CloseReturns
<1>5. CASE CallMethod
  <2>1. LoopTypeOK'
    BY <1>1, <1>5, DispatchTypes DEF CallMethod
  <2>2. QED
    BY <1>5, <2>1 DEF CallMethod
<1>6. CASE CallReturns
  <2>1. LoopTypeOK'
    BY <1>6, HandleTypes DEF CallReturns
  <2>2. verdict' \in {"told", "misread", "lost", "spurious", "foreign"}
    BY <1>6 DEF CallReturns, Verdict
  <2>3. QED
    BY <1>6, <2>1, <2>2 DEF CallReturns
<1>7. QED
  BY <1>2, <1>3, <1>4, <1>5, <1>6

LEMMA HandlerTypes ==
    ASSUME TypeOK, Handler
    PROVE  TypeOK'
<1> USE DEF TypeOK, readerVars, invokeVars, handlerVars
<1>1. ASSUME NEW h \in Handlers, RegisterHandler(h)
      PROVE  TypeOK'
  <2>1. << Call >> \in Seq(Items)
    BY DEF Items
  <2>2. LoopTypeOK'
    BY <1>1, <2>1, DispatchTypes DEF RegisterHandler
  <2>3. stored' \subseteq Handlers
    BY <1>1 DEF RegisterHandler, Store
  <2>4. QED
    BY <1>1, <2>2, <2>3 DEF RegisterHandler
<1>2. ASSUME NEW registered \in BOOLEAN, ToolReturns(registered)
      PROVE  TypeOK'
  <2>1. LoopTypeOK'
    BY <1>2, HandleTypes DEF ToolReturns
  <2>2. QED
    BY <1>2, <2>1 DEF ToolReturns
<1>3. ASSUME NEW registered \in BOOLEAN, ApprovalReturns(registered)
      PROVE  TypeOK'
  <2>1. LoopTypeOK'
    BY <1>3, HandleTypes DEF ApprovalReturns
  <2>2. QED
    BY <1>3, <2>1 DEF ApprovalReturns
<1>4. QED
  BY <1>1, <1>2, <1>3 DEF Handler

LEMMA InvokeTypes ==
    ASSUME TypeOK, NEW j \in Invokes, Invoke(j)
    PROVE  TypeOK'
<1> USE DEF TypeOK, readerVars, invokeVars, handlerVars
<1>1. j \in Jobs
  BY DEF Jobs
<1>2. CASE InvokeStart(j)
  <2>1. LoopTypeOK'
    BY <1>1, <1>2, StartJobTypes, HandleTypes DEF InvokeStart
  <2>2. QED
    BY <1>2, <2>1 DEF InvokeStart
<1>3. CASE InvokePoll(j)
  <2>1. LoopTypeOK'
    BY <1>3, HandleTypes DEF InvokePoll
  <2>2. final[j] \in {"none", "ok", "error", "cancelled"}
    BY <1>1 DEF LoopTypeOK
  <2>3. QED
    BY <1>3, <2>1, <2>2 DEF InvokePoll
<1>4. CASE InvokeCancel(j)
  <2>1. LoopTypeOK'
    BY <1>1, <1>4, HandleTypes DEF InvokeCancel
  <2>2. QED
    BY <1>1, <1>4, <2>1 DEF InvokeCancel
<1>5. QED
  BY <1>2, <1>3, <1>4 DEF Invoke

LEMMA StreamTypes ==
    ASSUME TypeOK, NEW s \in Streams, Stream(s)
    PROVE  TypeOK'
<1> USE DEF TypeOK, readerVars, invokeVars, handlerVars
<1>1. s \in Jobs
  BY DEF Jobs
<1>2. CASE InvokeStream(s)
  <2>1. LoopTypeOK'
    BY <1>1, <1>2, StartJobTypes DEF InvokeStream
  <2>2. QED
    BY <1>2, <2>1 DEF InvokeStream
<1>3. CASE NextEvent(s)
  <2>1. LoopTypeOK'
    BY <1>3, HandleTypes DEF NextEvent
  <2>2. QED
    BY <1>3, <2>1 DEF NextEvent
<1>4. CASE Yield(s)
  <2>1. LoopTypeOK'
    BY <1>4, HandleTypes DEF Yield
  <2>2. Head(chunks[s]) \in Nat
    BY <1>4 DEF Yield, TakeChunk, HasChunk, LoopTypeOK
  <2>3. QED
    BY <1>4, <2>1, <2>2 DEF Yield
<1>5. CASE Complete(s)
  <2>1. LoopTypeOK'
    BY <1>5, HandleTypes DEF Complete
  <2>2. QED
    BY <1>5, <2>1 DEF Complete
<1>6. CASE End(s)
  <2>1. LoopTypeOK'
    BY <1>6, HandleTypes DEF End
  <2>2. QED
    BY <1>6, <2>1 DEF End
<1>7. CASE CancelCheck(s)
  <2>1. LoopTypeOK'
    BY <1>7, HandleTypes DEF CancelCheck
  <2>2. QED
    BY <1>1, <1>7, <2>1 DEF CancelCheck
<1>8. CASE CancelStore(s)
  <2>1. LoopTypeOK'
    BY <1>1, <1>8, HandleTypes DEF CancelStore
  <2>2. QED
    BY <1>1, <1>8, <2>1 DEF CancelStore
<1>9. CASE CollectFresh(s)
  <2>1. LoopTypeOK'
    BY <1>1, <1>9, HandleTypes DEF CollectFresh
  <2>2. QED
    BY <1>1, <1>9, <2>1 DEF CollectFresh
<1>10. CASE Collect(s)
  <2>1. LoopTypeOK'
    BY <1>1, <1>10, HandleTypes DEF Collect
  <2>2. QED
    BY <1>1, <1>10, <2>1 DEF Collect
<1>11. CASE Drain(s)
  <2>1. LoopTypeOK'
    BY <1>11, HandleTypes DEF Drain
  <2>2. QED
    BY <1>11, <2>1 DEF Drain
<1>12. QED
  BY <1>2, <1>3, <1>4, <1>5, <1>6, <1>7, <1>8, <1>9, <1>10, <1>11 DEF Stream

LEMMA TypeStep == TypeOK /\ [Next]_vars => TypeOK'
<1> SUFFICES ASSUME TypeOK, [Next]_vars
             PROVE  TypeOK'
  OBVIOUS
<1>1. CASE LoopStep
  <2>1. LoopTypeOK'
    BY <1>1, LoopTypes DEF LoopStep, TypeOK
  <2>2. QED
    BY <1>1, <2>1 DEF LoopStep, TypeOK, pythonVars, readerVars, invokeVars, handlerVars
<1>2. CASE UNCHANGED vars
  BY <1>2 DEF vars, TypeOK, LoopTypeOK, loopVars, handleVars, pythonVars,
              readerVars, invokeVars, handlerVars
<1>3. QED
  BY <1>1, <1>2, CallTypes, HandlerTypes, InvokeTypes, StreamTypes DEF Next, Program

\* The variables keep their types; TLC finds out with every other property.
THEOREM BindingTypes == Spec => []TypeOK
BY TypeInit, TypeStep, PTL DEF Spec

---------------------------------------------------------------------------
(* The inductive invariant *)

In(q, i) == \E k \in 1 .. Len(q) : q[k] = i

\* The queue holds each job at most once, and the sentinel comes last.
Distinct(q) == \A k, l \in 1 .. Len(q) : q[k] \in Jobs /\ q[k] = q[l] => k = l

SentinelLast(q) == \A k \in 1 .. Len(q) : q[k] = Sentinel => k = Len(q)

\* The loop ends with the sentinel, and only close sends it.
LoopInv ==
    /\ Distinct(queue) /\ SentinelLast(queue)
    /\ In(queue, Sentinel) => rt = "closing"
    /\ running # Sentinel
    /\ loop = "exited" => queue = << >> /\ running = Idle /\ rt \in {"closing", "closed"}
    /\ rt \in {"new", "failed"} => loop = "down"
    /\ rt = "closed" => loop = "exited"

\* A job that was started has its outcome, or is queued, or runs.
JobInv ==
    \A j \in Jobs :
        /\ running = j => ~ In(queue, j)
        /\ running = j \/ In(queue, j) <=> state[j] # "absent" /\ final[j] = "none"
        /\ state[j] = "absent" => final[j] = "none" /\ asked[j] = "no"

\* What the state of a handle says of its job's outcome and cancellation
HandleInv ==
    \A j \in Jobs :
        /\ state[j] = "done" => final[j] # "none"
        /\ state[j] = "cancel" => asked[j] = "stored"
        /\ state[j] = "freed" /\ final[j] = "none" => asked[j] = "stored"
        /\ final[j] = "cancelled" => asked[j] = "stored"

\* Where a reader stands and the handle it polls
ReaderInv ==
    \A s \in Streams :
        /\ reader[s] \in {"fresh", "suspended", "polling", "completed", "dropped"} =>
               state[s] \notin {"absent", "freed"}
        /\ reader[s] = "dropped" => asked[s] = "stored"
        /\ reader[s] = "completed" => chunks[s] = << >> /\ state[s] # "running"
        /\ reader[s] # "ended" => ended[s] = "no"

\* The events yielded, those that wait, how many were sent, and where the
\* reader and the handle stand
Reading == {"fresh", "suspended", "polling", "completed"}

InOrder(yielded, waiting, sent, where, handle) ==
    /\ \A k \in 1 .. Len(yielded) : yielded[k] = k
    /\ handle = "absent" => yielded = << >> /\ waiting = << >> /\ sent = 0
    /\ where \in Reading =>
           /\ Len(yielded) + Len(waiting) = sent
           /\ \A k \in 1 .. Len(waiting) : waiting[k] = Len(yielded) + k

EventInv ==
    \A s \in Streams : InOrder(got[s], chunks[s], emitted[s], reader[s], state[s])

TableInv == IsFiniteSet(table) /\ AnswersAreOwn

HandlerInv ==
    /\ loop # "exited" => known \subseteq callbacks
    /\ main \in {"tool", "approval"} => pending \in callbacks \ known

Inv ==
    /\ TypeOK
    /\ LoopInv /\ JobInv /\ HandleInv /\ ReaderInv /\ EventInv
    /\ QuietMeansComplete
    /\ TouchedOnlyByCancel
    /\ TableInv /\ HandlerInv

LEMMA InvInit == Init => Inv
<1> SUFFICES ASSUME Init
             PROVE  Inv
  OBVIOUS
<1>1. queue = << >> /\ Len(queue) = 0
  BY EmptySeq DEF Init, LoopInit
<1>2. TypeOK
  BY TypeInit
<1>3. LoopInv
  BY <1>1, WorkLoopAssumption DEF Init, LoopInit, LoopInv, Distinct, SentinelLast, In
<1>4. JobInv
  BY <1>1, WorkLoopAssumption DEF Init, LoopInit, JobInv, In
<1>5. HandleInv
  BY DEF Init, LoopInit, HandleInv
<1>6. ReaderInv /\ QuietMeansComplete /\ TouchedOnlyByCancel /\ HandlerInv
  BY DEF Init, LoopInit, ReaderInv, QuietMeansComplete, TouchedOnlyByCancel, HandlerInv
<1>7. EventInv
  <2>1. \A s \in Streams : got[s] = << >> /\ chunks[s] = << >> /\ emitted[s] = 0
    BY Zenon DEF Init, LoopInit
  <2>2. Len(<< >>) = 0
    BY EmptySeq
  <2>3. \A s \in Streams : Len(got[s]) = 0 /\ Len(chunks[s]) = 0
    BY <2>1, <2>2, Zenon
  <2>4. \A s \in Streams : reader[s] = "none"
    BY Zenon DEF Init
  <2>5. \A s \in Streams : \A k \in 1 .. Len(got[s]) : got[s][k] = k
    BY <2>3
  <2>6. "none" \notin Reading
    BY DEF Reading
  <2>7. QED
    BY <2>1, <2>4, <2>5, <2>6, Zenon DEF EventInv, InOrder
<1>8. TableInv
  BY FS_EmptySet, BindingAssumption DEF Init, LoopInit, TableInv, AnswersAreOwn, Jobs
<1>9. QED
  BY <1>2, <1>3, <1>4, <1>5, <1>6, <1>7, <1>8 DEF Inv

---------------------------------------------------------------------------
(* The queue *)

LEMMA QueueAppend ==
    ASSUME NEW q \in Seq(Items), NEW x \in Items
    PROVE  /\ \A i : In(Append(q, x), i) <=> In(q, i) \/ i = x
           /\ Distinct(q) /\ (x \in Jobs => ~ In(q, x)) => Distinct(Append(q, x))
           /\ ~ In(q, Sentinel) => SentinelLast(Append(q, x))
<1> DEFINE n == Len(q)
           r == Append(q, x)
<1>1. /\ n \in Nat /\ Len(r) = n + 1
      /\ \A k \in 1 .. n : r[k] = q[k]
      /\ r[n + 1] = x
      /\ 1 .. Len(r) = (1 .. n) \cup {n + 1}
  OBVIOUS
<1> HIDE DEF n, r
<1>2. \A i : In(r, i) <=> In(q, i) \/ i = x
  BY <1>1 DEF In, n
<1>3. Distinct(q) /\ (x \in Jobs => ~ In(q, x)) => Distinct(r)
  BY <1>1 DEF In, Distinct, n
<1>4. ~ In(q, Sentinel) => SentinelLast(r)
  BY <1>1 DEF In, SentinelLast, n
<1>5. QED
  BY <1>2, <1>3, <1>4 DEF r

LEMMA QueueTail ==
    ASSUME NEW q \in Seq(Items), q # << >>
    PROVE  /\ Head(q) \in Items
           /\ \A i : In(q, i) <=> i = Head(q) \/ In(Tail(q), i)
           /\ Distinct(q) => Distinct(Tail(q))
           /\ Distinct(q) /\ Head(q) \in Jobs => ~ In(Tail(q), Head(q))
           /\ SentinelLast(q) => SentinelLast(Tail(q))
           /\ SentinelLast(q) /\ Head(q) = Sentinel => Tail(q) = << >>
<1> DEFINE n == Len(q)
           r == Tail(q)
<1>1. /\ n \in Nat /\ n > 0 /\ Len(r) = n - 1
      /\ \A k \in 1 .. n - 1 : r[k] = q[k + 1]
      /\ Head(q) = q[1] /\ q[1] \in Items
      /\ n = 1 => r = << >>
  OBVIOUS
<1> HIDE DEF n, r
<1>2. \A i : In(q, i) <=> i = Head(q) \/ In(r, i)
  <2>1. \A k \in 1 .. n : k = 1 \/ k - 1 \in 1 .. n - 1
    BY <1>1
  <2>2. \A k \in 2 .. n : q[k] = r[k - 1]
    BY <1>1
  <2>3. QED
    BY <1>1, <2>1, <2>2 DEF In, n
<1>3. Distinct(q) => Distinct(r) /\ (Head(q) \in Jobs => ~ In(r, Head(q)))
  BY <1>1 DEF In, Distinct, n
<1>4. SentinelLast(q) => SentinelLast(r) /\ (Head(q) = Sentinel => r = << >>)
  BY <1>1 DEF SentinelLast, n
<1>5. QED
  BY <1>1, <1>2, <1>3, <1>4 DEF r

LEMMA QueueConcat ==
    ASSUME NEW q \in Seq(Items)
    PROVE  /\ q \o << Call >> = Append(q, Call)
           /\ q \o ShutdownItems = Append(Append(q, Close), Sentinel)
<1>1. Call \in Items /\ Close \in Items /\ Sentinel \in Items
  BY DEF Items
<1>2. QED
  BY <1>1 DEF ShutdownItems

\* What can happen to the queue and the item that runs: nothing, one of the
\* work loop's own steps, a new item, or close.
Dispatched(x) == queue' = Append(queue, x) /\ UNCHANGED << loop, running, rt >>

LEMMA QueueSteps ==
    ASSUME TypeOK, Next
    PROVE  \/ UNCHANGED << loop, queue, running, rt >>
           \/ Take /\ rt' = rt
           \/ PutSlot /\ rt' = rt
           \/ \E j \in Jobs : Finish(j) /\ rt' = rt
           \/ rt = "new" /\ rt' \in {"open", "failed"} /\ UNCHANGED << queue, running >>
                 /\ loop' = (IF rt' = "open" THEN "up" ELSE loop)
           \/ /\ rt = "open" /\ rt' = "closing" /\ UNCHANGED << loop, running >>
              /\ queue' = Append(Append(queue, Close), Sentinel)
           \/ loop = "exited" /\ rt' = "closed" /\ UNCHANGED loopVars
           \/ rt = "open" /\ Dispatched(Call)
           \/ \E j \in Jobs : rt = "open" /\ StartJob(j) /\ Dispatched(j)
<1> USE DEF loopVars
<1>1. queue \in Seq(Items)
  BY DEF TypeOK, LoopTypeOK
<1>2. CASE LoopStep
  BY <1>2 DEF LoopStep, LoopNext, OnChunk, pythonVars
<1>3. ASSUME NEW c \in Configs, Open(c)
      PROVE  rt = "new" /\ rt' \in {"open", "failed"} /\ UNCHANGED << queue, running >>
             /\ loop' = (IF rt' = "open" THEN "up" ELSE loop)
  BY <1>3 DEF Open, StartLoop
<1>4. CASE CloseRuntime
  BY <1>1, <1>4, QueueConcat DEF CloseRuntime, CanCall, Dispatch
<1>5. CASE CloseReturns
  BY <1>5 DEF CloseReturns, Joined
<1>6. CASE CallMethod
  BY <1>1, <1>6, QueueConcat DEF CallMethod, CanCall, Dispatch, Dispatched
<1>7. CASE CallReturns
  BY <1>7 DEF CallReturns
<1>8. CASE Handler
  <2>1. ASSUME NEW h \in Handlers, RegisterHandler(h)
        PROVE  rt = "open" /\ Dispatched(Call)
    BY <1>1, <2>1, QueueConcat DEF RegisterHandler, CanCall, Dispatch, Dispatched
  <2>2. ASSUME NEW registered \in BOOLEAN,
               ToolReturns(registered) \/ ApprovalReturns(registered)
        PROVE  UNCHANGED << loop, queue, running, rt >>
    BY <2>2 DEF ToolReturns, ApprovalReturns
  <2>3. QED
    BY <1>8, <2>1, <2>2 DEF Handler
<1>9. ASSUME NEW j \in Invokes, Invoke(j)
      PROVE  \/ UNCHANGED << loop, queue, running, rt >>
             \/ rt = "open" /\ StartJob(j) /\ Dispatched(j)
  BY <1>9 DEF Invoke, InvokeStart, InvokePoll, InvokeCancel, CanCall, StartJob,
              DispatchAsync, Dispatched
<1>10. ASSUME NEW s \in Streams, Stream(s)
       PROVE  \/ UNCHANGED << loop, queue, running, rt >>
              \/ rt = "open" /\ StartJob(s) /\ Dispatched(s)
  <2>1. CASE InvokeStream(s)
    BY <2>1 DEF InvokeStream, CanCall, StartJob, DispatchAsync, Dispatched
  <2>2. CASE ~ InvokeStream(s)
    BY <1>10, <2>2 DEF Stream, NextEvent, Yield, Complete, End, CancelCheck, CancelStore,
                       CollectFresh, Collect, Drain
  <2>3. QED
    BY <2>1, <2>2
<1>11. QED
  BY <1>2, <1>3, <1>4, <1>5, <1>6, <1>7, <1>8, <1>9, <1>10 DEF Next, Program, Jobs

LEMMA LoopInvStep ==
    ASSUME TypeOK, LoopInv, JobInv, Next
    PROVE  LoopInv'
<1>1. queue \in Seq(Items)
  BY DEF TypeOK, LoopTypeOK
<1>2. CASE UNCHANGED << loop, queue, running, rt >>
  BY <1>2 DEF LoopInv, In, Distinct, SentinelLast
<1>3. CASE Take /\ rt' = rt
  <2>1. queue # << >> /\ queue' = Tail(queue) /\ loop = "up" /\ running = Idle
    BY <1>3 DEF Take
  <2>2. Distinct(queue') /\ SentinelLast(queue')
    BY <1>1, <2>1, QueueTail DEF LoopInv
  <2>3. In(queue', Sentinel) => In(queue, Sentinel)
    BY <1>1, <2>1, QueueTail
  <2>4. Head(queue) = Sentinel => queue' = << >> /\ In(queue, Sentinel)
    BY <1>1, <2>1, QueueTail DEF LoopInv
  <2>5. QED
    BY <1>3, <2>1, <2>2, <2>3, <2>4, WorkLoopAssumption
       DEF LoopInv, Take, In, Distinct, SentinelLast
<1>4. CASE (PutSlot \/ \E j \in Jobs : Finish(j)) /\ rt' = rt
  BY <1>4, WorkLoopAssumption
     DEF LoopInv, PutSlot, Finish, In, Distinct, SentinelLast
<1>5. CASE /\ rt = "new" /\ rt' \in {"open", "failed"} /\ UNCHANGED << queue, running >>
           /\ loop' = (IF rt' = "open" THEN "up" ELSE loop)
  BY <1>5 DEF LoopInv, In, Distinct, SentinelLast
<1>6. CASE /\ rt = "open" /\ rt' = "closing" /\ UNCHANGED << loop, running >>
           /\ queue' = Append(Append(queue, Close), Sentinel)
  <2>1. Close \in Items /\ Sentinel \in Items /\ Close \notin Jobs /\ Sentinel \notin Jobs
        /\ Close # Sentinel
    BY WorkLoopAssumption DEF Items
  <2>2. Append(queue, Close) \in Seq(Items)
    BY <1>1, <2>1
  <2>3. ~ In(queue, Sentinel)
    BY <1>6 DEF LoopInv
  <2>4. Distinct(Append(queue, Close)) /\ ~ In(Append(queue, Close), Sentinel)
    BY <1>1, <2>1, <2>3, QueueAppend DEF LoopInv
  <2>5. Distinct(queue') /\ SentinelLast(queue')
    BY <1>6, <2>1, <2>2, <2>4, QueueAppend
  <2>6. QED
    BY <1>6, <2>5 DEF LoopInv, In, Distinct, SentinelLast
<1>7. CASE loop = "exited" /\ rt' = "closed" /\ UNCHANGED loopVars
  <2>1. Len(queue) = 0
    BY <1>7, EmptySeq DEF LoopInv
  <2>2. QED
    BY <1>7, <2>1 DEF LoopInv, loopVars, In, Distinct, SentinelLast
<1>8. ASSUME NEW x \in Jobs \cup {Call}, rt = "open", Dispatched(x),
             x \in Jobs => StartJob(x)
      PROVE  LoopInv'
  <2>1. x \in Items /\ x # Sentinel
    BY WorkLoopAssumption DEF Items
  <2>2. x \in Jobs => ~ In(queue, x)
    BY <1>8 DEF JobInv, StartJob
  <2>3. ~ In(queue, Sentinel)
    BY <1>8 DEF LoopInv
  <2>4. Distinct(queue') /\ SentinelLast(queue') /\ ~ In(queue', Sentinel)
    BY <1>1, <1>8, <2>1, <2>2, <2>3, QueueAppend DEF LoopInv, Dispatched
  <2>5. QED
    BY <1>8, <2>4 DEF LoopInv, Dispatched, In, Distinct, SentinelLast
<1>9. QED
  <2>1. Call \notin Jobs
    BY WorkLoopAssumption
  <2>2. QED
    BY <1>2, <1>3, <1>4, <1>5, <1>6, <1>7, <1>8, <2>1, QueueSteps

---------------------------------------------------------------------------
(* The handles *)

\* What a step can do to the handle of a job, its outcome and its cancellation
Started1(j) ==
    /\ StartJob(j) /\ Dispatched(j)
    /\ UNCHANGED asked

Checked1(j) ==
    /\ state[j] # "absent"
    /\ asked[j] = "no" /\ asked' = [asked EXCEPT ![j] = "checked"]
    /\ UNCHANGED << state, final, queue, running, touched >>

Cancelled1(j) ==
    /\ state[j] # "absent"
    /\ asked' = [asked EXCEPT ![j] = "stored"]
    /\ IF state[j] = "freed"
       THEN touched' = TRUE /\ UNCHANGED state
       ELSE state' \in {state, [state EXCEPT ![j] = "cancel"]} /\ UNCHANGED touched
    /\ UNCHANGED << final, queue, running >>

Freed1(j) ==
    /\ state[j] # "absent"
    /\ final[j] # "none" \/ asked[j] = "stored"
    /\ state' = [state EXCEPT ![j] = "freed"]
    /\ UNCHANGED << final, asked, queue, running, touched >>

Finished1(j) == Finish(j) /\ UNCHANGED asked

LEMMA HandleSteps ==
    ASSUME TypeOK, JobInv, HandleInv, ReaderInv, TableInv, Next
    PROVE  \/ UNCHANGED << state, final, asked, touched >>
           \/ \E s \in Streams : OnChunk(s) /\ UNCHANGED asked
           \/ \E j \in Jobs : \/ Started1(j) \/ Checked1(j) \/ Cancelled1(j)
                              \/ Freed1(j) \/ Finished1(j)
<1> USE DEF handleVars, loopVars
<1>1. CASE LoopStep
  BY <1>1 DEF LoopStep, LoopNext, Take, PutSlot, Finished1, pythonVars
<1>2. CASE \E c \in Configs : Open(c)
  BY <1>2 DEF Open
<1>3. CASE CloseRuntime \/ CloseReturns \/ CallMethod \/ CallReturns \/ Handler
  BY <1>3 DEF CloseRuntime, CloseReturns, CallMethod, CallReturns, Handler, RegisterHandler,
              ToolReturns, ApprovalReturns
<1>4. ASSUME NEW j \in Invokes, Invoke(j)
      PROVE  \/ UNCHANGED << state, final, asked, touched >>
             \/ Started1(j) \/ Cancelled1(j) \/ Freed1(j)
  <2>1. j \in Jobs
    BY DEF Jobs
  <2>2. CASE InvokeStart(j)
    BY <2>2 DEF InvokeStart, CanCall, StartJob, DispatchAsync, Dispatched, Started1
  <2>3. CASE InvokePoll(j)
    <3>1. state[j] \in {"cancel", "done"}
      BY <2>3 DEF InvokePoll, TableInv, AnswersAreOwn
    <3>2. QED
      BY <2>1, <2>3, <3>1 DEF InvokePoll, FreeInvoke, Freed1, HandleInv
  <2>4. CASE InvokeCancel(j)
    <3>1. state[j] \in {"running", "cancel", "done"}
      BY <2>4 DEF InvokeCancel, TableInv, AnswersAreOwn
    <3>2. QED
      BY <2>4, <3>1 DEF InvokeCancel, CancelHandle, Cancelled1
  <2>5. QED
    BY <1>4, <2>2, <2>3, <2>4 DEF Invoke
<1>5. ASSUME NEW s \in Streams, Stream(s)
      PROVE  \/ UNCHANGED << state, final, asked, touched >>
             \/ Started1(s) \/ Checked1(s) \/ Cancelled1(s) \/ Freed1(s)
  <2>1. s \in Jobs /\ state[s] \in {"absent", "running", "cancel", "done", "freed"}
        /\ asked \in [Jobs -> {"no", "checked", "stored"}]
    BY DEF Jobs, TypeOK, LoopTypeOK
  <2>2. CASE InvokeStream(s)
    BY <2>2 DEF InvokeStream, CanCall, StartJob, DispatchAsync, Dispatched, Started1
  <2>3. CASE NextEvent(s) \/ Yield(s) \/ Complete(s)
    BY <2>3 DEF NextEvent, Yield, TakeChunk, Complete
  <2>4. CASE End(s)
    BY <2>1, <2>4 DEF End, FreeStream, Freed1, ReaderInv, HandleInv
  <2>5. CASE CancelCheck(s)
    BY <2>5 DEF CancelCheck, Checked1, ReaderInv
  <2>6. CASE CancelStore(s)
    BY <2>1, <2>6 DEF CancelStore, CancelHandle, Cancelled1, JobInv
  <2>7. CASE CollectFresh(s)
    BY <2>1, <2>7 DEF CollectFresh, CancelHandle, Cancelled1, ReaderInv
  <2>8. CASE Collect(s)
    BY <2>1, <2>8 DEF Collect, CancelHandle, Cancelled1, ReaderInv
  <2>9. CASE Drain(s)
    BY <2>1, <2>9 DEF Drain, FreeStream, Freed1, ReaderInv
  <2>10. QED
    BY <1>5, <2>2, <2>3, <2>4, <2>5, <2>6, <2>7, <2>8, <2>9 DEF Stream
<1>6. QED
  BY <1>1, <1>2, <1>3, <1>4, <1>5 DEF Next, Program, Jobs

LEMMA HandleInvStep ==
    ASSUME TypeOK, JobInv, HandleInv, ReaderInv, TableInv, Next
    PROVE  HandleInv'
<1> USE DEF TypeOK, LoopTypeOK
<1>1. CASE UNCHANGED << state, final, asked, touched >>
  BY <1>1 DEF HandleInv
<1>2. CASE \E s \in Streams : OnChunk(s) /\ UNCHANGED asked
  BY <1>2 DEF OnChunk, HandleInv
<1>3. CASE \E j \in Jobs : Started1(j) \/ Checked1(j)
  BY <1>3 DEF Started1, Checked1, StartJob, HandleInv, JobInv
<1>4. CASE \E j \in Jobs : Cancelled1(j) \/ Freed1(j)
  BY <1>4 DEF Cancelled1, Freed1, HandleInv
<1>5. CASE \E j \in Jobs : Finished1(j)
  BY <1>5 DEF Finished1, Finish, Finals, HandleInv, JobInv
<1>6. QED
  BY <1>1, <1>2, <1>3, <1>4, <1>5, HandleSteps

LEMMA JobInvStep ==
    ASSUME TypeOK, LoopInv, JobInv, HandleInv, ReaderInv, TableInv, Next
    PROVE  JobInv'
<1>1. /\ queue \in Seq(Items)
      /\ state \in [Jobs -> {"absent", "running", "cancel", "done", "freed"}]
      /\ asked \in [Jobs -> {"no", "checked", "stored"}]
      /\ final \in [Jobs -> {"none", "ok", "error", "cancelled"}]
  BY DEF TypeOK, LoopTypeOK
<1>2. CASE UNCHANGED << state, final, asked >>
  <2>1. CASE UNCHANGED << queue, running >>
    BY <1>2, <2>1 DEF JobInv, In
  <2>2. CASE Take
    <3>1. queue # << >> /\ queue' = Tail(queue) /\ running = Idle
      BY <2>2 DEF Take
    <3>2. Head(queue) # Sentinel => running' = Head(queue)
      BY <2>2 DEF Take
    <3>3. Head(queue) = Sentinel => running' = Idle
      BY <2>2, <3>1 DEF Take
    <3>4. \A j \in Jobs : /\ In(queue, j) <=> j = Head(queue) \/ In(queue', j)
                          /\ j = Head(queue) => ~ In(queue', j)
      BY <1>1, <3>1, QueueTail DEF LoopInv
    <3>5. \A j \in Jobs : j # Idle /\ j # Sentinel
      BY WorkLoopAssumption
    <3>6. QED
      BY <1>2, <3>1, <3>2, <3>3, <3>4, <3>5 DEF JobInv
  <2>3. CASE PutSlot
    BY <1>2, <2>3, WorkLoopAssumption DEF PutSlot, JobInv, In
  <2>4. ASSUME NEW j \in Jobs, Finish(j)
        PROVE  FALSE
    BY <1>1, <1>2, <2>4 DEF Finish, Finals, JobInv
  <2>5. CASE /\ UNCHANGED running
             /\ queue' = Append(Append(queue, Close), Sentinel)
    <3>1. Close \in Items /\ Sentinel \in Items /\ Append(queue, Close) \in Seq(Items)
      BY <1>1 DEF Items
    <3>2. \A j \in Jobs : In(queue', j) <=> In(queue, j)
      BY <1>1, <2>5, <3>1, QueueAppend, WorkLoopAssumption
    <3>3. QED
      BY <1>2, <2>5, <3>2 DEF JobInv
  <2>6. CASE Dispatched(Call)
    <3>1. \A j \in Jobs : In(queue', j) <=> In(queue, j)
      BY <1>1, <2>6, QueueAppend, WorkLoopAssumption DEF Dispatched, Items
    <3>2. QED
      BY <1>2, <2>6, <3>1 DEF JobInv, Dispatched
  <2>7. ASSUME NEW j \in Jobs, StartJob(j)
        PROVE  FALSE
    BY <1>1, <1>2, <2>7 DEF StartJob
  <2>8. QED
    BY <2>1, <2>2, <2>3, <2>4, <2>5, <2>6, <2>7, QueueSteps DEF loopVars
<1>3. CASE \E s \in Streams : OnChunk(s) /\ UNCHANGED asked
  BY <1>3 DEF OnChunk, loopVars, JobInv, In
<1>4. ASSUME NEW j \in Jobs, Started1(j)
      PROVE  JobInv'
  <2>1. j \in Items
    BY DEF Items
  <2>2. \A i \in Jobs : In(queue', i) <=> In(queue, i) \/ i = j
    BY <1>1, <1>4, <2>1, QueueAppend DEF Started1, Dispatched
  <2>3. QED
    BY <1>1, <1>4, <2>2 DEF Started1, StartJob, Dispatched, JobInv
<1>5. CASE \E j \in Jobs : Checked1(j) \/ Cancelled1(j) \/ Freed1(j)
  BY <1>1, <1>5 DEF Checked1, Cancelled1, Freed1, JobInv, In
<1>6. CASE \E j \in Jobs : Finished1(j)
  BY <1>1, <1>6, WorkLoopAssumption DEF Finished1, Finish, Finals, JobInv, In
<1>7. QED
  BY <1>2, <1>3, <1>4, <1>5, <1>6, HandleSteps

---------------------------------------------------------------------------
(* The readers *)

streamView == << reader, got, ended, asked, state, chunks, final, emitted >>

\* The actions that have nothing to do with a stream
LEMMA Elsewhere ==
    ASSUME TypeOK, Next
    PROVE  \/ UNCHANGED streamView
           \/ \E j \in Invokes :
                  /\ UNCHANGED << reader, got, ended, chunks, emitted, final >>
                  /\ \A s \in Streams : state'[s] = state[s] /\ asked'[s] = asked[s]
           \/ (\E s \in Streams : OnChunk(s)) /\ UNCHANGED pythonVars
           \/ (\E j \in Jobs : Finish(j)) /\ UNCHANGED pythonVars
           \/ \E s \in Streams : Stream(s)
<1> USE DEF handleVars, readerVars, streamView
<1>1. CASE LoopStep
  BY <1>1 DEF LoopStep, LoopNext, Take, PutSlot, pythonVars
<1>2. CASE \E c \in Configs : Open(c)
  BY <1>2 DEF Open
<1>3. CASE CloseRuntime \/ CloseReturns \/ CallMethod \/ CallReturns \/ Handler
  BY <1>3 DEF CloseRuntime, CloseReturns, CallMethod, CallReturns, Handler, RegisterHandler,
              ToolReturns, ApprovalReturns
<1>4. ASSUME NEW j \in Invokes, Invoke(j)
      PROVE  /\ UNCHANGED << reader, got, ended, chunks, emitted, final >>
             /\ \A s \in Streams : state'[s] = state[s] /\ asked'[s] = asked[s]
  <2>1. \A s \in Streams : s # j /\ s \in Jobs
    BY WorkLoopAssumption DEF Jobs
  <2>2. QED
    BY <1>4, <2>1 DEF Invoke, InvokeStart, InvokePoll, InvokeCancel, StartJob, FreeInvoke,
                      CancelHandle, TypeOK, LoopTypeOK
<1>5. QED
  BY <1>1, <1>2, <1>3, <1>4 DEF Next, Program

LEMMA ReaderInvStep ==
    ASSUME TypeOK, JobInv, HandleInv, ReaderInv, Next
    PROVE  ReaderInv'
<1>1. Streams \subseteq Jobs
  BY DEF Jobs
<1>2. CASE UNCHANGED streamView
  BY <1>2 DEF streamView, ReaderInv
<1>3. CASE \E j \in Invokes :
               /\ UNCHANGED << reader, got, ended, chunks, emitted, final >>
               /\ \A s \in Streams : state'[s] = state[s] /\ asked'[s] = asked[s]
  BY <1>3 DEF ReaderInv
<1> USE DEF TypeOK, LoopTypeOK
<1>4. CASE (\E s \in Streams : OnChunk(s)) /\ UNCHANGED pythonVars
  BY <1>1, <1>4 DEF OnChunk, ReaderInv, JobInv, HandleInv, pythonVars, readerVars
<1>5. CASE (\E j \in Jobs : Finish(j)) /\ UNCHANGED pythonVars
  BY <1>1, <1>5 DEF Finish, ReaderInv, pythonVars, readerVars
<1>6. ASSUME NEW s \in Streams, Stream(s)
      PROVE  ReaderInv'
  <2>1. CASE InvokeStream(s) \/ NextEvent(s)
    BY <1>1, <2>1 DEF InvokeStream, StartJob, NextEvent, handleVars, ReaderInv
  <2>2. CASE Yield(s) \/ Complete(s)
    BY <1>1, <2>2 DEF Yield, TakeChunk, Complete, IsDone, handleVars, ReaderInv
  <2>3. CASE End(s)
    BY <1>1, <2>3 DEF End, FreeStream, ReaderInv
  <2>4. CASE CancelCheck(s) \/ CancelStore(s)
    BY <1>1, <2>4 DEF CancelCheck, CancelStore, CancelHandle, handleVars, readerVars,
                       ReaderInv
  <2>5. CASE CollectFresh(s)
    BY <1>1, <2>5 DEF CollectFresh, CancelHandle, handleVars, ReaderInv
  <2>6. CASE Collect(s)
    BY <1>1, <2>6 DEF Collect, CancelHandle, ReaderInv
  <2>7. CASE Drain(s)
    BY <1>1, <2>7 DEF Drain, FreeStream, ReaderInv
  <2>8. QED
    BY <1>6, <2>1, <2>2, <2>3, <2>4, <2>5, <2>6, <2>7 DEF Stream
<1>7. QED
  BY <1>2, <1>3, <1>4, <1>5, <1>6, Elsewhere

\* One more event waits; one that waited is yielded; the handle is freed.
LEMMA OneMoreWaits ==
    ASSUME NEW yielded \in Seq(Nat), NEW waiting \in Seq(Nat), NEW sent \in Nat,
           NEW where, NEW handle, handle # "absent",
           InOrder(yielded, waiting, sent, where, handle)
    PROVE  InOrder(yielded, Append(waiting, sent + 1), sent + 1, where, handle)
<1> DEFINE more == Append(waiting, sent + 1)
           m == Len(yielded)
           n == Len(waiting)
<1>1. /\ Len(more) = n + 1
      /\ \A k \in 1 .. n : more[k] = waiting[k]
      /\ more[n + 1] = sent + 1
      /\ n \in Nat /\ m \in Nat
  OBVIOUS
<1>2. where \in Reading => m + n = sent /\ \A k \in 1 .. n : waiting[k] = m + k
  BY DEF InOrder
<1> HIDE DEF more, m, n
<1>3. ASSUME where \in Reading, NEW k \in 1 .. n + 1
      PROVE  more[k] = m + k
  <2>1. CASE k \in 1 .. n
    BY <1>1, <1>2, <1>3, <2>1
  <2>2. CASE k = n + 1
    BY <1>1, <1>2, <1>3, <2>2
  <2>3. QED
    BY <1>1, <2>1, <2>2
<1>4. where \in Reading => m + (n + 1) = sent + 1
  BY <1>1, <1>2
<1>5. QED
  BY <1>1, <1>3, <1>4 DEF InOrder, more, m

LEMMA OneIsYielded ==
    ASSUME NEW yielded \in Seq(Nat), NEW waiting \in Seq(Nat), NEW sent \in Nat,
           NEW handle, handle # "absent", waiting # << >>,
           InOrder(yielded, waiting, sent, "polling", handle)
    PROVE  InOrder(Append(yielded, Head(waiting)), Tail(waiting), sent, "suspended", handle)
<1> DEFINE more == Append(yielded, Head(waiting))
           rest == Tail(waiting)
           m == Len(yielded)
           n == Len(waiting)
<1>1. /\ Len(more) = m + 1 /\ Len(rest) = n - 1
      /\ \A k \in 1 .. m : more[k] = yielded[k]
      /\ more[m + 1] = waiting[1]
      /\ \A k \in 1 .. n - 1 : rest[k] = waiting[k + 1]
      /\ n \in Nat /\ n > 0 /\ m \in Nat
  OBVIOUS
<1>2. /\ \A k \in 1 .. m : yielded[k] = k
      /\ m + n = sent
      /\ \A k \in 1 .. n : waiting[k] = m + k
  BY DEF InOrder, Reading
<1> HIDE DEF more, rest, m, n
<1>3. ASSUME NEW k \in 1 .. m + 1
      PROVE  more[k] = k
  <2>1. CASE k \in 1 .. m
    BY <1>1, <1>2, <2>1
  <2>2. CASE k = m + 1
    BY <1>1, <1>2, <2>2
  <2>3. QED
    BY <1>1, <2>1, <2>2
<1>4. ASSUME NEW k \in 1 .. n - 1
      PROVE  rest[k] = (m + 1) + k
  <2>1. k \in 1 .. n - 1 /\ k + 1 \in 1 .. n
    BY <1>1
  <2>2. QED
    BY <1>1, <1>2, <2>1
<1>5. (m + 1) + (n - 1) = sent
  BY <1>1, <1>2
<1>6. QED
  BY <1>1, <1>3, <1>4, <1>5 DEF InOrder, more, rest

LEMMA EventInvStep ==
    ASSUME TypeOK, JobInv, ReaderInv, EventInv, Next
    PROVE  EventInv'
<1> USE DEF EventInv
<1>1. Streams \subseteq Jobs
  BY DEF Jobs
<1>2. /\ got \in [Streams -> Seq(Nat)] /\ chunks \in [Streams -> Seq(Nat)]
      /\ emitted \in [Streams -> Nat]
      /\ DOMAIN reader = Streams /\ DOMAIN state = Jobs
  BY DEF TypeOK, LoopTypeOK
<1>3. CASE UNCHANGED streamView
  BY <1>3 DEF streamView
<1>4. CASE \E j \in Invokes :
               /\ UNCHANGED << reader, got, ended, chunks, emitted, final >>
               /\ \A s \in Streams : state'[s] = state[s] /\ asked'[s] = asked[s]
  BY <1>4
<1>5. ASSUME NEW s \in Streams, OnChunk(s), UNCHANGED pythonVars
      PROVE  EventInv'
  <2>1. state[s] # "absent" /\ UNCHANGED << state, reader, got >>
    BY <1>1, <1>5 DEF OnChunk, JobInv, pythonVars, readerVars
  <2>2. CASE state[s] = "freed"
    <3>1. reader[s] \notin Reading
      BY <2>2 DEF ReaderInv, Reading
    <3>2. chunks' = chunks /\ \A t \in Streams \ {s} : emitted'[t] = emitted[t]
      BY <1>2, <1>5, <2>2 DEF OnChunk
    <3>3. InOrder(got[s], chunks[s], emitted'[s], reader[s], state[s])
      BY <2>1, <3>1 DEF InOrder
    <3>4. QED
      BY <2>1, <3>2, <3>3
  <2>3. CASE state[s] # "freed"
    <3>1. /\ chunks'[s] = Append(chunks[s], emitted[s] + 1)
          /\ emitted'[s] = emitted[s] + 1
          /\ \A t \in Streams \ {s} : chunks'[t] = chunks[t] /\ emitted'[t] = emitted[t]
      BY <1>2, <1>5, <2>3 DEF OnChunk, EnqueueChunk
    <3>2. InOrder(got[s], chunks'[s], emitted'[s], reader[s], state[s])
      BY <1>2, <2>1, <3>1, OneMoreWaits
    <3>3. QED
      BY <2>1, <3>1, <3>2
  <2>4. QED
    BY <2>2, <2>3
<1>6. ASSUME NEW j \in Jobs, Finish(j), UNCHANGED pythonVars
      PROVE  EventInv'
  <2>1. UNCHANGED << got, chunks, emitted, reader >>
    BY <1>6 DEF Finish, pythonVars, readerVars
  <2>2. state[j] # "absent"
    BY <1>6 DEF Finish, JobInv
  <2>3. \A t \in Jobs : state'[t] = state[t] \/ (state[t] # "absent" /\ state'[t] # "absent")
    <3>1. state \in [Jobs -> {"absent", "running", "cancel", "done", "freed"}]
      BY DEF TypeOK, LoopTypeOK
    <3>2. state' \in {state, [state EXCEPT ![j] = "done"]}
      BY <1>6 DEF Finish
    <3>3. CASE state' = [state EXCEPT ![j] = "done"]
      BY <2>2, <3>1, <3>3
    <3>4. QED
      BY <3>2, <3>3
  <2>4. QED
    BY <1>1, <2>1, <2>3 DEF InOrder
<1>7. ASSUME NEW s \in Streams, Stream(s)
      PROVE  EventInv'
  <2>1. CASE InvokeStream(s)
    <3>1. /\ state[s] = "absent" /\ UNCHANGED << got, chunks, emitted >>
          /\ reader' = [reader EXCEPT ![s] = "fresh"]
          /\ state' = [state EXCEPT ![s] = "running"]
      BY <2>1 DEF InvokeStream, StartJob
    <3>2. Len(got[s]) = 0 /\ Len(chunks[s]) = 0 /\ emitted[s] = 0
      BY <3>1, EmptySeq DEF InOrder
    <3>3. InOrder(got[s], chunks[s], emitted[s], "fresh", "running")
      BY <3>2 DEF InOrder
    <3>4. QED
      BY <1>1, <1>2, <3>1, <3>3
  <2>2. CASE Yield(s)
    <3>1. /\ chunks[s] # << >> /\ reader[s] = "polling" /\ UNCHANGED << state, emitted >>
          /\ got' = [got EXCEPT ![s] = Append(@, Head(chunks[s]))]
          /\ chunks' = [chunks EXCEPT ![s] = Tail(@)]
          /\ reader' = [reader EXCEPT ![s] = "suspended"]
      BY <2>2 DEF Yield, TakeChunk, HasChunk
    <3>2. state[s] # "absent"
      BY <3>1 DEF ReaderInv
    <3>3. InOrder(Append(got[s], Head(chunks[s])), Tail(chunks[s]), emitted[s],
                  "suspended", state[s])
      BY <1>2, <3>1, <3>2, OneIsYielded
    <3>4. QED
      BY <1>2, <3>1, <3>3
  <2>3. CASE NextEvent(s) \/ Complete(s)
    <3>1. /\ reader[s] \in Reading /\ UNCHANGED << got, chunks, emitted, state >>
          /\ \A t \in Streams \ {s} : reader'[t] = reader[t]
      BY <1>2, <2>3 DEF NextEvent, Complete, handleVars, Reading
    <3>2. InOrder(got[s], chunks[s], emitted[s], reader'[s], state[s])
      BY <3>1 DEF InOrder
    <3>3. QED
      BY <3>1, <3>2
  <2>4. CASE End(s) \/ Drain(s)
    <3>1. /\ state' = [state EXCEPT ![s] = "freed"]
          /\ chunks' = [chunks EXCEPT ![s] = << >>]
          /\ reader' \in {[reader EXCEPT ![s] = "ended"], [reader EXCEPT ![s] = "collected"]}
          /\ UNCHANGED << got, emitted >>
      BY <2>4 DEF End, Drain, FreeStream
    <3>2. \A where \in {"ended", "collected"} :
              InOrder(got[s], << >>, emitted[s], where, "freed")
      BY DEF InOrder, Reading
    <3>3. reader'[s] \in {"ended", "collected"} /\ state'[s] = "freed" /\ chunks'[s] = << >>
      BY <1>1, <1>2, <3>1
    <3>4. \A t \in Streams \ {s} : /\ reader'[t] = reader[t] /\ state'[t] = state[t]
                                   /\ chunks'[t] = chunks[t]
      BY <1>1, <1>2, <3>1
    <3>5. QED
      BY <3>1, <3>2, <3>3, <3>4
  <2>5. CASE CancelCheck(s) \/ CancelStore(s) \/ CollectFresh(s) \/ Collect(s)
    <3>1. state[s] # "absent"
      BY <1>1, <2>5 DEF CancelCheck, CancelStore, CollectFresh, Collect, ReaderInv, JobInv
    <3>2. /\ state' \in {state, [state EXCEPT ![s] = "cancel"]}
          /\ reader' \in {reader, [reader EXCEPT ![s] = "leaked"], [reader EXCEPT ![s] = "dropped"]}
          /\ UNCHANGED << got, chunks, emitted >>
      BY <2>5 DEF CancelCheck, CancelStore, CollectFresh, Collect, CancelHandle, handleVars,
                  readerVars
    <3>3. /\ state'[s] # "absent" /\ (reader'[s] = reader[s] \/ reader'[s] \notin Reading)
          /\ \A t \in Streams \ {s} : reader'[t] = reader[t] /\ state'[t] = state[t]
      BY <1>1, <1>2, <3>1, <3>2 DEF Reading
    <3>4. InOrder(got[s], chunks[s], emitted[s], reader'[s], state'[s])
      BY <3>1, <3>3 DEF InOrder
    <3>5. QED
      BY <3>2, <3>3, <3>4
  <2>6. QED
    BY <1>7, <2>1, <2>2, <2>3, <2>4, <2>5 DEF Stream
<1>8. QED
  BY <1>3, <1>4, <1>5, <1>6, <1>7, Elsewhere

LEMMA QuietStep ==
    ASSUME TypeOK, JobInv, HandleInv, ReaderInv, EventInv, QuietMeansComplete, Next
    PROVE  QuietMeansComplete'
<1>1. Streams \subseteq Jobs
  BY DEF Jobs
<1>2. /\ \A j \in Jobs : final[j] \in {"none", "ok", "error", "cancelled"}
      /\ asked \in [Jobs -> {"no", "checked", "stored"}]
      /\ ended \in [Streams -> {"no", "quiet", "raised"}]
      /\ got \in [Streams -> Seq(Nat)]
      /\ emitted \in [Streams -> Nat] /\ final \in [Jobs -> {"none", "ok", "error", "cancelled"}]
  BY DEF TypeOK, LoopTypeOK
<1>3. CASE UNCHANGED streamView
  BY <1>3 DEF streamView, QuietMeansComplete
<1>4. CASE \E j \in Invokes :
               /\ UNCHANGED << reader, got, ended, chunks, emitted, final >>
               /\ \A s \in Streams : state'[s] = state[s] /\ asked'[s] = asked[s]
  BY <1>4 DEF QuietMeansComplete
<1>5. ASSUME NEW s \in Streams, OnChunk(s), UNCHANGED pythonVars
      PROVE  QuietMeansComplete'
  <2>1. final[s] = "none"
    BY <1>1, <1>5 DEF OnChunk, JobInv
  <2>2. QED
    BY <1>2, <1>5, <2>1 DEF OnChunk, pythonVars, readerVars, QuietMeansComplete
<1>6. ASSUME NEW j \in Jobs, Finish(j), UNCHANGED pythonVars
      PROVE  QuietMeansComplete'
  <2>1. final[j] = "none"
    BY <1>6 DEF Finish, JobInv
  <2>2. \A t \in Jobs \ {j} : final'[t] = final[t]
    BY <1>2, <1>6 DEF Finish
  <2>3. UNCHANGED << ended, asked, got, emitted >>
    BY <1>6 DEF Finish, pythonVars, readerVars
  <2>4. QED
    BY <1>1, <2>1, <2>2, <2>3 DEF QuietMeansComplete
<1>7. ASSUME NEW s \in Streams, Stream(s)
      PROVE  QuietMeansComplete'
  <2>1. CASE InvokeStream(s) \/ NextEvent(s) \/ Complete(s) \/ Drain(s)
    BY <2>1 DEF InvokeStream, StartJob, NextEvent, Complete, Drain, FreeStream, handleVars,
                QuietMeansComplete
  <2>2. CASE Yield(s)
    <3>1. UNCHANGED << ended, asked, final, emitted >>
      BY <2>2 DEF Yield, TakeChunk
    <3>2. \A t \in Streams \ {s} : got'[t] = got[t]
      BY <1>2, <2>2 DEF Yield
    <3>3. ended[s] = "no"
      BY <2>2 DEF Yield, ReaderInv
    <3>4. QED
      BY <3>1, <3>2, <3>3 DEF QuietMeansComplete
  <2>3. CASE End(s)
    <3>1. /\ reader[s] = "completed" /\ UNCHANGED << got, asked, final, emitted >>
          /\ ended' = [ended EXCEPT ![s] = IF final[s] = "error" THEN "raised" ELSE "quiet"]
      BY <2>3 DEF End, FreeStream
    <3>2. chunks[s] = << >> /\ state[s] \notin {"running", "absent", "freed"}
      BY <3>1 DEF ReaderInv
    <3>3. asked[s] = "no" => final[s] \in {"ok", "error"}
      BY <1>1, <1>2, <3>2 DEF HandleInv, TypeOK, LoopTypeOK
    <3>4. Len(got[s]) + Len(chunks[s]) = emitted[s]
      BY <3>1 DEF EventInv, InOrder, Reading
    <3>5. Len(got[s]) = emitted[s]
      BY <1>2, <3>2, <3>4, EmptySeq
    <3>6. QED
      BY <1>2, <3>1, <3>3, <3>5 DEF QuietMeansComplete
  <2>4. CASE CancelCheck(s) \/ CancelStore(s) \/ CollectFresh(s) \/ Collect(s)
    BY <1>1, <1>2, <2>4 DEF CancelCheck, CancelStore, CollectFresh, Collect, CancelHandle,
                       handleVars, readerVars, QuietMeansComplete
  <2>5. QED
    BY <1>7, <2>1, <2>2, <2>3, <2>4 DEF Stream
<1>8. QED
  BY <1>3, <1>4, <1>5, <1>6, <1>7, Elsewhere

LEMMA TouchedStep ==
    ASSUME TypeOK, JobInv, HandleInv, ReaderInv, TableInv, TouchedOnlyByCancel, Next
    PROVE  TouchedOnlyByCancel'
<1>1. asked \in [Jobs -> {"no", "checked", "stored"}] /\ Streams \subseteq Jobs
  BY DEF TypeOK, Jobs
<1>2. CASE UNCHANGED << state, final, asked, touched >>
  BY <1>2 DEF TouchedOnlyByCancel
<1>3. ASSUME NEW s \in Streams, OnChunk(s), UNCHANGED asked
      PROVE  TouchedOnlyByCancel'
  BY <1>1, <1>3 DEF OnChunk, JobInv, HandleInv, TouchedOnlyByCancel
<1>4. ASSUME NEW j \in Jobs, Started1(j) \/ Checked1(j) \/ Freed1(j)
      PROVE  TouchedOnlyByCancel'
  BY <1>1, <1>4 DEF Started1, StartJob, Checked1, Freed1, TouchedOnlyByCancel
<1>5. ASSUME NEW j \in Jobs, Cancelled1(j)
      PROVE  TouchedOnlyByCancel'
  BY <1>1, <1>5 DEF Cancelled1, TouchedOnlyByCancel
<1>6. ASSUME NEW j \in Jobs, Finished1(j)
      PROVE  TouchedOnlyByCancel'
  BY <1>6 DEF Finished1, Finish, JobInv, HandleInv, TouchedOnlyByCancel
<1>7. QED
  BY <1>2, <1>3, <1>4, <1>5, <1>6, HandleSteps

---------------------------------------------------------------------------
(* The asynchronous invokes and the handlers *)

InTable == {"running", "cancel", "done"}

\* Nothing changes for the registry when only streams change, and when a handle
\* stays one that has a slot or one that has none.
LEMMA TableKept ==
    ASSUME TableInv, UNCHANGED << table, answer >>,
           \A j \in Invokes : /\ state'[j] \in InTable <=> state[j] \in InTable
                              /\ final[j] # "none" => final'[j] = final[j]
                              /\ asked[j] = "stored" => asked'[j] = "stored"
    PROVE  TableInv'
BY DEF TableInv, AnswersAreOwn, InTable

LEMMA TableInvStep ==
    ASSUME TypeOK, JobInv, HandleInv, TableInv, Next
    PROVE  TableInv'
<1> USE DEF handleVars, invokeVars
<1>1. /\ state \in [Jobs -> {"absent", "running", "cancel", "done", "freed"}]
      /\ asked \in [Jobs -> {"no", "checked", "stored"}]
      /\ final \in [Jobs -> {"none", "ok", "error", "cancelled"}]
      /\ answer \in [Invokes -> {"none", "refused", "lost", "ok", "error", "cancelled"}]
      /\ Invokes \subseteq Jobs
  BY DEF TypeOK, LoopTypeOK, Jobs
<1>2. IsFiniteSet(table) /\ Cardinality(table) \in Nat /\ HandleSlots \in Nat
  BY BindingAssumption, FS_CardinalityType DEF TableInv
<1>3. CASE UNCHANGED << table, answer, state, final, asked >>
  BY <1>3, TableKept
<1>4. CASE LoopStep
  <2>1. CASE Take \/ PutSlot \/ \E s \in Streams : OnChunk(s)
    BY <1>3, <1>4, <2>1 DEF LoopStep, Take, PutSlot, OnChunk, pythonVars
  <2>2. ASSUME NEW j \in Jobs, Finish(j)
        PROVE  TableInv'
    <3>1. state[j] # "absent" /\ final[j] = "none"
      BY <2>2 DEF Finish, JobInv
    <3>2. UNCHANGED << table, answer, asked >>
      BY <1>4 DEF LoopStep, pythonVars
    <3>3. \A i \in Jobs \ {j} : state'[i] = state[i] /\ final'[i] = final[i]
      BY <1>1, <2>2 DEF Finish
    <3>4. state'[j] \in InTable <=> state[j] \in InTable
      BY <1>1, <2>2, <3>1 DEF Finish, InTable
    <3>5. QED
      BY <1>1, <3>1, <3>2, <3>3, <3>4, TableKept
  <2>3. QED
    BY <1>4, <2>1, <2>2 DEF LoopStep, LoopNext
<1>5. CASE \E c \in Configs : Open(c)
  BY <1>3, <1>5 DEF Open
<1>6. CASE CloseRuntime \/ CloseReturns \/ CallMethod \/ CallReturns \/ Handler
  BY <1>3, <1>6 DEF CloseRuntime, CloseReturns, CallMethod, CallReturns, Handler,
                    RegisterHandler, ToolReturns, ApprovalReturns
<1>7. ASSUME NEW j \in Invokes, InvokeStart(j)
      PROVE  TableInv'
  <2>1. CASE Cardinality(table) < HandleSlots
    <3>1. /\ state[j] = "absent" /\ state' = [state EXCEPT ![j] = "running"]
          /\ table' = table \cup {j} /\ UNCHANGED << answer, final, asked >>
      BY <1>7, <2>1 DEF InvokeStart, StartJob
    <3>2. j \notin table
      BY <3>1 DEF TableInv, AnswersAreOwn
    <3>3. IsFiniteSet(table') /\ Cardinality(table') = Cardinality(table) + 1
      BY <1>2, <3>1, <3>2, FS_AddElement
    <3>4. Cardinality(table') <= HandleSlots
      BY <1>2, <2>1, <3>3
    <3>5. table' = {i \in Invokes : state'[i] \in {"running", "cancel", "done"}}
      BY <1>1, <3>1 DEF TableInv, AnswersAreOwn
    <3>6. QED
      BY <3>1, <3>3, <3>4, <3>5 DEF TableInv, AnswersAreOwn
  <2>2. CASE ~ (Cardinality(table) < HandleSlots)
    <3>1. /\ UNCHANGED << table, state, final, asked >>
          /\ answer' = [answer EXCEPT ![j] = "refused"]
      BY <1>7, <2>2 DEF InvokeStart
    <3>2. QED
      BY <1>1, <3>1 DEF TableInv, AnswersAreOwn
  <2>3. QED
    BY <2>1, <2>2
<1>8. ASSUME NEW j \in Invokes, InvokePoll(j)
      PROVE  TableInv'
  <2>1. /\ j \in table /\ table' = table \ {j} /\ UNCHANGED << final, asked >>
        /\ state' = [state EXCEPT ![j] = "freed"] /\ state[j] \in {"cancel", "done"}
        /\ answer' = [answer EXCEPT ![j] = IF final[j] = "none" THEN "lost" ELSE final[j]]
    BY <1>8 DEF InvokePoll, FreeInvoke, TableInv, AnswersAreOwn
  <2>2. IsFiniteSet(table') /\ Cardinality(table') = Cardinality(table) - 1
    BY <1>2, <2>1, FS_RemoveElement
  <2>3. Cardinality(table') <= HandleSlots
    BY <1>2, <2>2 DEF TableInv, AnswersAreOwn
  <2>4. table' = {i \in Invokes : state'[i] \in {"running", "cancel", "done"}}
    BY <1>1, <2>1 DEF TableInv, AnswersAreOwn
  <2>5. /\ final[j] = "none" => asked[j] = "stored"
        /\ final[j] = "cancelled" => asked[j] = "stored"
    BY <1>1, <2>1 DEF HandleInv
  <2>6. \A i \in Invokes :
            /\ answer'[i] \in {"ok", "error", "cancelled"} => answer'[i] = final'[i]
            /\ answer'[i] \in {"lost", "cancelled"} => asked'[i] = "stored"
    BY <1>1, <2>1, <2>5 DEF TableInv, AnswersAreOwn
  <2>7. QED
    BY <2>2, <2>3, <2>4, <2>6 DEF TableInv, AnswersAreOwn
<1>9. ASSUME NEW j \in Invokes, InvokeCancel(j)
      PROVE  TableInv'
  <2>1. state[j] \in InTable
    BY <1>9 DEF InvokeCancel, TableInv, AnswersAreOwn, InTable
  <2>2. /\ UNCHANGED << table, answer, final >>
        /\ state' = [state EXCEPT ![j] = "cancel"] /\ asked' = [asked EXCEPT ![j] = "stored"]
    BY <1>9, <2>1 DEF InvokeCancel, CancelHandle, InTable
  <2>3. QED
    BY <1>1, <2>1, <2>2, TableKept DEF InTable
<1>10. ASSUME NEW s \in Streams, Stream(s)
       PROVE  TableInv'
  <2>1. UNCHANGED << table, answer, final >>
    BY <1>10 DEF Stream, InvokeStream, StartJob, NextEvent, Yield, TakeChunk, Complete, End,
                 FreeStream, CancelCheck, CancelStore, CancelHandle, CollectFresh, Collect, Drain
  <2>2. \A j \in Invokes : s # j
    BY WorkLoopAssumption
  <2>3. \A j \in Invokes : state'[j] = state[j] /\ asked'[j] = asked[j]
    BY <1>1, <1>10, <2>2
       DEF Stream, InvokeStream, StartJob, NextEvent, Yield, TakeChunk, Complete, End,
           FreeStream, CancelCheck, CancelStore, CancelHandle, CollectFresh, Collect, Drain,
           readerVars
  <2>4. QED
    BY <2>1, <2>3, TableKept
<1>11. QED
  BY <1>4, <1>5, <1>6, <1>7, <1>8, <1>9, <1>10 DEF Next, Program, Invoke

LEMMA HandlerInvStep ==
    ASSUME LoopInv, HandlerInv, Next
    PROVE  HandlerInv'
<1> USE DEF HandlerInv
<1>1. CASE LoopStep
  BY <1>1 DEF LoopStep, LoopNext, Take, PutSlot, OnChunk, Finish, loopVars, pythonVars,
              handlerVars, LoopInv
<1>2. ASSUME NEW c \in Configs, Open(c)
      PROVE  HandlerInv'
  BY <1>2 DEF Open, handlerVars, LoopInv
<1>3. CASE CloseRuntime \/ CloseReturns \/ CallMethod \/ CallReturns
  BY <1>3 DEF CloseRuntime, CloseReturns, Joined, CallMethod, CallReturns, Dispatch,
              loopVars, handlerVars
<1>4. ASSUME NEW h \in Handlers, RegisterHandler(h)
      PROVE  HandlerInv'
  BY <1>4 DEF RegisterHandler, Dispatch
<1>5. ASSUME NEW registered \in BOOLEAN, ToolReturns(registered) \/ ApprovalReturns(registered)
      PROVE  HandlerInv'
  BY <1>5 DEF ToolReturns, ApprovalReturns, loopVars
<1>6. ASSUME NEW j \in Invokes, Invoke(j)
      PROVE  HandlerInv'
  BY <1>6 DEF Invoke, InvokeStart, StartJob, DispatchAsync, InvokePoll, InvokeCancel,
              loopVars, handlerVars
<1>7. ASSUME NEW s \in Streams, Stream(s)
      PROVE  HandlerInv'
  BY <1>7 DEF Stream, InvokeStream, StartJob, DispatchAsync, NextEvent, Yield, Complete, End,
              CancelCheck, CancelStore, CollectFresh, Collect, Drain, loopVars, handlerVars
<1>8. QED
  BY <1>1, <1>2, <1>3, <1>4, <1>5, <1>6, <1>7 DEF Next, Program, Handler

---------------------------------------------------------------------------
(* The theorems *)

LEMMA InvStep == Inv /\ [Next]_vars => Inv'
<1> SUFFICES ASSUME Inv, [Next]_vars
             PROVE  Inv'
  OBVIOUS
<1>1. CASE Next
  BY <1>1, TypeStep, LoopInvStep, JobInvStep, HandleInvStep, ReaderInvStep, EventInvStep,
     QuietStep, TouchedStep, TableInvStep, HandlerInvStep DEF Inv
<1>2. CASE UNCHANGED vars
  <2> USE <1>2 DEF Inv, vars, loopVars, handleVars, pythonVars, readerVars, invokeVars, handlerVars
  <2>1. TypeOK'
    BY TypeStep
  <2>2. LoopInv' /\ JobInv' /\ HandleInv'
    BY DEF LoopInv, JobInv, HandleInv, In, Distinct, SentinelLast
  <2>3. ReaderInv' /\ EventInv' /\ QuietMeansComplete'
    BY DEF ReaderInv, EventInv, QuietMeansComplete
  <2>4. TouchedOnlyByCancel' /\ TableInv' /\ HandlerInv'
    BY DEF TouchedOnlyByCancel, TableInv, AnswersAreOwn, HandlerInv
  <2>5. QED
    BY <2>1, <2>2, <2>3, <2>4
<1>3. QED
  BY <1>1, <1>2

LEMMA InvHolds == Spec => []Inv
BY InvInit, InvStep, PTL DEF Spec

\* Readers yield their stream's events in order, each once, none missing,
\* whatever is cancelled or collected.
THEOREM EventsAreInOrder == Spec => []EventsInOrder
<1>1. Inv => EventsInOrder
  <2> SUFFICES ASSUME Inv, NEW s \in Streams
               PROVE  /\ got[s] = [k \in 1 .. Len(got[s]) |-> k]
                      /\ reader[s] \in Reading =>
                             got[s] \o chunks[s] = [k \in 1 .. emitted[s] |-> k]
    BY DEF EventsInOrder, Reading
  <2> DEFINE yielded == got[s]
             waiting == chunks[s]
             m == Len(yielded)
             n == Len(waiting)
  <2>1. yielded \in Seq(Nat) /\ waiting \in Seq(Nat) /\ m \in Nat /\ n \in Nat
    BY DEF Inv, TypeOK, LoopTypeOK
  <2>2. /\ \A k \in 1 .. m : yielded[k] = k
        /\ reader[s] \in Reading => m + n = emitted[s] /\ \A k \in 1 .. n : waiting[k] = m + k
    BY DEF Inv, EventInv, InOrder
  <2> DEFINE all == yielded \o waiting
  <2>3. /\ all \in Seq(Nat) /\ Len(all) = m + n
        /\ \A k \in 1 .. m : all[k] = yielded[k]
        /\ \A k \in m + 1 .. m + n : all[k] = waiting[k - m]
    <3>1. /\ all \in Seq(Nat) /\ Len(all) = m + n
          /\ \A k \in 1 .. m + n : all[k] = IF k <= m THEN yielded[k] ELSE waiting[k - m]
      BY <2>1, ConcatProperties
    <3> HIDE DEF all, yielded, waiting, m, n
    <3>2. QED
      BY <2>1, <3>1
  <2>4. yielded \in [1 .. m -> Nat] /\ all \in [1 .. m + n -> Nat]
    BY <2>1, <2>3, LenProperties, Zenon
  <2> HIDE DEF all, yielded, waiting, m, n
  <2>5. yielded = [k \in 1 .. m |-> k]
    BY <2>2, <2>4
  <2>6. ASSUME reader[s] \in Reading, NEW k \in 1 .. m + n
        PROVE  all[k] = k
    <3>1. CASE k \in 1 .. m
      BY <2>2, <2>3, <3>1
    <3>2. CASE k \in m + 1 .. m + n
      <4>1. k - m \in 1 .. n /\ m + (k - m) = k
        BY <2>1, <3>2
      <4>2. QED
        BY <2>2, <2>3, <2>6, <3>2, <4>1
    <3>3. QED
      BY <2>1, <3>1, <3>2
  <2>7. reader[s] \in Reading => all = [k \in 1 .. emitted[s] |-> k]
    BY <2>2, <2>4, <2>6
  <2>8. QED
    BY <2>5, <2>7 DEF all, yielded, waiting, m
<1>2. QED
  BY <1>1, InvHolds, PTL

\* A reader that nobody cancels and that ends without an exception has yielded
\* every event of an invoke that succeeded.
THEOREM QuietIsComplete == Spec => []QuietMeansComplete
<1>1. Inv => QuietMeansComplete
  BY DEF Inv
<1>2. QED
  BY <1>1, InvHolds, PTL

\* Without a cancellation or a collected reader no handle is freed before its
\* job has ended,
THEOREM OnlyCancelFreesEarly == Spec => []FreedEarlyOnlyByCancel
<1>1. Inv => FreedEarlyOnlyByCancel
  BY DEF Inv, HandleInv, FreedEarlyOnlyByCancel
<1>2. QED
  BY <1>1, InvHolds, PTL

\* and none is used after it is freed.
THEOREM OnlyCancelTouchesFreed == Spec => []TouchedOnlyByCancel
<1>1. Inv => TouchedOnlyByCancel
  BY DEF Inv
<1>2. QED
  BY <1>1, InvHolds, PTL

\* The registry of asynchronous invokes holds what is not answered, within its
\* slots, and answers each invoke with its own outcome.
THEOREM AnswersAreTheirOwn == Spec => []AnswersAreOwn
<1>1. Inv => AnswersAreOwn
  BY DEF Inv, TableInv
<1>2. QED
  BY <1>1, InvHolds, PTL

\* No callback the runtime knows of is let go while the work loop runs.
THEOREM HandlersStayAlive == Spec => []HandlersAlive
<1>1. Inv => HandlersAlive
  BY DEF Inv, HandlerInv, HandlersAlive
<1>2. QED
  BY <1>1, InvHolds, PTL

\* After close every job that was started has its outcome, and the work loop
\* has nothing left.
THEOREM ClosedRuntimeIsQuiet == Spec => []ClosedIsQuiet
<1>1. ASSUME Inv
      PROVE  ClosedIsQuiet
  <2>1. SUFFICES ASSUME rt = "closed"
                 PROVE  /\ loop = "exited" /\ queue = << >> /\ running = Idle
                        /\ \A j \in Jobs : state[j] # "absent" => final[j] # "none"
    BY DEF ClosedIsQuiet
  <2>2. loop = "exited" /\ queue = << >> /\ running = Idle
    BY <1>1, <2>1 DEF Inv, LoopInv
  <2>3. \A j \in Jobs : ~ (running = j \/ In(queue, j))
    BY <2>2, EmptySeq, WorkLoopAssumption DEF In
  <2>4. QED
    BY <1>1, <2>2, <2>3 DEF Inv, JobInv
<1>2. QED
  BY <1>1, InvHolds, PTL

\* Whichever methods the program calls, but for the replies named in Misread
\* every failure the runtime reports reaches the caller as an exception the
\* methods document, and no success is raised.
THEOREM FailuresAlwaysRaise == Spec => []FailuresRaise
<1>1. Init => FailuresRaise
  BY DEF Init, FailuresRaise
<1>2. FailuresRaise /\ [Next]_vars => FailuresRaise'
  <2> SUFFICES ASSUME FailuresRaise, [Next]_vars, verdict' # verdict
               PROVE  FailuresRaise'
    BY DEF FailuresRaise
  <2>1. CallReturns
    BY DEF Next, Program, LoopStep, Open, CloseRuntime, CloseReturns, CallMethod, Handler,
           RegisterHandler, ToolReturns, ApprovalReturns, Invoke, InvokeStart, InvokePoll,
           InvokeCancel, Stream, InvokeStream, NextEvent, Yield, Complete, End, CancelCheck,
           CancelStore, CollectFresh, Collect, Drain, vars, pythonVars
  <2>2. PICK m \in Used : \E line \in Calls[m] : verdict' = Verdict(m, line)
    BY <2>1 DEF CallReturns
  <2>3. PICK line \in Calls[m] : verdict' = Verdict(m, line)
    BY <2>2
  <2>4. m \in Method
    BY BindingAssumption
  <2>5. Verdict(m, line) = "misread" \/ Verdict(m, line) = "told"
    <3>1. << m, line.reply >> \in Misread => Verdict(m, line) = "misread"
      BY DEF Verdict
    <3>2. << m, line.reply >> \notin Misread => Verdict(m, line) = "told"
      BY <2>4, FailuresAreTold
    <3>3. QED
      BY <3>1, <3>2
  <2>6. QED
    BY <2>3, <2>5 DEF FailuresRaise
<1>3. QED
  BY <1>1, <1>2, PTL DEF Spec
=============================================================================
