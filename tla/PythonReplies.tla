---------------------------- MODULE PythonReplies ----------------------------
(***************************************************************************)
(* What each method of the Python Runtime makes of the reply of the C      *)
(* interface. A method is a relation: the replies the interface can give   *)
(* it, whether a reply reports a failure, and what the caller sees, an     *)
(* exception or a result. The text of a reply and of a message is left     *)
(* out; a reply is the return code, or what kind of JSON text it is:       *)
(*   "ok"         a document without the field error, status ok if any     *)
(*   "cancelled"  a document whose status is cancelled                     *)
(*   "error"      an object with the field error                           *)
(*   "garbled"    text that is not JSON                                    *)
(*   "null"       no text at all                                           *)
(* and of a structured invoke, with the status ok and as its value         *)
(*   "object"     an object                                                *)
(*   "encoded"    a string that is itself a JSON text                      *)
(*   "string"     any other string                                         *)
(*   "plain"      a list, a number, a truth value or null                  *)
(***************************************************************************)
EXTENDS Integers

\* The exceptions the methods document.
Exception ==
    {"PARError", "PARToolError", "PARInvokeError", "PARWorkflowError", "RuntimeError"}

Failure == {"error", "garbled", "null"}

\* One line of a method.
Line(reply, failed, outcome) == [reply |-> reply, failed |-> failed, outcome |-> outcome]

\* A call with a return code; the codes that are not zero report a failure.
Code(codes, raises, exception) ==
    {Line("code", rc # 0, IF rc \in raises THEN exception ELSE "returned") : rc \in codes}

NonZero  == Int \ {0}
Negative == {rc \in Int : rc < 0}

\* A call whose reply is a text: raises is the set of replies that raise.
Text(replies, raises, exception) ==
    {Line(r, r \in Failure, IF r \in raises THEN exception ELSE "returned") : r \in replies}

\* The same for a method that looks for no failure.
CodeReturned(codes) == {Line("code", rc # 0, "returned") : rc \in codes}

TextReturned(replies) == {Line(r, r \in Failure, "returned") : r \in replies}

---------------------------------------------------------------------------
(* Registration and settings *)

register_tool              == Code({0, -1}, NonZero, "PARToolError")
register_tool_with_handler == Code({0, -1}, NonZero, "PARToolError")
set_tool_layer             == Code({0, -1}, NonZero, "PARToolError")
register_agent             == Code({0, -1}, NonZero, "PARError")
register_agent_as_tool     == Code({0, -1}, NonZero, "PARError")
register_skill             == Code({0, -1}, NonZero, "PARError")
set_user_activated_skills  == Code({0, -1}, NonZero, "PARError")
clear_user_activated_skills == set_user_activated_skills
set_default_llm_provider   == Code({0, -1}, NonZero, "PARError")
register_approval_handler  == Code({0, -1}, NonZero, "PARError")
list_skills                == TextReturned({"ok"})
get_user_activated_skills  == TextReturned({"ok"})
list_llm_providers         == TextReturned({"ok"})

(* Conversations *)

set_session_id     == CodeReturned({0})
get_session_id     == TextReturned({"ok"})
list_conversations == Text({"ok", "error"}, {"error"}, "PARError")

\* The code is the result: no exception.
save_conversation == CodeReturned({0, -1})
load_conversation == CodeReturned({0, 1, -1})

(* Invokes. Text that is no JSON is the answer of invoke and of            *)
(* invoke_with_rag, whatever it was meant to say.                          *)

invoke == Text({"ok", "cancelled", "error"}, {"null", "error"}, "PARInvokeError")

\* Mutant: the field error is not looked at
RecoverUnchecked == Text({"ok", "cancelled", "error"}, {"null"}, "PARInvokeError")

recover_invoke == Text({"ok", "cancelled", "error"}, {"null", "error"}, "PARInvokeError")
invoke_content == Text({"ok", "cancelled", "error"}, {"null", "error"}, "PARInvokeError")
list_orphaned_invokes == Text({"ok"}, {"null"}, "PARInvokeError")
invoke_generate ==
    Text({"ok", "cancelled", "error"}, {"cancelled"} \cup Failure, "PARInvokeError")

\* A value that is not an object is decoded once more, which refuses any but a
\* string, and of the strings those that are no JSON text.
invoke_structured ==
    Text({"object", "encoded", "string", "cancelled", "error"},
         {"string", "cancelled"} \cup Failure, "PARInvokeError")
    \cup {Line("plain", FALSE, "TypeError")}

invoke_parallel == Text({"ok", "error"}, Failure, "PARError")

\* The interface pastes the quoted category of a failure into its own quotes.
invoke_with_rag == Text({"ok", "garbled"}, {"null", "error"}, "PARError")

steer     == Code({0, -1}, NonZero, "PARError")
follow_up == Code({0, -1}, NonZero, "PARError")
resume_approval == Code({0, -1, -2}, NonZero, "PARError")

(* Embeddings and documents *)

\* The text of a failure is pasted into the reply as it is, and a reply that
\* is no JSON is not caught.
embed ==
    Text({"ok", "error"}, {"null", "error"}, "PARError")
    \cup {Line("garbled", TRUE, "JSONDecodeError")}
add_documents  == Code({0, -1}, Negative, "PARError")
load_document  == Text({"ok", "error"}, {"null", "error"}, "RuntimeError")
load_directory == Text({"ok", "error"}, {"null", "error"}, "RuntimeError")

(* Workflows *)

submit_workflow  == Text({"ok", "error"}, {"error"}, "PARWorkflowError")
approve_workflow == Code({0, -1}, NonZero, "PARWorkflowError")
resume_workflow  == TextReturned({"ok", "error"})
workflow_status  == Text({"ok"}, {"error"}, "PARError")
workflow_cancel  == Code({-1}, NonZero, "PARWorkflowError")

(* Health and MCP *)

health  == Text({"ok"}, Failure, "PARError")
metrics == Text({"ok"}, Failure, "PARError")
mcp_server           == Text({"ok", "error"}, {"error"}, "PARError")
mcp_list_tools       == Text({"ok", "error"}, {"error"}, "PARError")
mcp_tool_descriptors == Text({"ok", "error"}, {"error"}, "PARError")

---------------------------------------------------------------------------
(* All of them, by name. *)

Calls ==
    [register_tool |-> register_tool,
     register_tool_with_handler |-> register_tool_with_handler,
     set_tool_layer |-> set_tool_layer,
     register_agent |-> register_agent,
     register_agent_as_tool |-> register_agent_as_tool,
     register_skill |-> register_skill,
     set_user_activated_skills |-> set_user_activated_skills,
     clear_user_activated_skills |-> clear_user_activated_skills,
     set_default_llm_provider |-> set_default_llm_provider,
     register_approval_handler |-> register_approval_handler,
     list_skills |-> list_skills,
     get_user_activated_skills |-> get_user_activated_skills,
     list_llm_providers |-> list_llm_providers,
     set_session_id |-> set_session_id,
     get_session_id |-> get_session_id,
     list_conversations |-> list_conversations,
     save_conversation |-> save_conversation,
     load_conversation |-> load_conversation,
     invoke |-> invoke,
     recover_invoke |-> recover_invoke,
     invoke_content |-> invoke_content,
     list_orphaned_invokes |-> list_orphaned_invokes,
     invoke_generate |-> invoke_generate,
     invoke_structured |-> invoke_structured,
     invoke_parallel |-> invoke_parallel,
     invoke_with_rag |-> invoke_with_rag,
     steer |-> steer,
     follow_up |-> follow_up,
     resume_approval |-> resume_approval,
     embed |-> embed,
     add_documents |-> add_documents,
     load_document |-> load_document,
     load_directory |-> load_directory,
     submit_workflow |-> submit_workflow,
     approve_workflow |-> approve_workflow,
     resume_workflow |-> resume_workflow,
     workflow_status |-> workflow_status,
     workflow_cancel |-> workflow_cancel,
     health |-> health,
     metrics |-> metrics,
     mcp_server |-> mcp_server,
     mcp_list_tools |-> mcp_list_tools,
     mcp_tool_descriptors |-> mcp_tool_descriptors]

Method == DOMAIN Calls

\* The methods whose result tells the caller of a failure without an
\* exception: a code, or None.
ByResult == {"save_conversation", "load_conversation"}

\* The replies whose method does not tell the caller what it documents: a
\* failure is the result, a success raises, or the exception is another one.
Misread ==
    {<< "invoke_with_rag", "garbled" >>, << "resume_workflow", "error" >>,
     << "invoke_structured", "string" >>, << "invoke_structured", "plain" >>,
     << "embed", "garbled" >>}

---------------------------------------------------------------------------
(* Events of a stream: what _decode_event makes of a chunk. *)

FieldsOf ==
    [Text_delta          |-> {"text"},
     Reasoning_delta     |-> {"text"},
     Reasoning_signature |-> {"signature"},
     Tool_call_start     |-> {"tool_call_id", "name"},
     Tool_call_delta     |-> {"tool_call_id", "args_json"},
     Usage_update        |-> {"prompt_tokens", "completion_tokens", "total_tokens"},
     Done                |-> {"finish_reason"}]

EventOf ==
    [Text_delta          |-> "TextDelta",
     Reasoning_delta     |-> "ReasoningDelta",
     Reasoning_signature |-> "ReasoningSignature",
     Tool_call_start     |-> "ToolCallStart",
     Tool_call_delta     |-> "ToolCallDelta",
     Usage_update        |-> "UsageUpdate",
     Done                |-> "Done"]

Tags == DOMAIN EventOf

\* A constructor as a pair of tag and fields, or as an object with a field
\* for the tag; fields is what is there of them.
Pair(tag, fields)   == [form |-> "pair", tag |-> tag, fields |-> fields]
Object(tag, fields) == [form |-> "object", tag |-> tag, fields |-> fields \cup {"tag"}]

\* Anything else, and a tag nobody knows, is handed over as text.
decode_event(payload) ==
    IF payload.form \in {"pair", "object"} /\ payload.tag \in Tags
    THEN [event |-> EventOf[payload.tag],
          read  |-> payload.fields \cap FieldsOf[payload.tag]]
    ELSE [event |-> "TextDelta", read |-> {}]
=============================================================================
